----------------------------- MODULE GraphCheck -----------------------------
(***************************************************************************)
(* `mt graph check` (src/src/graph.rs): the rules on ids and               *)
(* prerequisites, the depth-first cycle detection one call or neighbour at *)
(* a time, the orphan rule; then the loading of the same files by the      *)
(* commands that use them.  TargetResolution goes on from there.           *)
(*                                                                         *)
(* `files.areas` is the manifest, a sequence of [prefix, stated, header]:  *)
(* the prefix in the manifest, the one in the file, and a header that is   *)
(* "ok", "bad" (slug or schema) or "unreadable".  `files.nodes` lists the  *)
(* concepts of all areas in file order, parents first: [id, parent, area,  *)
(* prereqs, terminal], parent being a position in the list or 0.           *)
(***************************************************************************)
EXTENDS Curriculum

CONSTANTS
    Files,          \* the inputs an instance explores
    TargetLists     \* the ids a user names as the targets of a path

(* The concepts of the files that can be read, and their ids. *)
ReadIn(f) == {i \in DOMAIN f.nodes : f.areas[f.nodes[i].area].header # "unreadable"}
IdsIn(f) == {f.nodes[i].id : i \in ReadIn(f)}

(* `collect_prereq_edges`: concepts that share an id share an entry. *)
EdgesOf(f, id) ==
    LET upTo[n \in 0 .. Len(f.nodes)] ==
          IF n = 0 THEN <<>>
          ELSE IF n \in ReadIn(f) /\ f.nodes[n].id = id THEN upTo[n - 1] \o f.nodes[n].prereqs
          ELSE upTo[n - 1]
    IN  upTo[Len(f.nodes)]
EdgesIn(f) == [id \in IdsIn(f) |-> EdgesOf(f, id)]

(* A manifest names its areas; the concepts come area by area, each after  *)
(* the cluster it is in.                                                   *)
ASSUME GraphCheckAssumption ==
    /\ TargetLists \subseteq Seq(Id)
    /\ \A f \in Files :
        /\ f.areas \in Seq([prefix : Id, stated : Id, header : {"ok", "bad", "unreadable"}])
        /\ f.nodes \in Seq([id : Id, parent : Nat, area : DOMAIN f.areas,
                            prereqs : Seq(Id), terminal : BOOLEAN])
        /\ \A i \in DOMAIN f.nodes :
              /\ f.nodes[i].parent < i
              /\ f.nodes[i].parent # 0 => f.nodes[f.nodes[i].parent].area = f.nodes[i].area
        /\ \A i, j \in DOMAIN f.nodes : i < j => f.nodes[i].area <= f.nodes[j].area

VARIABLES
    files,      \* what is on disk
    phase,      \* "walk", "cycles", "checked" or "loaded"
    issues,     \* the report, a set of [kind, node]
    adj,        \* the prerequisite edges by id
    color,      \* of every id the walk met
    frames,     \* the open calls of cycle_dfs: [node, next neighbour]
    cycles,     \* the cycles found, as sequences of ids
    graph,      \* the graph Graph::load makes of the files
    targets     \* the targets of the path it is loaded for, as given

gcVars == <<files, phase, issues, adj, color, frames, cycles, graph, targets>>

Nodes == files.nodes
Read == ReadIn(files)
KnownIds == IdsIn(files)
Positions == [j \in DOMAIN Nodes |-> j]
ChildrenOf(i) == Only(Positions, {j \in DOMAIN Nodes : Nodes[j].parent = i})
IsLeaf(i) == ChildrenOf(i) = <<>>
IdsOf(positions) == [k \in DOMAIN positions |-> Nodes[positions[k]].id]

(* A concept and the clusters it is in. *)
Lineage(i) ==
    LET up[j \in 0 .. Len(Nodes)] == IF j = 0 THEN {} ELSE {j} \cup up[Nodes[j].parent]
    IN  up[i]

-----------------------------------------------------------------------------
(* `walk_validate` and `check_prereqs_resolve`. *)

BadHeader(area) == area.header # "ok" \/ area.stated # area.prefix
BadPrefix(i) == Segments[files.areas[Nodes[i].area].stated] # <<Head(Segments[Nodes[i].id])>>
BadSegment(i) == \E s \in ToSet(Tail(Segments[Nodes[i].id])) : s < 1
BadNesting(i) ==
    /\ Nodes[i].parent # 0
    /\ Front(Segments[Nodes[i].id]) # Segments[Nodes[Nodes[i].parent].id]
Duplicate(i) == \E j \in Read : j < i /\ Nodes[j].id = Nodes[i].id

(* Mutant: only the first prerequisite is looked up. *)
UnresolvedFirst(i) == Nodes[i].prereqs # <<>> /\ Head(Nodes[i].prereqs) \notin KnownIds

Unresolved(i) == \E p \in ToSet(Nodes[i].prereqs) : p \notin KnownIds

WalkIssues ==
    {[kind |-> "area", node |-> area.prefix] : area \in {a \in ToSet(files.areas) : BadHeader(a)}}
    \cup {[kind |-> "id", node |-> Nodes[i].id] :
            i \in {j \in Read : BadPrefix(j) \/ BadSegment(j) \/ BadNesting(j)}}
    \cup {[kind |-> "duplicate", node |-> Nodes[i].id] : i \in {j \in Read : Duplicate(j)}}
    \cup {[kind |-> "unknown", node |-> Nodes[i].id] : i \in {j \in Read : Unresolved(j)}}

(* Mutant: only a reference to the atom itself counts. *)
OrphansByName ==
    LET referenced == UNION {ToSet(adj[id]) : id \in DOMAIN adj}
    IN  {i \in Read : IsLeaf(i) /\ ~Nodes[i].terminal /\ Nodes[i].id \notin referenced}

(* `check_orphans`: a reference to a cluster covers all that is in it. *)
Orphans ==
    LET referenced == UNION {ToSet(adj[id]) : id \in DOMAIN adj}
    IN  {i \in Read : /\ IsLeaf(i)
                      /\ ~Nodes[i].terminal
                      /\ \A j \in Lineage(i) : Nodes[j].id \notin referenced}

-----------------------------------------------------------------------------
(* `run_check`. *)

GCInit ==
    /\ files \in Files
    /\ phase = "walk"
    /\ issues = {}
    /\ adj = <<>> /\ color = <<>> /\ frames = <<>> /\ cycles = {}
    /\ graph = <<>> /\ targets = <<>>

WalkFiles ==
    /\ phase = "walk"
    /\ phase' = "cycles"
    /\ issues' = WalkIssues
    /\ adj' = EdgesIn(files)
    /\ color' = [id \in KnownIds |-> "white"]
    /\ UNCHANGED <<files, frames, cycles, graph, targets>>

(* `detect_cycles` starts a search at the first id not seen yet. *)
StartSearch ==
    /\ phase = "cycles"
    /\ frames = <<>>
    /\ \E id \in DOMAIN color :
         /\ color[id] = "white"
         /\ \A other \in DOMAIN color : color[other] = "white" => id <= other
         /\ frames' = <<[node |-> id, next |-> 1]>>
         /\ color' = [color EXCEPT ![id] = "gray"]
    /\ UNCHANGED <<files, phase, issues, adj, cycles, graph, targets>>

Top == Last(frames)
OnStack == [k \in DOMAIN frames |-> frames[k].node]
Advanced == [frames EXCEPT ![Len(frames)].next = @ + 1]

(* Mutant: a cycle is one that comes back to where the search started. *)
VisitNeighborRoot ==
    /\ phase = "cycles"
    /\ frames # <<>>
    /\ Top.next <= Len(adj[Top.node])
    /\ LET n == adj[Top.node][Top.next]
           seen == IF n \in DOMAIN color THEN color[n] ELSE "none"
       IN  /\ frames' = IF seen = "white" THEN Append(Advanced, [node |-> n, next |-> 1])
                        ELSE Advanced
           /\ color' = IF seen = "white" THEN [color EXCEPT ![n] = "gray"] ELSE color
           /\ cycles' = IF seen # "gray" \/ n # OnStack[1] THEN cycles
                        ELSE cycles \cup {Append(OnStack, n)}
    /\ UNCHANGED <<files, phase, issues, adj, graph, targets>>

(* The next neighbour of the innermost call: a white one is searched, a    *)
(* gray one closes a cycle along the stack, others are passed over.        *)
VisitNeighbor ==
    /\ phase = "cycles"
    /\ frames # <<>>
    /\ Top.next <= Len(adj[Top.node])
    /\ LET n == adj[Top.node][Top.next]
           seen == IF n \in DOMAIN color THEN color[n] ELSE "none"
           start == CHOOSE k \in DOMAIN frames : frames[k].node = n
       IN  /\ frames' = IF seen = "white" THEN Append(Advanced, [node |-> n, next |-> 1])
                        ELSE Advanced
           /\ color' = IF seen = "white" THEN [color EXCEPT ![n] = "gray"] ELSE color
           /\ cycles' = IF seen # "gray" THEN cycles
                        ELSE cycles \cup {Append(SubSeq(OnStack, start, Len(frames)), n)}
    /\ UNCHANGED <<files, phase, issues, adj, graph, targets>>

(* Mutant: an explored concept stays gray. *)
LeaveNodeGray ==
    /\ phase = "cycles"
    /\ frames # <<>>
    /\ Top.next > Len(adj[Top.node])
    /\ frames' = Front(frames)
    /\ UNCHANGED <<files, phase, issues, adj, color, cycles, graph, targets>>

LeaveNode ==
    /\ phase = "cycles"
    /\ frames # <<>>
    /\ Top.next > Len(adj[Top.node])
    /\ color' = [color EXCEPT ![Top.node] = "black"]
    /\ frames' = Front(frames)
    /\ UNCHANGED <<files, phase, issues, adj, cycles, graph, targets>>

FinishCheck ==
    /\ phase = "cycles"
    /\ frames = <<>>
    /\ \A id \in DOMAIN color : color[id] # "white"
    /\ phase' = "checked"
    /\ issues' = issues \cup {[kind |-> "cycle", node |-> Head(c)] : c \in cycles}
                        \cup {[kind |-> "orphan", node |-> Nodes[i].id] : i \in Orphans}
    /\ UNCHANGED <<files, adj, color, frames, cycles, graph, targets>>

-----------------------------------------------------------------------------
(* `Graph::load`. *)

(* `flatten`: every area is wrapped in a root named by its prefix, and a   *)
(* concept replaces an earlier one with its id.                            *)
Loaded ==
    LET roots(a) == Only(Positions, {j \in DOMAIN Nodes : Nodes[j].area = a /\ Nodes[j].parent = 0})
        area(id) == {a \in DOMAIN files.areas : files.areas[a].prefix = id}
        nodes(id) == {i \in DOMAIN Nodes : Nodes[i].id = id}
        ids == KnownIds \cup {files.areas[a].prefix : a \in DOMAIN files.areas}
        last(id) == Max(nodes(id))
        fromNode(id) == nodes(id) # {} /\ \A a \in area(id) : a <= Nodes[last(id)].area
    IN  [ids |-> ids,
         areas |-> {files.areas[a].prefix : a \in DOMAIN files.areas},
         prereqs |-> [id \in ids |-> IF fromNode(id) THEN Nodes[last(id)].prereqs ELSE <<>>],
         children |-> [id \in ids |-> IF fromNode(id) THEN IdsOf(ChildrenOf(last(id)))
                                      ELSE IdsOf(roots(Max(area(id))))],
         lesson |-> {},
         quizzes |-> [id \in ids |-> <<>>]]

(* A program built with these files loads them, whatever the check said;   *)
(* it needs every file to be readable.                                     *)
LoadGraph ==
    /\ phase = "checked"
    /\ \A a \in DOMAIN files.areas : files.areas[a].header # "unreadable"
    /\ phase' = "loaded"
    /\ graph' = Loaded
    /\ targets' \in TargetLists
    /\ UNCHANGED <<files, issues, adj, color, frames, cycles>>

CheckNext == WalkFiles \/ StartSearch \/ VisitNeighbor \/ LeaveNode \/ FinishCheck

-----------------------------------------------------------------------------

Checked == phase \in {"checked", "loaded"}

(* The gray ids are those on the stack, each there once, and each call was *)
(* made for the neighbour its caller looks at: what lets cycle_dfs read a  *)
(* cycle off the stack.                                                    *)
GrayIsStack ==
    phase = "cycles" =>
        /\ {id \in DOMAIN color : color[id] = "gray"} = ToSet(OnStack)
        /\ IsInjective(OnStack)
        /\ \A k \in 2 .. Len(frames) :
              frames[k].node = adj[frames[k - 1].node][frames[k - 1].next - 1]

(* Ids that wait for one another: no way to order them by prerequisites. *)
Knotted(S) == S # {} /\ \A id \in S : \E p \in ToSet(adj[id]) : p \in S

(* Every cycle reported is one of prerequisites, and if there is one at    *)
(* all some cycle is reported: a search that shares its colors over all    *)
(* its starts passes over none.                                            *)
CyclesFound ==
    /\ \A c \in cycles : /\ Len(c) > 1 /\ Head(c) = Last(c)
                         /\ \A k \in 1 .. Len(c) - 1 : Contains(adj[c[k]], c[k + 1])
    /\ phase = "checked" => ((\E S \in SUBSET DOMAIN adj : Knotted(S)) => cycles # {})

(* What passes the check can be used: the files load, every id of every    *)
(* file is found with the prerequisites and children it has there, all of  *)
(* them resolve, ids spell out the nesting, and no choice of targets makes *)
(* a path that cannot be resolved for a cycle.                             *)
CleanMeansUsable ==
    phase = "loaded" /\ issues = {} =>
        /\ \A i \in DOMAIN Nodes :
              /\ graph.prereqs[Nodes[i].id] = Nodes[i].prereqs
              /\ graph.children[Nodes[i].id] = IdsOf(ChildrenOf(i))
        /\ \A id \in graph.ids : ToSet(graph.prereqs[id]) \subseteq graph.ids
        /\ IdsNest(graph)
        /\ ResolveTargets(graph, targets).err # "cycle"

(* The orphan rule mirrors the expansion of clusters: without issues of    *)
(* other kinds, an atom is reported just when it is not terminal and among *)
(* the atoms of no concept's prerequisites.                                *)
OrphansMirrorExpansion ==
    phase = "loaded" /\ (\A issue \in issues : issue.kind \in {"orphan", "cycle"}) =>
        \A i \in DOMAIN Nodes : IsLeaf(i) =>
            ([kind |-> "orphan", node |-> Nodes[i].id] \in issues <=>
                /\ ~Nodes[i].terminal
                /\ \A id \in graph.ids :
                      ~Contains(AtomsUnder(graph, graph.prereqs[id]), Nodes[i].id))
=============================================================================
