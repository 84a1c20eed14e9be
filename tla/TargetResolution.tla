-------------------------- MODULE TargetResolution --------------------------
(***************************************************************************)
(* From the targets of a path to the atoms it reaches, on the graph just   *)
(* loaded: the loop of `expand_to_atoms` over the ids the user named       *)
(* (src/src/graph.rs), `topo_sort` with its in-degree table and frontier   *)
(* heap (src/src/path.rs), and the stack loop of `reachable_atoms`, one    *)
(* action per iteration.  The rest of the project uses ResolveTargets and  *)
(* ReachableAtoms of Curriculum, which this machine is checked against.    *)
(***************************************************************************)
EXTENDS GraphCheck

CONSTANT MaxStack   \* bound on the stack of reachable_atoms

VARIABLES
    rest,       \* the ids still to expand
    atoms,      \* `out` of the expansion: the atoms listed so far, each once
    indegree,   \* of each atom, edges from atoms not in the result
    frontier,   \* the heap
    result,     \* the atoms in order
    stack,      \* the stack of reachable_atoms
    reached,    \* its result
    outcome     \* "waiting", "expanding", "sorting", "ok", "reaching",
                \* "reached" or the error

sortVars == <<rest, atoms, indegree, frontier, result>>
resVars == <<gcVars, sortVars, stack, reached, outcome>>

(* How many prerequisites of a, as listed, are in S: a listing is an edge. *)
Edges(a, S) == Cardinality({i \in DOMAIN graph.prereqs[a] : graph.prereqs[a][i] \in S})

Sorted == ToSet(result)

ResInit ==
    /\ GCInit
    /\ rest = <<>> /\ atoms = <<>>
    /\ indegree = <<>> /\ frontier = {} /\ result = <<>>
    /\ stack = <<>> /\ reached = {}
    /\ outcome = "waiting"

Check == CheckNext /\ UNCHANGED <<sortVars, stack, reached, outcome>>

(* A command loads the graph and the path and resolves its targets. *)
StartExpansion ==
    /\ LoadGraph
    /\ rest' = targets'
    /\ outcome' = "expanding"
    /\ UNCHANGED <<atoms, indegree, frontier, result, stack, reached>>

(* The atoms the next id adds. *)
NewAtoms == Only(Dedup(AtomsUnder(graph, <<Head(rest)>>)), Id \ ToSet(atoms))

ExpandId ==
    /\ outcome = "expanding"
    /\ rest # <<>>
    /\ IF Head(rest) \notin graph.ids THEN
         /\ outcome' = "unknown_id"
         /\ UNCHANGED <<rest, atoms>>
       ELSE IF ~IsAtom(graph, Head(rest)) /\ NewAtoms = <<>> THEN
         /\ outcome' = "empty_cluster"
         /\ UNCHANGED <<rest, atoms>>
       ELSE
         /\ atoms' = atoms \o NewAtoms
         /\ rest' = Tail(rest)
         /\ UNCHANGED outcome
    /\ UNCHANGED <<gcVars, indegree, frontier, result, stack, reached>>

(* Mutant: a prerequisite listed twice is counted once. *)
StartSortDistinct ==
    /\ outcome = "expanding"
    /\ rest = <<>>
    /\ outcome' = "sorting"
    /\ indegree' = [a \in ToSet(atoms) |-> Cardinality(ToSet(graph.prereqs[a]) \cap ToSet(atoms))]
    /\ frontier' = {a \in ToSet(atoms) : indegree'[a] = 0}
    /\ UNCHANGED <<gcVars, rest, atoms, result, stack, reached>>

(* The tables of Kahn's algorithm: an edge for every listing among atoms. *)
StartSort ==
    /\ outcome = "expanding"
    /\ rest = <<>>
    /\ outcome' = "sorting"
    /\ indegree' = [a \in ToSet(atoms) |-> Edges(a, ToSet(atoms))]
    /\ frontier' = {a \in ToSet(atoms) : indegree'[a] = 0}
    /\ UNCHANGED <<gcVars, rest, atoms, result, stack, reached>>

(* Mutant: an atom is released by the first of its prerequisites. *)
PopFrontierEarly ==
    /\ outcome = "sorting"
    /\ frontier # {}
    /\ LET node == Min(frontier)
           dependents == {a \in ToSet(atoms) : Edges(a, {node}) > 0}
       IN  /\ result' = Append(result, node)
           /\ indegree' = [a \in ToSet(atoms) |-> indegree[a] - Edges(a, {node})]
           /\ frontier' = (frontier \ {node}) \cup dependents
    /\ UNCHANGED <<gcVars, rest, atoms, stack, reached, outcome>>

(* Mutant: the heap is a max-heap, without the reversed order. *)
PopFrontierGreatest ==
    /\ outcome = "sorting"
    /\ frontier # {}
    /\ LET node == Max(frontier)
           dependents == {a \in ToSet(atoms) : Edges(a, {node}) > 0}
       IN  /\ result' = Append(result, node)
           /\ indegree' = [a \in ToSet(atoms) |-> indegree[a] - Edges(a, {node})]
           /\ frontier' = (frontier \ {node}) \cup {a \in dependents : indegree'[a] = 0}
    /\ UNCHANGED <<gcVars, rest, atoms, stack, reached, outcome>>

(* Pop the least atom and release those that waited for it alone. *)
PopFrontier ==
    /\ outcome = "sorting"
    /\ frontier # {}
    /\ LET node == Min(frontier)
           dependents == {a \in ToSet(atoms) : Edges(a, {node}) > 0}
       IN  /\ result' = Append(result, node)
           /\ indegree' = [a \in ToSet(atoms) |-> indegree[a] - Edges(a, {node})]
           /\ frontier' = (frontier \ {node}) \cup {a \in dependents : indegree'[a] = 0}
    /\ UNCHANGED <<gcVars, rest, atoms, stack, reached, outcome>>

(* Nothing is ready: all atoms are sorted, or the rest wait in a cycle. *)
FinishSort ==
    /\ outcome = "sorting"
    /\ frontier = {}
    /\ outcome' = IF Len(result) = Len(atoms) THEN "ok" ELSE "cycle"
    /\ UNCHANGED <<gcVars, sortVars, stack, reached>>

-----------------------------------------------------------------------------
(* `reachable_atoms`, which the reports call with the resolved targets. *)

StartReach ==
    /\ outcome = "ok"
    /\ outcome' = "reaching"
    /\ stack' = result
    /\ UNCHANGED <<gcVars, sortVars, reached>>

Popped == Last(stack)

(* Mutant: a cluster stands for its atoms only. *)
PopConceptChildren ==
    /\ outcome = "reaching"
    /\ stack # <<>> /\ Len(stack) <= MaxStack
    /\ LET next == IF Popped \notin graph.ids \/ Popped \in reached THEN <<>>
                   ELSE IF graph.children[Popped] # <<>> THEN graph.children[Popped]
                   ELSE graph.prereqs[Popped]
       IN  stack' = Front(stack) \o next
    /\ reached' = IF IsAtom(graph, Popped) THEN reached \cup {Popped} ELSE reached
    /\ UNCHANGED <<gcVars, sortVars, outcome>>

(* Mutant: an atom met again is expanded again. *)
PopConceptAgain ==
    /\ outcome = "reaching"
    /\ stack # <<>> /\ Len(stack) <= MaxStack
    /\ LET next == IF Popped \notin graph.ids THEN <<>>
                   ELSE graph.children[Popped] \o graph.prereqs[Popped]
       IN  stack' = Front(stack) \o next
    /\ reached' = IF IsAtom(graph, Popped) THEN reached \cup {Popped} ELSE reached
    /\ UNCHANGED <<gcVars, sortVars, outcome>>

(* A cluster is replaced by its children and prerequisites every time it   *)
(* is met, an atom by its prerequisites the first time only.               *)
PopConcept ==
    /\ outcome = "reaching"
    /\ stack # <<>> /\ Len(stack) <= MaxStack
    /\ LET next == IF Popped \notin graph.ids \/ Popped \in reached THEN <<>>
                   ELSE graph.children[Popped] \o graph.prereqs[Popped]
       IN  stack' = Front(stack) \o next
    /\ reached' = IF IsAtom(graph, Popped) THEN reached \cup {Popped} ELSE reached
    /\ UNCHANGED <<gcVars, sortVars, outcome>>

FinishReach ==
    /\ outcome = "reaching"
    /\ stack = <<>>
    /\ outcome' = "reached"
    /\ UNCHANGED <<gcVars, sortVars, stack, reached>>

ResNext ==
    \/ Check \/ StartExpansion
    \/ ExpandId \/ StartSort \/ PopFrontier \/ FinishSort
    \/ StartReach \/ PopConcept \/ FinishReach

ResSpec == ResInit /\ [][ResNext]_resVars /\ WF_resVars(ResNext)

Ended == outcome \in {"reached", "unknown_id", "empty_cluster", "cycle"}

-----------------------------------------------------------------------------

(* While sorting, the counters are the edges from unsorted atoms and the   *)
(* heap holds exactly the unsorted atoms with none: no atom is released    *)
(* twice, or never, even when a prerequisite is listed twice.              *)
FrontierIsReady ==
    outcome = "sorting" =>
        /\ \A a \in ToSet(atoms) :
              indegree[a] = Edges(a, ToSet(atoms) \ Sorted)
        /\ frontier = {a \in ToSet(atoms) \ Sorted : indegree[a] = 0}

(* The expansion lists ids, each once, whose prerequisites are ids. *)
AtomsListed ==
    /\ atoms \in Seq(Id)
    /\ IsInjective(atoms)
    /\ \A a \in ToSet(atoms) : graph.prereqs[a] \in Seq(Id)

(* The machine computes what the scheduler's model assumes of it. *)
ComputesResolveTargets ==
    LET expected == ResolveTargets(graph, targets)
    IN  /\ AtomsListed
        /\ outcome = "ok" => expected.err = "none" /\ expected.atoms = result
        /\ outcome \in {"unknown_id", "empty_cluster", "cycle"} => expected.err = outcome

(* A successful order lists every atom once, each after those of its       *)
(* direct prerequisites that are targets; `cycle` is reported only when    *)
(* some of the targets wait for one another.                               *)
OrderIsTopological ==
    /\ outcome = "ok" =>
          /\ Sorted = ToSet(atoms)
          /\ IsInjective(result)
          /\ \A i, j \in DOMAIN result :
                Contains(graph.prereqs[result[i]], result[j]) => j < i
    /\ outcome = "cycle" =>
          \E S \in (SUBSET ToSet(atoms)) \ {{}} :
              \A a \in S : \E b \in S : Contains(graph.prereqs[a], b)

(* The stack loop computes the closure the scheduler's model uses. *)
ComputesReachable == outcome = "reached" => reached = ReachableAtoms(graph, ToSet(result))

(* Clusters that lead to one another through children and prerequisites    *)
(* without an atom in between.                                             *)
ClusterLoop ==
    \E S \in SUBSET {id \in graph.ids : graph.children[id] # <<>>} :
        S # {} /\ \A id \in S :
            ToSet(graph.children[id] \o graph.prereqs[id]) \cap S # {}

(* The search for cycles, the expansion and the sort end on all files,     *)
(* cyclic ones included; reachable_atoms ends unless clusters lead to one  *)
(* another.                                                                *)
LoopsEnd ==
    /\ <>Checked
    /\ outcome = "expanding" ~> Ended \/ outcome = "reaching"
    /\ (outcome = "expanding" /\ ~ClusterLoop) ~> Ended
=============================================================================
