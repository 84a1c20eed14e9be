------------------------------- MODULE Reports -------------------------------
(***************************************************************************)
(* What `mt path state`, `mt path list` and `mt path tree`, and the tools  *)
(* of the MCP server that answer the same questions, compute of one path   *)
(* (src/src/state.rs, src/src/tree.rs, src/src/mcp/mod.rs): the counters   *)
(* and the atoms drawn.  As in Scheduler, `taught` and `correct` are the   *)
(* progress of the path; `targets` are its target atoms.                   *)
(***************************************************************************)
EXTENDS Scheduler

(* Mutant: counts the lessons of the targets only. *)
CountersOfTargets(g, taught, correct, targets) ==
    LET reachable == ReachableAtoms(g, ToSet(targets))
        complete == {a \in reachable : AtomComplete(g, correct, a)}
        learned == Cardinality(complete \cap ToSet(targets))
    IN  [total |-> Len(targets),
         learned |-> learned,
         percent |-> IF targets = <<>> THEN 0 ELSE (learned * 100) \div Len(targets),
         reachable |-> Cardinality(reachable),
         taught |-> Cardinality(reachable \cap taught),
         finished |-> learned]

(* `counters`: of the targets, and of all that is reachable from them. *)
Counters(g, taught, correct, targets) ==
    LET reachable == ReachableAtoms(g, ToSet(targets))
        complete == {a \in reachable : AtomComplete(g, correct, a)}
        learned == Cardinality(complete \cap ToSet(targets))
    IN  [total |-> Len(targets),
         learned |-> learned,
         percent |-> IF targets = <<>> THEN 0 ELSE (learned * 100) \div Len(targets),
         reachable |-> Cardinality(reachable),
         taught |-> Cardinality(reachable \cap taught),
         finished |-> Cardinality(complete)]

-----------------------------------------------------------------------------
(* The tree. *)

(* `build_spine`: the atoms, and every concept whose id is a prefix of one *)
(* of theirs, whatever the concepts are nested in.                         *)
Spine(g, atoms) ==
    atoms \cup {c \in g.ids : \E a \in atoms : IsStrictPrefix(Segments[c], Segments[a])}

(* `top_level_in_area`: a concept of two segments, the first an area.      *)
TopLevel(g) ==
    {c \in g.ids : /\ Len(Segments[c]) = 2
                   /\ \E area \in g.areas : Segments[area] = <<Head(Segments[c])>>}

(* Mutant: the spine of the targets, without what they rest on. *)
DrawnOfTargets(g, targets) ==
    LET spine == Spine(g, ToSet(targets))
        below(S) == (UNION {ToSet(g.children[id]) : id \in S}) \cap spine
        draw[S \in SUBSET Id] == IF below(S) \subseteq S THEN S ELSE draw[S \cup below(S)]
    IN  draw[TopLevel(g) \cap spine]

(* The concepts drawn: from the top level of every area down through the   *)
(* children, those on the spine.                                           *)
Drawn(g, targets) ==
    LET spine == Spine(g, ReachableAtoms(g, ToSet(targets)))
        below(S) == (UNION {ToSet(g.children[id]) : id \in S}) \cap spine
        draw[S \in SUBSET Id] == IF below(S) \subseteq S THEN S ELSE draw[S \cup below(S)]
    IN  draw[TopLevel(g) \cap spine]

(* `state_badge`: the lesson taught on the path, then each slot: empty, or *)
(* its quiz answered right or not yet.                                     *)
Badge(g, taught, correct, a) ==
    [lesson |-> a \in taught,
     slots |-> [i \in DOMAIN Difficulties |->
                  LET quiz == SlotOf(g, a, Difficulties[i])
                  IN  IF quiz = NoQuiz THEN "none"
                      ELSE IF quiz \in correct THEN "correct" ELSE "open"]]
=============================================================================
