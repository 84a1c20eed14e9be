-------------------------- MODULE ResolutionProofs --------------------------
(***************************************************************************)
(* The machine of TargetResolution is right for every set of files, every  *)
(* list of targets and every bound: the expansion lists what ExpandToAtoms *)
(* says, Kahn's loop in `topo_sort` yields its order or an honest error,   *)
(* and the stack loop of `reachable_atoms` finds the closure.  One         *)
(* invariant for each loop, in the order in which they run:                *)
(*                                                                         *)
(*   ExpandInv   the ids done so far are expanded, and none of them fails  *)
(*   SortInv     the counters, the heap and the order of what is sorted    *)
(*   OrderInv    what is sorted is the beginning of KahnOrder              *)
(*   ReachInv    what is not yet reached lies beyond the stack             *)
(***************************************************************************)
EXTENDS GraphCheckProofs

-----------------------------------------------------------------------------
(* The expansion. *)

(* The first n targets are expanded, and none of them has failed. *)
Fails(n) == n \in NotThere(graph, targets) \cup AddsNone(graph, targets)
ExpandedTo(n) ==
    /\ n \in 0 .. Len(targets)
    /\ rest = SubSeq(targets, n + 1, Len(targets))
    /\ atoms = Listed(graph, targets, n)
    /\ \A k \in 1 .. n : ~Fails(k)

(* Which target the loop stops at. *)
StopsAt(n) ==
    /\ outcome = "unknown_id" => n + 1 \in NotThere(graph, targets)
    /\ outcome = "empty_cluster" => n + 1 \in AddsNone(graph, targets)
    /\ outcome \notin {"expanding", "unknown_id", "empty_cluster"} => n = Len(targets)

ExpandInv ==
    /\ outcome = "waiting" => rest = <<>> /\ atoms = <<>>
    /\ outcome # "waiting" => \E n : ExpandedTo(n) /\ StopsAt(n)

(* Nothing is listed for no ids. *)
LEMMA ListedNone ==
    ASSUME NEW g, WellFormed(g), NEW ids \in Seq(Id)
    PROVE  Listed(g, ids, 0) = <<>>
<1>1. <<>> \in Seq(AtomsOf(g)) /\ Distinct(<<>>)
  BY DEF Distinct
<1>2. AtomsUnder(g, <<>>) = <<>>
  BY <1>1, UnderAtoms
<1>3. Dedup(<<>>) = <<>>
  BY <1>1, DedupSame
<1>4. SubSeq(ids, 1, 0) = <<>>
  OBVIOUS
<1>5. QED BY <1>2, <1>3, <1>4 DEF Listed

(* One more target: it names nothing, adds nothing, or is listed. *)
LEMMA ExpandStep ==
    ASSUME LoadInv, ExpandInv, ExpandId
    PROVE  ExpandInv'
<1>1. /\ outcome = "expanding" /\ rest # <<>>
      /\ WellFormed(graph) /\ targets \in Seq(Id) /\ graph' = graph /\ targets' = targets
  BY DEF ExpandId, LoadInv, gcVars
<1>2. PICK n : ExpandedTo(n)
  BY <1>1 DEF ExpandInv
<1>3. /\ n + 1 \in 1 .. Len(targets) /\ n \in 0 .. Len(targets) /\ n \in Nat
      /\ Head(rest) = targets[n + 1]
      /\ Tail(rest) = SubSeq(targets, n + 2, Len(targets))
      /\ n + 1 \in DOMAIN targets
  <2>1. n \in 0 .. Len(targets) /\ rest = SubSeq(targets, n + 1, Len(targets)) /\ Len(targets) \in Nat
    BY <1>1, <1>2 DEF ExpandedTo
  <2>2. n # Len(targets)
    BY <1>1, <2>1
  <2>3. QED BY <1>1, <2>1, <2>2
<1>4. /\ atoms = Listed(graph, targets, n)
      /\ atoms \in Seq(AtomsOf(graph)) /\ NewAtoms \in Seq(AtomsOf(graph))
      /\ Listed(graph, targets, n + 1) = atoms \o NewAtoms
  <2>1. PICK m \in 1 .. Len(targets) : m = n + 1
    BY <1>3
  <2>2. m - 1 = n /\ atoms = Listed(graph, targets, m - 1)
    BY <1>2, <1>3, <2>1 DEF ExpandedTo
  <2>3. /\ atoms \in Seq(AtomsOf(graph))
        /\ ListsMore(graph, targets, m, atoms)
    BY <1>1, <2>1, <2>2, ListedNext
  <2>4. PICK one : one = <<targets[m]>>
    OBVIOUS
  <2>5. one \in Seq(Id)
    BY <1>1, <2>1, <2>4
  <2>6. AtomsUnder(graph, one) \in Seq(AtomsOf(graph))
    BY <1>1, <2>5, UnderAtoms
  <2>7. Dedup(AtomsUnder(graph, one)) \in Seq(AtomsOf(graph))
    BY <2>6, DedupKeeps
  <2>8. NewAtoms = Only(Dedup(AtomsUnder(graph, one)), Id \ ToSet(atoms))
    BY <1>3, <2>1, <2>4 DEF NewAtoms
  <2>9. NewAtoms \in Seq(AtomsOf(graph))
    BY <2>7, <2>8, OnlyKeeps
  <2>10. NewAtoms = Adds(graph, targets[m], atoms)
    BY <2>4, <2>8 DEF Adds
  <2>11. Listed(graph, targets, m) = atoms \o NewAtoms
    BY <2>3, <2>10, Zenon DEF ListsMore
  <2>12. QED BY <1>2, <2>1, <2>3, <2>9, <2>11 DEF ExpandedTo
<1>5. n + 1 \in NotThere(graph, targets) <=> Head(rest) \notin graph.ids
  BY <1>3 DEF NotThere
<1>6. n + 1 \in AddsNone(graph, targets)
        <=> Head(rest) \in graph.ids /\ ~IsAtom(graph, Head(rest)) /\ NewAtoms = <<>>
  <2>1. (n + 1) - 1 = n
    BY <1>3
  <2>2. atoms \o NewAtoms = atoms <=> NewAtoms = <<>>
    BY <1>4
  <2>3. Listed(graph, targets, n + 1) = Listed(graph, targets, (n + 1) - 1) <=> NewAtoms = <<>>
    BY <1>4, <2>1, <2>2
  <2>4. QED BY <1>3, <2>3 DEF AddsNone
<1>7. CASE Fails(n + 1)
  <2>1. /\ rest' = rest /\ atoms' = atoms
        /\ outcome' = IF Head(rest) \notin graph.ids THEN "unknown_id" ELSE "empty_cluster"
    BY <1>5, <1>6, <1>7 DEF Fails, ExpandId
  <2>2. ExpandedTo(n)'
    BY <1>1, <1>2, <2>1 DEF ExpandedTo, Fails
  <2>3. StopsAt(n)'
    BY <1>1, <1>5, <1>6, <1>7, <2>1 DEF StopsAt, Fails
  <2>4. QED BY <2>1, <2>2, <2>3 DEF ExpandInv
<1>8. CASE ~Fails(n + 1)
  <2>1. rest' = Tail(rest) /\ atoms' = atoms \o NewAtoms /\ outcome' = "expanding"
    BY <1>1, <1>5, <1>6, <1>8 DEF Fails, ExpandId
  <2>2. \A k \in 1 .. n + 1 : ~Fails(k)
    BY <1>2, <1>3, <1>8 DEF ExpandedTo
  <2>3. rest' = SubSeq(targets, (n + 1) + 1, Len(targets)) /\ n + 1 \in 0 .. Len(targets)
    BY <1>3, <2>1
  <2>4. ExpandedTo(n + 1)'
    BY <1>1, <1>4, <2>1, <2>2, <2>3 DEF ExpandedTo, Fails
  <2>5. StopsAt(n + 1)'
    BY <2>1 DEF StopsAt
  <2>6. QED BY <2>1, <2>4, <2>5 DEF ExpandInv
<1>9. QED BY <1>7, <1>8

(* When every target is expanded the list stays as it is. *)
LEMMA ExpandedKeeps ==
    ASSUME LoadInv, ExpandInv, ResolveNext, ~ExpandId
    PROVE  ExpandInv'
<1>1. /\ graph' = graph /\ targets' = targets /\ rest' = rest /\ atoms' = atoms
      /\ outcome = "expanding" => rest = <<>>
      /\ outcome \in {"expanding", "sorting", "ok", "reaching"}
      /\ outcome' \in {"sorting", "ok", "cycle", "reaching", "reached"}
  BY DEF ResolveNext, StartSort, PopFrontier, FinishSort, StartReach, PopConcept, FinishReach, gcVars, sortVars
<1>2. PICK n : ExpandedTo(n) /\ StopsAt(n)
  BY <1>1 DEF ExpandInv
<1>3. n = Len(targets)
  <2>1. CASE outcome = "expanding"
    <3>1. /\ targets \in Seq(Id) /\ n \in 0 .. Len(targets)
          /\ SubSeq(targets, n + 1, Len(targets)) = <<>>
      BY <1>1, <1>2, <2>1 DEF ExpandedTo, LoadInv
    <3>2. QED BY <3>1
  <2>2. CASE outcome # "expanding"
    BY <1>1, <1>2, <2>2 DEF StopsAt
  <2>3. QED BY <2>1, <2>2
<1>4. ExpandedTo(n)'
  BY <1>1, <1>2 DEF ExpandedTo, Fails
<1>5. StopsAt(n)'
  BY <1>1, <1>3 DEF StopsAt
<1>6. QED BY <1>1, <1>4, <1>5 DEF ExpandInv

THEOREM ExpandInvariance == ResSpec => []ExpandInv
<1>1. ResInit => ExpandInv
  BY DEF ResInit, ExpandInv
<1>2. LoadInv /\ LoadInv' /\ ExpandInv /\ [ResNext]_resVars => ExpandInv'
  <2> SUFFICES ASSUME LoadInv, LoadInv', ExpandInv, [ResNext]_resVars PROVE ExpandInv'
    OBVIOUS
  <2>1. CASE Check
    <3>1. outcome = "waiting" /\ UNCHANGED <<outcome, sortVars>>
      BY <2>1, CheckKeeps DEF LoadInv
    <3>2. QED BY <3>1 DEF ExpandInv, sortVars
  <2>2. CASE StartExpansion
    <3>1. /\ phase # "loaded" /\ phase' = "loaded"
          /\ rest' = targets' /\ outcome' = "expanding" /\ atoms' = atoms
      BY <2>2 DEF StartExpansion, LoadGraph
    <3>2. PICK g, ids : g = graph' /\ ids = targets'
      OBVIOUS
    <3>3. WellFormed(g) /\ ids \in Seq(Id)
      BY <3>1, <3>2 DEF LoadInv
    <3>4. atoms = <<>>
      BY <3>1 DEF LoadInv, ExpandInv
    <3>5. Listed(g, ids, 0) = <<>>
      BY <3>3, ListedNone
    <3>6. SubSeq(ids, 0 + 1, Len(ids)) = ids /\ 0 \in 0 .. Len(ids)
      BY <3>3
    <3>7. ExpandedTo(0)'
      BY <3>1, <3>2, <3>4, <3>5, <3>6 DEF ExpandedTo
    <3>8. StopsAt(0)'
      BY <3>1 DEF StopsAt
    <3>9. QED BY <3>1, <3>7, <3>8 DEF ExpandInv
  <2>3. CASE ResolveNext
    BY <2>3, ExpandStep, ExpandedKeeps
  <2>4. CASE UNCHANGED resVars
    <3>1. /\ graph' = graph /\ targets' = targets /\ rest' = rest /\ atoms' = atoms
          /\ outcome' = outcome
      BY <2>4 DEF resVars, gcVars, sortVars
    <3>2. \A n : ExpandedTo(n) /\ StopsAt(n) => ExpandedTo(n)' /\ StopsAt(n)'
      BY <3>1 DEF ExpandedTo, StopsAt, Fails
    <3>3. QED BY <3>1, <3>2 DEF ExpandInv
  <2>5. QED BY <2>1, <2>2, <2>3, <2>4, StepIs
<1>3. QED BY <1>1, <1>2, LoadInvariance, PTL DEF ResSpec

(* The expansion of any targets lists atoms of the graph, each once. *)
LEMMA ListedAtoms ==
    ASSUME LoadInv, ExpandInv
    PROVE  /\ AtomsListed
           /\ phase = "loaded" => atoms \in Seq(AtomsOf(graph))
<1>1. CASE outcome = "waiting"
  <2>1. atoms = <<>>
    BY <1>1 DEF ExpandInv
  <2>2. QED BY <2>1 DEF AtomsListed, IsInjective, ToSet
<1>2. CASE outcome # "waiting"
  <2>1. WellFormed(graph) /\ targets \in Seq(Id)
    BY <1>2 DEF LoadInv
  <2>2. PICK n : n \in 0 .. Len(targets) /\ atoms = Listed(graph, targets, n)
    BY <1>2 DEF ExpandInv, ExpandedTo
  <2>3. PICK part : part = SubSeq(targets, 1, n)
    OBVIOUS
  <2>4. part \in Seq(Id)
    BY <2>1, <2>2, <2>3
  <2>5. AtomsUnder(graph, part) \in Seq(AtomsOf(graph))
    BY <2>1, <2>4, UnderAtoms
  <2>6. atoms \in Seq(AtomsOf(graph)) /\ Distinct(atoms)
    BY <2>2, <2>3, <2>5, DedupKeeps DEF Listed
  <2>7. \A a \in AtomsOf(graph) : a \in Id /\ graph.prereqs[a] \in Seq(Id)
    BY <2>1 DEF AtomsOf, WellFormed
  <2>8. atoms \in Seq(Id)
    BY <2>6, <2>7
  <2>9. \A a \in ToSet(atoms) : graph.prereqs[a] \in Seq(Id)
    BY <2>6, <2>7, InList
  <2>10. QED BY <2>6, <2>8, <2>9 DEF AtomsListed, Distinct, IsInjective
<1>3. QED BY <1>1, <1>2

-----------------------------------------------------------------------------
(* The sort. *)

Atoms == ToSet(atoms)
PrereqsOf(a) == ToSet(graph.prereqs[a])

(* What the loop keeps up: the counters and the heap, each atom sorted at  *)
(* most once, and after those of its prerequisites that are to be sorted.  *)
Kahn ==
    /\ \A a \in Atoms : indegree[a] = Edges(a, Atoms \ Sorted)
    /\ frontier = {a \in Atoms \ Sorted : indegree[a] = 0}
    /\ result \in Seq(Atoms)
    /\ IsInjective(result)
    /\ \A i \in DOMAIN result : \A p \in PrereqsOf(result[i]) \cap Atoms :
          \E j \in DOMAIN result : j < i /\ result[j] = p

SortInv ==
    /\ outcome # "waiting" => phase = "loaded"
    /\ outcome \in {"waiting", "expanding"} => result = <<>>
    /\ outcome = "sorting" => Kahn
    /\ OrderIsTopological

-----------------------------------------------------------------------------

(* The listings of prerequisites in S, and those that are taken away with  *)
(* one of them.                                                            *)
LEMMA EdgesFacts ==
    ASSUME NEW a, graph.prereqs[a] \in Seq(Id), NEW S, NEW node
    PROVE  /\ Edges(a, S) \in Nat
           /\ Edges(a, S) = 0 <=> PrereqsOf(a) \cap S = {}
           /\ node \in S => Edges(a, S \ {node}) = Edges(a, S) - Edges(a, {node})
<1> DEFINE s == graph.prereqs[a]
           In(T) == {i \in DOMAIN s : s[i] \in T}
<1>1. IsFiniteSet(DOMAIN s)
  <2>1. DOMAIN s = 1 .. Len(s) /\ Len(s) \in Nat OBVIOUS
  <2>2. IsFiniteSet(1 .. Len(s)) BY <2>1, FS_Interval
  <2>3. QED BY <2>1, <2>2
<1>2. \A T : IsFiniteSet(In(T)) /\ Cardinality(In(T)) \in Nat /\ Edges(a, T) = Cardinality(In(T))
  <2> TAKE T
  <2>1. In(T) \in SUBSET DOMAIN s OBVIOUS
  <2>2. IsFiniteSet(In(T)) BY <1>1, <2>1, FS_Subset
  <2>3. QED BY <2>2, FS_CardinalityType DEF Edges
<1>3. Edges(a, S) = 0 <=> PrereqsOf(a) \cap S = {}
  <2>1. In(S) = {} <=> PrereqsOf(a) \cap S = {}
    BY DEF PrereqsOf, ToSet
  <2> HIDE DEF In
  <2>2. Cardinality(In(S)) = 0 <=> In(S) = {}
    BY <1>2, FS_EmptySet
  <2>3. QED BY <1>2, <2>1, <2>2
<1>4. ASSUME node \in S PROVE Edges(a, S \ {node}) = Edges(a, S) - Edges(a, {node})
  <2>1. In(S \ {node}) = In(S) \ In({node}) /\ In(S) \cap In({node}) = In({node})
    BY <1>4
  <2> HIDE DEF In
  <2>2. Cardinality(In(S) \ In({node})) = Cardinality(In(S)) - Cardinality(In(S) \cap In({node}))
    BY <1>2, FS_Difference
  <2>3. QED BY <1>2, <2>1, <2>2
<1>5. QED
  BY <1>2, <1>3, <1>4

-----------------------------------------------------------------------------

(* The first heap holds the atoms without prerequisites among the atoms. *)
LEMMA StartSortStep == SortInv /\ StartSort => SortInv'
<1> SUFFICES ASSUME SortInv, StartSort PROVE SortInv'
  OBVIOUS
<1>1. /\ outcome = "expanding" /\ outcome' = "sorting"
      /\ indegree' = [a \in Atoms |-> Edges(a, Atoms)]
      /\ frontier' = {a \in Atoms : indegree'[a] = 0}
      /\ graph' = graph /\ atoms' = atoms /\ result' = result /\ phase' = phase
  BY DEF StartSort, Atoms, gcVars
<1>2. result = <<>>
  BY <1>1 DEF SortInv
<1>3. Sorted' = {} /\ Atoms' = Atoms
  BY <1>1, <1>2 DEF Sorted, ToSet, Atoms
<1>4. \A a \in Atoms : indegree'[a] = (Edges(a, Atoms \ Sorted))'
  <2>1. \A a \in Atoms : indegree'[a] = Edges(a, Atoms \ Sorted')
    BY <1>1, <1>3
  <2>2. \A a \in Atoms : (Edges(a, Atoms \ Sorted))' = Edges(a, Atoms \ Sorted')
    BY <1>1, <1>3 DEF Edges
  <2>3. QED BY <2>1, <2>2
<1>5. frontier' = {a \in Atoms' \ Sorted' : indegree'[a] = 0}
  BY <1>1, <1>3
<1>6. result' \in Seq(Atoms') /\ IsInjective(result') /\ DOMAIN result' = {}
  BY <1>1, <1>2 DEF IsInjective
<1>7. Kahn'
  BY <1>3, <1>4, <1>5, <1>6 DEF Kahn
<1>8. QED
  BY <1>1, <1>7 DEF SortInv, OrderIsTopological

(* The least ready atom is ready for good: none of its prerequisites is    *)
(* still to come.                                                          *)
LEMMA PoppedIsReady ==
    ASSUME Kahn, AtomsListed, frontier # {}
    PROVE  /\ Min(frontier) \in Atoms \ Sorted
           /\ Min(frontier) \in frontier
           /\ PrereqsOf(Min(frontier)) \cap (Atoms \ Sorted) = {}
<1> DEFINE node == Min(frontier)
<1>1. Atoms \subseteq Id
  BY DEF AtomsListed, Atoms, ToSet
<1>2. node \in frontier
  BY <1>1, MinIs, CurriculumAssumption DEF Kahn
<1> HIDE DEF node
<1>3. node \in Atoms \ Sorted /\ indegree[node] = 0
  BY <1>2 DEF Kahn
<1>4. Edges(node, Atoms \ Sorted) = 0 /\ graph.prereqs[node] \in Seq(Id)
  BY <1>3 DEF Kahn, AtomsListed, Atoms
<1>5. PrereqsOf(node) \cap (Atoms \ Sorted) = {}
  BY <1>4, EdgesFacts
<1>6. QED
  BY <1>2, <1>3, <1>5 DEF node

(* One more atom sorted: its listings leave the counters, and the atoms    *)
(* that waited for it alone join the heap.                                 *)
LEMMA PopStep ==
    ASSUME SortInv, AtomsListed, PopFrontier
    PROVE  SortInv'
<1> DEFINE node == Min(frontier)
<1>1. /\ outcome = "sorting" /\ outcome' = "sorting" /\ frontier # {}
      /\ graph' = graph /\ atoms' = atoms /\ phase' = phase
      /\ result' = Append(result, node)
      /\ indegree' = [a \in Atoms |-> indegree[a] - Edges(a, {node})]
      /\ frontier' = (frontier \ {node})
                        \cup {a \in Atoms : Edges(a, {node}) > 0 /\ indegree'[a] = 0}
  BY DEF PopFrontier, gcVars, Atoms
<1>2. Kahn
  BY <1>1 DEF SortInv
<1>3. /\ node \in Atoms \ Sorted /\ node \in frontier
      /\ PrereqsOf(node) \cap (Atoms \ Sorted) = {}
  BY <1>1, <1>2, PoppedIsReady
<1> HIDE DEF node
<1>4. /\ result \in Seq(Atoms) /\ Len(result) \in Nat
      /\ result' \in Seq(Atoms)
      /\ DOMAIN result = 1 .. Len(result)
      /\ DOMAIN result' = DOMAIN result \cup {Len(result) + 1}
      /\ Len(result) + 1 \notin DOMAIN result
      /\ result'[Len(result) + 1] = node
      /\ \A i \in DOMAIN result : result'[i] = result[i]
  <2>1. result \in Seq(Atoms) /\ node \in Atoms BY <1>2, <1>3 DEF Kahn
  <2>2. QED BY <1>1, <2>1
<1>5. Sorted' = Sorted \cup {node} /\ Atoms' = Atoms
  BY <1>1, <1>4 DEF Sorted, Atoms, ToSet
<1>6. \A a \in Atoms : graph.prereqs[a] \in Seq(Id)
  BY DEF AtomsListed, Atoms
<1>7. \A a \in Atoms : /\ indegree[a] = Edges(a, Atoms \ Sorted)
                       /\ indegree'[a] = indegree[a] - Edges(a, {node})
                       /\ indegree'[a] = Edges(a, Atoms \ Sorted')
  <2> TAKE a \in Atoms
  <2>1. indegree[a] = Edges(a, Atoms \ Sorted) /\ indegree'[a] = indegree[a] - Edges(a, {node})
    BY <1>1, <1>2 DEF Kahn
  <2>2. Edges(a, (Atoms \ Sorted) \ {node}) = Edges(a, Atoms \ Sorted) - Edges(a, {node})
    BY <1>3, <1>6, EdgesFacts
  <2>3. (Atoms \ Sorted) \ {node} = Atoms \ Sorted' BY <1>5
  <2>4. QED BY <2>1, <2>2, <2>3
<1>8. \A a \in Atoms : indegree'[a] = (Edges(a, Atoms \ Sorted))'
  <2>1. \A a \in Atoms : (Edges(a, Atoms \ Sorted))' = Edges(a, Atoms \ Sorted')
    BY <1>1, <1>5 DEF Edges
  <2>2. QED BY <1>7, <2>1
<1>9. frontier' = {a \in Atoms \ Sorted' : indegree'[a] = 0}
  <2>1. frontier = {a \in Atoms \ Sorted : indegree[a] = 0}
    BY <1>2 DEF Kahn
  <2>2. \A a \in Atoms : /\ Edges(a, {node}) \in Nat /\ Edges(a, Atoms \ Sorted) \in Nat
                         /\ Edges(a, {node}) = 0 <=> node \notin PrereqsOf(a)
                         /\ Edges(a, Atoms \ Sorted) = 0
                               <=> PrereqsOf(a) \cap (Atoms \ Sorted) = {}
    <3> TAKE a \in Atoms
    <3>1. /\ Edges(a, {node}) \in Nat
          /\ Edges(a, {node}) = 0 <=> PrereqsOf(a) \cap {node} = {}
      BY <1>6, EdgesFacts
    <3>2. /\ Edges(a, Atoms \ Sorted) \in Nat
          /\ Edges(a, Atoms \ Sorted) = 0 <=> PrereqsOf(a) \cap (Atoms \ Sorted) = {}
      BY <1>6, EdgesFacts
    <3>3. QED BY <3>1, <3>2
  <2>3. ASSUME NEW a \in frontier \ {node}
        PROVE  a \in Atoms \ Sorted' /\ indegree'[a] = 0
    <3>1. a \in Atoms \ Sorted' /\ indegree[a] = 0 BY <1>5, <2>1, <2>3
    <3>2. node \notin PrereqsOf(a) BY <1>3, <1>7, <2>2, <3>1
    <3>3. Edges(a, {node}) = 0 BY <2>2, <3>1, <3>2
    <3>4. indegree'[a] = indegree[a] - Edges(a, {node}) BY <1>7, <3>1
    <3>5. QED BY <3>1, <3>3, <3>4
  <2>4. ASSUME NEW a \in Atoms, Edges(a, {node}) > 0
        PROVE  a \notin Sorted'
    <3>1. node \in PrereqsOf(a) BY <2>2, <2>4
    <3>2. a # node BY <1>3, <3>1
    <3>3. a \notin Sorted
      <4>1. SUFFICES ASSUME NEW i \in DOMAIN result, result[i] = a PROVE FALSE
        BY DEF Sorted, ToSet
      <4>2. \E j \in DOMAIN result : result[j] = node
        BY <1>2, <1>3, <3>1, <4>1 DEF Kahn
      <4>3. QED BY <1>3, <4>2 DEF Sorted, ToSet
    <3>4. QED BY <1>5, <3>2, <3>3
  <2>5. ASSUME NEW a \in Atoms \ Sorted', indegree'[a] = 0
        PROVE  a \in frontier \ {node} \/ Edges(a, {node}) > 0
    <3>1. CASE Edges(a, {node}) = 0
      <4>1. /\ indegree'[a] = indegree[a] - Edges(a, {node})
            /\ indegree[a] = Edges(a, Atoms \ Sorted)
        BY <1>7, <2>5
      <4>2. indegree[a] \in Nat BY <2>2, <2>5, <4>1
      <4>3. indegree[a] = 0 BY <2>5, <3>1, <4>1, <4>2
      <4>4. QED BY <1>5, <2>1, <2>5, <4>3
    <3>2. CASE Edges(a, {node}) # 0
      BY <2>2, <3>2
    <3>3. QED BY <3>1, <3>2
  <2>6. QED BY <1>1, <2>3, <2>4, <2>5
<1>10. IsInjective(result')
  <2>1. \A i \in DOMAIN result : result[i] # node
    BY <1>3 DEF Sorted, ToSet
  <2>2. QED BY <1>2, <1>4, <2>1 DEF Kahn, IsInjective
<1>11. \A i \in DOMAIN result' : \A p \in PrereqsOf(result'[i]) \cap Atoms :
          \E j \in DOMAIN result' : j < i /\ result'[j] = p
  <2> TAKE i \in DOMAIN result'
  <2> TAKE p \in PrereqsOf(result'[i]) \cap Atoms
  <2>1. CASE i \in DOMAIN result
    BY <1>2, <1>4, <2>1 DEF Kahn
  <2>2. CASE i = Len(result) + 1
    <3>1. p \in Sorted BY <1>3, <1>4, <2>2
    <3>2. PICK j \in DOMAIN result : result[j] = p BY <3>1 DEF Sorted, ToSet
    <3>3. j < i BY <1>4, <2>2
    <3>4. QED BY <1>4, <3>2, <3>3
  <2>3. QED BY <1>4, <2>1, <2>2
<1>12. Kahn'
  <2>1. \A i \in DOMAIN result' : \A p \in (PrereqsOf(result[i]))' \cap Atoms' :
           \E j \in DOMAIN result' : j < i /\ result'[j] = p
    BY <1>1, <1>5, <1>11 DEF PrereqsOf
  <2>2. QED BY <1>4, <1>5, <1>8, <1>9, <1>10, <2>1 DEF Kahn
<1>13. QED
  BY <1>1, <1>12 DEF SortInv, OrderIsTopological

(* The heap is empty: as many sorted as listed means all of them, and      *)
(* those left over wait for one another.                                   *)
LEMMA SortEnds ==
    ASSUME SortInv, AtomsListed, FinishSort
    PROVE  SortInv'
<1>1. /\ outcome = "sorting" /\ frontier = {}
      /\ outcome' = IF Len(result) = Len(atoms) THEN "ok" ELSE "cycle"
      /\ graph' = graph /\ atoms' = atoms /\ result' = result /\ phase' = phase
  BY DEF FinishSort, gcVars, sortVars
<1>2. Kahn
  BY <1>1 DEF SortInv
<1>3. result \in Seq(Atoms) /\ IsInjective(result) /\ Sorted \subseteq Atoms
  BY <1>2 DEF Kahn, Sorted, ToSet
<1>4. /\ IsFiniteSet(Atoms) /\ Cardinality(Atoms) = Len(atoms)
      /\ IsFiniteSet(Sorted) /\ Cardinality(Sorted) = Len(result)
  BY <1>3, ListFinite DEF AtomsListed, Atoms, Sorted, Distinct, IsInjective
<1>5. CASE Len(result) = Len(atoms)
  <2>1. Sorted = Atoms
    BY <1>3, <1>4, <1>5, FS_Subset
  <2>2. ASSUME NEW i \in DOMAIN result, NEW j \in DOMAIN result,
               Contains(graph.prereqs[result[i]], result[j])
        PROVE  j < i
    <3>1. result[i] \in Atoms /\ result[j] \in Atoms
      BY <1>3
    <3>2. graph.prereqs[result[i]] \in Seq(Id)
      BY <3>1 DEF AtomsListed, Atoms
    <3>3. result[j] \in PrereqsOf(result[i])
      BY <2>2, <3>2 DEF Contains, PrereqsOf, ToSet
    <3>4. PICK k \in DOMAIN result : k < i /\ result[k] = result[j]
      BY <1>2, <3>1, <3>3 DEF Kahn
    <3>5. QED BY <1>3, <3>4 DEF IsInjective
  <2>3. QED BY <1>1, <1>3, <1>5, <2>1, <2>2 DEF SortInv, OrderIsTopological, Sorted, Atoms, Contains
<1>6. CASE Len(result) # Len(atoms)
  <2> DEFINE S == Atoms \ Sorted
  <2>1. S # {}
    <3>1. Cardinality(Atoms) # Cardinality(Sorted) BY <1>4, <1>6
    <3>2. Atoms # Sorted BY <3>1
    <3>3. QED BY <1>3, <3>2
  <2>2. ASSUME NEW a \in S PROVE \E b \in S : Contains(graph.prereqs[a], b)
    <3>1. graph.prereqs[a] \in Seq(Id)
      BY DEF AtomsListed, Atoms
    <3>2. Edges(a, S) # 0
      BY <1>1, <1>2 DEF Kahn
    <3>3. Edges(a, S) = 0 <=> PrereqsOf(a) \cap S = {}
      <4> HIDE DEF S
      <4>1. QED BY <3>1, EdgesFacts
    <3>4. PICK b \in S : b \in PrereqsOf(a)
      BY <3>2, <3>3
    <3>5. QED BY <3>1, <3>4 DEF PrereqsOf, ToSet, Contains
  <2>3. S \in (SUBSET ToSet(atoms)) \ {{}}
    BY <2>1 DEF Atoms
  <2> HIDE DEF S
  <2>4. \E T \in (SUBSET ToSet(atoms)) \ {{}} :
           \A a \in T : \E b \in T : Contains(graph.prereqs[a], b)
    BY <2>2, <2>3
  <2>5. outcome' = "cycle" BY <1>1, <1>6
  <2>6. OrderIsTopological' BY <1>1, <2>4, <2>5 DEF OrderIsTopological
  <2>7. QED BY <1>1, <2>5, <2>6 DEF SortInv
<1>7. QED
  BY <1>5, <1>6

(* The invariant is about the loaded graph and the tables of the sort. *)
LEMMA SameSort ==
    ASSUME SortInv, UNCHANGED <<phase, graph, sortVars, outcome>>
    PROVE  SortInv'
<1>1. /\ phase' = phase /\ graph' = graph /\ outcome' = outcome
      /\ atoms' = atoms /\ indegree' = indegree /\ frontier' = frontier /\ result' = result
  BY DEF sortVars
<1>2. Kahn => Kahn'
  <2> SUFFICES ASSUME Kahn PROVE Kahn'
    OBVIOUS
  <2>1. Atoms' = Atoms /\ Sorted' = Sorted
    BY <1>1 DEF Atoms, Sorted
  <2>2. \A a \in Atoms : (Edges(a, Atoms \ Sorted))' = Edges(a, Atoms \ Sorted)
    BY <1>1, <2>1 DEF Edges
  <2>3. \A a \in Atoms' : indegree'[a] = (Edges(a, Atoms \ Sorted))'
    BY <1>1, <2>1, <2>2 DEF Kahn
  <2>4. \A i \in DOMAIN result' : \A p \in (PrereqsOf(result[i]))' \cap Atoms' :
           \E j \in DOMAIN result' : j < i /\ result'[j] = p
    BY <1>1, <2>1 DEF Kahn, PrereqsOf
  <2>5. QED BY <1>1, <2>1, <2>3, <2>4 DEF Kahn
<1>3. OrderIsTopological => OrderIsTopological'
  BY <1>1 DEF OrderIsTopological, Sorted
<1>4. QED
  BY <1>1, <1>2, <1>3 DEF SortInv

(* The check runs before anything is loaded. *)
LEMMA CheckSorts == SortInv /\ Check => SortInv'
<1> SUFFICES ASSUME SortInv, Check PROVE SortInv'
  OBVIOUS
<1>1. UNCHANGED <<graph, sortVars, outcome>> /\ phase # "loaded"
  BY DEF Check, CheckNext, WalkFiles, StartSearch, VisitNeighbor, LeaveNode, FinishCheck
<1>2. outcome = "waiting" /\ result = <<>>
  BY <1>1 DEF SortInv
<1>3. outcome' = "waiting" /\ result' = <<>>
  BY <1>1, <1>2 DEF sortVars
<1>4. QED
  BY <1>3, SMTT(30) DEF SortInv, OrderIsTopological

(* Until the expansion is done nothing is sorted. *)
LEMMA ExpansionStep == SortInv /\ (StartExpansion \/ ExpandId) => SortInv'
<1> SUFFICES ASSUME SortInv, StartExpansion \/ ExpandId PROVE SortInv'
  OBVIOUS
<1>1. CASE StartExpansion
  <2>1. /\ phase = "checked" /\ phase' = "loaded"
        /\ outcome' = "expanding" /\ result' = result
    BY <1>1 DEF StartExpansion, LoadGraph
  <2>2. outcome = "waiting"
    BY <2>1 DEF SortInv
  <2>3. QED BY <2>1, <2>2 DEF SortInv, OrderIsTopological
<1>2. CASE ExpandId
  <2>1. /\ outcome = "expanding" /\ outcome' \in {"expanding", "unknown_id", "empty_cluster"}
        /\ phase' = phase /\ result' = result
    BY <1>2 DEF ExpandId, gcVars
  <2>2. QED BY <2>1 DEF SortInv, OrderIsTopological
<1>3. QED
  BY <1>1, <1>2

(* The walk of the reports starts from what was sorted. *)
LEMMA ReachStep == SortInv /\ (StartReach \/ PopConcept \/ FinishReach) => SortInv'
<1> SUFFICES ASSUME SortInv, StartReach \/ PopConcept \/ FinishReach PROVE SortInv'
  OBVIOUS
<1>1. /\ outcome \in {"ok", "reaching"} /\ outcome' \in {"reaching", "reached"}
      /\ phase' = phase
  BY DEF StartReach, PopConcept, FinishReach, gcVars
<1>2. QED
  BY <1>1 DEF SortInv, OrderIsTopological

(* No step breaks the invariant, as long as the lists are lists of ids.    *)
LEMMA SortStep == SortInv /\ AtomsListed /\ [ResNext]_resVars => SortInv'
<1> SUFFICES ASSUME SortInv, AtomsListed, [ResNext]_resVars PROVE SortInv'
  OBVIOUS
<1>1. CASE UNCHANGED resVars
  BY <1>1, SameSort DEF resVars, gcVars
<1>2. CASE ResNext
  BY <1>2, CheckSorts, ExpansionStep, ReachStep, StartSortStep, PopStep, SortEnds DEF ResNext
<1>3. QED
  BY <1>1, <1>2

(* The expansion does its part. *)
THEOREM AtomsAreListed == ResSpec => []AtomsListed
BY ListedAtoms, LoadInvariance, ExpandInvariance, PTL

THEOREM SortInvariance == ResSpec => []SortInv
<1>1. ResInit => SortInv
  BY DEF ResInit, SortInv, OrderIsTopological
<1>2. QED
  BY <1>1, SortStep, AtomsAreListed, PTL DEF ResSpec

(* On any files and targets the counters are the listings among the atoms  *)
(* not sorted yet, and the heap holds those without any.                   *)
THEOREM HeapIsReady == ResSpec => []FrontierIsReady
<1>1. SortInv => FrontierIsReady
  BY DEF SortInv, Kahn, FrontierIsReady, Atoms
<1>2. QED
  BY <1>1, SortInvariance, PTL

(* The atoms are sorted by prerequisites, completely, unless some of them  *)
(* wait for one another; then `cycle` is reported.                         *)
THEOREM SortIsExact == ResSpec => []OrderIsTopological
<1>1. SortInv => OrderIsTopological
  BY DEF SortInv
<1>2. QED
  BY <1>1, SortInvariance, PTL

-----------------------------------------------------------------------------
(* The order. *)

(* KahnOrder goes on from what is sorted. *)
GoesOn ==
    \E order : /\ Orders(order, graph, atoms)
               /\ KahnOrder(graph, atoms) = order[{}]
               /\ order[{}] = result \o order[Sorted]

OrderInv ==
    /\ outcome = "sorting" => GoesOn
    /\ outcome \in {"ok", "cycle", "reaching", "reached"} => KahnOrder(graph, atoms) = result
    /\ outcome \in {"ok", "reaching", "reached"} => Len(result) = Len(atoms)
    /\ outcome = "cycle" => Len(result) # Len(atoms)

(* The heap is what KahnOrder takes its least element of. *)
LEMMA HeapIs ==
    ASSUME AtomsListed, Kahn, atoms \in Seq(AtomsOf(graph))
    PROVE  /\ frontier = Ready(graph, atoms, Sorted)
           /\ result \in Seq(Atoms) /\ Sorted \in SUBSET Id
<1>1. \A a \in Atoms : a \in graph.ids /\ graph.prereqs[a] \in Seq(Id)
  BY InList DEF AtomsListed, Atoms, AtomsOf
<1>2. \A a \in Atoms : indegree[a] = 0 <=> PrereqsOf(a) \cap (Atoms \ Sorted) = {}
  <2> TAKE a \in Atoms
  <2>1. Edges(a, Atoms \ Sorted) = 0 <=> PrereqsOf(a) \cap (Atoms \ Sorted) = {}
    BY <1>1, EdgesFacts
  <2>2. QED BY <2>1 DEF Kahn
<1>3. \A a \in Atoms : indegree[a] = 0 <=> PrereqsOf(a) \cap Atoms \subseteq Sorted
  BY <1>2
<1>4. frontier = Ready(graph, atoms, Sorted)
  BY <1>1, <1>3 DEF Kahn, Ready, Atoms, PrereqsOf
<1>5. result \in Seq(Atoms) /\ Atoms \subseteq Id
  BY DEF Kahn, AtomsListed, Atoms, ToSet
<1>6. Sorted \subseteq Atoms
  BY <1>5, InList DEF Sorted
<1>7. QED BY <1>4, <1>5, <1>6

LEMMA OrderStarts ==
    ASSUME AtomsListed, SortInv, StartSort
    PROVE  OrderInv'
<1>1. /\ outcome = "expanding" /\ outcome' = "sorting"
      /\ graph' = graph /\ atoms' = atoms /\ result' = result
  BY DEF StartSort, gcVars
<1>2. result = <<>> /\ Sorted' = {}
  BY <1>1 DEF SortInv, Sorted, ToSet
<1>3. PICK order : Orders(order, graph, atoms) /\ KahnOrder(graph, atoms) = order[{}]
  BY KahnSteps DEF AtomsListed
<1>4. PICK first : first = order[{}]
  OBVIOUS
<1>5. first \in Seq(ToSet(atoms))
  BY <1>3, <1>4 DEF Orders
<1>6. <<>> \o first = first
  BY <1>5
<1>7. order[{}] = result' \o order[Sorted']
  BY <1>1, <1>2, <1>4, <1>6
<1>8. GoesOn'
  BY <1>1, <1>3, <1>7 DEF GoesOn
<1>9. QED BY <1>1, <1>8 DEF OrderInv

LEMMA OrderGoesOn ==
    ASSUME AtomsListed, SortInv, OrderInv, PopFrontier, atoms \in Seq(AtomsOf(graph))
    PROVE  OrderInv'
<1>1. PICK node : node = Min(frontier)
  OBVIOUS
<1>2. /\ outcome = "sorting" /\ outcome' = "sorting" /\ frontier # {}
      /\ graph' = graph /\ atoms' = atoms /\ result' = Append(result, node)
  BY <1>1 DEF PopFrontier, gcVars
<1>3. Kahn /\ GoesOn
  BY <1>2 DEF SortInv, OrderInv
<1>4. /\ frontier = Ready(graph, atoms, Sorted)
      /\ result \in Seq(Atoms) /\ Sorted \in SUBSET Id
      /\ node \in Atoms
  BY <1>1, <1>2, <1>3, HeapIs, PoppedIsReady
<1>5. Sorted' = Sorted \cup {node}
  <2>1. PICK one : one = <<node>>
    OBVIOUS
  <2>2. one \in Seq(Atoms) /\ result' = result \o one /\ ToSet(one) = {node}
    BY <1>2, <1>4, <2>1 DEF ToSet
  <2>3. ToSet(result') = ToSet(result) \cup {node}
    BY <1>4, <2>2, Joined
  <2>4. QED BY <2>3 DEF Sorted
<1>6. PICK order : /\ Orders(order, graph, atoms)
                   /\ KahnOrder(graph, atoms) = order[{}]
                   /\ order[{}] = result \o order[Sorted]
  BY <1>3 DEF GoesOn
<1>7. PICK done, more : done = Sorted \cup {node} /\ more = order[done]
  OBVIOUS
<1>8. done \in SUBSET Id /\ more \in Seq(Atoms) /\ Settle(graph, atoms)[Sorted] = done
  <2>1. done \in SUBSET Id
    BY <1>4, <1>7 DEF AtomsListed, Atoms, ToSet
  <2>2. more \in Seq(Atoms)
    BY <1>6, <1>7, <2>1 DEF Orders, Atoms
  <2>3. Settle(graph, atoms)[Sorted] = done
    BY <1>1, <1>2, <1>4, <1>7 DEF Settle
  <2>4. QED BY <2>1, <2>2, <2>3
<1>9. order[Sorted] = <<node>> \o more
  <2>1. order[Sorted] = IF Ready(graph, atoms, Sorted) = {} THEN <<>>
                        ELSE <<Min(Ready(graph, atoms, Sorted))>> \o order[Settle(graph, atoms)[Sorted]]
    BY <1>4, <1>6 DEF Orders
  <2>2. QED BY <1>1, <1>2, <1>4, <1>7, <1>8, <2>1, Zenon
<1>10. result \o (<<node>> \o more) = Append(result, node) \o more
  BY <1>4, <1>8
<1>11. order[{}] = result' \o order[Sorted']
  BY <1>2, <1>5, <1>6, <1>7, <1>9, <1>10, Zenon
<1>12. GoesOn'
  BY <1>2, <1>6, <1>11 DEF GoesOn
<1>13. QED BY <1>2, <1>12 DEF OrderInv

LEMMA OrderEnds ==
    ASSUME AtomsListed, SortInv, OrderInv, FinishSort, atoms \in Seq(AtomsOf(graph))
    PROVE  OrderInv'
<1>1. /\ outcome = "sorting" /\ frontier = {}
      /\ outcome' = IF Len(result) = Len(atoms) THEN "ok" ELSE "cycle"
      /\ graph' = graph /\ atoms' = atoms /\ result' = result
  BY DEF FinishSort, gcVars, sortVars
<1>2. Kahn /\ GoesOn
  BY <1>1 DEF SortInv, OrderInv
<1>3. Ready(graph, atoms, Sorted) = {} /\ result \in Seq(Atoms) /\ Sorted \in SUBSET Id
  BY <1>1, <1>2, HeapIs
<1>4. PICK order : /\ Orders(order, graph, atoms)
                   /\ KahnOrder(graph, atoms) = order[{}]
                   /\ order[{}] = result \o order[Sorted]
  BY <1>2 DEF GoesOn
<1>5. order[Sorted] = <<>>
  BY <1>3, <1>4 DEF Orders
<1>6. result \o <<>> = result
  BY <1>3
<1>7. KahnOrder(graph, atoms) = result
  BY <1>4, <1>5, <1>6, Zenon
<1>8. KahnOrder(graph', atoms') = result'
  BY <1>1, <1>7
<1>9. QED BY <1>1, <1>8 DEF OrderInv

(* Nothing else touches what is sorted. *)
LEMMA OrderKept ==
    ASSUME OrderInv, graph' = graph, atoms' = atoms, result' = result,
           \/ outcome' = outcome
           \/ outcome' \in {"waiting", "expanding", "unknown_id", "empty_cluster"}
           \/ outcome \in {"ok", "reaching"} /\ outcome' \in {"reaching", "reached"}
    PROVE  OrderInv'
<1>1. GoesOn => GoesOn'
  BY DEF GoesOn, Sorted
<1>2. QED BY <1>1 DEF OrderInv

THEOREM OrderInvariance == ResSpec => []OrderInv
<1>1. ResInit => OrderInv
  BY DEF ResInit, OrderInv
<1>2. LoadInv /\ ExpandInv /\ SortInv /\ OrderInv /\ [ResNext]_resVars => OrderInv'
  <2> SUFFICES ASSUME LoadInv, ExpandInv, SortInv, OrderInv, [ResNext]_resVars PROVE OrderInv'
    OBVIOUS
  <2>1. AtomsListed /\ (outcome # "waiting" => atoms \in Seq(AtomsOf(graph)))
    BY ListedAtoms DEF LoadInv
  <2>2. CASE Check
    <3>1. outcome' = outcome /\ graph' = graph /\ atoms' = atoms /\ result' = result
      BY <2>2, CheckKeeps DEF sortVars
    <3>2. QED BY <3>1, OrderKept
  <2>3. CASE StartExpansion \/ ExpandId
    <3>1. outcome' \in {"expanding", "unknown_id", "empty_cluster"}
      BY <2>3 DEF StartExpansion, ExpandId
    <3>2. QED BY <3>1 DEF OrderInv
  <2>4. CASE StartSort \/ PopFrontier \/ FinishSort
    <3>1. outcome # "waiting"
      BY <2>4 DEF StartSort, PopFrontier, FinishSort
    <3>2. QED BY <2>1, <2>4, <3>1, OrderStarts, OrderGoesOn, OrderEnds
  <2>5. CASE StartReach \/ PopConcept \/ FinishReach \/ UNCHANGED resVars
    <3>1. /\ graph' = graph /\ atoms' = atoms /\ result' = result
          /\ \/ outcome' = outcome
             \/ outcome \in {"ok", "reaching"} /\ outcome' \in {"reaching", "reached"}
      BY <2>5 DEF StartReach, PopConcept, FinishReach, resVars, gcVars, sortVars
    <3>2. QED BY <3>1, OrderKept
  <2>6. QED BY <2>2, <2>3, <2>4, <2>5 DEF ResNext
<1>3. QED BY <1>1, <1>2, LoadInvariance, ExpandInvariance, SortInvariance, PTL DEF ResSpec

(* Whatever the files and the targets, the loops compute what the model of *)
(* the scheduler takes the targets to resolve to, and report the error it  *)
(* says.                                                                   *)
THEOREM LoopsResolve == ResSpec => []ComputesResolveTargets
<1>1. LoadInv /\ ExpandInv /\ SortInv /\ OrderInv => ComputesResolveTargets
  <2> SUFFICES ASSUME LoadInv, ExpandInv, SortInv, OrderInv PROVE ComputesResolveTargets
    OBVIOUS
  <2>1. AtomsListed
    BY ListedAtoms
  <2>2. PICK expected : expected = ResolveTargets(graph, targets)
    OBVIOUS
  <2>3. ASSUME outcome \in {"ok", "cycle", "unknown_id", "empty_cluster"}
        PROVE  /\ outcome = "ok" => expected.err = "none" /\ expected.atoms = result
               /\ outcome \in {"unknown_id", "empty_cluster", "cycle"} => expected.err = outcome
    <3>1. targets \in Seq(Id)
      BY <2>3 DEF LoadInv
    <3>2. PICK n : ExpandedTo(n) /\ StopsAt(n)
      BY <2>3 DEF ExpandInv
    <3>3. PICK e, bad : /\ e = ExpandToAtoms(graph, targets)
                        /\ bad = NotThere(graph, targets) \cup AddsNone(graph, targets)
      OBVIOUS
    <3>4. PICK sorted : sorted = KahnOrder(graph, e.atoms)
      OBVIOUS
    <3>5. expected = IF e.err # "none" THEN e
                     ELSE IF Len(sorted) # Len(e.atoms) THEN [err |-> "cycle", atoms |-> <<>>]
                     ELSE [err |-> "none", atoms |-> sorted]
      BY <2>2, <3>3, <3>4 DEF ResolveTargets
    <3>6. n \in Nat /\ \A k \in 1 .. n : k \notin bad
      BY <3>1, <3>2, <3>3 DEF ExpandedTo, Fails
    <3>7. CASE outcome \in {"unknown_id", "empty_cluster"}
      <4>1. PICK m : m = n + 1
        OBVIOUS
      <4>2. /\ m \in bad /\ 1 .. m - 1 = 1 .. n
            /\ m \in NotThere(graph, targets) <=> outcome = "unknown_id"
        BY <3>2, <3>3, <3>6, <3>7, <4>1 DEF StopsAt, NotThere, AddsNone
      <4>3. e.err = IF m \in NotThere(graph, targets) THEN "unknown_id" ELSE "empty_cluster"
        BY <3>1, <3>3, <3>6, <4>2, ExpansionIs
      <4>4. QED BY <3>5, <3>7, <4>2, <4>3
    <3>8. CASE outcome \in {"ok", "cycle"}
      <4>1. n = Len(targets) /\ DOMAIN targets = 1 .. Len(targets)
        BY <3>1, <3>2, <3>8 DEF StopsAt
      <4>2. bad = {}
        BY <3>3, <3>6, <4>1 DEF NotThere, AddsNone
      <4>3. e = [err |-> "none", atoms |-> Listed(graph, targets, Len(targets))]
        BY <3>1, <3>3, <4>2, ExpansionIs
      <4>4. e.err = "none" /\ e.atoms = atoms
        BY <3>2, <4>1, <4>3 DEF ExpandedTo
      <4>5. sorted = result
        BY <3>4, <3>8, <4>4 DEF OrderInv
      <4>6. QED BY <3>5, <3>8, <4>4, <4>5 DEF OrderInv
    <3>9. QED BY <2>3, <3>7, <3>8
  <2>4. QED BY <2>1, <2>2, <2>3 DEF ComputesResolveTargets
<1>2. QED
  BY <1>1, LoadInvariance, ExpandInvariance, SortInvariance, OrderInvariance, PTL

-----------------------------------------------------------------------------
(* The walk of `reachable_atoms`. *)

(* What is to be found: the atoms of the closure of what was sorted. *)
Closure == Reach(graph, Sorted)
ToFind == Closure \cap AtomsOf(graph)

(* The stack is inside the closure, and whatever is to be found and is not *)
(* found yet is reached from it without going through what is.             *)
OnTheWay ==
    /\ stack \in Seq(Id)
    /\ ToSet(stack) \subseteq Closure
    /\ reached \subseteq ToFind
    /\ ToFind \subseteq reached \cup Beyond(graph, ToSet(stack), reached)

ReachInv ==
    /\ outcome = "reaching" => OnTheWay
    /\ outcome = "reached" => reached = ToFind
    /\ outcome \notin {"reaching", "reached"} => reached = {}

(* Taking a concept from the stack and putting what is below it there: an  *)
(* atom leaves its mark, a cluster may come back.                          *)
LEMMA NothingLost ==
    ASSUME NEW g, WellFormed(g), NEW id \in Id, NEW left \in SUBSET Id,
           NEW past \in SUBSET Id, id \notin past
    PROVE  /\ Beyond(g, {id} \cup left, past)
                 \subseteq {id} \cup Beyond(g, Below(g, id) \cup left, past \cup {id})
           /\ Beyond(g, {id} \cup left, past)
                 \subseteq {id} \cup Beyond(g, Below(g, id) \cup left, past)
<1>1. Beyond(g, {id} \cup left, past)
        = {id} \cup Beyond(g, Below(g, id) \cup left, past \cup {id})
  BY BeyondEnter
<1>2. PICK roots, more : roots = Below(g, id) \cup left /\ more = past \cup {id}
  OBVIOUS
<1>3. roots \in SUBSET Id
  BY <1>2, BelowIds
<1>4. Beyond(g, roots, more) \subseteq Beyond(g, roots, past)
  BY <1>2, <1>3, BeyondLess
<1>5. QED BY <1>1, <1>2, <1>4

(* The concept on top of the stack. *)
LEMMA PopIs ==
    ASSUME LoadInv, OnTheWay, PopConcept
    PROVE  \E id, left :
              /\ id \in Closure /\ id = Popped
              /\ left \in SUBSET Id /\ ToSet(stack) = {id} \cup left
              /\ stack' \in Seq(Id)
              /\ ToSet(stack') = IF id \in reached THEN left ELSE Below(graph, id) \cup left
<1>1. /\ outcome = "reaching" /\ stack # <<>>
      /\ stack' = Front(stack) \o
           (IF Popped \notin graph.ids \/ Popped \in reached THEN <<>>
            ELSE graph.children[Popped] \o graph.prereqs[Popped])
  BY DEF PopConcept
<1>2. stack \in Seq(Id) /\ ToSet(stack) \subseteq Closure /\ WellFormed(graph)
  BY <1>1 DEF OnTheWay, LoadInv
<1>3. PICK id, left, front : id = Popped /\ left = ToSet(Front(stack)) /\ front = Front(stack)
  OBVIOUS
<1>4. /\ front \in Seq(Id) /\ left = ToSet(front)
      /\ id \in Id /\ ToSet(stack) = {id} \cup left
  <2>1. /\ Len(stack) \in Nat \ {0} /\ DOMAIN stack = 1 .. Len(stack) /\ id = stack[Len(stack)]
    BY <1>1, <1>2, <1>3 DEF Popped, Last
  <2>2. front = [i \in 1 .. Len(stack) - 1 |-> stack[i]]
    BY <1>2, <1>3, <2>1 DEF Front
  <2>3. front \in Seq(Id) /\ DOMAIN front = 1 .. Len(stack) - 1
    BY <1>2, <2>1, <2>2
  <2>4. 1 .. Len(stack) = (1 .. Len(stack) - 1) \cup {Len(stack)}
    BY <2>1
  <2>5. ToSet(stack) = {id} \cup ToSet(front)
    BY <2>1, <2>2, <2>3, <2>4 DEF ToSet
  <2>6. id \in Id
    BY <1>2, <2>1
  <2>7. QED BY <1>3, <2>3, <2>5, <2>6
<1>5. left \in SUBSET Id
  BY <1>4, InList
<1>6. PICK next : next = IF id \notin graph.ids \/ id \in reached THEN <<>>
                         ELSE graph.children[id] \o graph.prereqs[id]
  OBVIOUS
<1>7. next \in Seq(Id) /\ ToSet(next) = IF id \in reached THEN {} ELSE Below(graph, id)
  <2>1. CASE id \notin graph.ids \/ id \in reached
    BY <1>6, <2>1, EmptyList DEF Below
  <2>2. CASE id \in graph.ids /\ id \notin reached
    <3>1. graph.children[id] \in Seq(Id) /\ graph.prereqs[id] \in Seq(Id)
      BY <1>2, <2>2 DEF WellFormed
    <3>2. \A s, t \in Seq(Id) : s \o t \in Seq(Id) /\ ToSet(s \o t) = ToSet(s) \cup ToSet(t)
      BY Joined
    <3>3. /\ graph.children[id] \o graph.prereqs[id] \in Seq(Id)
          /\ ToSet(graph.children[id] \o graph.prereqs[id])
               = ToSet(graph.children[id]) \cup ToSet(graph.prereqs[id])
      BY <3>1, <3>2, Zenon
    <3>4. ToSet(graph.prereqs[id] \o graph.children[id])
            = ToSet(graph.prereqs[id]) \cup ToSet(graph.children[id])
      BY <3>1, <3>2, Zenon
    <3>5. QED BY <1>6, <2>2, <3>3, <3>4 DEF Below
  <2>3. QED BY <2>1, <2>2
<1>8. stack' = front \o next
  BY <1>1, <1>3, <1>6, Zenon
<1>9. front \o next \in Seq(Id) /\ ToSet(front \o next) = ToSet(front) \cup ToSet(next)
  BY <1>4, <1>7, Joined
<1>10. ToSet(stack') = IF id \in reached THEN left ELSE Below(graph, id) \cup left
  BY <1>4, <1>7, <1>8, <1>9
<1>11. QED BY <1>2, <1>3, <1>4, <1>5, <1>8, <1>9, <1>10

LEMMA PopConceptStep ==
    ASSUME LoadInv, ReachInv, AtomsListed, SortInv, OrderInv, PopConcept, Sorted \in SUBSET Id
    PROVE  ReachInv'
<1>1. /\ outcome = "reaching" /\ outcome' = "reaching"
      /\ graph' = graph /\ result' = result /\ Sorted' = Sorted
      /\ reached' = IF IsAtom(graph, Popped) THEN reached \cup {Popped} ELSE reached
  BY DEF PopConcept, gcVars, sortVars, Sorted
<1>2. OnTheWay /\ WellFormed(graph)
  BY <1>1 DEF ReachInv, LoadInv
<1>3. PICK id, left :
              /\ id \in Closure /\ id = Popped
              /\ left \in SUBSET Id /\ ToSet(stack) = {id} \cup left
              /\ stack' \in Seq(Id)
              /\ ToSet(stack') = IF id \in reached THEN left ELSE Below(graph, id) \cup left
  BY <1>2, PopIs
<1>4. /\ Closure \in SUBSET Id
      /\ \A x \in Closure : Below(graph, x) \subseteq Closure
  BY <1>2, ReachGrows DEF Closure
<1>5. /\ Closure' = Closure /\ ToFind' = ToFind
  BY <1>1 DEF Closure, ToFind
<1>6. ToSet(stack') \subseteq Closure
  BY <1>2, <1>3, <1>4 DEF OnTheWay
<1>7. /\ reached \in SUBSET Id /\ reached \subseteq AtomsOf(graph)
      /\ id \in AtomsOf(graph) <=> IsAtom(graph, id)
  BY <1>2, <1>4 DEF OnTheWay, ToFind, AtomsOf, IsAtom
<1>8. reached' \subseteq ToFind
  BY <1>1, <1>2, <1>3, <1>7 DEF OnTheWay, ToFind
<1>9. ToFind \subseteq reached' \cup Beyond(graph, ToSet(stack'), reached')
  <2>1. PICK before : before = Beyond(graph, {id} \cup left, reached)
    OBVIOUS
  <2>2. ToFind \subseteq reached \cup before
    BY <1>2, <1>3, <2>1 DEF OnTheWay
  <2>3. CASE id \in reached
    <3>1. before = Beyond(graph, left, reached)
      BY <2>1, <2>3, BeyondPast
    <3>2. reached' = reached /\ ToSet(stack') = left
      BY <1>1, <1>3, <2>3
    <3>3. QED BY <2>2, <3>1, <3>2
  <2>4. CASE id \notin reached
    <3>1. PICK below : below = Below(graph, id) \cup left
      OBVIOUS
    <3>2. /\ before \subseteq {id} \cup Beyond(graph, below, reached \cup {id})
          /\ before \subseteq {id} \cup Beyond(graph, below, reached)
      BY <1>2, <1>3, <1>4, <1>7, <2>1, <2>4, <3>1, NothingLost
    <3>3. ToSet(stack') = below
      BY <1>3, <2>4, <3>1
    <3>4. CASE IsAtom(graph, id)
      BY <1>1, <1>3, <2>2, <3>2, <3>3, <3>4
    <3>5. CASE ~IsAtom(graph, id)
      <4>1. id \notin ToFind
        BY <1>7, <3>5 DEF ToFind
      <4>2. reached' = reached
        BY <1>1, <1>3, <3>5
      <4>3. QED BY <2>2, <3>2, <3>3, <4>1, <4>2
    <3>6. QED BY <3>4, <3>5
  <2>5. QED BY <2>3, <2>4
<1>10. OnTheWay'
  <2>1. Beyond(graph', ToSet(stack'), reached') = Beyond(graph, ToSet(stack'), reached')
    BY <1>1
  <2>2. QED BY <1>3, <1>5, <1>6, <1>8, <1>9, <2>1 DEF OnTheWay
<1>11. QED BY <1>1, <1>10 DEF ReachInv

THEOREM ReachInvariance == ResSpec => []ReachInv
<1>1. ResInit => ReachInv
  BY DEF ResInit, ReachInv
<1>2. LoadInv /\ AtomsListed /\ SortInv /\ OrderInv /\ ReachInv /\ [ResNext]_resVars => ReachInv'
  <2> SUFFICES ASSUME LoadInv, AtomsListed, SortInv, OrderInv, ReachInv, [ResNext]_resVars
               PROVE  ReachInv'
    OBVIOUS
  <2>1. CASE StartReach
    <3>1. /\ outcome = "ok" /\ outcome' = "reaching" /\ stack' = result
          /\ graph' = graph /\ result' = result /\ Sorted' = Sorted /\ reached' = reached
      BY <2>1 DEF StartReach, gcVars, sortVars, Sorted
    <3>2. WellFormed(graph) /\ reached = {} /\ Sorted = Atoms /\ result \in Seq(Id)
      <4>1. WellFormed(graph) /\ reached = {} /\ Sorted = ToSet(atoms)
        BY <3>1 DEF LoadInv, ReachInv, SortInv, OrderIsTopological
      <4>2. result \in Seq(ToSet(atoms))
        <5>1. KahnOrder(graph, atoms) = result
          BY <3>1 DEF OrderInv
        <5>2. QED BY <5>1, KahnLists DEF AtomsListed
      <4>3. ToSet(atoms) \subseteq Id
        BY InList DEF AtomsListed
      <4>4. QED BY <4>1, <4>2, <4>3 DEF Atoms
    <3>3. Sorted \in SUBSET Id
      BY <3>2, InList DEF Sorted
    <3>4. Sorted \subseteq Closure
      BY <3>2, <3>3, ReachGrows DEF Closure
    <3>5. ToFind \subseteq Beyond(graph, ToSet(stack'), reached')
      BY <3>1, <3>2 DEF ToFind, Closure, Reach, Sorted
    <3>6. Closure' = Closure /\ ToFind' = ToFind
      BY <3>1 DEF Closure, ToFind
    <3>7. OnTheWay'
      <4>1. Beyond(graph', ToSet(stack'), reached') = Beyond(graph, ToSet(stack'), reached')
        BY <3>1
      <4>2. ToSet(stack') = Sorted
        BY <3>1 DEF Sorted
      <4>3. QED BY <3>1, <3>2, <3>4, <3>5, <3>6, <4>1, <4>2 DEF OnTheWay
    <3>8. QED BY <3>1, <3>7 DEF ReachInv
  <2>2. CASE PopConcept
    <3>1. outcome = "reaching"
      BY <2>2 DEF PopConcept
    <3>2. KahnOrder(graph, atoms) = result
      BY <3>1 DEF OrderInv
    <3>3. result \in Seq(ToSet(atoms)) /\ ToSet(atoms) \subseteq Id
      BY <3>2, KahnLists, InList DEF AtomsListed
    <3>4. Sorted \in SUBSET Id
      BY <3>3, InList DEF Sorted
    <3>5. QED BY <2>2, <3>4, PopConceptStep
  <2>3. CASE FinishReach
    <3>1. /\ outcome = "reaching" /\ outcome' = "reached" /\ stack = <<>>
          /\ graph' = graph /\ result' = result /\ reached' = reached
      BY <2>3 DEF FinishReach, gcVars, sortVars
    <3>2. OnTheWay /\ WellFormed(graph) /\ ToSet(stack) = {}
      BY <3>1 DEF ReachInv, LoadInv, ToSet
    <3>3. Beyond(graph, {}, reached) = {}
      BY <3>2, BeyondNone
    <3>4. reached = ToFind
      BY <3>2, <3>3 DEF OnTheWay
    <3>5. ToFind' = ToFind
      BY <3>1 DEF ToFind, Closure, Sorted
    <3>6. QED BY <3>1, <3>4, <3>5 DEF ReachInv
  <2>4. CASE Check \/ UNCHANGED resVars
    <3>1. /\ graph' = graph /\ result' = result /\ stack' = stack
          /\ reached' = reached /\ outcome' = outcome
      BY <2>4, CheckKeeps DEF resVars, gcVars, sortVars
    <3>2. Closure' = Closure /\ ToFind' = ToFind
      BY <3>1 DEF ToFind, Closure, Sorted
    <3>3. OnTheWay => OnTheWay'
      BY <3>1, <3>2 DEF OnTheWay
    <3>4. QED BY <3>1, <3>2, <3>3 DEF ReachInv
  <2>5. CASE StartExpansion \/ ExpandId \/ StartSort \/ PopFrontier \/ FinishSort
    <3>1. /\ reached' = reached
          /\ outcome' \notin {"reaching", "reached"}
          /\ outcome \notin {"reaching", "reached"}
      <4>1. CASE StartExpansion
        BY <4>1 DEF StartExpansion, LoadGraph, LoadInv
      <4>2. CASE ExpandId \/ StartSort \/ PopFrontier \/ FinishSort
        BY <4>2 DEF ExpandId, StartSort, PopFrontier, FinishSort
      <4>3. QED BY <2>5, <4>1, <4>2
    <3>2. QED BY <3>1 DEF ReachInv
  <2>6. QED BY <2>1, <2>2, <2>3, <2>4, <2>5 DEF ResNext
<1>3. QED
  BY <1>1, <1>2, LoadInvariance, AtomsAreListed, SortInvariance, OrderInvariance, PTL DEF ResSpec

(* Whatever the files, the targets and the bound on the stack, the walk    *)
(* that ends has found exactly what the model of the scheduler calls the   *)
(* reachable atoms.                                                        *)
THEOREM WalkFindsAll == ResSpec => []ComputesReachable
<1>1. LoadInv /\ AtomsListed /\ OrderInv /\ ReachInv => ComputesReachable
  <2> SUFFICES ASSUME LoadInv, AtomsListed, OrderInv, ReachInv, outcome = "reached"
               PROVE  reached = ReachableAtoms(graph, ToSet(result))
    BY DEF ComputesReachable
  <2>1. WellFormed(graph) /\ reached = ToFind /\ KahnOrder(graph, atoms) = result
    BY DEF LoadInv, ReachInv, OrderInv
  <2>2. result \in Seq(ToSet(atoms)) /\ ToSet(atoms) \subseteq Id
    BY <2>1, KahnLists, InList DEF AtomsListed
  <2>3. ToSet(result) \in SUBSET Id
    BY <2>2, InList
  <2>4. ReachableAtoms(graph, ToSet(result)) = Reach(graph, ToSet(result)) \cap AtomsOf(graph)
    BY <2>1, <2>3, ReachableIs
  <2>5. QED BY <2>1, <2>4 DEF ToFind, Closure, Sorted
<1>2. QED
  BY <1>1, LoadInvariance, AtomsAreListed, OrderInvariance, ReachInvariance, PTL
=============================================================================
