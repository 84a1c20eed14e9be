----------------------------- MODULE Curriculum -----------------------------
(***************************************************************************)
(* The curriculum graph and the pure algorithms over it: overlay merging,  *)
(* target expansion, topological order and the post-order walk             *)
(* (src/src/graph.rs, src/src/path.rs, src/src/syllabus.rs).               *)
(*                                                                         *)
(* A graph is a record                                                     *)
(*     ids       the concepts it holds,                                    *)
(*     areas     the prefixes the manifest names, which loading wraps      *)
(*               around the concepts of the area as a concept of its own,  *)
(*     prereqs   prereqs[id], in file order; may name ids it does not hold,*)
(*     children  children[id], in file order; <<>> marks an atom,          *)
(*     lesson    the atoms with a stored lesson,                           *)
(*     quizzes   quizzes[id], a sequence of [id, difficulty].              *)
(* Concept ids are numbered in the order of `natural_id_cmp`.  A quiz id   *)
(* `<atom>.q<n>` is the pair <<atom, n>>.                                  *)
(***************************************************************************)
EXTENDS Domain, SequencesExt, FiniteSetsExt

CONSTANTS
    Id,             \* concept ids, numbers in natural order
    Segments,       \* Segments[id]: the dotted segments of the id; one after
                    \* the first that is no positive integer is below 1
    MaxQuiz,        \* bound: quizzes are numbered 1..MaxQuiz on each atom
    Difficulties,   \* the DIFFICULTIES array, a sequence from easy to hard
    NoQuiz          \* no such quiz, or no overlay row for a quiz id

QuizId == Id \X (1 .. MaxQuiz)
Difficulty == ToSet(Difficulties)

ASSUME CurriculumAssumption ==
    /\ Id \subseteq Nat
    /\ MaxQuiz \in 1 .. 99          \* LexBefore compares up to two digits
    /\ Difficulties \in Seq(Difficulty)
    /\ NoQuiz \notin Difficulty \cup QuizId

(* An id is the string of its segments. *)
ASSUME SegmentsAssumption ==
    /\ Segments \in [Id -> Seq(Int)]
    /\ \A id \in Id : Segments[id] # <<>>
    /\ \A id, other \in Id : Segments[id] = Segments[other] => id = other

(* `atom_from_quiz_id`: the atom is the id up to its last ".q". *)
AtomOf(quiz) == quiz[1]

-----------------------------------------------------------------------------
(* Looking things up. *)

IsAtom(g, id) == id \in g.ids /\ g.children[id] = <<>>
QuizIdsOf(g, id) == {quiz.id : quiz \in ToSet(g.quizzes[id])}

(* What loading the files of a graph yields: prerequisites and children    *)
(* are lists of ids, nesting is that of directories, so in no set does     *)
(* every concept have a child, and a quiz is stored in its own atom.       *)
WellFormed(g) ==
    /\ DOMAIN g = {"ids", "areas", "prereqs", "children", "lesson", "quizzes"}
    /\ g.ids \subseteq Id /\ IsFiniteSet(g.ids) /\ g.areas \subseteq g.ids
    /\ \A id \in g.ids : g.prereqs[id] \in Seq(Id) /\ g.children[id] \in Seq(Id)
    /\ \A S \in SUBSET g.ids : S # {} => \E id \in S : ToSet(g.children[id]) \cap S = {}
    /\ \A id \in g.ids : g.quizzes[id] \in Seq([id : {id} \X (1 .. MaxQuiz), difficulty : Difficulty])

(* Ids that spell the nesting out: each concept starts with the one segment*)
(* of an area, and what is in a cluster adds one segment to its id.        *)
IdsNest(g) ==
    /\ \A area \in g.areas : Len(Segments[area]) = 1
    /\ \A c \in g.ids \ g.areas :
          /\ \E area \in g.areas : Segments[area] = <<Head(Segments[c])>>
          /\ \A d \in ToSet(g.children[c]) : Front(Segments[d]) = Segments[c]

(* A quiz id that resolves in the graph. *)
Live(g, quiz) == AtomOf(quiz) \in g.ids /\ quiz \in QuizIdsOf(g, AtomOf(quiz))

(* Mutant: the newest quiz of a difficulty takes over its slot. *)
SlotOfNewest(g, id, difficulty) ==
    LET quizzes == g.quizzes[id]
        holders == {i \in DOMAIN quizzes : quizzes[i].difficulty = difficulty}
    IN  IF holders = {} THEN NoQuiz ELSE quizzes[Max(holders)].id

(* The quiz that holds a difficulty slot: the first one of its difficulty. *)
SlotOf(g, id, difficulty) ==
    LET quizzes == g.quizzes[id]
        holders == {i \in DOMAIN quizzes : quizzes[i].difficulty = difficulty}
    IN  IF holders = {} THEN NoQuiz ELSE quizzes[Min(holders)].id

-----------------------------------------------------------------------------
(* Merging the user's overlay into the shipped graph. *)

(* The entries of s that are in S, in order. *)
Only(s, S) ==
    LET out[n \in 0 .. Len(s)] ==
          IF n = 0 THEN <<>>
          ELSE IF s[n] \in S THEN Append(out[n - 1], s[n]) ELSE out[n - 1]
    IN  out[Len(s)]

(* Decimal strings in SQLite's text order: "10" comes before "9". *)
LexBefore(m, n) ==
    IF m < 10 /\ n >= 10 THEN m <= n \div 10
    ELSE IF m >= 10 /\ n < 10 THEN m \div 10 < n
    ELSE m < n

(* overlay[quiz] is the difficulty of the overlay row of that quiz id, or  *)
(* NoQuiz.  Rows of shipped quizzes amend them in place, the others follow *)
(* in text order of their ids, and tombstones beat both.                   *)
WithOverlay(g, lessons, overlay, removed) ==
    LET amend(quiz) == IF overlay[quiz.id] = NoQuiz THEN quiz
                       ELSE [quiz EXCEPT !.difficulty = overlay[quiz.id]]
        shipped(id) == [i \in DOMAIN g.quizzes[id] |-> amend(g.quizzes[id][i])]
        rows(id) == {quiz \in QuizId : /\ AtomOf(quiz) = id
                                       /\ overlay[quiz] # NoQuiz
                                       /\ quiz \notin QuizIdsOf(g, id)}
        authored(id) ==
          LET new == rows(id)
              inOrder == CHOOSE list \in [1 .. Cardinality(new) -> new] :
                            \A i, j \in DOMAIN list :
                               i < j => LexBefore(list[i][2], list[j][2])
          IN  [i \in DOMAIN inOrder |-> [id |-> inOrder[i], difficulty |-> overlay[inOrder[i]]]]
        present == [id : QuizId \ removed, difficulty : Difficulty]
    IN  [g EXCEPT
           !.lesson = @ \cup (lessons \cap g.ids),
           !.quizzes = [id \in g.ids |-> Only(shipped(id) \o authored(id), present)]]

-----------------------------------------------------------------------------
(* From the ids a user names to atoms. *)

(* First occurrences only, in order. *)
Dedup(ids) ==
    LET prefix[n \in 0 .. Len(ids)] ==
          LET out == prefix[n - 1]
          IN  IF n = 0 THEN <<>>
              ELSE IF Contains(out, ids[n]) THEN out ELSE Append(out, ids[n])
    IN  prefix[Len(ids)]

(* The atoms below the concepts, in file order; the child tree is finite. *)
AtomsUnder(g, concepts) ==
    LET under[todo \in Seq(Id)] ==
          IF todo = <<>> THEN <<>>
          ELSE IF Head(todo) \notin g.ids THEN under[Tail(todo)]
          ELSE IF IsAtom(g, Head(todo)) THEN <<Head(todo)>> \o under[Tail(todo)]
          ELSE under[g.children[Head(todo)] \o Tail(todo)]
    IN  under[concepts]

(* Each id adds its atoms not listed yet.  A cluster must add one. *)
ExpandToAtoms(g, ids) ==
    LET listed(n) == Dedup(AtomsUnder(g, SubSeq(ids, 1, n)))
        unknown == {n \in DOMAIN ids : ids[n] \notin g.ids}
        empty == {n \in DOMAIN ids : /\ ids[n] \in g.ids
                                     /\ ~IsAtom(g, ids[n])
                                     /\ listed(n) = listed(n - 1)}
        failed(err) == [err |-> err, atoms |-> <<>>]
    IN  IF unknown \cup empty = {} THEN [err |-> "none", atoms |-> listed(Len(ids))]
        ELSE IF Min(unknown \cup empty) \in unknown THEN failed("unknown_id")
        ELSE failed("empty_cluster")

(* Kahn's algorithm over the atoms' direct prerequisites among themselves; *)
(* the heap always yields the least ready atom.  Shorter on a cycle.       *)
KahnOrder(g, atoms) ==
    LET prereqs(a) == IF a \in g.ids THEN ToSet(g.prereqs[a]) \cap ToSet(atoms) ELSE {}
        order[done \in SUBSET Id] ==
          LET ready == {a \in ToSet(atoms) \ done : prereqs(a) \subseteq done}
          IN  IF ready = {} THEN <<>>
              ELSE <<Min(ready)>> \o order[done \cup {Min(ready)}]
    IN  order[{}]

(* `PathFile::resolve_targets`. *)
ResolveTargets(g, targets) ==
    LET expanded == ExpandToAtoms(g, targets)
        sorted == KahnOrder(g, expanded.atoms)
    IN  IF expanded.err # "none" THEN expanded
        ELSE IF Len(sorted) # Len(expanded.atoms) THEN [err |-> "cycle", atoms |-> <<>>]
        ELSE [err |-> "none", atoms |-> sorted]

-----------------------------------------------------------------------------
(* Walking the graph. *)

(* Mutant: a concept is acted on before its prerequisites. *)
PreOrder(g, roots) ==
    LET walk[todo \in Seq(Id), visited \in SUBSET Id] ==
          LET id == Head(todo)
              first == IF IsAtom(g, id) THEN <<id>> ELSE <<>>
          IN  IF todo = <<>> THEN <<>>
              ELSE IF id \in visited \/ id \notin g.ids
                   THEN walk[Tail(todo), visited \cup {id}]
              ELSE first \o walk[g.prereqs[id] \o g.children[id] \o Tail(todo),
                                 visited \cup {id}]
    IN  walk[roots, {}]

(* The depth-first walk of `next_atom_action` and `collect_untaught`: a    *)
(* concept's prerequisites, then its children, then itself if an atom; one *)
(* visited set is shared by all the roots.  Yields the atoms in order.     *)
PostOrder(g, roots) ==
    LET enter(ids) == [i \in DOMAIN ids |-> <<"enter", ids[i]>>]
        walk[at \in Seq({"enter", "leave"} \X Id) \X SUBSET Id] ==
          LET todo == at[1]
              visited == at[2]
              id == Head(todo)[2]
              leave == IF IsAtom(g, id) THEN <<<<"leave", id>>>> ELSE <<>>
          IN  IF todo = <<>> THEN <<>>
              ELSE IF Head(todo)[1] = "leave" THEN <<id>> \o walk[<<Tail(todo), visited>>]
              ELSE IF id \in visited \/ id \notin g.ids
                   THEN walk[<<Tail(todo), visited \cup {id}>>]
              ELSE walk[<<enter(g.prereqs[id] \o g.children[id]) \o leave \o Tail(todo),
                          visited \cup {id}>>]
    IN  walk[<<enter(roots), {}>>]

(* `reachable_atoms`: the atoms among the roots and everything below them  *)
(* through children and prerequisites.                                     *)
ReachableAtoms(g, roots) ==
    LET below(S) == UNION {ToSet(g.prereqs[id] \o g.children[id]) : id \in S \cap g.ids}
        reach[S \in SUBSET Id] == IF below(S) \subseteq S THEN S ELSE reach[S \cup below(S)]
    IN  {id \in reach[roots] : IsAtom(g, id)}
=============================================================================
