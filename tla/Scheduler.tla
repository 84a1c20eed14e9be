------------------------------ MODULE Scheduler ------------------------------
(***************************************************************************)
(* The pure decision of `mt path next` (src/src/scheduler.rs) and the      *)
(* syllabus that predicts it (src/src/syllabus.rs).  `taught` and          *)
(* `correct` are one path's progress: the atoms taught and the quizzes     *)
(* answered correctly on it.                                               *)
(***************************************************************************)
EXTENDS Curriculum

(* What `next` may tell the agent to do. *)
CreateLesson(a)  == [kind |-> "create_lesson", atom |-> a]
PresentLesson(a) == [kind |-> "present_lesson", atom |-> a]
CreateQuiz(a, d) == [kind |-> "create_quiz", atom |-> a, difficulty |-> d]
PresentQuiz(q)   == [kind |-> "present_quiz", atom |-> AtomOf(q), quiz |-> q]
Done             == [kind |-> "done"]

-----------------------------------------------------------------------------
(* One atom. *)

(* The difficulty slots, easy first, still empty or not yet answered. *)
OpenSlots(g, correct, a) ==
    {i \in DOMAIN Difficulties : SlotOf(g, a, Difficulties[i]) \notin correct}

(* `is_atom_complete`.  Whether the lesson was taught is not asked. *)
AtomComplete(g, correct, a) ==
    a \in g.ids /\ a \in g.lesson /\ OpenSlots(g, correct, a) = {}

(* Mutant: quizzes are reached without the lesson having been presented. *)
AtomActionUntaught(g, taught, correct, a) ==
    LET d == Difficulties[Min(OpenSlots(g, correct, a))]
    IN  IF a \notin g.ids THEN {}
        ELSE IF a \notin g.lesson THEN {CreateLesson(a)}
        ELSE IF OpenSlots(g, correct, a) = {} THEN {}
        ELSE IF SlotOf(g, a, d) = NoQuiz THEN {CreateQuiz(a, d)}
        ELSE {PresentQuiz(SlotOf(g, a, d))}

(* `atom_action`: the set of the one next step on an atom, or empty. *)
AtomAction(g, taught, correct, a) ==
    LET d == Difficulties[Min(OpenSlots(g, correct, a))]
    IN  IF a \notin g.ids THEN {}
        ELSE IF a \notin g.lesson THEN {CreateLesson(a)}
        ELSE IF a \notin taught THEN {PresentLesson(a)}
        ELSE IF OpenSlots(g, correct, a) = {} THEN {}
        ELSE IF SlotOf(g, a, d) = NoQuiz THEN {CreateQuiz(a, d)}
        ELSE {PresentQuiz(SlotOf(g, a, d))}

-----------------------------------------------------------------------------
(* New material. *)

(* Mutant: the subpath comes after the targets it leads to. *)
RouteTargetsFirst(g, strategy, targets, subpath) ==
    IF strategy = "bottom_up" THEN PostOrder(g, targets) ELSE targets \o subpath

(* The atoms a strategy goes through, in order. *)
Route(g, strategy, targets, subpath) ==
    IF strategy = "bottom_up" THEN PostOrder(g, targets) ELSE subpath \o targets

(* The step on the first atom of the route that has one. *)
NewAction(g, taught, correct, route) ==
    LET open == {i \in DOMAIN route : AtomAction(g, taught, correct, route[i]) # {}}
    IN  IF open = {} THEN {Done} ELSE AtomAction(g, taught, correct, route[Min(open)])

-----------------------------------------------------------------------------
(* Due cards. *)

(* Mutant: gives up at the first card, whatever became of its quiz. *)
FirstDueOnly(g, cards, due) ==
    LET first == {q \in cards : \A r \in cards : due[q] <= due[r]}
    IN  IF cards = {} THEN {NoQuiz}
        ELSE {IF Live(g, q) THEN q ELSE NoQuiz : q \in first}

(* Mutant: asks for the atom of the card, not for its quiz. *)
FirstDueOfAtom(g, cards, due) ==
    LET first == {q \in cards : \A r \in cards : due[q] <= due[r]}
    IN  IF cards = {} THEN {NoQuiz}
        ELSE {IF AtomOf(q) \in g.ids THEN q ELSE NoQuiz : q \in first}

(* `first_due_card` goes through the due cards by due date, skips quizzes  *)
(* an atom no longer has, and gives up at the first card whose atom left   *)
(* the graph.  Cards due at the same instant come in any order.  The       *)
(* result is a set of quizzes; NoQuiz stands for "none".                   *)
FirstDue(g, cards, due) ==
    LET stops == {q \in cards : Live(g, q) \/ AtomOf(q) \notin g.ids}
        first == {q \in stops : \A r \in stops : due[q] <= due[r]}
    IN  IF stops = {} THEN {NoQuiz}
        ELSE {IF Live(g, q) THEN q ELSE NoQuiz : q \in first}

(* `next_action`: the set of actions `next` may return. *)
NextActions(g, taught, correct, route, cards, due, mode) ==
    LET served == IF mode = "new" THEN {NoQuiz} ELSE FirstDue(g, cards, due)
        onward == IF mode = "due" THEN {Done} ELSE NewAction(g, taught, correct, route)
    IN  {PresentQuiz(q) : q \in served \ {NoQuiz}}
          \cup (IF NoQuiz \in served THEN onward ELSE {})

-----------------------------------------------------------------------------
(* The syllabus: the atoms whose lesson is still to be taught. *)

(* `collect_untaught`: a depth-first walk of its own, like that of         *)
(* `next_atom_action`, but one that goes on to the end.  Yields the atoms  *)
(* not taught in order; one visited set is shared by all the targets.      *)
CollectUntaught(g, taught, targets) ==
    LET enter(ids) == [i \in DOMAIN ids |-> <<"enter", ids[i]>>]
        collect[at \in Seq({"enter", "leave"} \X Id) \X SUBSET Id] ==
          LET todo == at[1]
              visited == at[2]
              id == Head(todo)[2]
              leave == IF IsAtom(g, id) THEN <<<<"leave", id>>>> ELSE <<>>
              out == IF id \in taught THEN <<>> ELSE <<id>>
          IN  IF todo = <<>> THEN <<>>
              ELSE IF Head(todo)[1] = "leave" THEN out \o collect[<<Tail(todo), visited>>]
              ELSE IF id \in visited \/ id \notin g.ids
                   THEN collect[<<Tail(todo), visited \cup {id}>>]
              ELSE collect[<<enter(g.prereqs[id] \o g.children[id]) \o leave \o Tail(todo),
                             visited \cup {id}>>]
    IN  collect[<<enter(targets), {}>>]

(* Mutant: bottom-up in natural order instead of the order of the walk. *)
UpcomingById(g, taught, strategy, targets, subpath) ==
    IF strategy = "bottom_up"
    THEN SetToSortSeq(ReachableAtoms(g, ToSet(targets)) \ taught, <)
    ELSE Only(Dedup(subpath \o targets), {a \in g.ids : IsAtom(g, a) /\ a \notin taught})

(* `upcoming_atoms` and `upcoming_top_down`. *)
Upcoming(g, taught, strategy, targets, subpath) ==
    IF strategy = "bottom_up" THEN CollectUntaught(g, taught, targets)
    ELSE Only(Dedup(subpath \o targets), {a \in g.ids : IsAtom(g, a) /\ a \notin taught})
=============================================================================
