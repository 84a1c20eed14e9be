-------------------------------- MODULE Tutor --------------------------------
(***************************************************************************)
(* The whole database of one learner and the commands that read and write  *)
(* it: paths, strategy, subpath, the user's overlay, what each path has    *)
(* been taught, and the review cards (Review).  One action per command of  *)
(* the CLI and the MCP server; each command is one SQLite transaction,     *)
(* except `path subpath set`, which validates outside of its transaction   *)
(* and so is two actions.  A command that fails leaves the database alone  *)
(* and is not an action.                                                   *)
(*                                                                         *)
(* Of the event log only what decides something is kept: `taught` from its *)
(* lesson events and, through Review, the cards from its answers.          *)
(***************************************************************************)
EXTENDS Reports, Review

CONSTANTS
    Releases,       \* the shipped graph of each release, a sequence
    TargetLists,    \* bound: the target lists a user may ask for
    SubpathLists,   \* bound: the subpaths an agent may compose
    Commands,       \* bound: the commands an instance explores
    NoPath,         \* a path id not in use
    NoRequest       \* no `path subpath set` between its check and its write

ASSUME TutorAssumption ==
    /\ Quiz = QuizId
    /\ NoDue \notin Nat
    /\ NoPath \notin [targets : Seq(Id), strategy : Strategy]
    /\ Releases \in Seq(ToSet(Releases)) /\ Releases # <<>>
    /\ \A r \in DOMAIN Releases : WellFormed(Releases[r])
    /\ TargetLists \subseteq Seq(Id) /\ SubpathLists \subseteq Seq(Id)

VARIABLES
    paths,      \* paths[p]: its targets as given and its strategy
    subpath,    \* subpath[p]: the stored subpath, <<>> when none is set
    setting,    \* the `path subpath set` that has validated, not stored
    taught,     \* <<p, a>>: a lesson_taught or lesson_authored event of a on p
    lessons,    \* overlay_lessons: atoms with an overlay lesson
    overlay,    \* overlay_quizzes: difficulty by quiz id
    removed,    \* overlay_removed_quizzes: the tombstones
    release     \* the installed release

storeVars == <<paths, subpath, setting, taught, lessons, overlay, removed, release>>
vars == <<storeVars, reviewVars>>

TypeOK ==
    /\ ReviewTypeOK
    /\ paths \in [Path -> {NoPath} \cup [targets : Seq(Id), strategy : Strategy]]
    /\ subpath \in [Path -> Seq(Id)]
    /\ setting \in {NoRequest} \cup [path : Path, atoms : Seq(Id)]
    /\ taught \subseteq Path \X Id
    /\ lessons \subseteq Id
    /\ overlay \in [QuizId -> Difficulty \cup {NoQuiz}]
    /\ removed \subseteq QuizId
    /\ release \in DOMAIN Releases

-----------------------------------------------------------------------------
(* What the commands see. *)

(* `Graph::load_for_path`: the installed graph under the user's overlay. *)
Merged == WithOverlay(Releases[release], lessons, overlay, removed)

(* `PathProgress::load`. *)
Taught(p) == {a \in Id : <<p, a>> \in taught}
Correct(p) == {q \in QuizId : <<p, q>> \in correct}

Exists(p) == paths[p] # NoPath
Targets(p) == ResolveTargets(Merged, paths[p].targets)

(* `subpath::load_resolved`, whatever the strategy. *)
Subpath(p) == ExpandToAtoms(Merged, subpath[p])

(* `next` fails when the targets or the stored subpath no longer resolve. *)
Resolves(p) == Exists(p) /\ Targets(p).err = "none" /\ Subpath(p).err = "none"

RouteOf(p) == Route(Merged, paths[p].strategy, Targets(p).atoms, Subpath(p).atoms)

(* What `next` may return for path p now. *)
Actions(p, mode) ==
    NextActions(Merged, Taught(p), Correct(p), RouteOf(p), DueCards(p, now),
                [q \in QuizId |-> due[<<p, q>>]], mode)

(* `path syllabus` for path p now. *)
Roadmap(p) ==
    Upcoming(Merged, Taught(p), paths[p].strategy, Targets(p).atoms, Subpath(p).atoms)

Complete(p, a) == AtomComplete(Merged, Correct(p), a)

(* The numbers of `path state`. *)
Summary(p) == Counters(Merged, Taught(p), Correct(p), Targets(p).atoms)

(* Mutant: tombstones are not counted. *)
NextLiveNumber(a) == Max({0} \cup {q[2] : q \in QuizIdsOf(Merged, a)}) + 1

(* `next_quiz_id`: one past the highest number live or tombstoned. *)
NextQuizNumber(a) ==
    Max({0} \cup {q[2] : q \in {r \in QuizIdsOf(Merged, a) \cup removed : AtomOf(r) = a}}) + 1

-----------------------------------------------------------------------------
(* Paths. *)

Init ==
    /\ ReviewInit
    /\ paths = [p \in Path |-> NoPath]
    /\ subpath = [p \in Path |-> <<>>]
    /\ setting = NoRequest
    /\ taught = {}
    /\ lessons = {}
    /\ overlay = [q \in QuizId |-> NoQuiz]
    /\ removed = {}
    /\ release = 1

(* Mutant: the strategy is stored in the spelling of the command line. *)
PathNewSpelled(p, targets, strategy) ==
    /\ ~Exists(p)
    /\ ExpandToAtoms(Releases[release], targets).err = "none"
    /\ paths' = [paths EXCEPT ![p] = [targets |-> Dedup(targets),
                    strategy |-> IF strategy = "top_down" THEN "top-down" ELSE strategy]]
    /\ UNCHANGED <<subpath, setting, taught, lessons, overlay, removed, release, reviewVars>>

(* `path new`: validated against the shipped graph, stored as given. *)
PathNew(p, targets, strategy) ==
    /\ ~Exists(p)
    /\ ExpandToAtoms(Releases[release], targets).err = "none"
    /\ paths' = [paths EXCEPT ![p] = [targets |-> Dedup(targets), strategy |-> strategy]]
    /\ UNCHANGED <<subpath, setting, taught, lessons, overlay, removed, release, reviewVars>>

(* `path strategy`: the stored subpath stays. *)
PathStrategy(p, strategy) ==
    /\ Exists(p)
    /\ paths' = [paths EXCEPT ![p].strategy = strategy]
    /\ UNCHANGED <<subpath, setting, taught, lessons, overlay, removed, release, reviewVars>>

(* Mutant: the tail need not be a target. *)
SubpathValidateAnyTail(p, atoms) ==
    /\ setting = NoRequest
    /\ atoms # <<>>
    /\ Exists(p)
    /\ paths[p].strategy = "top_down"
    /\ Targets(p).err = "none"
    /\ Dedup(atoms) = atoms
    /\ \A a \in ToSet(atoms) : IsAtom(Merged, a)
    /\ setting' = [path |-> p, atoms |-> atoms]
    /\ UNCHANGED <<paths, subpath, taught, lessons, overlay, removed, release, reviewVars>>

(* `path subpath set`, the checks, outside of the transaction. *)
SubpathValidate(p, atoms) ==
    /\ setting = NoRequest
    /\ atoms # <<>>
    /\ Exists(p)
    /\ paths[p].strategy = "top_down"
    /\ Targets(p).err = "none"
    /\ Contains(Targets(p).atoms, Last(atoms))
    /\ Dedup(atoms) = atoms
    /\ \A a \in ToSet(atoms) : IsAtom(Merged, a)
    /\ setting' = [path |-> p, atoms |-> atoms]
    /\ UNCHANGED <<paths, subpath, taught, lessons, overlay, removed, release, reviewVars>>

(* `path subpath set`, the write. *)
SubpathStore ==
    /\ setting # NoRequest
    /\ subpath' = [subpath EXCEPT ![setting.path] = setting.atoms]
    /\ setting' = NoRequest
    /\ UNCHANGED <<paths, taught, lessons, overlay, removed, release, reviewVars>>

(* The process of a `path subpath set` dies between the two. *)
SubpathAbandon ==
    /\ setting # NoRequest
    /\ setting' = NoRequest
    /\ UNCHANGED <<paths, subpath, taught, lessons, overlay, removed, release, reviewVars>>

(* `path subpath clear`. *)
SubpathClear(p) ==
    /\ Exists(p)
    /\ subpath' = [subpath EXCEPT ![p] = <<>>]
    /\ UNCHANGED <<paths, setting, taught, lessons, overlay, removed, release, reviewVars>>

-----------------------------------------------------------------------------
(* Authoring. *)

(* Mutant: a lesson that is rewritten is to be presented again elsewhere. *)
LessonUpsertAnew(p, a) ==
    /\ Exists(p)
    /\ IsAtom(Merged, a)
    /\ lessons' = lessons \cup {a}
    /\ taught' = {<<p, a>>} \cup {t \in taught : t[2] # a}
    /\ UNCHANGED <<paths, subpath, setting, overlay, removed, release, reviewVars>>

(* `lesson upsert`: storing implies presenting, so the atom is taught. *)
LessonUpsert(p, a) ==
    /\ Exists(p)
    /\ IsAtom(Merged, a)
    /\ lessons' = lessons \cup {a}
    /\ taught' = taught \cup {<<p, a>>}
    /\ UNCHANGED <<paths, subpath, setting, overlay, removed, release, reviewVars>>

(* `quiz create`: a plain INSERT, which fails if the id has a row. *)
QuizCreate(p, a, difficulty) ==
    /\ Exists(p)
    /\ IsAtom(Merged, a)
    /\ a \in Merged.lesson
    /\ NextQuizNumber(a) <= MaxQuiz
    /\ overlay[<<a, NextQuizNumber(a)>>] = NoQuiz
    /\ overlay' = [overlay EXCEPT ![<<a, NextQuizNumber(a)>>] = difficulty]
    /\ UNCHANGED <<paths, subpath, setting, taught, lessons, removed, release, reviewVars>>

(* `quiz update`: difficulty may be its own; any tombstone goes. *)
QuizUpdate(p, q, difficulty) ==
    /\ Exists(p)
    /\ Live(Merged, q)
    /\ overlay' = [overlay EXCEPT ![q] = difficulty]
    /\ removed' = removed \ {q}
    /\ UNCHANGED <<paths, subpath, setting, taught, lessons, release, reviewVars>>

(* `quiz delete`: the overlay row, if any, survives. *)
QuizDelete(p, q) ==
    /\ Exists(p)
    /\ Live(Merged, q)
    /\ removed' = removed \cup {q}
    /\ UNCHANGED <<paths, subpath, setting, taught, lessons, overlay, release, reviewVars>>

-----------------------------------------------------------------------------
(* Learning. *)

(* `quiz answer`: any quiz of the merged graph, presented or not. *)
QuizAnswer(p, q, rating) ==
    /\ Exists(p)
    /\ Live(Merged, q)
    /\ Answer(p, q, rating)
    /\ UNCHANGED storeVars

(* The auto-clear of `next`: every atom of a top-down subpath is complete. *)
Drained(p) ==
    /\ paths[p].strategy = "top_down"
    /\ Subpath(p).atoms # <<>>
    /\ \A a \in ToSet(Subpath(p).atoms) : Complete(p, a)

(* Mutant: a presented lesson is not logged. *)
NextReturnsUnlogged(p, mode, action) ==
    /\ Resolves(p)
    /\ action \in Actions(p, mode)
    /\ subpath' = IF Drained(p) THEN [subpath EXCEPT ![p] = <<>>] ELSE subpath
    /\ UNCHANGED <<paths, setting, taught, lessons, overlay, removed, release, reviewVars>>

(* `path next`: logs a lesson it presents as taught, and clears a subpath. *)
NextReturns(p, mode, action) ==
    /\ Resolves(p)
    /\ action \in Actions(p, mode)
    /\ taught' = taught \cup
          (IF action.kind = "present_lesson" THEN {<<p, action.atom>>} ELSE {})
    /\ subpath' = IF Drained(p) THEN [subpath EXCEPT ![p] = <<>>] ELSE subpath
    /\ UNCHANGED <<paths, setting, lessons, overlay, removed, release, reviewVars>>

NextStep(p, mode) ==
    /\ Resolves(p)
    /\ \E action \in Actions(p, mode) : NextReturns(p, mode, action)

-----------------------------------------------------------------------------
(* The environment. *)

(* A new binary is installed; the database stays. *)
Upgrade ==
    /\ release < Len(Releases)
    /\ release' = release + 1
    /\ UNCHANGED <<paths, subpath, setting, taught, lessons, overlay, removed, reviewVars>>

Tick == Clock /\ UNCHANGED storeVars

(* A command the instance explores. *)
On(command) == command \in Commands

Next ==
    \/ \E p \in Path, targets \in TargetLists, strategy \in Strategy :
          On("path new") /\ PathNew(p, targets, strategy)
    \/ \E p \in Path, strategy \in Strategy :
          On("path strategy") /\ PathStrategy(p, strategy)
    \/ \E p \in Path, atoms \in SubpathLists :
          On("subpath set") /\ SubpathValidate(p, atoms)
    \/ SubpathStore
    \/ SubpathAbandon
    \/ \E p \in Path : On("subpath clear") /\ SubpathClear(p)
    \/ \E p \in Path, a \in Id : On("lesson upsert") /\ LessonUpsert(p, a)
    \/ \E p \in Path, a \in Id, difficulty \in Difficulty :
          On("quiz create") /\ QuizCreate(p, a, difficulty)
    \/ \E p \in Path, q \in QuizId, difficulty \in Difficulty :
          On("quiz update") /\ QuizUpdate(p, q, difficulty)
    \/ \E p \in Path, q \in QuizId : On("quiz delete") /\ QuizDelete(p, q)
    \/ \E p \in Path, q \in QuizId, rating \in Rating :
          On("quiz answer") /\ QuizAnswer(p, q, rating)
    \/ \E p \in Path, mode \in Mode : On("next") /\ NextStep(p, mode)
    \/ Upgrade
    \/ Tick

Spec == Init /\ [][Next]_vars
-----------------------------------------------------------------------------
(* Invariants.  They quantify over what `next` would return in the present *)
(* state, so they hold of every call of `next` at any time.                *)

(* Bottom-up never reaches an atom before its foundations: everything      *)
(* below the atom of a new step, through any chain of prerequisites and    *)
(* clusters, has been taught on the path and is complete.                  *)
FoundationsFirst ==
    \A p \in Path :
        Resolves(p) /\ paths[p].strategy = "bottom_up" =>
            \A action \in Actions(p, "new") \ {Done} :
                \A a \in ReachableAtoms(Merged, ToSet(Merged.prereqs[action.atom])) :
                    a # action.atom => Complete(p, a) /\ a \in Taught(p)

(* `done` is said when and only when there is nothing left to learn, in    *)
(* the words of `path state`: bottom-up, every reachable atom was taught   *)
(* and is learned; top-down, every target is, and `done` with less than    *)
(* 100 % is never said, but of an empty list of targets, which counts as   *)
(* 0 %.  The reports find the atoms by another algorithm,                  *)
(* `reachable_atoms`, than the walk `next` goes.                           *)
DoneMeansLearned ==
    \A p \in Path :
        Resolves(p) =>
            LET s == Summary(p)
            IN  /\ paths[p].strategy = "bottom_up" =>
                      (Done \in Actions(p, "new") <=>
                          s.taught = s.reachable /\ s.finished = s.reachable)
                /\ Done \in Actions(p, "new") =>
                      /\ s.total > 0 => s.percent = 100
                      /\ ToSet(Targets(p).atoms) \subseteq Taught(p)

(* Some concept of two segments, where drawing begins, has the atom below. *)
Placed(a) == \E c \in Merged.ids : /\ Len(Segments[c]) = 2
                                   /\ Contains(AtomsUnder(Merged, <<c>>), a)

(* The tree shows where a path stands.  It is drawn by cutting ids, and    *)
(* the path is walked by nesting: of the atoms the path reaches those are  *)
(* drawn that lie below a concept of two segments, and if they all do,     *)
(* nothing else is.  The step marked NEXT on a bottom-up path is a due     *)
(* review, of whatever atom, or on an atom that the path reaches and whose *)
(* badge has something missing.                                            *)
TreeMarksNext ==
    \A p \in Path :
        Resolves(p) =>
            LET reach == ReachableAtoms(Merged, ToSet(Targets(p).atoms))
                drawn == {id \in Drawn(Merged, Targets(p).atoms) : IsAtom(Merged, id)}
            IN  /\ \A a \in reach : a \in drawn <=> Placed(a)
                /\ (\A a \in reach : Placed(a)) => drawn = reach
                /\ paths[p].strategy = "bottom_up" =>
                      \A action \in Actions(p, "default") \ {Done} :
                          \/ action.kind = "present_quiz" /\ action.quiz \in DueCards(p, now)
                          \/ /\ action.atom \in reach
                             /\ LET badge == Badge(Merged, Taught(p), Correct(p), action.atom)
                                IN  ~badge.lesson \/ \E i \in DOMAIN badge.slots : badge.slots[i] # "correct"

(* A detour is seen through: while an atom of the stored subpath is not    *)
(* complete, no new step of a top-down path is on another atom, and the    *)
(* path is not done; a subpath that `next` cleared had none.               *)
DetourFirst ==
    \A p \in Path :
        Resolves(p) /\ paths[p].strategy = "top_down" =>
            LET open == {a \in ToSet(Subpath(p).atoms) : ~Complete(p, a)}
            IN  open # {} =>
                  /\ ~Drained(p)
                  /\ \A action \in Actions(p, "new") :
                        action # Done /\ action.atom \in ToSet(Subpath(p).atoms)

(* The syllabus keeps its word: the next lesson `next` asks for is the one *)
(* the syllabus lists first, and a path that is done has none left.  The   *)
(* two go through the graph each by its own code, and only the syllabus    *)
(* goes through all of it.                                                 *)
SyllabusPredictsTeaching ==
    \A p \in Path :
        Resolves(p) =>
            \A action \in Actions(p, "new") :
                IF action = Done THEN Roadmap(p) = <<>>
                ELSE action.atom \notin Taught(p)
                       => Roadmap(p) # <<>> /\ Head(Roadmap(p)) = action.atom

(* A quiz `next` presents, due or new, is one `quiz answer` will accept:   *)
(* neither deleted nor dropped by a release, although its card remains.    *)
PresentedIsLive ==
    \A p \in Path, mode \in Mode :
        Resolves(p) =>
            \A action \in Actions(p, mode) :
                action.kind = "present_quiz" => Live(Merged, action.quiz)

(* While a quiz that still exists is due, `next` presents one of those due *)
(* first: deleted quizzes and their orphaned cards never hide it.          *)
DueIsServed ==
    \A p \in Path :
        LET waiting == {q \in DueCards(p, now) : Live(Merged, q)}
        IN  Resolves(p) /\ waiting # {} =>
                \A action \in Actions(p, "default") :
                    /\ action.kind = "present_quiz"
                    /\ action.quiz \in waiting
                    /\ \A q \in waiting : due[<<p, action.quiz>>] <= due[<<p, q>>]

(* The id the next `quiz create` assigns is new: no overlay row holds it,  *)
(* so the INSERT succeeds, and no path has a card of an earlier quiz of    *)
(* that id, so no history is conflated.                                    *)
FreshIds ==
    \A a \in Id :
        IsAtom(Merged, a) /\ NextQuizNumber(a) <= MaxQuiz =>
            LET fresh == <<a, NextQuizNumber(a)>>
            IN  /\ overlay[fresh] = NoQuiz
                /\ \A p \in Path : due[<<p, fresh>>] = NoDue

(* A stored subpath is a route to a target: distinct atoms of the graph,   *)
(* the last of them a target, although it was checked before the write.    *)
SubpathLeadsToTarget ==
    \A p \in Path :
        subpath[p] # <<>> =>
            /\ Exists(p)
            /\ Last(subpath[p]) \in ToSet(Targets(p).atoms)
            /\ Subpath(p).atoms = subpath[p]

-----------------------------------------------------------------------------
(* Action properties. *)

(* Complete(p, a)', spelled out: TLC evaluates that one far more slowly.   *)
CompleteNext(p, a) ==
    AtomComplete(WithOverlay(Releases[release'], lessons', overlay', removed'),
                 {q \in QuizId : <<p, q>> \in correct'}, a)

(* What can take the completion of an atom back: one of its quizzes is     *)
(* edited or deleted, or a new one goes before an authored one of its      *)
(* difficulty, for ids are merged in text order and "q10" precedes "q9".   *)
Reopens(a) ==
    \E q \in QuizIdsOf(Merged, a) :
        \/ q \in removed' \/ overlay'[q] # overlay[q]
        \/ /\ q \notin QuizIdsOf(Releases[release], a)
           /\ \E n \in q[2] + 1 .. MaxQuiz :
                 /\ LexBefore(n, q[2])
                 /\ overlay[<<a, n>>] = NoQuiz /\ overlay'[<<a, n>>] = overlay[q]

(* Learning is not undone: an atom complete on a path stays complete until *)
(* a step of the kinds above, or a release replaces the graph.  No answer, *)
(* lesson or other atom can take it back, and no new quiz but one whose id *)
(* comes before that of an earlier one.                                    *)
CompletionKept ==
    [][\A p \in Path, a \in Id :
          Complete(p, a) /\ ~CompleteNext(p, a) => release' # release \/ Reopens(a)]_vars
-----------------------------------------------------------------------------
(* What a comment of the repository says of the program, and the program   *)
(* does not do.                                                            *)

(* `is_atom_complete` guarantees a logged correct answer for every quiz    *)
(* (comment in most_recent_completed_target): the report looks up the      *)
(* first right answer of every quiz of a complete target, and panics on    *)
(* one that has none.                                                      *)
CompleteMeansAllAnswered ==
    \A p \in Path :
        Exists(p) /\ Targets(p).err = "none" =>
            \A a \in ToSet(Targets(p).atoms) :
                Complete(p, a) => QuizIdsOf(Merged, a) \subseteq Correct(p)
=============================================================================
