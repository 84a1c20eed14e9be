------------------------------ MODULE Playbook ------------------------------
(***************************************************************************)
(* The teaching loop of src/src/instruct.md on top of the tutor's          *)
(* database: one agent per path runs `path next --new`, does what the      *)
(* playbook says for the action it got, and asks again until `done`.       *)
(* Agents of different paths interleave and share the overlay; between     *)
(* the answer of `next` and the command that follows it, anything another  *)
(* agent does may happen, content may be amended or removed, the strategy  *)
(* may be switched, or the session may be broken off and resumed.          *)
(***************************************************************************)
EXTENDS Tutor

CONSTANTS
    Switched,       \* bound: the paths whose strategy is switched
    Amendable,      \* bound: the quizzes that agents amend, and those whose
                    \* atoms have their lesson amended
    Removable,      \* bound: the quizzes that agents remove
    NoReply         \* the agent of this path has nothing to act on

ASSUME PlaybookAssumption ==
    /\ Switched \subseteq Path
    /\ Amendable \subseteq QuizId /\ Removable \subseteq QuizId
    /\ NoReply \notin [kind : {"create_lesson", "present_lesson", "create_quiz",
                               "present_quiz", "done"}]
    /\ {"path new", "path strategy", "lesson upsert", "quiz create", "quiz update",
        "quiz delete", "quiz answer", "next"} \subseteq Commands

VARIABLE reply          \* reply[p]: the action the agent of p acts on

playVars == <<vars, reply>>

PlayInit == Init /\ reply = [p \in Path |-> NoReply]

(* The action the agent of p is acting on is of this kind. *)
ActsOn(p, kind) == reply[p] # NoReply /\ reply[p].kind = kind

Reply(p, action) == reply' = [reply EXCEPT ![p] = action]

(* Steps 1 and 3 of the loop: run `mt path next`. *)
Ask(p) ==
    /\ reply[p] = NoReply
    /\ Resolves(p)
    /\ \E action \in Actions(p, "new") : NextReturns(p, "new", action) /\ Reply(p, action)

(* `create_lesson`: author it, persist it, present it. *)
AuthorLesson(p) ==
    /\ ActsOn(p, "create_lesson")
    /\ LessonUpsert(p, reply[p].atom)
    /\ Reply(p, NoReply)

(* `present_lesson`: show it; `next` has already logged it as taught. *)
ReadLesson(p) ==
    /\ ActsOn(p, "present_lesson")
    /\ Reply(p, NoReply)
    /\ UNCHANGED vars

(* `create_quiz`: persist the quiz before presenting it. *)
AuthorQuiz(p) ==
    /\ ActsOn(p, "create_quiz")
    /\ QuizCreate(p, reply[p].atom, reply[p].difficulty)
    /\ Reply(p, PresentQuiz(<<reply[p].atom, NextQuizNumber(reply[p].atom)>>))

(* `present_quiz`: the user replies, the agent grades and records it. *)
GiveAnswer(p, rating) ==
    /\ ActsOn(p, "present_quiz")
    /\ QuizAnswer(p, reply[p].quiz, rating)
    /\ Reply(p, NoReply)

(* The quiz was deleted since it was presented, and `quiz answer` refuses: *)
(* the agent starts over with `next`.                                      *)
AnswerRefused(p) ==
    /\ ActsOn(p, "present_quiz")
    /\ ~Live(Merged, reply[p].quiz)
    /\ Reply(p, NoReply)
    /\ UNCHANGED vars

(* The session is broken off; the next one starts again with `next`. *)
BreakOff(p) ==
    /\ reply[p] \notin {NoReply, Done}
    /\ Reply(p, NoReply)
    /\ UNCHANGED vars

(* Fixing broken content, at any time.  The agents of all paths see what   *)
(* one of them amends or removes; only the one that removes the quiz it    *)
(* presents knows that it has to ask again.                                *)
AmendLesson(p, a) ==
    /\ a \in Merged.lesson
    /\ LessonUpsert(p, a)
    /\ UNCHANGED reply

AmendQuiz(p, q, difficulty) == QuizUpdate(p, q, difficulty) /\ UNCHANGED reply

RemoveQuiz(p, q) ==
    /\ QuizDelete(p, q)
    /\ Reply(p, IF ActsOn(p, "present_quiz") /\ reply[p].quiz = q THEN NoReply ELSE reply[p])

Start(p, targets, strategy) == PathNew(p, targets, strategy) /\ UNCHANGED reply

Switch(p, strategy) ==
    /\ reply[p] # Done
    /\ PathStrategy(p, strategy)
    /\ UNCHANGED reply

PlayNext ==
    \E p \in Path :
        \/ \E targets \in TargetLists, strategy \in Strategy : Start(p, targets, strategy)
        \/ \E strategy \in Strategy : p \in Switched /\ Switch(p, strategy)
        \/ Ask(p)
        \/ AuthorLesson(p)
        \/ ReadLesson(p)
        \/ AuthorQuiz(p)
        \/ \E rating \in Rating : GiveAnswer(p, rating)
        \/ AnswerRefused(p)
        \/ BreakOff(p)
        \/ \E q \in Amendable : AmendLesson(p, AtomOf(q))
        \/ \E q \in Amendable, difficulty \in Difficulty : AmendQuiz(p, q, difficulty)
        \/ \E q \in Removable : RemoveQuiz(p, q)

(* Fairness is the agent's and the learner's.  It is written out, with the *)
(* guards of the actions above, since ENABLED of `next` is costly to check.*)

(* The agent can go on by itself: ask `next`, show a stored lesson, or     *)
(* start over when an answer is refused.                                   *)
CanGoOn(p) == \/ reply[p] = NoReply /\ Resolves(p)
              \/ ActsOn(p, "present_lesson")
              \/ ActsOn(p, "present_quiz") /\ ~Live(Merged, reply[p].quiz)

GoesOn(p) == CanGoOn(p) /\ reply'[p] # reply[p]

(* The agent can author what is missing, or the learner can answer.        *)
CanAdvance(p) ==
    \/ ActsOn(p, "create_lesson")
    \/ ActsOn(p, "create_quiz") /\ NextQuizNumber(reply[p].atom) <= MaxQuiz
    \/ ActsOn(p, "present_quiz") /\ Live(Merged, reply[p].quiz)

(* It is authored, or it is answered right.                                *)
Advances(p) ==
    \/ ActsOn(p, "create_lesson") /\ <<p, reply[p].atom>> \in taught' \ taught
    \/ ActsOn(p, "create_quiz") /\ reply'[p] \notin {reply[p], NoReply}
    \/ ActsOn(p, "present_quiz") /\ <<p, reply[p].quiz>> \in correct' \ correct

(* Weakly fair: an agent that can go on does not stop for ever.  Strongly  *)
(* fair: of steps authored or answered that come up again and again, not   *)
(* all are broken off or answered wrong.                                   *)
PlayFairness ==
    \A p \in Path :
        /\ []<>~CanGoOn(p) \/ []<><<GoesOn(p)>>_playVars
        /\ <>[]~CanAdvance(p) \/ []<><<Advances(p)>>_playVars

PlaySpec == PlayInit /\ [][PlayNext]_playVars /\ PlayFairness

-----------------------------------------------------------------------------
(* Every path that was started reaches `done`, whatever the other agents   *)
(* author or remove meanwhile, however often its strategy is switched and  *)
(* however often a session breaks off: `next` never repeats a step for     *)
(* ever.  Only so many quizzes are removed, those of Removable.            *)
EveryPathFinishes == \A p \in Path : Exists(p) ~> reply[p] = Done

(* The command that the playbook has for an action is accepted now. *)
Accepted(p, action) ==
    /\ action.kind = "create_lesson" => IsAtom(Merged, action.atom)
    /\ action.kind = "create_quiz" =>
          /\ action.atom \in Merged.lesson
          /\ action.atom \in Taught(p)
          /\ NextQuizNumber(action.atom) <= MaxQuiz =>
                overlay[<<action.atom, NextQuizNumber(action.atom)>>] = NoQuiz
    /\ action.kind = "present_quiz" => Live(Merged, action.quiz)

(* What `next` told an agent can still be done, whatever the agents of     *)
(* other paths authored, answered or amended since.  Only the removal of   *)
(* the very quiz it presents takes a step away, and then asking `next`     *)
(* again succeeds and tells it a step that can be done.                    *)
StepsStayPossible ==
    \A p \in Path :
        reply[p] # NoReply /\ ~Accepted(p, reply[p]) =>
            /\ ActsOn(p, "present_quiz") /\ reply[p].quiz \in removed
            /\ Resolves(p)
            /\ \A action \in Actions(p, "new") : Accepted(p, action)

(* Actions(p, "new")', spelled out as CompleteNext is. *)
NewActionsNext(p) ==
    LET g == WithOverlay(Releases[release'], lessons', overlay', removed')
    IN  NewAction(g, {a \in Id : <<p, a>> \in taught'}, {q \in QuizId : <<p, q>> \in correct'},
                  Route(g, paths'[p].strategy, ResolveTargets(g, paths'[p].targets).atoms,
                        ExpandToAtoms(g, subpath'[p]).atoms))

(* `done` is final: what is authored for another path afterwards, in the   *)
(* shared overlay, does not reopen a path that was told it is done.  What  *)
(* does is to edit or remove a quiz of an atom the path reaches, or a      *)
(* tenth quiz there that takes the slot of an earlier one.                 *)
DoneIsFinal ==
    [][\A p \in Path :
          reply'[p] = Done /\ NewActionsNext(p) # {Done} =>
              \/ reply[p] = Done /\ Actions(p, "new") # {Done}
              \/ \E a \in ReachableAtoms(Merged, ToSet(Targets(p).atoms)) : Reopens(a)]_playVars
=============================================================================
