----------------------------- MODULE MCPlaybook -----------------------------
(***************************************************************************)
(* Two agents, and curricula with something still to be authored.          *)
(***************************************************************************)
EXTENDS Playbook

MCQuiz == QuizId
EasyOnly == <<"easy">>
EasyMedium == <<"easy", "medium">>

OneSegments == <<<<1, 1>>>>
TwoSegments == <<<<1, 1>>, <<1, 2>>>>

(* One atom with neither lesson nor quiz. *)
Blank ==
    [ids |-> {1}, areas |-> {}, prereqs |-> <<<<>>>>, children |-> <<<<>>>>, lesson |-> {},
     quizzes |-> <<<<>>>>]
BlankReleases == <<Blank>>
BlankTargets == {<<1>>}

(* Atom 1, which has a quiz but no lesson, needs atom 2, which ships       *)
(* complete.  The quizzes authored for atom 1 are its ninth and its tenth. *)
Backward ==
    [ids |-> {1, 2}, areas |-> {}, prereqs |-> <<<<2>>, <<>>>>, children |-> <<<<>>, <<>>>>,
     lesson |-> {2},
     quizzes |-> <<<<[id |-> <<1, 8>>, difficulty |-> "easy"]>>,
                   <<[id |-> <<2, 1>>, difficulty |-> "easy"]>>>>]
BackwardAmendable == {<<1, 9>>}
BackwardRemovable == {<<1, 8>>}
BackwardReleases == <<Backward>>
BackwardTargets == {<<1>>}
=============================================================================
