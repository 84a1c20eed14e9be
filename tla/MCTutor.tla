------------------------------- MODULE MCTutor -------------------------------
(***************************************************************************)
(* Small curricula and inputs for the runs of Tutor.                       *)
(***************************************************************************)
EXTENDS Tutor

MCQuiz == QuizId

Shipped(a, n, difficulty) == [id |-> <<a, n>>, difficulty |-> difficulty]

EasyOnly == <<"easy">>
EasyMedium == <<"easy", "medium">>

Atoms(n) == [i \in 1 .. n |-> <<>>]

(* Area 1 holds atom 2 and cluster 3 of atoms 4 and 5; 4 needs 5, which    *)
(* needs 2: natural order and prerequisite order disagree.  Atom 2 is at   *)
(* the top of the area by nesting and, with three segments, not by its id. *)
LadderSegments == <<<<1>>, <<1, 1, 1>>, <<1, 2>>, <<1, 2, 1>>, <<1, 2, 2>>>>
Ladder ==
    [ids |-> 1 .. 5,
     areas |-> {1},
     prereqs |-> <<<<>>, <<>>, <<>>, <<5>>, <<2>>>>,
     children |-> <<<<2, 3>>, <<>>, <<4, 5>>, <<>>, <<>>>>,
     lesson |-> {2},
     quizzes |-> [Atoms(5) EXCEPT ![2] = <<Shipped(2, 1, "easy")>>]]

(* The first release had no atom 5, which 4 came to need: 4 needed nothing. *)
Shorter ==
    [Ladder EXCEPT !.ids = 1 .. 4, !.prereqs[4] = <<>>, !.children[3] = <<4>>]
LadderReleases == <<Shorter, Ladder>>
LadderTargets == {<<4>>, <<3, 2>>}
LadderSubpaths == {<<5, 4>>, <<3, 4>>, <<4, 2>>}

(* The other curricula leave out their area, which only the tree asks for. *)
FlatSegments == <<<<1, 1>>, <<1, 2>>>>
OneSegments == <<<<1, 1>>>>

(* One atom with its lesson and an easy quiz. *)
Single ==
    [ids |-> {1}, areas |-> {}, prereqs |-> Atoms(1), children |-> Atoms(1), lesson |-> {1},
     quizzes |-> <<<<Shipped(1, 1, "easy")>>>>]
SingleReleases == <<Single>>

(* The lesson is still to write, and the quiz is numbered 8: the first to  *)
(* be authored are 9 and 10.                                               *)
Eighth == [Single EXCEPT !.lesson = {}, !.quizzes = <<<<Shipped(1, 8, "easy")>>>>]
EighthReleases == <<Eighth>>

(* The next release withdraws the quiz. *)
Withdrawn == [Single EXCEPT !.quizzes = <<<<>>>>]
WithdrawReleases == <<Single, Withdrawn>>
SingleTargets == {<<1>>}

(* Two atoms, 2 needs 1; a later release no longer has atom 1. *)
Pair ==
    [ids |-> {1, 2}, areas |-> {}, prereqs |-> <<<<>>, <<1>>>>, children |-> Atoms(2), lesson |-> {1, 2},
     quizzes |-> <<<<Shipped(1, 1, "easy")>>, <<Shipped(2, 1, "easy")>>>>]
WithoutFirst == [Pair EXCEPT !.ids = {2}, !.prereqs = Atoms(2), !.lesson = {2}]
PruneReleases == <<Pair, WithoutFirst>>
PairTargets == {<<2>>}
=============================================================================
