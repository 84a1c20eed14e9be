------------------------------- MODULE Review -------------------------------
(***************************************************************************)
(* What the review schedule promises the rest of the tutor, without FSRS   *)
(* and without the event log: a quiz once answered correctly on a path     *)
(* stays correct, an answer always pushes the due date of its own card,    *)
(* and of no other, past the moment of the answer.  CardCache implements   *)
(* it; Tutor is built on it.                                               *)
(***************************************************************************)
EXTENDS Domain

CONSTANTS
    Path,       \* path ids
    Quiz,       \* quiz ids
    Time,       \* instants the wall clock may show, in ticks of one minute
    Interval,   \* lengths FSRS may schedule, in ticks
    NoDue       \* "this quiz has no card yet"

ASSUME ReviewAssumption ==
    /\ Time \subseteq Nat
    /\ Interval \subseteq Nat \ {0}
    /\ NoDue \notin Nat

VARIABLES
    due,        \* due[<<p, q>>]: when the card of q on path p is due
    correct,    \* pairs <<p, q>> answered other than "again" at least once
    now         \* the wall clock

reviewVars == <<due, correct, now>>

ReviewTypeOK ==
    /\ due \in [Path \X Quiz -> Nat \cup {NoDue}]
    /\ correct \subseteq Path \X Quiz
    /\ now \in Time

(* The cards of path p that are due at instant t. *)
DueCards(p, t) == {q \in Quiz : due[<<p, q>>] # NoDue /\ due[<<p, q>>] <= t}

ReviewInit ==
    /\ due = [c \in Path \X Quiz |-> NoDue]
    /\ correct = {}
    /\ now \in Time

(* One answer: FSRS chooses the interval, the grade decides correctness. *)
Answer(p, q, rating) ==
    /\ \E interval \in Interval : due' = [due EXCEPT ![<<p, q>>] = now + interval]
    /\ correct' = correct \cup (IF IsCorrect(rating) THEN {<<p, q>>} ELSE {})
    /\ UNCHANGED now

(* The clock of the machine that runs the next command; it may be behind. *)
Clock ==
    /\ now' \in Time
    /\ UNCHANGED <<due, correct>>

ReviewNext ==
    \/ \E p \in Path, q \in Quiz, rating \in Rating : Answer(p, q, rating)
    \/ Clock

ReviewSpec == ReviewInit /\ [][ReviewNext]_reviewVars
=============================================================================
