------------------------------ MODULE MCMigrate ------------------------------
(***************************************************************************)
(* Two legacy paths, the second with a log that is not in order of time,   *)
(* as a clock set back leaves it.  The user answers at tick 2.             *)
(***************************************************************************)
EXTENDS Migrate

MCMemory == {"weak", "strong"}
MCInterval == 1 .. 3
MCFsrs(memory, rating, days) ==
    IF rating = "again" THEN [memory |-> "weak", interval |-> 1]
    ELSE IF memory = "strong" /\ days > 0 THEN [memory |-> "strong", interval |-> 3]
    ELSE [memory |-> "strong", interval |-> 2]

Answered(p, ts, rating) ==
    [kind |-> "quiz_answered", path |-> p, quiz |-> "q1", rating |-> rating, ts |-> ts]

MCLegacyDirs ==
    <<[path |-> "p1", targets |-> 1, overlay |-> <<"k1">>,
       log |-> <<Answered("p1", 0, "good"), Answered("p1", 1, "again")>>],
      [path |-> "p2", targets |-> 1, overlay |-> <<"k1", "k2">>,
       log |-> <<Answered("p2", 1, "good"), Answered("p2", 0, "hard")>>]>>
=============================================================================
