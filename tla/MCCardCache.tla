----------------------------- MODULE MCCardCache -----------------------------
(* A small instance of CardCache: two memory states, one-tick days. *)
EXTENDS CardCache

MCMemory == {"weak", "strong"}
MCInterval == 1 .. 3

(* A stand-in for FSRS: forgetting weakens, a long gap lengthens. *)
MCFsrs(memory, rating, days) ==
    IF rating = "again" THEN [memory |-> "weak", interval |-> 1]
    ELSE IF memory = "strong" /\ days > 0
         THEN [memory |-> "strong", interval |-> 3]
         ELSE [memory |-> IF rating = "hard" THEN "weak" ELSE "strong",
               interval |-> 2]
=============================================================================
