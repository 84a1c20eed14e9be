------------------------------- MODULE Domain -------------------------------
(***************************************************************************)
(* The vocabulary every other module shares: grades, difficulties and      *)
(* traversal strategies (src/src/types.rs).  It declares no constant, so   *)
(* it can sit at the root of every EXTENDS chain of the project.           *)
(***************************************************************************)
EXTENDS Integers, Sequences, FiniteSets

(* FSRS grade of one answer. *)
Rating == {"again", "hard", "good", "easy"}

(* Everything but "again" advances the learner; "hard" is a right answer. *)
IsCorrect(rating) == rating # "again"

(* How `path next` walks a path: through prerequisites, or targets only. *)
Strategy == {"bottom_up", "top_down"}

(* Filters of `path next`: both steps, only new material, only due cards. *)
Mode == {"default", "new", "due"}
=============================================================================
