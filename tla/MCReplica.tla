------------------------------ MODULE MCReplica ------------------------------
(***************************************************************************)
(* Schemas of two migrations, the second of which widens the paths.        *)
(***************************************************************************)
EXTENDS Replica

MCColumns == [t \in Table |-> [v \in 0 .. Latest |-> IF t = "paths" /\ v > 1 THEN 4 ELSE 3]]
=============================================================================
