---------------------------- MODULE MCScheduler ----------------------------
(* A small instance of Scheduler for TLC. *)
EXTENDS Scheduler, TLC

CONSTANTS i1, i2, t1

OneTask == (i1 :> t1) @@ (i2 :> t1)

=============================================================================
