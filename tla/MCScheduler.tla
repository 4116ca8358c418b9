---------------------------- MODULE MCScheduler ----------------------------
(* Small instances of Scheduler: declarations are numbered in Compare order. *)
EXTENDS Scheduler

OneSeed == {2}
TwoNodes == {1, 2}
=============================================================================
