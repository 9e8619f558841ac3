---------------------------- MODULE MCScheduler ----------------------------
(***************************************************************************)
(* Instances of Scheduler for model checking.                              *)
(***************************************************************************)
EXTENDS Scheduler
=============================================================================
