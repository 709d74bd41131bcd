---------------------------- MODULE MCScheduler ----------------------------
(* Model of Scheduler: the cfg names the sizes.                            *)
EXTENDS Scheduler
=============================================================================
