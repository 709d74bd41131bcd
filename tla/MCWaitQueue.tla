---------------------------- MODULE MCWaitQueue ----------------------------
(* Model of WaitQueue: the cfg names four tasks and two queues.            *)
EXTENDS WaitQueue
=============================================================================
