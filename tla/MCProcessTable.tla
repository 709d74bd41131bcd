--------------------------- MODULE MCProcessTable ---------------------------
(* Model of ProcessTable.  Pids go round after MaxPid.                     *)
EXTENDS ProcessTable

MCWaitArgs == {-1}
MCKillArgs == {3}
MCKillGroup == {-2}
MCGroupArgs == {<<3, 2>>}
MCMasks == {Signals}
=============================================================================
