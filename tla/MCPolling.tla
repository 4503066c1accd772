------------------------------ MODULE MCPolling ------------------------------
(* Model checking of Polling: a PID whose command begins with "22" and one  *)
(* without a DID.  Both are of one vehicle profile: the init string is sent *)
(* at the start and after a pause.                                          *)
EXTENDS Polling

CONSTANTS did, plain
MCPidList == <<did, plain>>
MCType == [p \in {did, plain} |-> "PID_SPECIFIC"]
=============================================================================
