------------------------- MODULE MCExecutionManager -------------------------
(* Small instances of ExecutionManager for TLC.                            *)
EXTENDS ExecutionManager

CONSTANTS r1, a1, none
=============================================================================
