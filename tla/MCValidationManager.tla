------------------------- MODULE MCValidationManager ------------------------
(* Small instances of ValidationManager for TLC.                           *)
EXTENDS ValidationManager

CONSTANTS a1, a2, r1, r2, none

OneRun == [a \in Attempts |-> r1]
TwoRuns == [a \in Attempts |-> IF a = a1 THEN r1 ELSE r2]
=============================================================================
