------------------------ MODULE MCCommandContainment ------------------------
(* Small instances of CommandContainment for TLC.                          *)
EXTENDS CommandContainment, TLC

CONSTANTS r1, r2, u1, u2, none

\* Unit names are interchangeable.
UnitSymmetry == Permutations(Units)
=============================================================================
