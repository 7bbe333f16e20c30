--------------------------- MODULE MCPublication ----------------------------
(* Small instances of Publication for TLC.                                 *)
EXTENDS Publication

CONSTANTS r1, r2, f, a1, a2, c1, none

(* r1 is older than r2, and an administrator may have added another build  *)
(* of r1's version.                                                        *)
Upgrade == [p \in Packages |-> IF p = r2 THEN 2 ELSE 1]
=============================================================================
