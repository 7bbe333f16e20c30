---------------------------- MODULE MCAutomation ----------------------------
(* Small instances of Automation for TLC.                                  *)
EXTENDS Automation

CONSTANTS t1, t2, i1, i2

(* The Recipe with the policy at hand, the same Recipe switched off, and   *)
(* the one with a lower policy.                                            *)
Policy == [d \in Documents |->
             CASE d = "test" -> "test"
               [] d = "validate" -> "build_validate"
               [] OTHER -> "full"]
=============================================================================
