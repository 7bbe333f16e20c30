---------------------- MODULE StorageMaintenanceProofs ----------------------
(***************************************************************************)
(* The freshness of the storage snapshot, for any number of requests and   *)
(* changes of the stored data.                                             *)
(***************************************************************************)
EXTENDS StorageMaintenance, TLAPS

(* Every step keeps the Boolean fields of MaintenanceService Boolean.      *)
LEMMA FlagsStep == FlagsOK /\ [Next]_vars => FlagsOK'
<1> SUFFICES ASSUME FlagsOK, [Next]_vars PROVE FlagsOK'
  OBVIOUS
<1> USE DEF FlagsOK, flagVars, passVars, inventoryVars, historyVars, Work
<1>1. CASE Change
  BY <1>1, Zenon DEF Change
<1>2. CASE Stop
  BY <1>2, Zenon DEF Stop
<1>3. CASE Start
  BY <1>3, Zenon DEF Start
<1>4. CASE BecomeDue
  BY <1>4, Zenon DEF BecomeDue
<1>5. CASE Exit
  BY <1>5, Zenon DEF Exit
<1>6. CASE Wake
  <2>1. work' \in [refresh : BOOLEAN, cleanup : BOOLEAN]
    <3>1. CASE work' = Work(refreshRequested, cleanupRequested)
      BY <3>1, Zenon
    <3>2. CASE work' = Work(TRUE, TRUE)
      BY <3>2, Zenon
    <3> QED
      BY <1>6, <3>1, <3>2, Zenon DEF Wake
  <2>2. /\ refreshRequested' = FALSE /\ cleanupRequested' = FALSE
        /\ passActive' = TRUE /\ acceptFollowup' = TRUE
        /\ UNCHANGED <<stopRequested, due, collecting, owed>>
    BY <1>6, Zenon DEF Wake
  <2> QED
    BY <2>1, <2>2, Zenon
<1>7. CASE BeginCleanup
  BY <1>7, Zenon DEF BeginCleanup
<1>8. CASE EndCleanup
  BY <1>8, Zenon DEF EndCleanup
<1>9. CASE BeginCollect
  BY <1>9, Zenon DEF BeginCollect
<1>10. CASE Scan
  BY <1>10, Zenon DEF Scan
<1>11. CASE FollowUp
  BY <1>11, Zenon DEF FollowUp, NextRound
<1>12. CASE MeasureAgain
  BY <1>12, Zenon DEF MeasureAgain, NextRound
<1>13. CASE EndPass
  BY <1>13, Zenon DEF EndPass, NextRound
<1>14. ASSUME NEW cleanup \in BOOLEAN, Request(cleanup) PROVE FlagsOK'
  BY <1>14, Zenon DEF Request
<1>15. ASSUME NEW ok \in BOOLEAN, EndCollect(ok) PROVE FlagsOK'
  BY <1>15, Zenon DEF EndCollect
<1>16. CASE UNCHANGED vars
  BY <1>16 DEF vars
<1> QED
  BY <1>1, <1>2, <1>3, <1>4, <1>5, <1>6, <1>7, <1>8, <1>9, <1>10, <1>11,
     <1>12, <1>13, <1>14, <1>15, <1>16 DEF Next, Worker, Terminated

(* The types of all variables, revisions and changes never ahead of their  *)
(* sources: MaintenanceService and StorageInventory for all bounds.        *)
THEOREM TypeCorrect == Spec => []TypeOK
<1>1. ASSUME Init PROVE TypeOK
  <2>1. /\ refreshRequested \in BOOLEAN /\ cleanupRequested \in BOOLEAN
        /\ stopRequested \in BOOLEAN /\ passActive \in BOOLEAN
        /\ acceptFollowup \in BOOLEAN
        /\ due \in BOOLEAN /\ collecting \in BOOLEAN /\ owed \in BOOLEAN
    BY <1>1, Zenon DEF Init
  <2>2. work \in [refresh : BOOLEAN, cleanup : BOOLEAN]
    BY <1>1, Zenon DEF Init, Work
  <2>3. FlagsOK
    BY <2>1, <2>2, Zenon DEF FlagsOK
  <2> QED
    BY <1>1, <2>3, BoundsAssumption DEF Init, TypeOK, Snapshot
<1>2. TypeOK /\ [Next]_vars => TypeOK'
  <2> SUFFICES ASSUME TypeOK, [Next]_vars PROVE TypeOK'
    OBVIOUS
  <2>0. FlagsOK'
    BY FlagsStep DEF TypeOK
  <2> USE <2>0, BoundsAssumption DEF TypeOK, inventoryVars, historyVars,
                                     Snapshot
  <2>1. CASE Change
    BY <2>1 DEF Change
  <2>2. CASE Stop
    BY <2>2 DEF Stop
  <2>3. CASE Start
    BY <2>3 DEF Start
  <2>4. CASE BecomeDue
    BY <2>4 DEF BecomeDue
  <2>5. CASE Exit
    BY <2>5 DEF Exit
  <2>6. CASE Wake
    BY <2>6 DEF Wake
  <2>7. CASE BeginCleanup
    BY <2>7 DEF BeginCleanup
  <2>8. CASE EndCleanup
    BY <2>8 DEF EndCleanup
  <2>9. CASE BeginCollect
    BY <2>9 DEF BeginCollect
  <2>10. CASE Scan
    BY <2>10 DEF Scan
  <2>11. CASE FollowUp
    BY <2>11 DEF FollowUp, NextRound
  <2>12. CASE MeasureAgain
    BY <2>12 DEF MeasureAgain, NextRound
  <2>13. CASE EndPass
    BY <2>13 DEF EndPass, NextRound
  <2>14. ASSUME NEW cleanup \in BOOLEAN, Request(cleanup) PROVE TypeOK'
    BY <2>14 DEF Request
  <2>15. ASSUME NEW ok \in BOOLEAN, EndCollect(ok) PROVE TypeOK'
    BY <2>15 DEF EndCollect
  <2>16. CASE UNCHANGED vars
    BY <2>16 DEF vars
  <2> QED
    BY <2>1, <2>2, <2>3, <2>4, <2>5, <2>6, <2>7, <2>8, <2>9, <2>10, <2>11,
       <2>12, <2>13, <2>14, <2>15, <2>16 DEF Next, Worker, Terminated
<1> QED
  BY <1>1, <1>2, PTL DEF Spec

-----------------------------------------------------------------------------
(* A scan that captured the latest revision read the data after its last   *)
(* announcement, and completes a revision that no earlier scan completed.  *)
ScanIsFresh ==
    /\ pc \in {"scan", "scanned"} => completed <= captured
    /\ pc = "scanned" /\ captured = revision => scanned >= announced

(* SnapshotIsFresh without its first guard: a collection in progress does  *)
(* not hide what the inventory already holds as complete.                  *)
CompletedIsFresh ==
    revision = completed /\ snapshot.state = "ready"
        => snapshot.disk >= announced

(* A snapshot presented as current saw every announced change, for any     *)
(* number of requests and changes (StorageInventory.collect and snapshot). *)
THEOREM Freshness == Spec => []SnapshotIsFresh
<1> DEFINE Fresh == ScanIsFresh /\ CompletedIsFresh
<1>1. Init => Fresh
  BY DEF Init, ScanIsFresh, CompletedIsFresh, Snapshot
<1>2. TypeOK /\ Fresh /\ [Next]_vars => Fresh'
  <2> SUFFICES ASSUME TypeOK, Fresh, [Next]_vars PROVE Fresh'
    OBVIOUS
  <2> USE BoundsAssumption DEF TypeOK, ScanIsFresh, CompletedIsFresh,
                               inventoryVars, historyVars
  <2>1. CASE Change
    BY <2>1 DEF Change
  <2>2. CASE Stop \/ Start \/ BecomeDue
    BY <2>2 DEF Stop, Start, BecomeDue
  <2>3. CASE Exit \/ Wake \/ BeginCleanup \/ EndCleanup
    BY <2>3 DEF Exit, Wake, BeginCleanup, EndCleanup
  <2>4. CASE BeginCollect
    BY <2>4 DEF BeginCollect
  <2>5. CASE Scan
    BY <2>5 DEF Scan
  <2>6. CASE FollowUp \/ MeasureAgain \/ EndPass
    BY <2>6 DEF FollowUp, MeasureAgain, EndPass, NextRound
  <2>7. ASSUME NEW cleanup \in BOOLEAN, Request(cleanup) PROVE Fresh'
    BY <2>7 DEF Request
  <2>8. ASSUME NEW ok \in BOOLEAN, EndCollect(ok) PROVE Fresh'
    BY <2>8 DEF EndCollect, Snapshot
  <2>9. CASE UNCHANGED vars
    BY <2>9 DEF vars
  <2> QED
    BY <2>1, <2>2, <2>3, <2>4, <2>5, <2>6, <2>7, <2>8, <2>9
       DEF Next, Worker, Terminated
<1>3. Fresh => SnapshotIsFresh
  BY DEF CompletedIsFresh, SnapshotIsFresh, Current
<1> QED
  BY <1>1, <1>2, <1>3, TypeCorrect, PTL DEF Spec
=============================================================================
