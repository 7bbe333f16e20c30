------------------------- MODULE StorageMaintenance -------------------------
(***************************************************************************)
(* The one worker that cleans workspaces and measures storage              *)
(* (MaintenanceService), with the snapshot it maintains for the readers of *)
(* GET /api/storage (StorageInventory).  Requests are flags, so a burst is *)
(* coalesced; revisions tell whether a measurement is still current.       *)
(***************************************************************************)
EXTENDS Integers

CONSTANTS MaxRequests,   \* bound: maintenance requests in one behaviour
          MaxChanges     \* bound: changes of the stored data

ASSUME BoundsAssumption == MaxRequests \in Nat /\ MaxChanges \in Nat

VARIABLES
    \* MaintenanceService, guarded by its Condition
    refreshRequested, cleanupRequested, stopRequested,
    passActive, acceptFollowup,
    \* its worker
    pc, work,            \* what the current round does
    due,                 \* the periodic deadline has passed
    \* StorageInventory, guarded by its lock
    revision, completed, collecting, snapshot,
    captured,            \* revision that the collection in progress read
    \* the stored data: how often it has changed
    disk,
    scanned,             \* what the scan in progress saw of it
    \* history
    announced,           \* disk when maintenance was last requested
    owed,                \* a cleanup was requested and none began since
    requests

flagVars == <<refreshRequested, cleanupRequested>>
passVars == <<passActive, acceptFollowup>>
inventoryVars == <<revision, completed, collecting, snapshot, captured>>
historyVars == <<announced, owed, requests>>
vars == <<flagVars, stopRequested, passVars, pc, work, due, inventoryVars,
          disk, scanned, historyVars>>

Work(refresh, cleanup) == [refresh |-> refresh, cleanup |-> cleanup]
Snapshot(state, seen) == [state |-> state, disk |-> seen]

Init ==
    /\ refreshRequested = TRUE /\ cleanupRequested = FALSE
    /\ stopRequested = FALSE
    /\ passActive = FALSE /\ acceptFollowup = FALSE
    /\ pc = "unstarted" /\ work = Work(FALSE, FALSE)
    /\ due = FALSE
    /\ revision = 0 /\ completed = 0 /\ captured = 0
    /\ collecting = FALSE /\ snapshot = Snapshot("collecting", 0)
    /\ disk = 0 /\ scanned = 0
    /\ announced = 0 /\ owed = FALSE /\ requests = 0

-----------------------------------------------------------------------------
(* Callers: they change stored data and then request maintenance, always   *)
(* with refresh=True.  stop() is the shutdown of the application.          *)

Change ==
    /\ disk < MaxChanges
    /\ disk' = disk + 1
    /\ UNCHANGED <<flagVars, stopRequested, passVars, pc, work, due,
                   inventoryVars, scanned, historyVars>>

(* During a follow-up the flags are left alone: the periodic sweep comes.  *)
Request(cleanup) ==
    /\ ~stopRequested
    /\ requests < MaxRequests
    /\ requests' = requests + 1
    /\ revision' = revision + 1
    /\ IF passActive /\ ~acceptFollowup
       THEN UNCHANGED flagVars
       ELSE /\ refreshRequested' = TRUE
            /\ cleanupRequested' = (cleanupRequested \/ cleanup)
    /\ announced' = disk
    /\ owed' = (owed \/ cleanup)
    /\ UNCHANGED <<stopRequested, passVars, pc, work, due, completed,
                   collecting, snapshot, captured, disk, scanned>>

Stop ==
    /\ ~stopRequested
    /\ stopRequested' = TRUE
    /\ refreshRequested' = FALSE /\ cleanupRequested' = FALSE
    /\ UNCHANGED <<passVars, pc, work, due, inventoryVars, disk, scanned,
                   historyVars>>

-----------------------------------------------------------------------------
(* The worker.                                                             *)

Start ==
    /\ pc = "unstarted"
    /\ pc' = "wait"
    /\ UNCHANGED <<flagVars, stopRequested, passVars, work, due,
                   inventoryVars, disk, scanned, historyVars>>

(* refresh_interval has elapsed since the last pass with a cleanup.        *)
BecomeDue ==
    /\ ~due /\ pc \notin {"unstarted", "exited"}
    /\ due' = TRUE
    /\ UNCHANGED <<flagVars, stopRequested, passVars, pc, work, inventoryVars,
                   disk, scanned, historyVars>>

Exit ==
    /\ pc \in {"wait", "decide"} /\ stopRequested
    /\ refreshRequested' = FALSE /\ cleanupRequested' = FALSE
    /\ passActive' = FALSE /\ acceptFollowup' = FALSE
    /\ pc' = "exited"
    /\ UNCHANGED <<stopRequested, work, due, inventoryVars, disk, scanned,
                   historyVars>>

(* Faulty variant: the periodic sweep measures but does not clean.         *)
WakeRefreshOnly ==
    /\ pc = "wait" /\ ~stopRequested
    /\ \/ /\ refreshRequested \/ cleanupRequested
          /\ work' = Work(refreshRequested, cleanupRequested)
       \/ /\ ~refreshRequested /\ ~cleanupRequested /\ due
          /\ work' = Work(TRUE, FALSE)
    /\ refreshRequested' = FALSE /\ cleanupRequested' = FALSE
    /\ passActive' = TRUE /\ acceptFollowup' = TRUE
    /\ pc' = "cleanup"
    /\ UNCHANGED <<stopRequested, due, inventoryVars, disk, scanned,
                   announced, owed, requests>>

(* A pass begins, for what was requested or for the periodic sweep.        *)
Wake ==
    /\ pc = "wait" /\ ~stopRequested
    /\ \/ /\ refreshRequested \/ cleanupRequested
          /\ work' = Work(refreshRequested, cleanupRequested)
       \/ /\ ~refreshRequested /\ ~cleanupRequested /\ due
          /\ work' = Work(TRUE, TRUE)
    /\ refreshRequested' = FALSE /\ cleanupRequested' = FALSE
    /\ passActive' = TRUE /\ acceptFollowup' = TRUE
    /\ pc' = "cleanup"
    /\ UNCHANGED <<stopRequested, due, inventoryVars, disk, scanned,
                   announced, owed, requests>>

(* A cleanup that fails or is denied counts as one.                        *)
BeginCleanup ==
    /\ pc = "cleanup"
    /\ IF work.cleanup
       THEN pc' = "cleaning" /\ owed' = FALSE
       ELSE pc' = "collect" /\ UNCHANGED owed
    /\ UNCHANGED <<flagVars, stopRequested, passVars, work, due,
                   inventoryVars, disk, scanned, announced, requests>>

EndCleanup ==
    /\ pc = "cleaning"
    /\ pc' = "collect"
    /\ UNCHANGED <<flagVars, stopRequested, passVars, work, due,
                   inventoryVars, disk, scanned, historyVars>>

(* collect() up to the scan, unless the application stops.                 *)
BeginCollect ==
    /\ pc = "collect"
    /\ IF ~stopRequested /\ (work.refresh \/ work.cleanup)
       THEN collecting' = TRUE /\ captured' = revision /\ pc' = "scan"
       ELSE UNCHANGED <<collecting, captured>> /\ pc' = "decide"
    /\ UNCHANGED <<flagVars, stopRequested, passVars, work, due, revision,
                   completed, snapshot, disk, scanned, historyVars>>

Scan ==
    /\ pc = "scan"
    /\ scanned' = disk
    /\ pc' = "scanned"
    /\ UNCHANGED <<flagVars, stopRequested, passVars, work, due,
                   inventoryVars, disk, historyVars>>

(* Faulty variant: the scan satisfies requests that came after it began.   *)
EndCollectAlways(ok) ==
    /\ pc = "scanned"
    /\ snapshot' = IF ok THEN Snapshot("ready", scanned)
                   ELSE Snapshot("stale", snapshot.disk)
    /\ completed' = revision
    /\ collecting' = FALSE
    /\ pc' = "decide"
    /\ UNCHANGED <<flagVars, stopRequested, passVars, work, due, revision,
                   captured, disk, scanned, historyVars>>

(* The result is published; a failed scan publishes the old one as stale   *)
(* (or error, if there is none).                                           *)
EndCollect(ok) ==
    /\ pc = "scanned"
    /\ snapshot' = IF ok THEN Snapshot("ready", scanned)
                   ELSE Snapshot("stale", snapshot.disk)
    /\ completed' = IF captured = revision THEN captured ELSE completed
    /\ collecting' = FALSE
    /\ pc' = "decide"
    /\ UNCHANGED <<flagVars, stopRequested, passVars, work, due, revision,
                   captured, disk, scanned, historyVars>>

(* What the worker does next; a round with a cleanup restarts the clock.   *)
NextRound(w) ==
    /\ pc = "decide" /\ ~stopRequested
    /\ due' = (due /\ ~work.cleanup)
    /\ work' = w
    /\ UNCHANGED <<stopRequested, inventoryVars, disk, scanned, historyVars>>

FollowUp ==
    /\ NextRound(Work(refreshRequested, cleanupRequested))
    /\ acceptFollowup /\ (refreshRequested \/ cleanupRequested)
    /\ refreshRequested' = FALSE /\ cleanupRequested' = FALSE
    /\ acceptFollowup' = FALSE
    /\ pc' = "cleanup"
    /\ UNCHANGED passActive

(* needs_refresh(): the data changed while it was scanned.                 *)
MeasureAgain ==
    /\ NextRound(Work(TRUE, FALSE))
    /\ ~(acceptFollowup /\ (refreshRequested \/ cleanupRequested))
    /\ revision # completed
    /\ acceptFollowup' = FALSE
    /\ pc' = "cleanup"
    /\ UNCHANGED <<flagVars, passActive>>

EndPass ==
    /\ NextRound(work)
    /\ ~(acceptFollowup /\ (refreshRequested \/ cleanupRequested))
    /\ revision = completed
    /\ refreshRequested' = FALSE /\ cleanupRequested' = FALSE
    /\ passActive' = FALSE /\ acceptFollowup' = FALSE
    /\ pc' = "wait"

Worker ==
    \/ Exit \/ Wake \/ BeginCleanup \/ EndCleanup \/ BeginCollect \/ Scan
    \/ \E ok \in BOOLEAN : EndCollect(ok)
    \/ FollowUp \/ MeasureAgain \/ EndPass

Terminated == pc = "exited" /\ UNCHANGED vars

Next ==
    \/ Change \/ Stop \/ Start \/ BecomeDue \/ Worker \/ Terminated
    \/ \E cleanup \in BOOLEAN : Request(cleanup)

Spec == Init /\ [][Next]_vars

(* The worker runs, and time passes.                                       *)
FairSpec == Spec /\ WF_vars(Worker) /\ WF_vars(BecomeDue)

-----------------------------------------------------------------------------
FlagsOK ==
    /\ refreshRequested \in BOOLEAN /\ cleanupRequested \in BOOLEAN
    /\ stopRequested \in BOOLEAN
    /\ passActive \in BOOLEAN /\ acceptFollowup \in BOOLEAN
    /\ due \in BOOLEAN /\ collecting \in BOOLEAN /\ owed \in BOOLEAN
    /\ work \in [refresh : BOOLEAN, cleanup : BOOLEAN]

TypeOK ==
    /\ FlagsOK
    /\ pc \in {"unstarted", "wait", "cleanup", "cleaning", "collect", "scan",
               "scanned", "decide", "exited"}
    /\ requests \in 0..MaxRequests /\ revision = requests
    /\ completed \in 0..revision /\ captured \in 0..revision
    /\ disk \in 0..MaxChanges
    /\ scanned \in 0..disk /\ announced \in 0..disk
    /\ snapshot \in [state : {"collecting", "ready", "stale"}, disk : 0..disk]

(* What snapshot() presents as the current measurement.                    *)
Current == ~collecting /\ revision = completed /\ snapshot.state = "ready"

(* A measurement presented as current saw every change whose author has    *)
(* requested maintenance, whatever raced with the scan (StorageInventory   *)
(* keeps the snapshot pending while revision # completed).                 *)
SnapshotIsFresh == Current => snapshot.disk >= announced

(* A requested cleanup begins after the request, also one that came during *)
(* the follow-up and set no flag.                                          *)
CleanupIsHonoured ==
    owed /\ pc # "unstarted" ~> ~owed \/ stopRequested

(* Every announced change is eventually measured, or the attempt reported. *)
MeasurementConverges ==
    revision # completed /\ pc # "unstarted"
        ~> revision = completed \/ stopRequested

(* What was asked of the maintenance worker is done, cleanup and           *)
(* measurement alike, whatever raced with the pass that was under way.     *)
RequestsHonoured == CleanupIsHonoured /\ MeasurementConverges
=============================================================================
