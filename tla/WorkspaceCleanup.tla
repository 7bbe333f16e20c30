-------------------------- MODULE WorkspaceCleanup --------------------------
(***************************************************************************)
(* One sweep of maintain_run_storage(): retention, then storage pressure    *)
(* (workspace_cleanup.py), against the builds, Validations, Publications    *)
(* and history deletions that go on meanwhile.  The sweep first scans every *)
(* Run, then removes data under the containment gate and the lock of one    *)
(* Run at a time; nothing that it scanned authorises a removal.             *)
(*                                                                         *)
(* A Run's disposable data is its source (with staging and downloads) and   *)
(* its toolchain.  Whether its commands are gone is CommandContainment.tla: *)
(* here that check may refuse any removal.  Pruning of artifacts, between   *)
(* the two halves, is Publication.tla.  Free space is what a measurement    *)
(* says.                                                                    *)
(***************************************************************************)
EXTENDS Integers, FiniteSets

CONSTANTS RunCount,     \* Build Runs, the newest with the highest number
          Retain,       \* failed_workspaces_to_retain
          MaxMoves      \* bound: what others begin, end or delete meanwhile

ASSUME CleanupAssumption == RunCount \in Nat /\ Retain \in Nat /\ MaxMoves \in Nat

BuildRuns == 1..RunCount
Nothing == 0

VARIABLES
    run,            \* run.json, attempt manifests and data of every Run
    locked,         \* Runs whose workspace lock somebody else holds
    gate,           \* who holds the containment safety gate
    deleting,       \* the Run whose history an operator deletes
    clock,          \* time, and the number of moves of others so far
    \* the sweep
    sweep,          \* where it is
    unscanned,      \* Runs still to be read
    rows,           \* candidates still to be treated
    ranked,         \* all candidates of this half of the sweep
    kept,           \* failed Runs that retention keeps
    pressable,      \* kept Runs that pressure may still take
    victim          \* the row whose data is being removed

sweepVars == <<sweep, unscanned, rows, ranked, kept, pressable, victim>>
cleanupVars == <<run, locked, gate, deleting, clock, sweepVars>>

Data == {"source", "toolchain"}
NoRow == [id |-> Nothing, completed |-> 0, failed |-> FALSE,
          deleted |-> FALSE, revision |-> 0, toolchain |-> FALSE]

CleanupInit ==
    /\ \E status \in [BuildRuns -> {"active", "success", "failed"}] :
          run = [r \in BuildRuns |->
                   [status |-> status[r], attempt |-> "none",
                    publication |-> "none", completed |-> r, revision |-> 0,
                    deleted |-> FALSE, data |-> Data]]
    /\ locked = {} /\ gate = "free" /\ deleting = Nothing
    /\ clock = RunCount
    /\ sweep = "rest" /\ unscanned = {} /\ rows = {} /\ ranked = {}
    /\ kept = {} /\ pressable = {} /\ victim = NoRow

-----------------------------------------------------------------------------
(* require_finished(): Build, Validation and Publication are over.         *)
Finished(r) ==
    /\ run[r].status # "active"
    /\ run[r].attempt \notin {"queued", "running"}
    /\ run[r].publication # "running"

(* _retention_failed(), from the last attempt and the last publication.    *)
RetentionFailed(r) ==
    "failed" \in {run[r].status, run[r].attempt, run[r].publication}

-----------------------------------------------------------------------------
(* Others.  An attempt is admitted and, while it is queued, cancelled in   *)
(* its manifest alone: run.json keeps its revision.                        *)

Move == clock < RunCount + MaxMoves /\ clock' = clock + 1

Becomes(r, fields, value) ==
    run' = [run EXCEPT ![r] =
              [field \in DOMAIN @ |->
                  CASE field \in fields -> value
                    [] field = "revision" -> @[field] + 1
                    [] field = "completed" /\ value \in {"success", "failed"}
                         -> clock + 1
                    [] OTHER -> @[field]]]

OthersUnchanged == UNCHANGED <<gate, deleting, sweepVars>>

EndBuild(r) ==
    /\ run[r].status = "active" /\ r \notin locked /\ Move
    /\ \E verdict \in {"success", "failed"} : Becomes(r, {"status"}, verdict)
    /\ UNCHANGED locked /\ OthersUnchanged

AdmitValidation(r) ==
    /\ run[r].status = "success" /\ Finished(r) /\ r \notin locked /\ Move
    /\ run' = [run EXCEPT ![r].attempt = "queued"]
    /\ UNCHANGED locked /\ OthersUnchanged

CancelQueued(r) ==
    /\ run[r].attempt = "queued" /\ Move
    /\ run' = [run EXCEPT ![r].attempt = "failed", ![r].completed = clock + 1]
    /\ UNCHANGED locked /\ OthersUnchanged

(* A Validation and a Publication keep the Run's lock until their result   *)
(* is saved.                                                               *)
RunValidation(r) ==
    /\ run[r].attempt = "queued" /\ r \notin locked
    /\ Becomes(r, {"attempt"}, "running")
    /\ locked' = locked \cup {r}
    /\ UNCHANGED clock /\ OthersUnchanged

EndValidation(r) ==
    /\ run[r].attempt = "running" /\ Move
    /\ \E verdict \in {"success", "failed"} : Becomes(r, {"attempt"}, verdict)
    /\ locked' = locked \ {r}
    /\ OthersUnchanged

BeginPublication(r) ==
    /\ run[r].attempt = "success" /\ Finished(r) /\ r \notin locked /\ Move
    /\ Becomes(r, {"publication"}, "running")
    /\ locked' = locked \cup {r}
    /\ OthersUnchanged

EndPublication(r) ==
    /\ run[r].publication = "running" /\ Move
    /\ \E verdict \in {"success", "failed"} :
          Becomes(r, {"publication"}, verdict)
    /\ locked' = locked \ {r}
    /\ OthersUnchanged

(* delete_history(): the lock is tried, never waited for.                  *)
BeginDelete(r) ==
    /\ gate = "free" /\ r \notin locked /\ Finished(r) /\ Move
    /\ gate' = "operator" /\ deleting' = r /\ locked' = locked \cup {r}
    /\ UNCHANGED <<run, sweepVars>>

(* Something may fail before run.json is written.                          *)
EndDelete ==
    /\ deleting # Nothing
    /\ \/ run' = [run EXCEPT ![deleting].data = {}, ![deleting].deleted = TRUE,
                             ![deleting].revision = @ + 1]
       \/ \E left \in SUBSET run[deleting].data :
             run' = [run EXCEPT ![deleting].data = left]
    /\ gate' = "free" /\ deleting' = Nothing
    /\ locked' = locked \ {deleting}
    /\ UNCHANGED <<clock, sweepVars>>

Others ==
    \/ \E r \in BuildRuns :
          \/ EndBuild(r) \/ AdmitValidation(r) \/ CancelQueued(r)
          \/ RunValidation(r) \/ EndValidation(r)
          \/ BeginPublication(r) \/ EndPublication(r) \/ BeginDelete(r)
    \/ EndDelete

-----------------------------------------------------------------------------
(* The sweep                                                               *)

WorldUnchanged == UNCHANGED <<run, locked, deleting, clock>>

BeginSweep ==
    /\ sweep = "rest"
    /\ sweep' = "scan" /\ unscanned' = BuildRuns
    /\ rows' = {} /\ ranked' = {} /\ kept' = {} /\ pressable' = {}
    /\ WorldUnchanged /\ UNCHANGED <<gate, victim>>

Row(r) ==
    [id |-> r, completed |-> run[r].completed, failed |-> RetentionFailed(r),
     deleted |-> run[r].deleted, revision |-> run[r].revision,
     toolchain |-> "toolchain" \in run[r].data]

(* One Run is read under its lock, or passed over.                         *)
ScanRun(r) ==
    /\ sweep \in {"scan", "select"} /\ r \in unscanned
    /\ unscanned' = unscanned \ {r}
    /\ LET wanted == IF sweep = "scan" THEN run[r].data # {}
                     ELSE "source" \in run[r].data /\ RetentionFailed(r)
       IN  rows' = IF r \notin locked /\ Finished(r) /\ wanted
                   THEN rows \cup {Row(r)} ELSE rows
    /\ WorldUnchanged
    /\ UNCHANGED <<gate, sweep, ranked, kept, pressable, victim>>

RankRuns ==
    /\ sweep \in {"scan", "select"} /\ unscanned = {}
    /\ ranked' = rows
    /\ sweep' = IF sweep = "scan" THEN "clean" ELSE "press"
    /\ WorldUnchanged
    /\ UNCHANGED <<gate, unscanned, rows, kept, pressable, victim>>

Newest == CHOOSE row \in rows : \A other \in rows : other.completed <= row.completed
Oldest == CHOOSE row \in rows : \A other \in rows : other.completed >= row.completed

Retained(row) == row.failed /\ ~row.deleted /\ Cardinality(kept) < Retain

(* Faulty variants: what the scan saw is not read again.                   *)
StillSafe(row) ==
    row.id \notin locked /\ run[row.id].revision = row.revision
        /\ RetentionFailed(row.id) = row.failed
StillFinished(row) ==
    row.id \notin locked /\ Finished(row.id)
        /\ run[row.id].revision = row.revision

(* What is read again, under the gate and the lock, before a removal.      *)
StillHolds(row) ==
    /\ row.id \notin locked /\ Finished(row.id)
    /\ run[row.id].revision = row.revision
    /\ RetentionFailed(row.id) = row.failed

(* Retention, newest first: the failed Runs that are kept lose only their  *)
(* toolchain.                                                              *)
Clean ==
    /\ sweep = "clean" /\ rows # {}
    /\ LET row == Newest
           whole == Retained(row)
       IN  /\ rows' = rows \ {row}
           /\ kept' = IF whole THEN kept \cup {row.id} ELSE kept
           /\ \/ /\ whole /\ ~row.toolchain
                 /\ pressable' = pressable \cup {row.id}
                 /\ UNCHANGED <<sweep, victim, gate, locked>>
              \/ /\ ~(whole /\ ~row.toolchain) /\ gate = "free"
                 /\ UNCHANGED <<sweep, victim, gate, locked, pressable>>
              \/ /\ ~(whole /\ ~row.toolchain) /\ gate = "free"
                 /\ StillHolds(row)
                 /\ sweep' = "removing" /\ victim' = row
                 /\ gate' = "sweep" /\ locked' = locked \cup {row.id}
                 /\ pressable' = IF whole THEN pressable \cup {row.id}
                                 ELSE pressable
    /\ UNCHANGED <<run, deleting, clock, unscanned, ranked>>

(* Pressure, oldest first.                                                 *)
Press ==
    /\ sweep = "press" /\ rows # {} /\ gate = "free"
    /\ LET row == Oldest
       IN  /\ rows' = rows \ {row}
           /\ \/ UNCHANGED <<sweep, victim, gate, locked>>
              \/ /\ StillHolds(row)
                 /\ sweep' = "pressing" /\ victim' = row
                 /\ gate' = "sweep" /\ locked' = locked \cup {row.id}
    /\ UNCHANGED <<run, deleting, clock, unscanned, ranked, kept, pressable>>

Target ==
    IF sweep = "pressing" THEN {"source"}
    ELSE IF victim.id \in kept THEN {"toolchain"} ELSE Data

(* _remove_targets(), which may fail half-way; pressure then stops, and    *)
(* also when a new measurement says so.                                    *)
Remove ==
    /\ sweep \in {"removing", "pressing"}
    /\ LET old == run[victim.id].data
       IN  \E left \in SUBSET (old \cap Target) :
              run' = [run EXCEPT ![victim.id].data = (old \ Target) \cup left]
    /\ locked' = locked \ {victim.id} /\ gate' = "free" /\ victim' = NoRow
    /\ \/ sweep' = IF sweep = "removing" THEN "clean" ELSE "press"
       \/ sweep = "pressing" /\ sweep' = "rest"
    /\ UNCHANGED <<deleting, clock, unscanned, rows, ranked, kept, pressable>>

(* The capacity is below the threshold: the kept Runs are next.            *)
MeasurePressure ==
    /\ sweep = "clean" /\ rows = {}
    /\ sweep' = "select" /\ unscanned' = pressable
    /\ WorldUnchanged
    /\ UNCHANGED <<gate, rows, ranked, kept, pressable, victim>>

(* The sweep is over, there is no pressure, or the application stops.      *)
EndSweep ==
    /\ sweep \in {"scan", "clean", "select", "press"}
    /\ sweep' = "rest"
    /\ unscanned' = {} /\ rows' = {} /\ ranked' = {} /\ kept' = {}
    /\ pressable' = {}
    /\ WorldUnchanged /\ UNCHANGED <<gate, victim>>

SweepStep ==
    \/ BeginSweep \/ RankRuns \/ Clean \/ Press \/ Remove
    \/ MeasurePressure \/ EndSweep
    \/ \E r \in BuildRuns : ScanRun(r)

CleanupNext == Others \/ SweepStep

-----------------------------------------------------------------------------
Loses(r, part) == part \in run[r].data /\ part \notin run'[r].data

(* No Run loses data while its Build, a Validation or a Publication is     *)
(* active: neither to a sweep that scanned it before, nor to an operator's *)
(* deletion.                                                               *)
ActiveIsUntouched ==
    [][\A r \in BuildRuns :
          (\E part \in Data : Loses(r, part)) => Finished(r) /\ Finished(r)']_cleanupVars

(* Retention takes the workspace of a Run that is failed now only where it *)
(* found Retain newer failed ones to keep: also of one that failed after   *)
(* the scan.                                                               *)
NewestFailedKept ==
    [][\A r \in BuildRuns :
          sweep = "removing" /\ Loses(r, "source") /\ RetentionFailed(r)
              /\ ~run[r].deleted
          => Cardinality({row \in ranked : row.failed /\ ~row.deleted
                             /\ row.completed > victim.completed}) >= Retain]_cleanupVars
=============================================================================
