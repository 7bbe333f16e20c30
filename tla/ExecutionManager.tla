-------------------------- MODULE ExecutionManager --------------------------
(***************************************************************************)
(* The bounded local FIFO that executes persisted Build Runs, with the     *)
(* threads that share it: HTTP and automation admissions, cancellation     *)
(* requests, the one execution worker and the shutdown of the process.     *)
(*                                                                         *)
(* One "with self._condition" block, or one read-check-save under          *)
(* store.locked_run, is one action; threads interleave between them.       *)
(* A reservation token is named by the Run identifier it will allocate     *)
(* (identifiers are fresh, so a token never meets another Run).            *)
(***************************************************************************)
EXTENDS Integers, Sequences, FiniteSets, SequencesExt

CONSTANTS Runs,          \* Build Run identifiers
          Preallocated,  \* those automation allocates and submits directly
          Capacity,      \* queue_capacity
          Serialized,    \* admissions hold the containment safety gate
          MaxFaults,     \* bound: storage faults in one behaviour
          Faults,        \* the kinds of storage fault that may happen
          NoRun          \* no active Run

ASSUME ConstantsAssumption ==
    /\ Preallocated \subseteq Runs
    /\ IsFiniteSet(Runs)
    /\ Capacity \in Nat \ {0}
    /\ Serialized \in BOOLEAN
    /\ MaxFaults \in Nat
    /\ Faults \subseteq {"lost", "committed", "unreadable"}
    /\ NoRun \notin Runs

VARIABLES
    \* the durable store
    status,              \* status of each Run's workspace
    cancellation,        \* its durable "cancellation" object
    faults,              \* storage faults so far
    \* the manager's fields, guarded by its Condition
    queue, reservations, leases, submitting,
    tracked,             \* leases tied to their Run (_reservation_run_ids)
    active,              \* _active_run_id
    owner, request,      \* the active CancellationControl
    accepting, stopping, shutdownStarted, shutdownPending,
    unresolvedAdmission, \* phase of each unresolved admission, or "none"
    unresolvedActive, workerFatal,
    \* the threads
    adm,                 \* admission of each Run
    cpc,                 \* cancellation request for each Run
    wpc, fatal,          \* worker; its exception is not an Exception
    spc, deadline, pass, attempted, task, resolved,  \* shutdown
    \* history
    accepted             \* Runs a caller was told are being cancelled

storeVars == <<status, cancellation, faults>>
leaseVars == <<reservations, leases, tracked>>
admitVars == <<queue, leaseVars, submitting, adm>>
activeVars == <<active, owner, request>>
gateVars == <<accepting, stopping, shutdownStarted>>
ownedVars == <<shutdownPending, unresolvedAdmission, unresolvedActive,
               workerFatal>>
workerVars == <<wpc, fatal>>
drainVars == <<spc, deadline, pass, attempted, task, resolved>>
cancelVars == <<cpc, accepted>>
vars == <<storeVars, admitVars, activeVars, gateVars, ownedVars, workerVars,
          drainVars, cancelVars>>

(* TERMINAL_RUN_STATUSES                                                   *)
Results == {"prepared", "success"}
Terminal == Results \cup {"failed", "cancelled"}
Live == {"pending", "queued", "running", "cancelling"}
Statuses == {"absent", "partial"} \cup Live \cup Terminal

Reasons == {"user_requested", "server_shutdown"}
Phases == {"queue", "pipeline"}
NoCancellation == [reason |-> "none", phase |-> "none"]
Cancellation(reason, phase) == [reason |-> reason, phase |-> phase]
Cancellations == [reason : Reasons, phase : Phases] \cup {NoCancellation}

Kinds == {"queued", "admission", "active"}
NoTask == [kind |-> "none", run |-> NoRun]
Task(kind, r) == [kind |-> kind, run |-> r]
Tasks == [kind : Kinds, run : Runs]

AdmissionPcs == {"idle", "reserved", "tracked", "createFailed", "terminalized",
                 "created", "submitting", "marked", "markFailed",
                 "enqueueFailed", "confirmFailed", "done"}
CancelPcs == {"idle", "called", "missed", "live"}
WorkerPcs == {"unstarted", "wait", "dequeued", "guardFailed", "guardCancelled",
              "running", "cancelled", "claimed", "returned", "failing",
              "finally", "exited"}
ShutdownPcs == {"idle", "begun", "drain", "persist", "record", "join",
                "result", "complete", "incomplete"}

Init ==
    /\ status = [r \in Runs |-> "absent"]
    /\ cancellation = [r \in Runs |-> NoCancellation]
    /\ faults = 0
    /\ queue = <<>>
    /\ reservations = {} /\ leases = {} /\ tracked = {} /\ submitting = {}
    /\ active = NoRun /\ owner = "none" /\ request = "none"
    /\ accepting = FALSE /\ stopping = FALSE
    /\ shutdownStarted = FALSE
    /\ shutdownPending = {}
    /\ unresolvedAdmission = [r \in Runs |-> "none"]
    /\ unresolvedActive = {} /\ workerFatal = FALSE
    /\ adm = [r \in Runs |-> "idle"]
    /\ cpc = [r \in Runs |-> "idle"]
    /\ wpc = "unstarted" /\ fatal = FALSE
    /\ spc = "idle" /\ deadline = "timed" /\ pass = "main"
    /\ attempted = {} /\ task = NoTask /\ resolved = FALSE
    /\ accepted = {}

-----------------------------------------------------------------------------
(* Durable state.  atomic_write_text replaces run.json and then syncs the  *)
(* directory; save then changes its mode.  A failing save has either lost  *)
(* the write or committed it and reported the error all the same.          *)

Fault(kind) ==
    /\ kind \in Faults
    /\ faults < MaxFaults
    /\ faults' = faults + 1

Save(r, s, c, ok) ==
    \/ /\ IF ok THEN UNCHANGED faults ELSE Fault("committed")
       /\ status' = [status EXCEPT ![r] = s]
       /\ cancellation' = [cancellation EXCEPT ![r] = c]
    \/ /\ ~ok
       /\ Fault("lost")
       /\ UNCHANGED <<status, cancellation>>

(* _durably_terminal: a Run that cannot be read is not proven terminal.    *)
ReadTerminal(r, seen) ==
    \/ seen = (status[r] \in Terminal) /\ UNCHANGED faults
    \/ seen = FALSE /\ Fault("unreadable")

(* The pipeline keeps the Run's workspace lock from begin to its end.      *)
LockFree(r) ==
    ~(active = r /\ wpc \in {"running", "cancelled", "claimed"})

-----------------------------------------------------------------------------
(* The manager's helpers, all called with the Condition held.              *)

(* Faulty variant: places taken by submissions in flight are not counted.  *)
HasCapacityWithoutSubmitting ==
    Len(queue) + Cardinality(reservations) < Capacity

HasCapacity ==
    Len(queue) + Cardinality(reservations) + Cardinality(submitting) < Capacity

Queued(r) == \E i \in DOMAIN queue : queue[i] = r

Submitted(r) == r = active \/ Queued(r) \/ r \in submitting

Settle(r) ==
    /\ reservations' = reservations \ {r}
    /\ leases' = leases \ {r}
    /\ tracked' = tracked \ {r}

Goto(r, pc) == adm' = [adm EXCEPT ![r] = pc]

(* dict.setdefault: an earlier unresolved admission keeps its phase.       *)
OwnUnresolved(r, phase) ==
    unresolvedAdmission' =
        [unresolvedAdmission EXCEPT ![r] = IF @ = "none" THEN phase ELSE @]

(* CancellationControl.request_cancel on the active Run's control.         *)
RequestCancel(reason) ==
    /\ owner' = IF owner = "open" THEN "cancellation_owned" ELSE owner
    /\ request' = IF owner = "open" THEN reason ELSE request
    /\ accepted' = IF owner = "terminal_owned" THEN accepted
                   ELSE accepted \cup {active}

(* One admission at a time: app admissions hold containment_safety_gate.   *)
GateFree ==
    Serialized => \A r \in Runs : adm[r] \in {"idle", "done"}

-----------------------------------------------------------------------------
(* Admission of a Run requested over HTTP.                                 *)

Reserve(r) ==
    /\ adm[r] = "idle" /\ r \notin Preallocated
    /\ GateFree
    /\ accepting /\ HasCapacity
    /\ reservations' = reservations \cup {r}
    /\ leases' = leases \cup {r}
    /\ Goto(r, "reserved")
    /\ UNCHANGED <<storeVars, queue, tracked, submitting, activeVars, gateVars,
                   ownedVars, workerVars, drainVars, cancelVars>>

(* The storage guard refuses: reserve()'s finally releases the lease.      *)
RefuseStorage(r) ==
    /\ adm[r] = "reserved"
    /\ Settle(r)
    /\ Goto(r, "done")
    /\ UNCHANGED <<storeVars, queue, submitting, activeVars, gateVars,
                   ownedVars, workerVars, drainVars, cancelVars>>

(* stop() may have revoked the untracked lease meanwhile.                  *)
Track(r) ==
    /\ adm[r] = "reserved"
    /\ IF r \in leases
       THEN tracked' = tracked \cup {r} /\ Goto(r, "tracked")
       ELSE UNCHANGED tracked /\ Goto(r, "done")
    /\ UNCHANGED <<storeVars, queue, reservations, leases, submitting,
                   activeVars, gateVars, ownedVars, workerVars, drainVars,
                   cancelVars>>

(* BuildStore.create: the workspace, then run.json, then the log file.  It *)
(* may stop after any of them.                                             *)
CreateRun(r, ok) ==
    /\ status[r] = "absent"
    /\ \/ ok /\ status' = [status EXCEPT ![r] = "pending"] /\ UNCHANGED faults
       \/ /\ ~ok /\ Fault("lost")
          /\ \E s \in {"absent", "partial"} :
                status' = [status EXCEPT ![r] = s]
       \/ /\ ~ok /\ Fault("committed")
          /\ status' = [status EXCEPT ![r] = "pending"]
    /\ UNCHANGED cancellation

Create(r) ==
    /\ adm[r] = "tracked"
    /\ \E ok \in BOOLEAN :
          /\ CreateRun(r, ok)
          /\ Goto(r, IF ok THEN "created" ELSE "createFailed")
    /\ UNCHANGED <<queue, leaseVars, submitting, activeVars, gateVars,
                   ownedVars, workerVars, drainVars, cancelVars>>

(* _terminalize_unresolved_admission: done says whether it returned True.  *)
TerminalizeAdmission(r, phase, done) ==
    /\ LockFree(r)
    /\ \/ /\ status[r] \in Terminal /\ done /\ UNCHANGED storeVars
       \/ /\ status[r] \in {"absent", "partial"} /\ phase # "creation"
          /\ ~done /\ UNCHANGED storeVars
       \/ /\ status[r] \in {"absent", "partial"} /\ phase = "creation"
          /\ \/ done /\ status' = [status EXCEPT ![r] = "absent"]
                /\ UNCHANGED faults
             \/ ~done /\ Fault("lost") /\ UNCHANGED status
          /\ UNCHANGED cancellation
       \/ /\ status[r] \in {"pending", "queued"}
          /\ \/ Save(r, "failed", cancellation[r], TRUE) /\ done
             \/ /\ Save(r, "failed", cancellation[r], FALSE)
                /\ done = (status'[r] \in Terminal)
       \/ /\ status[r] \in {"running", "cancelling"}
          /\ ~done /\ UNCHANGED storeVars

(* confirm_absent, or resolve_failed_creation up to its confirmation.      *)
ResolveFailedCreation(r) ==
    /\ adm[r] = "createFailed"
    /\ IF status[r] = "absent"
       THEN Settle(r) /\ Goto(r, "done") /\ UNCHANGED storeVars
       ELSE /\ \E done \in BOOLEAN : TerminalizeAdmission(r, "creation", done)
            /\ Goto(r, "terminalized")
            /\ UNCHANGED leaseVars
    /\ UNCHANGED <<queue, submitting, activeVars, gateVars, ownedVars,
                   workerVars, drainVars, cancelVars>>

(* Faulty variant: the lease is released without proof of an outcome.      *)
ConfirmUnconditionally(r) ==
    /\ adm[r] \in {"terminalized", "confirmFailed"}
    /\ Settle(r)
    /\ Goto(r, "done")
    /\ UNCHANGED <<storeVars, queue, submitting, activeVars, gateVars,
                   ownedVars, workerVars, drainVars, cancelVars>>

(* confirm_terminal or confirm_absent settles the lease; otherwise         *)
(* transfer_unresolved gives the Run to shutdown.                          *)
ConfirmAdmission(r) ==
    /\ adm[r] \in {"terminalized", "confirmFailed"}
    /\ \E seen \in BOOLEAN :
          /\ ReadTerminal(r, seen)
          /\ IF seen \/ (adm[r] = "terminalized" /\ status[r] = "absent")
             THEN UNCHANGED unresolvedAdmission
             ELSE OwnUnresolved(r, IF adm[r] = "terminalized"
                                   THEN "creation" ELSE "submission")
    /\ Settle(r)
    /\ Goto(r, "done")
    /\ UNCHANGED <<status, cancellation, queue, submitting, activeVars,
                   gateVars, shutdownPending, unresolvedActive, workerFatal,
                   workerVars, drainVars, cancelVars>>

SubmitReserved(r) ==
    /\ adm[r] = "created" /\ r \notin Preallocated
    /\ reservations' = reservations \ {r}
    /\ submitting' = submitting \cup {r}
    /\ Goto(r, "submitting")
    /\ UNCHANGED <<storeVars, queue, leases, tracked, activeVars, gateVars,
                   ownedVars, workerVars, drainVars, cancelVars>>

(* transition_status(expected="pending", status="queued").                 *)
MarkQueued(r) ==
    /\ adm[r] = "submitting" /\ LockFree(r)
    /\ \E ok \in BOOLEAN :
          /\ Goto(r, IF ok THEN "marked" ELSE "markFailed")
          /\ IF status[r] = "pending"
             THEN Save(r, "queued", cancellation[r], ok)
             ELSE ~ok /\ UNCHANGED storeVars
    /\ UNCHANGED <<queue, leaseVars, submitting, activeVars, gateVars,
                   ownedVars, workerVars, drainVars, cancelVars>>

(* The last block of _persist_and_enqueue: queue, or shutdown ownership.   *)
Enqueue(r) ==
    /\ adm[r] = "marked"
    /\ submitting' = submitting \ {r}
    /\ IF shutdownStarted
       THEN shutdownPending' = shutdownPending \cup {r} /\ UNCHANGED queue
       ELSE queue' = Append(queue, r) /\ UNCHANGED shutdownPending
    /\ Settle(r)
    /\ Goto(r, IF r \in Preallocated THEN "idle" ELSE "done")
    /\ UNCHANGED <<storeVars, activeVars, gateVars, unresolvedAdmission,
                   unresolvedActive, workerFatal, workerVars, drainVars,
                   cancelVars>>

(* The failure path of _persist_and_enqueue.  A direct submission has no   *)
(* lease, so a Run not read as terminal goes to shutdown.  That read comes *)
(* before the block: a Run that is terminal by now may not have been.      *)
MarkFailed(r) ==
    /\ adm[r] = "markFailed"
    /\ submitting' = submitting \ {r}
    /\ IF r \in Preallocated
       THEN /\ \/ OwnUnresolved(r, "submission")
               \/ status[r] \in Terminal /\ UNCHANGED unresolvedAdmission
            /\ Goto(r, "idle")
       ELSE /\ UNCHANGED unresolvedAdmission
            /\ Goto(r, "enqueueFailed")
    /\ UNCHANGED <<storeVars, queue, leaseVars, activeVars, gateVars,
                   shutdownPending, unresolvedActive, workerFatal, workerVars,
                   drainVars, cancelVars>>

(* app._mark_enqueue_failed; an exception that is not an Exception skips   *)
(* it and leaves the lease to reserve()'s finally.                         *)
MarkEnqueueFailed(r) ==
    /\ adm[r] = "enqueueFailed" /\ LockFree(r)
    /\ \/ /\ status[r] \in {"pending", "queued"}
          /\ \E ok \in BOOLEAN : Save(r, "failed", cancellation[r], ok)
       \/ UNCHANGED storeVars
    /\ Goto(r, "confirmFailed")
    /\ UNCHANGED <<queue, leaseVars, submitting, activeVars, gateVars,
                   ownedVars, workerVars, drainVars, cancelVars>>

-----------------------------------------------------------------------------
(* Admission of a Run preallocated by automation.  Every refusal leaves    *)
(* the Run as it is, to be admitted again later: also a failure to create  *)
(* or to queue it, when automation could not record that failure.          *)

(* reconcile_preallocated_run: a workspace with no run.json is removed.    *)
ReconcilePreallocated(r) ==
    /\ adm[r] = "idle" /\ r \in Preallocated
    /\ status[r] = "partial"
    /\ status' = [status EXCEPT ![r] = "absent"]
    /\ UNCHANGED <<cancellation, faults, admitVars, activeVars, gateVars,
                   ownedVars, workerVars, drainVars, cancelVars>>

AdmitPreallocated(r) ==
    /\ adm[r] = "idle" /\ r \in Preallocated
    /\ GateFree
    /\ \/ \E ok \in BOOLEAN :
             /\ CreateRun(r, ok)
             /\ Goto(r, IF ok THEN "created" ELSE "idle")
       \/ /\ status[r] = "pending"
          /\ Goto(r, "created")
          /\ UNCHANGED storeVars
    /\ UNCHANGED <<queue, leaseVars, submitting, activeVars, gateVars,
                   ownedVars, workerVars, drainVars, cancelVars>>

(* ExecutionManager.submit                                                 *)
SubmitDirect(r) ==
    /\ adm[r] = "created" /\ r \in Preallocated
    /\ IF accepting /\ ~Submitted(r) /\ HasCapacity
       THEN submitting' = submitting \cup {r} /\ Goto(r, "submitting")
       ELSE UNCHANGED submitting /\ Goto(r, "idle")
    /\ UNCHANGED <<storeVars, queue, leaseVars, activeVars, gateVars,
                   ownedVars, workerVars, drainVars, cancelVars>>

-----------------------------------------------------------------------------
(* Cancellation.  app.cancel_execution checks accepting, then calls        *)
(* cancel(): one block, and for a Run it does not own a read and another.  *)

CancelCall(r) ==
    /\ cpc[r] = "idle" /\ accepting
    /\ cpc' = [cpc EXCEPT ![r] = "called"]
    /\ UNCHANGED <<storeVars, admitVars, activeVars, gateVars, ownedVars,
                   workerVars, drainVars, accepted>>

(* _persist_queued_cancellation: ok says whether it returned normally.     *)
PersistQueuedCancellation(r, reason, ok) ==
    /\ LockFree(r)
    /\ \/ /\ status[r] = "cancelled"
          /\ cancellation[r] = Cancellation(reason, "queue")
          /\ ok /\ UNCHANGED storeVars
       \/ /\ status[r] = "queued"
          /\ Save(r, "cancelled", Cancellation(reason, "queue"), ok)
       \/ /\ status[r] # "queued"
          /\ ~(/\ status[r] = "cancelled"
               /\ cancellation[r] = Cancellation(reason, "queue"))
          /\ ~ok /\ UNCHANGED storeVars

(* _cancel_queued_locked: the queue is only changed after the save.        *)
CancelQueued(r) ==
    /\ cpc[r] = "called"
    /\ \E i \in DOMAIN queue :
          /\ queue[i] = r
          /\ \E ok \in BOOLEAN :
                /\ PersistQueuedCancellation(r, "user_requested", ok)
                /\ queue' = IF ok THEN RemoveAt(queue, i) ELSE queue
                /\ accepted' = IF ok THEN accepted \cup {r} ELSE accepted
    /\ cpc' = [cpc EXCEPT ![r] = "idle"]
    /\ UNCHANGED <<leaseVars, submitting, adm, activeVars, gateVars,
                   ownedVars, workerVars, drainVars>>

CancelActive(r) ==
    /\ r = active
    /\ cpc[r] \in {"called", "live"}
    /\ RequestCancel("user_requested")
    /\ cpc' = [cpc EXCEPT ![r] = "idle"]
    /\ UNCHANGED <<storeVars, admitVars, active, gateVars, ownedVars,
                   workerVars, drainVars>>

(* The first block does not own the Run; store.load; the second block.     *)
CancelUnowned(r) ==
    /\ \/ /\ cpc[r] = "called" /\ ~Queued(r) /\ r # active
          /\ cpc' = [cpc EXCEPT ![r] = "missed"]
       \/ /\ cpc[r] = "missed"
          /\ cpc' = [cpc EXCEPT ![r] =
                        IF status[r] \in Terminal THEN "idle" ELSE "live"]
       \/ /\ cpc[r] = "live" /\ r # active
          /\ cpc' = [cpc EXCEPT ![r] = "idle"]
    /\ UNCHANGED <<storeVars, admitVars, activeVars, gateVars, ownedVars,
                   workerVars, drainVars, accepted>>

-----------------------------------------------------------------------------
(* The worker and the execution callback app.execute_queued_recipe_run.    *)

Start(blocked) ==
    /\ wpc = "unstarted" /\ ~shutdownStarted
    /\ accepting' = ~blocked
    /\ stopping' = FALSE
    /\ wpc' = "wait"
    /\ UNCHANGED <<storeVars, admitVars, activeVars, shutdownStarted,
                   ownedVars, fatal, drainVars,
                   cancelVars>>

WorkerExit ==
    /\ wpc = "wait"
    /\ shutdownStarted \/ (stopping /\ queue = <<>>)
    /\ leases = {} /\ submitting = {}
    /\ wpc' = "exited"
    /\ UNCHANGED <<storeVars, admitVars, activeVars, gateVars, ownedVars,
                   fatal, drainVars, cancelVars>>

(* Faulty variants: the Run stays in the queue; stop() halts the queue.    *)
DequeuePeeks ==
    /\ wpc = "wait" /\ ~shutdownStarted /\ queue # <<>>
    /\ active' = Head(queue)
    /\ owner' = "open" /\ request' = "none"
    /\ wpc' = "dequeued" /\ fatal' = FALSE
    /\ UNCHANGED <<storeVars, admitVars, gateVars, ownedVars, drainVars,
                   cancelVars>>

DequeueUnlessStopping ==
    /\ wpc = "wait" /\ ~shutdownStarted /\ ~stopping /\ queue # <<>>
    /\ active' = Head(queue)
    /\ queue' = Tail(queue)
    /\ owner' = "open" /\ request' = "none"
    /\ wpc' = "dequeued" /\ fatal' = FALSE
    /\ UNCHANGED <<storeVars, leaseVars, submitting, adm, gateVars, ownedVars,
                   drainVars, cancelVars>>

(* Dequeue, active ownership and a fresh control are one block.            *)
Dequeue ==
    /\ wpc = "wait" /\ ~shutdownStarted /\ queue # <<>>
    /\ active' = Head(queue)
    /\ queue' = Tail(queue)
    /\ owner' = "open" /\ request' = "none"
    /\ wpc' = "dequeued" /\ fatal' = FALSE
    /\ UNCHANGED <<storeVars, leaseVars, submitting, adm, gateVars, ownedVars,
                   drainVars, cancelVars>>

(* The storage guard blocks the start: claim_terminal decides who settles. *)
GuardBlocks ==
    /\ wpc = "dequeued"
    /\ IF owner = "open"
       THEN owner' = "terminal_owned" /\ wpc' = "guardFailed"
       ELSE UNCHANGED owner /\ wpc' = "guardCancelled"
    /\ UNCHANGED <<storeVars, admitVars, active, request, gateVars, ownedVars,
                   fatal, drainVars, cancelVars>>

(* Both terminalizations of the guard: return a Run already cancelled,     *)
(* settle a queued one, refuse any other.                                  *)
GuardTerminalizes ==
    /\ wpc \in {"guardFailed", "guardCancelled"}
    /\ \E ok \in BOOLEAN :
          /\ \/ status[active] = "cancelled" /\ ok /\ UNCHANGED storeVars
             \/ /\ status[active] = "queued"
                /\ IF wpc = "guardFailed"
                   THEN Save(active, "failed", cancellation[active], ok)
                   ELSE Save(active, "cancelled",
                             Cancellation(request, "queue"), ok)
             \/ /\ status[active] \notin {"cancelled", "queued"}
                /\ ~ok /\ UNCHANGED storeVars
          /\ wpc' = IF ok THEN "returned" ELSE "failing"
    /\ UNCHANGED <<admitVars, activeVars, gateVars, ownedVars, fatal,
                   drainVars, cancelVars>>

(* execute_pipeline_run starts only a queued Run with a valid snapshot.    *)
BeginPipeline ==
    /\ wpc = "dequeued"
    /\ \/ /\ status[active] = "queued"
          /\ \E ok \in BOOLEAN :
                /\ Save(active, "running", cancellation[active], ok)
                /\ wpc' = IF ok THEN "running" ELSE "failing"
       \/ wpc' = "failing" /\ UNCHANGED storeVars
    /\ UNCHANGED <<admitVars, activeVars, gateVars, ownedVars, fatal,
                   drainVars, cancelVars>>

(* _observe_cancellation at a checkpoint or in a command's on_cancel.      *)
ObserveCancellation ==
    /\ wpc = "running" /\ owner = "cancellation_owned"
    /\ \E ok \in BOOLEAN :
          /\ Save(active, "cancelling", Cancellation(request, "pipeline"), ok)
          /\ wpc' = IF ok THEN "cancelled" ELSE "failing"
    /\ UNCHANGED <<admitVars, activeVars, gateVars, ownedVars, fatal,
                   drainVars, cancelVars>>

(* A stage already failed in memory, so the lost claim is not observed as  *)
(* "cancelling" before ExecutionCancelled is raised.                       *)
LoseClaim ==
    /\ wpc = "running" /\ owner = "cancellation_owned"
    /\ wpc' = "cancelled"
    /\ UNCHANGED <<storeVars, admitVars, activeVars, gateVars, ownedVars,
                   fatal, drainVars, cancelVars>>

(* _finalize_execution_cancellation; failed when termination failed.       *)
FinalizeCancellation ==
    /\ wpc = "cancelled"
    /\ \E s \in {"cancelled", "failed"}, ok \in BOOLEAN :
          /\ Save(active, s, Cancellation(request, "pipeline"), ok)
          /\ wpc' = IF ok THEN "returned" ELSE "failing"
    /\ UNCHANGED <<admitVars, activeVars, gateVars, ownedVars, fatal,
                   drainVars, cancelVars>>

(* _claim_terminal before the first terminal side effect.                  *)
ClaimTerminal ==
    /\ wpc = "running" /\ owner = "open"
    /\ owner' = "terminal_owned"
    /\ wpc' = "claimed"
    /\ UNCHANGED <<storeVars, admitVars, active, request, gateVars, ownedVars,
                   fatal, drainVars, cancelVars>>

(* The outcome is saved: prepared, success or failed.                      *)
FinishRun ==
    /\ wpc = "claimed"
    /\ \E s \in {"prepared", "success", "failed"}, ok \in BOOLEAN :
          /\ Save(active, s, cancellation[active], ok)
          /\ wpc' = IF ok THEN "returned" ELSE "failing"
    /\ UNCHANGED <<admitVars, activeVars, gateVars, ownedVars, fatal,
                   drainVars, cancelVars>>

(* Any exception the callback does not handle, also after the Run is       *)
(* durable (post-build automation); f: it is not an Exception.             *)
CallbackRaises(f) ==
    /\ wpc \in {"dequeued", "running", "cancelled", "claimed", "returned"}
    /\ wpc' = "failing" /\ fatal' = f
    /\ UNCHANGED <<storeVars, admitVars, activeVars, gateVars, ownedVars,
                   drainVars, cancelVars>>

(* A callback that returns is believed only if the Run reads as terminal.  *)
CallbackReturns ==
    /\ wpc = "returned"
    /\ \E seen \in BOOLEAN :
          /\ ReadTerminal(active, seen)
          /\ wpc' = IF seen THEN "finally" ELSE "failing"
    /\ UNCHANGED <<status, cancellation, admitVars, activeVars, gateVars,
                   ownedVars, fatal, drainVars, cancelVars>>

(* Faulty variant: a durable outcome is overwritten by the worker failure. *)
FinalizeErrorOverwrites(r, done) ==
    /\ LockFree(r)
    /\ done
    /\ Save(r, "failed", cancellation[r], TRUE)

(* _finalize_worker_error: done says whether it returned True.             *)
FinalizeError(r, done) ==
    /\ LockFree(r)
    /\ \/ status[r] \in Terminal /\ done /\ UNCHANGED storeVars
       \/ /\ status[r] \in {"queued", "running", "cancelling"}
          /\ \/ Save(r, "failed", cancellation[r], TRUE) /\ done
             \/ /\ Save(r, "failed", cancellation[r], FALSE)
                /\ done = (status'[r] \in Terminal)
       \/ /\ status[r] \in {"absent", "partial", "pending"}
          /\ ~done /\ UNCHANGED storeVars

FinalizeWorkerError ==
    /\ wpc = "failing"
    /\ \E done \in BOOLEAN : FinalizeError(active, done)
    /\ wpc' = "finally"
    /\ UNCHANGED <<admitVars, activeVars, gateVars, ownedVars, fatal,
                   drainVars, cancelVars>>

(* The finally block: a Run not proven terminal stays owned, and the       *)
(* manager fails closed.                                                   *)
ClearActive ==
    /\ wpc = "finally"
    /\ \E seen \in BOOLEAN :
          /\ ReadTerminal(active, seen)
          /\ unresolvedActive' = IF seen THEN unresolvedActive
                                 ELSE unresolvedActive \cup {active}
          /\ accepting' = (accepting /\ seen /\ ~fatal)
          /\ stopping' = (stopping \/ ~seen \/ fatal)
          /\ wpc' = IF seen /\ ~fatal THEN "wait" ELSE "exited"
    /\ workerFatal' = (workerFatal \/ fatal)
    /\ active' = NoRun /\ owner' = "none" /\ request' = "none"
    /\ UNCHANGED <<status, cancellation, admitVars, shutdownStarted, shutdownPending,
                   unresolvedAdmission, fatal, drainVars, cancelVars>>

-----------------------------------------------------------------------------
(* Shutdown: serve_application calls begin_shutdown(), then shutdown() with *)
(* the time left, then shutdown(None) if that was incomplete.              *)

(* stop() also closes admission, and revokes leases without a Run.         *)
Stop ==
    /\ wpc # "unstarted"
    /\ accepting' = FALSE /\ stopping' = TRUE
    /\ reservations' = reservations \ (leases \ tracked)
    /\ leases' = leases \cap tracked
    /\ UNCHANGED <<storeVars, queue, tracked, submitting, adm, activeVars,
                   shutdownStarted, ownedVars,
                   workerVars, drainVars, cancelVars>>

BeginShutdown ==
    /\ spc = "idle" /\ wpc # "unstarted"
    /\ spc' = "begun"
    /\ shutdownStarted' = TRUE
    /\ accepting' = FALSE /\ stopping' = TRUE
    /\ shutdownPending' = shutdownPending \cup ToSet(queue)
    /\ queue' = <<>>
    /\ UNCHANGED <<storeVars, leaseVars, submitting, adm, activeVars,
                   unresolvedAdmission,
                   unresolvedActive, workerFatal, workerVars, deadline, pass,
                   attempted, task, resolved, cancelVars>>

(* shutdown() asks the active Run to stop; a repeated call does not ask    *)
(* again (_shutdown_active_requested).                                     *)
Shutdown ==
    /\ spc = "begun"
    /\ spc' = "drain"
    /\ IF active # NoRun THEN RequestCancel("server_shutdown")
       ELSE UNCHANGED <<owner, request, accepted>>
    /\ UNCHANGED <<storeVars, admitVars, active, accepting, stopping,
                   shutdownStarted, ownedVars, workerVars, deadline, pass,
                   attempted, task, resolved, cpc>>

(* The graceful deadline passes.                                           *)
Expire ==
    /\ spc \in {"drain", "persist", "record", "join"} /\ deadline = "timed"
    /\ deadline' = "expired"
    /\ UNCHANGED <<storeVars, admitVars, activeVars, gateVars, ownedVars,
                   workerVars, spc, pass, attempted, task, resolved,
                   cancelVars>>

Unresolved(kind) ==
    CASE kind = "queued" -> shutdownPending
      [] kind = "admission" -> {r \in Runs : unresolvedAdmission[r] # "none"}
      [] kind = "active" -> unresolvedActive

PassKinds == IF pass = "main" THEN Kinds ELSE {"active"}

(* _shutdown_task_locked: queued before admission before active work.      *)
Pending(kind) == {r \in Unresolved(kind) : Task(kind, r) \notin attempted}
Before(kind) == CASE kind = "queued" -> {}
                  [] kind = "admission" -> {"queued"}
                  [] kind = "active" -> {"queued", "admission"}
DrainTake ==
    /\ spc = "drain" /\ deadline # "expired"
    /\ \E k \in PassKinds :
          /\ \A b \in Before(k) \cap PassKinds : Pending(b) = {}
          /\ \E r \in Pending(k) :
                /\ task' = Task(k, r)
                /\ attempted' = attempted \cup {Task(k, r)}
    /\ spc' = "persist"
    /\ UNCHANGED <<storeVars, admitVars, activeVars, gateVars, ownedVars,
                   workerVars, deadline, pass, resolved, cancelVars>>

(* The save happens outside the Condition.                                 *)
DrainPersist ==
    /\ spc = "persist"
    /\ \E done \in BOOLEAN :
          /\ CASE task.kind = "queued" ->
                    PersistQueuedCancellation(task.run, "server_shutdown", done)
               [] task.kind = "admission" ->
                    TerminalizeAdmission(task.run,
                                         unresolvedAdmission[task.run], done)
               [] task.kind = "active" -> FinalizeError(task.run, done)
          /\ resolved' = done
    /\ spc' = "record"
    /\ UNCHANGED <<admitVars, activeVars, gateVars, ownedVars, workerVars,
                   deadline, pass, attempted, task, cancelVars>>

(* Faulty variant: a captured Run is dropped whether or not it was saved.  *)
DrainRecordAlways ==
    /\ spc = "record"
    /\ shutdownPending' = IF task.kind = "queued"
                          THEN shutdownPending \ {task.run}
                          ELSE shutdownPending
    /\ unresolvedAdmission' =
          IF task.kind = "admission"
          THEN [unresolvedAdmission EXCEPT ![task.run] = "none"]
          ELSE unresolvedAdmission
    /\ unresolvedActive' = IF task.kind = "active"
                           THEN unresolvedActive \ {task.run}
                           ELSE unresolvedActive
    /\ task' = NoTask /\ resolved' = FALSE
    /\ spc' = "drain"
    /\ UNCHANGED <<storeVars, admitVars, activeVars, gateVars, workerFatal,
                   workerVars, deadline, pass, attempted, cancelVars>>

(* _record_shutdown_task_result                                            *)
DrainRecord ==
    /\ spc = "record"
    /\ shutdownPending' =
          IF resolved /\ task.kind = "queued"
          THEN shutdownPending \ {task.run} ELSE shutdownPending
    /\ unresolvedAdmission' =
          IF resolved /\ task.kind = "admission"
          THEN [unresolvedAdmission EXCEPT ![task.run] = "none"]
          ELSE unresolvedAdmission
    /\ unresolvedActive' =
          IF resolved /\ task.kind = "active"
          THEN unresolvedActive \ {task.run} ELSE unresolvedActive
    /\ task' = NoTask /\ resolved' = FALSE
    /\ spc' = "drain"
    /\ UNCHANGED <<storeVars, admitVars, activeVars, gateVars, workerFatal,
                   workerVars, deadline, pass, attempted, cancelVars>>

(* Faulty variant: one failed attempt at each Run is all shutdown makes.   *)
DrainReturnWithoutRetry ==
    /\ spc = "drain"
    /\ \/ deadline = "expired"
       \/ \A k \in PassKinds : Pending(k) = {}
    /\ leases \cup submitting # {} => deadline = "expired"
    /\ spc' = IF deadline = "none" /\ \E k \in PassKinds : Unresolved(k) # {}
              THEN "drain"
              ELSE IF pass = "main" THEN "join" ELSE "result"
    /\ UNCHANGED <<storeVars, admitVars, activeVars, gateVars, ownedVars,
                   workerVars, deadline, pass, attempted, task, resolved,
                   cancelVars>>

(* No task is left.  Wait while admissions are in flight and time is left; *)
(* without a deadline try the unresolved again; otherwise return.          *)
DrainReturn ==
    /\ spc = "drain"
    /\ \/ deadline = "expired"
       \/ \A k \in PassKinds : Pending(k) = {}
    /\ leases \cup submitting # {} => deadline = "expired"
    /\ IF deadline = "none" /\ \E k \in PassKinds : Unresolved(k) # {}
       THEN attempted' = {} /\ UNCHANGED spc
       ELSE /\ spc' = IF pass = "main" THEN "join" ELSE "result"
            /\ UNCHANGED attempted
    /\ UNCHANGED <<storeVars, admitVars, activeVars, gateVars, ownedVars,
                   workerVars, deadline, pass, task, resolved, cancelVars>>

(* A joined worker is followed by a second drain of active work.           *)
JoinWorker ==
    /\ spc = "join"
    /\ \/ /\ wpc = "exited"
          /\ spc' = "drain" /\ pass' = "final" /\ attempted' = {}
       \/ /\ wpc # "exited" /\ deadline = "expired"
          /\ spc' = "result" /\ UNCHANGED <<pass, attempted>>
    /\ UNCHANGED <<storeVars, admitVars, activeVars, gateVars, ownedVars,
                   workerVars, deadline, task, resolved, cancelVars>>

(* _shutdown_result; the join is the worker's state when join returned.    *)
Complete ==
    /\ pass = "final"
    /\ \A k \in Kinds : Unresolved(k) = {}
    /\ active = NoRun
    /\ leases = {} /\ submitting = {}
    /\ ~workerFatal

ShutdownResult ==
    /\ spc = "result"
    /\ IF Complete
       THEN spc' = "complete" /\ UNCHANGED <<deadline, pass, attempted>>
       ELSE IF deadline = "none"
       THEN spc' = "incomplete" /\ UNCHANGED <<deadline, pass, attempted>>
       ELSE /\ spc' = "drain" /\ deadline' = "none"
            /\ pass' = "main" /\ attempted' = {}
    /\ UNCHANGED <<storeVars, admitVars, activeVars, gateVars, ownedVars,
                   workerVars, task, resolved, cancelVars>>

-----------------------------------------------------------------------------
Admission(r) ==
    \/ RefuseStorage(r) \/ Track(r) \/ Create(r) \/ ResolveFailedCreation(r)
    \/ ConfirmAdmission(r) \/ SubmitReserved(r) \/ SubmitDirect(r)
    \/ MarkQueued(r) \/ Enqueue(r) \/ MarkFailed(r) \/ MarkEnqueueFailed(r)

Cancelling(r) == CancelQueued(r) \/ CancelActive(r) \/ CancelUnowned(r)

Callback ==
    \/ GuardBlocks \/ GuardTerminalizes \/ BeginPipeline
    \/ ObserveCancellation \/ LoseClaim \/ FinalizeCancellation
    \/ ClaimTerminal \/ FinishRun
    \/ \E f \in BOOLEAN : CallbackRaises(f)

Worker ==
    \/ WorkerExit \/ Dequeue \/ Callback \/ CallbackReturns
    \/ FinalizeWorkerError \/ ClearActive

ShutdownSteps ==
    \/ Shutdown \/ DrainTake \/ DrainPersist \/ DrainRecord \/ DrainReturn
    \/ JoinWorker \/ ShutdownResult

(* The process has returned from serve_application.                        *)
Terminated == spc \in {"complete", "incomplete"} /\ UNCHANGED vars

Next ==
    \/ \E r \in Runs :
          \/ Reserve(r) \/ ReconcilePreallocated(r) \/ AdmitPreallocated(r)
          \/ CancelCall(r)
          \/ Admission(r) \/ Cancelling(r)
    \/ \E b \in BOOLEAN : Start(b)
    \/ Worker \/ Stop \/ BeginShutdown \/ ShutdownSteps \/ Expire
    \/ Terminated

Spec == Init /\ [][Next]_vars

(* A started thread keeps running: admissions, cancellations, the worker   *)
(* (every build command has a time limit) and the shutdown sequence.  No   *)
(* request, failure, stop or shutdown has to happen.                       *)
Fairness ==
    /\ \A r \in Runs : WF_vars(Admission(r)) /\ WF_vars(Cancelling(r))
    /\ WF_vars(Worker)
    /\ WF_vars(ShutdownSteps)

FairSpec == Spec /\ Fairness

-----------------------------------------------------------------------------
(* Properties.                                                             *)

StoreOK ==
    /\ status \in [Runs -> Statuses]
    /\ cancellation \in [Runs -> Cancellations]
    /\ faults \in 0..MaxFaults

AdmissionOK ==
    /\ queue \in Seq(Runs)
    /\ reservations \subseteq leases /\ tracked \subseteq leases
    /\ leases \subseteq Runs \ Preallocated
    /\ submitting \subseteq Runs
    /\ adm \in [Runs -> AdmissionPcs]
    /\ cpc \in [Runs -> CancelPcs]
    /\ accepted \subseteq Runs

ActiveOK ==
    /\ active \in Runs \cup {NoRun}
    /\ owner \in {"none", "open", "cancellation_owned", "terminal_owned"}
    /\ request \in Reasons \cup {"none"}
    /\ wpc \in WorkerPcs

FlagsOK ==
    /\ accepting \in BOOLEAN /\ stopping \in BOOLEAN
    /\ shutdownStarted \in BOOLEAN /\ workerFatal \in BOOLEAN
    /\ fatal \in BOOLEAN /\ resolved \in BOOLEAN

ShutdownOK ==
    /\ shutdownPending \subseteq Runs
    /\ unresolvedAdmission \in [Runs -> {"none", "creation", "submission"}]
    /\ unresolvedActive \subseteq Runs
    /\ spc \in ShutdownPcs
    /\ deadline \in {"timed", "expired", "none"}
    /\ pass \in {"main", "final"}
    /\ attempted \subseteq Tasks
    /\ task \in Tasks \cup {NoTask}

TypeOK == StoreOK /\ AdmissionOK /\ ActiveOK /\ FlagsOK /\ ShutdownOK

(* Never more work waits than queue_capacity, counting the places that     *)
(* admissions in flight have reserved (_require_capacity checks the sum    *)
(* once, at the start of an admission that ends many steps later).         *)
CapacityBound ==
    Len(queue) + Cardinality(reservations) + Cardinality(submitting)
        <= Capacity

(* A Run is in one place: never twice in the FIFO, nor in the FIFO while   *)
(* active, being submitted or captured by shutdown: it is executed once.   *)
SingleOwner ==
    /\ \A i, j \in DOMAIN queue : queue[i] = queue[j] => i = j
    /\ \A i \in DOMAIN queue :
          queue[i] \notin {active} \cup submitting \cup shutdownPending
    /\ active \notin submitting \cup shutdownPending

(* The state of the manager: well formed, every Run in one place.          *)
StateIsSound == TypeOK /\ SingleOwner

(* Whoever must bring r to a terminal status.                              *)
Owned(r) ==
    \/ Queued(r) \/ r = active \/ r \in submitting \/ r \in tracked
    \/ r \in shutdownPending \/ r \in unresolvedActive
    \/ unresolvedAdmission[r] # "none"

(* No admitted Run is forgotten: whatever fails, a Run that is durably not *)
(* terminal has an owner in the manager.  Automation itself owns a         *)
(* preallocated Run until it is queued.                                    *)
NoRunLost ==
    \A r \in Runs :
        /\ status[r] \in {"queued", "running", "cancelling"} => Owned(r)
        /\ r \notin Preallocated /\ status[r] \in {"partial", "pending"}
              => Owned(r)

(* Shutdown freezes the queue: nothing is admitted to it, or executed from *)
(* it, afterwards.                                                         *)
QueueFrozen == shutdownStarted => queue = <<>> /\ ~accepting

(* The FIFO keeps its bound while admissions are open, through every way   *)
(* an admission can end, and stays empty once they are closed for ever.    *)
QueueIsSound == CapacityBound /\ QueueFrozen

(* shutdown() reports "complete" only when no Run it ever owned is left    *)
(* without an outcome, and the worker is gone.                             *)
CompleteMeansResolved ==
    spc = "complete" =>
        /\ wpc = "exited"
        /\ \A r \in Runs :
              /\ status[r] \notin {"queued", "running", "cancelling"}
              /\ r \notin Preallocated =>
                    status[r] \in Terminal \cup {"absent"}

(* A caller told that its Run is being cancelled never gets a result.      *)
CancelledIsNoResult == \A r \in accepted : status[r] \notin Results

(* What callers are told is true: "complete" of a shutdown, "cancelling"   *)
(* of a Run.                                                               *)
AnswersAreTrue == CompleteMeansResolved /\ CancelledIsNoResult

Lifecycle == INSTANCE RunLifecycle
    WITH Runs <- Runs, status <- status, accepted <- accepted

(* The durable history of every Run is one that RunLifecycle allows.       *)
ImplementsLifecycle == Lifecycle!Spec

(* shutdown(None) "retains ownership until all admitted work is resolved   *)
(* and the worker has stopped": a shutdown that began ends.                *)
ShutdownEnds ==
    shutdownStarted ~> spc = "complete" \/ (spc = "incomplete" /\ workerFatal)

(* Work in the FIFO is taken or cancelled, unless the worker has stopped.  *)
QueuedIsServed ==
    \A r \in Runs : Queued(r) ~> ~Queued(r) \/ wpc = "exited"

(* A cancellation that was accepted ends in a terminal Run; one whose      *)
(* outcome could not be saved is kept for shutdown.                        *)
CancelledEnds ==
    \A r \in Runs :
        r \in accepted ~> status[r] \in Terminal \/ r \in unresolvedActive

(* Work that was admitted is served, and work that was cancelled ends.     *)
WorkIsSettled == QueuedIsServed /\ CancelledEnds
=============================================================================
