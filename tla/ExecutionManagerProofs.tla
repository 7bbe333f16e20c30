------------------------ MODULE ExecutionManagerProofs ------------------------
EXTENDS ExecutionManager, TLAPS, FiniteSetTheorems, SequenceTheorems

(* The worker's control state and its active context agree, and shutdown   *)
(* persists only a task it has taken.                                      *)
Busy == {"dequeued", "guardFailed", "guardCancelled", "running", "cancelled",
         "claimed", "returned", "failing", "finally"}

ControlOK ==
    /\ wpc \in Busy => active \in Runs /\ owner # "none"
    /\ wpc \notin Busy => active = NoRun /\ owner = "none"
    /\ owner = "cancellation_owned" => request \in Reasons
    /\ wpc \in {"guardCancelled", "cancelled"} => owner = "cancellation_owned"
    /\ wpc \in {"guardFailed", "claimed"} => owner = "terminal_owned"
    /\ owner = "terminal_owned" =>
          wpc \in {"guardFailed", "claimed", "returned", "failing", "finally"}
    /\ spc = "persist" => task \in Tasks

(* A save, done, lost or reported as failed, keeps the store well formed.  *)
LEMMA SaveType ==
    ASSUME NEW r, NEW s \in Statuses, NEW c \in Cancellations, NEW ok,
           StoreOK, Save(r, s, c, ok)
    PROVE  StoreOK'
BY ConstantsAssumption DEF StoreOK, Save, Fault

LEMMA ReadType ==
    ASSUME NEW r, NEW seen, StoreOK, ReadTerminal(r, seen)
    PROVE  faults' \in 0..MaxFaults
BY ConstantsAssumption DEF StoreOK, ReadTerminal, Fault

(* TerminalizeAdmission and FinalizeError write "failed" or nothing.       *)
LEMMA CreateType ==
    ASSUME NEW r \in Runs, NEW ok \in BOOLEAN, StoreOK, CreateRun(r, ok)
    PROVE  StoreOK'
BY ConstantsAssumption DEF StoreOK, CreateRun, Fault, Statuses, Live

LEMMA TerminalizeType ==
    ASSUME NEW r \in Runs, NEW phase, NEW done \in BOOLEAN, StoreOK,
           TerminalizeAdmission(r, phase, done)
    PROVE  StoreOK'
<1>1. cancellation[r] \in Cancellations /\ "failed" \in Statuses
      /\ "absent" \in Statuses
  BY DEF StoreOK, Statuses, Terminal
<1>2. CASE UNCHANGED storeVars
  BY <1>2 DEF storeVars, StoreOK
<1>3. ASSUME NEW ok \in BOOLEAN, Save(r, "failed", cancellation[r], ok)
      PROVE  StoreOK'
  BY <1>1, <1>3, SaveType
<1>4. CASE /\ status' \in {status, [status EXCEPT ![r] = "absent"]}
           /\ UNCHANGED cancellation
           /\ UNCHANGED faults \/ Fault("lost")
  BY <1>1, <1>4, ConstantsAssumption DEF StoreOK, Fault
<1> QED
  BY <1>2, <1>3, <1>4 DEF TerminalizeAdmission

LEMMA FinalizeErrorType ==
    ASSUME NEW r \in Runs, NEW done \in BOOLEAN, StoreOK,
           FinalizeError(r, done)
    PROVE  StoreOK'
<1>1. cancellation[r] \in Cancellations /\ "failed" \in Statuses
  BY DEF StoreOK, Statuses, Terminal
<1>2. CASE UNCHANGED storeVars
  BY <1>2 DEF storeVars, StoreOK
<1>3. ASSUME NEW ok \in BOOLEAN, Save(r, "failed", cancellation[r], ok)
      PROVE  StoreOK'
  BY <1>1, <1>3, SaveType
<1> QED
  BY <1>2, <1>3 DEF FinalizeError

LEMMA PersistType ==
    ASSUME NEW r \in Runs, NEW reason \in Reasons, NEW ok \in BOOLEAN, StoreOK,
           PersistQueuedCancellation(r, reason, ok)
    PROVE  StoreOK'
<1>1. Cancellation(reason, "queue") \in Cancellations
      /\ "cancelled" \in Statuses
  BY DEF Cancellation, Cancellations, Phases, Statuses, Terminal
<1>2. CASE UNCHANGED storeVars
  BY <1>2 DEF storeVars, StoreOK
<1>3. CASE Save(r, "cancelled", Cancellation(reason, "queue"), ok)
  BY <1>1, <1>3, SaveType
<1> QED
  BY <1>2, <1>3 DEF PersistQueuedCancellation

(* Every step of every thread keeps the durable store well formed.         *)
LEMMA StoreStep ==
    ASSUME TypeOK, ControlOK, Next
    PROVE  StoreOK'
<1> USE DEF TypeOK
<1>a. /\ {"failed", "cancelled", "running", "cancelling", "queued",
          "prepared", "success", "pending", "absent"} \subseteq Statuses
      /\ \A r \in Runs : cancellation[r] \in Cancellations
  BY DEF StoreOK, Statuses, Terminal, Results, Live
<1>b. \A q \in Reasons, p \in Phases : Cancellation(q, p) \in Cancellations
  BY DEF Cancellation, Cancellations
<1>c. {"queue", "pipeline"} \subseteq Phases
  BY DEF Phases
<1>frame. CASE UNCHANGED storeVars
  BY <1>frame DEF storeVars, StoreOK
<1>1. ASSUME NEW r \in Runs, Create(r) \/ AdmitPreallocated(r)
      PROVE  StoreOK'
  BY <1>1, <1>frame, CreateType DEF Create, AdmitPreallocated
<1>2. ASSUME NEW r \in Runs, ReconcilePreallocated(r)
      PROVE  StoreOK'
  BY <1>2, <1>a DEF ReconcilePreallocated, StoreOK
<1>3. ASSUME NEW r \in Runs, ResolveFailedCreation(r)
      PROVE  StoreOK'
  BY <1>3, <1>frame, TerminalizeType DEF ResolveFailedCreation
<1>4. ASSUME NEW r \in Runs, ConfirmAdmission(r)
      PROVE  StoreOK'
  BY <1>4, ReadType DEF ConfirmAdmission, StoreOK
<1>5. ASSUME NEW r \in Runs, MarkQueued(r)
      PROVE  StoreOK'
  BY <1>5, <1>a, <1>frame, SaveType DEF MarkQueued
<1>6. ASSUME NEW r \in Runs, MarkEnqueueFailed(r)
      PROVE  StoreOK'
  BY <1>6, <1>a, <1>frame, SaveType DEF MarkEnqueueFailed
<1>7. ASSUME NEW r \in Runs, CancelQueued(r)
      PROVE  StoreOK'
  BY <1>7, PersistType DEF CancelQueued, Reasons
<1>8. CASE GuardTerminalizes \/ BeginPipeline \/ ObserveCancellation
           \/ FinalizeCancellation \/ FinishRun
  <2>1. active \in Runs
    BY <1>8 DEF GuardTerminalizes, BeginPipeline, ObserveCancellation,
                FinalizeCancellation, FinishRun, ControlOK, Busy
  <2>2. CASE GuardTerminalizes
    BY <2>1, <2>2, <1>a, <1>b, <1>c, <1>frame, SaveType
       DEF GuardTerminalizes, ControlOK
  <2>3. CASE BeginPipeline
    BY <2>1, <2>3, <1>a, <1>frame, SaveType DEF BeginPipeline
  <2>4. CASE ObserveCancellation
    BY <2>1, <2>4, <1>a, <1>b, <1>c, SaveType
       DEF ObserveCancellation, ControlOK
  <2>5. CASE FinalizeCancellation
    BY <2>1, <2>5, <1>a, <1>b, <1>c, SaveType
       DEF FinalizeCancellation, ControlOK
  <2>6. CASE FinishRun
    BY <2>1, <2>6, <1>a, SaveType DEF FinishRun
  <2> QED
    BY <1>8, <2>2, <2>3, <2>4, <2>5, <2>6
<1>9. CASE CallbackReturns \/ ClearActive
  BY <1>9, ReadType DEF CallbackReturns, ClearActive, StoreOK
<1>10. CASE FinalizeWorkerError
  BY <1>10, FinalizeErrorType DEF FinalizeWorkerError, ControlOK, Busy
<1>11. CASE DrainPersist
  <2>1. task.run \in Runs /\ task.kind \in Kinds
    BY <1>11 DEF DrainPersist, ControlOK, Tasks
  <2> QED
    BY <1>11, <2>1, PersistType, TerminalizeType, FinalizeErrorType
       DEF DrainPersist, Kinds, Reasons
<1>12. ASSUME NEW r \in Runs,
              \/ Reserve(r) \/ RefuseStorage(r) \/ Track(r)
              \/ SubmitReserved(r) \/ SubmitDirect(r) \/ Enqueue(r)
              \/ MarkFailed(r) \/ CancelCall(r) \/ CancelActive(r)
              \/ CancelUnowned(r)
       PROVE  StoreOK'
  BY <1>12, <1>frame
     DEF Reserve, RefuseStorage, Track, SubmitReserved, SubmitDirect, Enqueue,
         MarkFailed, CancelCall, CancelActive, CancelUnowned
<1>13. ASSUME NEW f \in BOOLEAN, Start(f) \/ CallbackRaises(f)
       PROVE  StoreOK'
  BY <1>13, <1>frame DEF Start, CallbackRaises
<1>14. CASE \/ WorkerExit \/ Dequeue \/ GuardBlocks \/ LoseClaim
            \/ ClaimTerminal \/ Stop \/ BeginShutdown \/ Shutdown
            \/ DrainTake \/ DrainRecord \/ DrainReturn \/ JoinWorker
            \/ ShutdownResult \/ Expire \/ Terminated
  BY <1>14, <1>frame
     DEF WorkerExit, Dequeue, GuardBlocks, LoseClaim, ClaimTerminal, Stop,
         BeginShutdown, Shutdown, DrainTake, DrainRecord, DrainReturn,
         JoinWorker, ShutdownResult, Expire, Terminated, vars
<1> QED
  BY <1>1, <1>2, <1>3, <1>4, <1>5, <1>6, <1>7, <1>8, <1>9, <1>10, <1>11,
     <1>12, <1>13, <1>14
     DEF Next, Admission, Cancelling, Worker, Callback, ShutdownSteps

(* Removing a Run from the middle of the FIFO, as a cancellation does.     *)
LEMMA RemoveAtProperties ==
    ASSUME NEW S, NEW s \in Seq(S), NEW i \in DOMAIN s
    PROVE  /\ RemoveAt(s, i) \in Seq(S)
           /\ Len(RemoveAt(s, i)) = Len(s) - 1
           /\ \A j \in 1..(Len(s) - 1) :
                 RemoveAt(s, i)[j] = IF j < i THEN s[j] ELSE s[j + 1]
<1> DEFINE a == SubSeq(s, 1, i - 1)
           b == SubSeq(s, i + 1, Len(s))
<1>1. i \in 1..Len(s) /\ Len(s) \in Nat /\ \A j \in 1..Len(s) : s[j] \in S
  OBVIOUS
<1>2. /\ a \in Seq(S) /\ Len(a) = i - 1
      /\ \A j \in 1..(i - 1) : a[j] = s[j]
  BY <1>1, SubSeqProperties
<1>3. /\ b \in Seq(S) /\ Len(b) = Len(s) - i
      /\ \A j \in 1..(Len(s) - i) : b[j] = s[i + j]
  BY <1>1, SubSeqProperties
<1>4. RemoveAt(s, i) = a \o b
  BY DEF RemoveAt
<1> HIDE DEF a, b
<1>5. /\ a \o b \in Seq(S)
      /\ Len(a \o b) = Len(s) - 1
      /\ \A j \in 1..(Len(s) - 1) :
            (a \o b)[j] = IF j <= i - 1 THEN a[j] ELSE b[j - (i - 1)]
  <2>1. Len(a) + Len(b) = Len(s) - 1
    BY <1>1, <1>2, <1>3
  <2>2. /\ a \o b \in Seq(S)
        /\ Len(a \o b) = Len(a) + Len(b)
        /\ \A j \in 1..(Len(a) + Len(b)) :
              (a \o b)[j] = IF j <= Len(a) THEN a[j] ELSE b[j - Len(a)]
    BY <1>2, <1>3, ConcatProperties, Zenon
  <2> QED
    BY <2>1, <2>2, <1>2
<1>6. \A j \in 1..(Len(s) - 1) :
         (a \o b)[j] = IF j < i THEN s[j] ELSE s[j + 1]
  <2> TAKE j \in 1..(Len(s) - 1)
  <2>1. CASE j < i
    BY <2>1, <1>1, <1>2, <1>5
  <2>2. CASE ~(j < i)
    <3>1. j - (i - 1) \in 1..(Len(s) - i)
      BY <2>2, <1>1
    <3>2. b[j - (i - 1)] = s[j + 1]
      <4>1. b[j - (i - 1)] = s[i + (j - (i - 1))]
        BY <3>1, <1>3, Zenon
      <4>2. i + (j - (i - 1)) = j + 1
        BY <1>1
      <4> QED
        BY <4>1, <4>2
    <3>3. ~(j <= i - 1)
      BY <2>2, <1>1
    <3>4. (a \o b)[j] = b[j - (i - 1)]
      BY <3>3, <1>5, Zenon
    <3> QED
      BY <2>2, <3>2, <3>4, Zenon
  <2> QED
    BY <2>1, <2>2
<1> QED
  BY <1>4, <1>5, <1>6

(* Every step keeps the queue, the leases and the callers' states typed;   *)
(* a lease is only ever held for a Run requested over HTTP.                *)
LEMMA AdmissionStep ==
    ASSUME TypeOK, ControlOK, Next
    PROVE  AdmissionOK'
<1> USE DEF TypeOK
<1>a. \A r \in Runs, pc \in AdmissionPcs :
         Goto(r, pc) => adm' \in [Runs -> AdmissionPcs]
  BY DEF Goto, AdmissionOK
<1>b. \A r \in Runs, pc \in CancelPcs :
         [cpc EXCEPT ![r] = pc] \in [Runs -> CancelPcs]
  BY DEF AdmissionOK
<1>1. ASSUME NEW r \in Runs,
             \/ Reserve(r) \/ RefuseStorage(r) \/ Track(r) \/ Create(r)
             \/ ResolveFailedCreation(r) \/ ConfirmAdmission(r)
      PROVE  AdmissionOK'
  BY <1>1, <1>a
     DEF Reserve, RefuseStorage, Track, Create, ResolveFailedCreation,
         ConfirmAdmission, Settle, AdmissionOK, AdmissionPcs, leaseVars,
         cancelVars
<1>2. ASSUME NEW r \in Runs,
             \/ SubmitReserved(r) \/ SubmitDirect(r) \/ MarkQueued(r)
             \/ Enqueue(r) \/ MarkFailed(r) \/ MarkEnqueueFailed(r)
             \/ AdmitPreallocated(r)
      PROVE  AdmissionOK'
  BY <1>2, <1>a
     DEF SubmitReserved, SubmitDirect, MarkQueued, Enqueue, MarkFailed,
         MarkEnqueueFailed, AdmitPreallocated, Settle, AdmissionOK,
         AdmissionPcs, leaseVars, cancelVars
<1>3. ASSUME NEW r \in Runs, CancelCall(r) \/ CancelUnowned(r)
      PROVE  AdmissionOK'
  BY <1>3, <1>b
     DEF CancelCall, CancelUnowned, AdmissionOK, CancelPcs, admitVars,
         leaseVars
<1>4. ASSUME NEW r \in Runs, CancelQueued(r)
      PROVE  AdmissionOK'
  <2>1. queue' \in Seq(Runs)
    BY <1>4, RemoveAtProperties DEF CancelQueued, AdmissionOK
  <2> QED
    BY <1>4, <1>b, <2>1 DEF CancelQueued, AdmissionOK, CancelPcs, leaseVars
<1>5. ASSUME NEW r \in Runs, CancelActive(r)
      PROVE  AdmissionOK'
  BY <1>5, <1>b
     DEF CancelActive, RequestCancel, AdmissionOK, CancelPcs, admitVars,
         leaseVars
<1>6. CASE Dequeue
  BY <1>6, HeadTailProperties
     DEF Dequeue, AdmissionOK, leaseVars, cancelVars
<1>7. CASE Stop
  BY <1>7 DEF Stop, AdmissionOK, leaseVars, cancelVars
<1>13. CASE BeginShutdown
  BY <1>13, EmptySeq DEF BeginShutdown, AdmissionOK, leaseVars, cancelVars
<1>8. CASE Shutdown
  BY <1>8
     DEF Shutdown, RequestCancel, AdmissionOK, ActiveOK, admitVars, leaseVars
<1>frame. CASE UNCHANGED <<admitVars, cancelVars>>
  BY <1>frame DEF AdmissionOK, admitVars, leaseVars, cancelVars
<1>9. ASSUME NEW r \in Runs, ReconcilePreallocated(r)
      PROVE  AdmissionOK'
  BY <1>9, <1>frame DEF ReconcilePreallocated
<1>10. ASSUME NEW f \in BOOLEAN, Start(f) \/ CallbackRaises(f)
       PROVE  AdmissionOK'
  BY <1>10, <1>frame DEF Start, CallbackRaises
<1>11. CASE \/ WorkerExit \/ GuardBlocks \/ GuardTerminalizes \/ BeginPipeline
            \/ ObserveCancellation \/ LoseClaim \/ FinalizeCancellation
            \/ ClaimTerminal \/ FinishRun \/ CallbackReturns
            \/ FinalizeWorkerError \/ ClearActive
  BY <1>11, <1>frame
     DEF WorkerExit, GuardBlocks, GuardTerminalizes, BeginPipeline,
         ObserveCancellation, LoseClaim, FinalizeCancellation, ClaimTerminal,
         FinishRun, CallbackReturns, FinalizeWorkerError, ClearActive
<1>12. CASE \/ DrainTake \/ DrainPersist \/ DrainRecord \/ DrainReturn
            \/ JoinWorker \/ ShutdownResult \/ Expire \/ Terminated
  BY <1>12, <1>frame
     DEF DrainTake, DrainPersist, DrainRecord, DrainReturn, JoinWorker,
         ShutdownResult, Expire, Terminated, vars
<1> QED
  BY <1>1, <1>2, <1>3, <1>4, <1>5, <1>6, <1>7, <1>8, <1>9, <1>10, <1>11,
     <1>12, <1>13
     DEF Next, Admission, Cancelling, Worker, Callback, ShutdownSteps

(* Every step keeps the active context, the worker's control and the owner *)
(* of the active Run's outcome in agreement.                               *)
LEMMA ControlStep ==
    ASSUME TypeOK, ControlOK, Next
    PROVE  ActiveOK' /\ ControlOK'
<1> USE DEF TypeOK
<1>1. ASSUME NEW r \in Runs, CancelActive(r)
      PROVE  ActiveOK' /\ ControlOK'
  BY <1>1
     DEF CancelActive, RequestCancel, ActiveOK, ControlOK, Reasons,
         workerVars, drainVars
<1>2. CASE Shutdown
  BY <1>2
     DEF Shutdown, RequestCancel, ActiveOK, ControlOK, Reasons, workerVars
<1>3. CASE Dequeue
  <2>1. Head(queue) \in Runs
    BY <1>3, HeadTailProperties DEF Dequeue, AdmissionOK
  <2> QED
    BY <1>3, <2>1
       DEF Dequeue, ActiveOK, ControlOK, WorkerPcs, Busy, drainVars
<1>4. ASSUME NEW f \in BOOLEAN, Start(f) \/ CallbackRaises(f)
      PROVE  ActiveOK' /\ ControlOK'
  BY <1>4
     DEF Start, CallbackRaises, ActiveOK, ControlOK, WorkerPcs, Busy,
         activeVars, drainVars
<1>5. CASE GuardBlocks \/ GuardTerminalizes \/ BeginPipeline
           \/ ObserveCancellation \/ LoseClaim
  BY <1>5
     DEF GuardBlocks, GuardTerminalizes, BeginPipeline, ObserveCancellation,
         LoseClaim, ActiveOK, ControlOK, WorkerPcs, Busy, activeVars,
         drainVars
<1>6. CASE FinalizeCancellation \/ ClaimTerminal \/ FinishRun
           \/ CallbackReturns \/ FinalizeWorkerError \/ WorkerExit
  BY <1>6
     DEF FinalizeCancellation, ClaimTerminal, FinishRun, CallbackReturns,
         FinalizeWorkerError, WorkerExit, ActiveOK, ControlOK, WorkerPcs,
         Busy, activeVars, drainVars
<1>7. CASE ClearActive
  BY <1>7
     DEF ClearActive, ActiveOK, ControlOK, WorkerPcs, Busy, drainVars
<1>8. CASE DrainTake
  <2>1. task' \in Tasks
    BY <1>8
       DEF DrainTake, Pending, Unresolved, PassKinds, Kinds, Task, Tasks,
           ShutdownOK
  <2> QED
    BY <1>8, <2>1 DEF DrainTake, ActiveOK, ControlOK, activeVars, workerVars
<1>9. CASE DrainPersist \/ DrainRecord \/ DrainReturn \/ JoinWorker
           \/ ShutdownResult \/ BeginShutdown
  BY <1>9
     DEF DrainPersist, DrainRecord, DrainReturn, JoinWorker, ShutdownResult,
         BeginShutdown, ActiveOK, ControlOK, activeVars, workerVars
<1>frame. CASE UNCHANGED <<activeVars, workerVars, spc, task>>
  BY <1>frame DEF ActiveOK, ControlOK, activeVars, workerVars
<1>10. ASSUME NEW r \in Runs,
             \/ Reserve(r) \/ RefuseStorage(r) \/ Track(r) \/ Create(r)
             \/ ResolveFailedCreation(r) \/ ConfirmAdmission(r)
             \/ SubmitReserved(r) \/ SubmitDirect(r) \/ MarkQueued(r)
             \/ Enqueue(r) \/ MarkFailed(r) \/ MarkEnqueueFailed(r)
             \/ AdmitPreallocated(r) \/ ReconcilePreallocated(r)
             \/ CancelCall(r) \/ CancelUnowned(r) \/ CancelQueued(r)
       PROVE  ActiveOK' /\ ControlOK'
  BY <1>10, <1>frame
     DEF Reserve, RefuseStorage, Track, Create, ResolveFailedCreation,
         ConfirmAdmission, SubmitReserved, SubmitDirect, MarkQueued, Enqueue,
         MarkFailed, MarkEnqueueFailed, AdmitPreallocated,
         ReconcilePreallocated, CancelCall, CancelUnowned, CancelQueued,
         drainVars
<1>11. CASE Stop \/ Expire \/ Terminated
  BY <1>11, <1>frame DEF Stop, Expire, Terminated, vars, drainVars
<1> QED
  BY <1>1, <1>2, <1>3, <1>4, <1>5, <1>6, <1>7, <1>8, <1>9, <1>10, <1>11
     DEF Next, Admission, Cancelling, Worker, Callback, ShutdownSteps

(* Every step keeps what shutdown owns and remembers well typed.           *)
LEMMA ShutdownStep ==
    ASSUME TypeOK, ControlOK, Next
    PROVE  ShutdownOK'
<1> USE DEF TypeOK
<1>1. ASSUME NEW r \in Runs, ConfirmAdmission(r) \/ MarkFailed(r)
      PROVE  ShutdownOK'
  BY <1>1
     DEF ConfirmAdmission, MarkFailed, OwnUnresolved, ShutdownOK, ownedVars,
         drainVars
<1>2. ASSUME NEW r \in Runs, Enqueue(r)
      PROVE  ShutdownOK'
  BY <1>2 DEF Enqueue, ShutdownOK, drainVars
<1>3. CASE ClearActive
  BY <1>3 DEF ClearActive, ControlOK, Busy, ShutdownOK, drainVars
<1>4. CASE BeginShutdown
  <2>1. ToSet(queue) \subseteq Runs
    BY DEF ToSet, AdmissionOK
  <2> QED
    BY <1>4, <2>1 DEF BeginShutdown, ShutdownOK, ShutdownPcs
<1>5. CASE DrainTake
  <2>1. task' \in Tasks /\ attempted' \subseteq Tasks
    BY <1>5
       DEF DrainTake, Pending, Unresolved, PassKinds, Kinds, Task, Tasks,
           ShutdownOK
  <2> QED
    BY <1>5, <2>1 DEF DrainTake, ShutdownOK, ShutdownPcs, ownedVars
<1>6. CASE DrainRecord
  BY <1>6 DEF DrainRecord, ShutdownOK, ShutdownPcs
<1>7. CASE Shutdown \/ DrainPersist \/ DrainReturn \/ JoinWorker
           \/ ShutdownResult \/ Expire
  BY <1>7
     DEF Shutdown, DrainPersist, DrainReturn, JoinWorker, ShutdownResult,
         Expire, ShutdownOK, ShutdownPcs, ownedVars
<1>frame. CASE UNCHANGED <<ownedVars, drainVars>>
  BY <1>frame DEF ShutdownOK, ownedVars, drainVars
<1>8. ASSUME NEW r \in Runs,
             \/ Reserve(r) \/ RefuseStorage(r) \/ Track(r) \/ Create(r)
             \/ ResolveFailedCreation(r)
             \/ SubmitReserved(r) \/ SubmitDirect(r) \/ MarkQueued(r)
             \/ MarkEnqueueFailed(r)
             \/ AdmitPreallocated(r) \/ ReconcilePreallocated(r)
             \/ CancelCall(r) \/ CancelUnowned(r) \/ CancelQueued(r)
             \/ CancelActive(r)
      PROVE  ShutdownOK'
  BY <1>8, <1>frame
     DEF Reserve, RefuseStorage, Track, Create, ResolveFailedCreation,
         SubmitReserved, SubmitDirect, MarkQueued, MarkEnqueueFailed,
         AdmitPreallocated, ReconcilePreallocated, CancelCall, CancelUnowned,
         CancelQueued, CancelActive
<1>9. ASSUME NEW f \in BOOLEAN, Start(f) \/ CallbackRaises(f)
      PROVE  ShutdownOK'
  BY <1>9, <1>frame DEF Start, CallbackRaises
<1>10. CASE \/ WorkerExit \/ Dequeue \/ GuardBlocks \/ GuardTerminalizes
            \/ BeginPipeline
            \/ ObserveCancellation \/ LoseClaim \/ FinalizeCancellation
            \/ ClaimTerminal \/ FinishRun \/ CallbackReturns
            \/ FinalizeWorkerError \/ Stop \/ Terminated
  BY <1>10, <1>frame
     DEF WorkerExit, Dequeue, GuardBlocks, GuardTerminalizes, BeginPipeline,
         ObserveCancellation, LoseClaim, FinalizeCancellation, ClaimTerminal,
         FinishRun, CallbackReturns, FinalizeWorkerError, Stop, Terminated,
         vars
<1> QED
  BY <1>1, <1>2, <1>3, <1>4, <1>5, <1>6, <1>7, <1>8, <1>9, <1>10
     DEF Next, Admission, Cancelling, Worker, Callback, ShutdownSteps

(* The flags are Boolean whatever happens.  (Boolean-valued variables are  *)
(* first-order terms to Zenon, which proves this part.)                    *)
LEMMA FlagsStep ==
    ASSUME FlagsOK, Next
    PROVE  FlagsOK'
<1>1. ASSUME NEW b \in BOOLEAN, Start(b)
      PROVE  FlagsOK'
  <2>1. (~b) \in BOOLEAN
    BY Zenon
  <2> QED
    BY <1>1, <2>1, Zenon
       DEF Start, FlagsOK, ownedVars, drainVars
<1>2. ASSUME NEW f \in BOOLEAN, CallbackRaises(f)
      PROVE  FlagsOK'
  BY <1>2, Zenon DEF CallbackRaises, FlagsOK, gateVars, ownedVars, drainVars
<1>3. ASSUME Dequeue
      PROVE  FlagsOK'
  BY <1>3, Zenon DEF Dequeue, FlagsOK, gateVars, ownedVars, drainVars
<1>4. ASSUME ClearActive
      PROVE  FlagsOK'
  BY <1>4, Zenon DEF ClearActive, FlagsOK, drainVars
<1>5. ASSUME Stop
      PROVE  FlagsOK'
  BY <1>5, Zenon DEF Stop, FlagsOK, ownedVars, workerVars, drainVars
<1>6. ASSUME BeginShutdown
      PROVE  FlagsOK'
  BY <1>6, Zenon DEF BeginShutdown, FlagsOK, workerVars
<1>7. ASSUME Shutdown
      PROVE  FlagsOK'
  BY <1>7, Zenon DEF Shutdown, FlagsOK, ownedVars, workerVars
<1>8. ASSUME DrainPersist
      PROVE  FlagsOK'
  BY <1>8, Zenon DEF DrainPersist, FlagsOK, gateVars, ownedVars, workerVars
<1>9. ASSUME DrainRecord
      PROVE  FlagsOK'
  BY <1>9, Zenon DEF DrainRecord, FlagsOK, gateVars, workerVars
<1>frame. ASSUME UNCHANGED <<gateVars, workerFatal, fatal, resolved>>
          PROVE  FlagsOK'
  BY <1>frame, Zenon DEF FlagsOK, gateVars
<1>10. ASSUME NEW r \in Runs,
             \/ Reserve(r) \/ RefuseStorage(r) \/ Track(r) \/ Create(r)
             \/ ResolveFailedCreation(r) \/ ConfirmAdmission(r)
             \/ SubmitReserved(r) \/ SubmitDirect(r) \/ MarkQueued(r)
             \/ Enqueue(r) \/ MarkFailed(r) \/ MarkEnqueueFailed(r)
             \/ AdmitPreallocated(r) \/ ReconcilePreallocated(r)
             \/ CancelCall(r) \/ CancelUnowned(r) \/ CancelQueued(r)
             \/ CancelActive(r)
       PROVE  FlagsOK'
  <2>1. UNCHANGED <<gateVars, workerFatal, fatal, resolved>>
    BY <1>10
       DEF Reserve, RefuseStorage, Track, Create, ResolveFailedCreation,
           ConfirmAdmission, SubmitReserved, SubmitDirect, MarkQueued, Enqueue,
           MarkFailed, MarkEnqueueFailed, AdmitPreallocated,
           ReconcilePreallocated, CancelCall, CancelUnowned, CancelQueued,
           CancelActive, ownedVars, workerVars, drainVars
  <2> QED
    BY <2>1, <1>frame
<1>11. ASSUME \/ WorkerExit \/ GuardBlocks \/ GuardTerminalizes
              \/ BeginPipeline \/ ObserveCancellation \/ LoseClaim
              \/ FinalizeCancellation \/ ClaimTerminal \/ FinishRun
              \/ CallbackReturns \/ FinalizeWorkerError
       PROVE  FlagsOK'
  <2>1. UNCHANGED <<gateVars, workerFatal, fatal, resolved>>
    BY <1>11
       DEF WorkerExit, GuardBlocks, GuardTerminalizes, BeginPipeline,
           ObserveCancellation, LoseClaim, FinalizeCancellation,
           ClaimTerminal, FinishRun, CallbackReturns, FinalizeWorkerError,
           ownedVars, drainVars
  <2> QED
    BY <2>1, <1>frame
<1>12. ASSUME \/ DrainTake \/ DrainReturn \/ JoinWorker \/ ShutdownResult
              \/ Expire \/ Terminated
       PROVE  FlagsOK'
  <2>1. UNCHANGED <<gateVars, workerFatal, fatal, resolved>>
    BY <1>12
       DEF DrainTake, DrainReturn, JoinWorker, ShutdownResult, Expire,
           Terminated, vars, ownedVars, workerVars, drainVars
  <2> QED
    BY <2>1, <1>frame
<1> QED
  BY <1>1, <1>2, <1>3, <1>4, <1>5, <1>6, <1>7, <1>8, <1>9, <1>10, <1>11,
     <1>12
     DEF Next, Admission, Cancelling, Worker, Callback, ShutdownSteps

LEMMA TypeInit == Init => TypeOK /\ ControlOK
<1> SUFFICES ASSUME Init PROVE TypeOK /\ ControlOK
  OBVIOUS
<1>1. StoreOK
  BY ConstantsAssumption
     DEF Init, StoreOK, Statuses, NoCancellation, Cancellations
<1>2. AdmissionOK
  BY EmptySeq DEF Init, AdmissionOK, AdmissionPcs, CancelPcs
<1>3. ActiveOK /\ ControlOK
  BY DEF Init, ActiveOK, ControlOK, WorkerPcs, Busy
<1>4. FlagsOK
  BY Zenon DEF Init, FlagsOK
<1>5. ShutdownOK
  BY DEF Init, ShutdownOK, ShutdownPcs
<1> QED
  BY <1>1, <1>2, <1>3, <1>4, <1>5 DEF TypeOK

LEMMA TypeStep == TypeOK /\ ControlOK /\ [Next]_vars => TypeOK' /\ ControlOK'
<1> SUFFICES ASSUME TypeOK, ControlOK, [Next]_vars
             PROVE  TypeOK' /\ ControlOK'
  OBVIOUS
<1>1. CASE Next
  BY <1>1, StoreStep, AdmissionStep, ControlStep, FlagsStep, ShutdownStep
     DEF TypeOK
<1>2. CASE UNCHANGED vars
  <2>1. StoreOK' /\ AdmissionOK' /\ ActiveOK' /\ ControlOK' /\ ShutdownOK'
    BY <1>2
       DEF vars, storeVars, admitVars, leaseVars, activeVars, gateVars,
           ownedVars, workerVars, drainVars, cancelVars, TypeOK, StoreOK,
           AdmissionOK, ActiveOK, ControlOK, ShutdownOK
  <2>2. FlagsOK'
    BY <1>2, Zenon
       DEF vars, gateVars, ownedVars, workerVars, drainVars, TypeOK, FlagsOK
  <2> QED
    BY <2>1, <2>2 DEF TypeOK
<1> QED
  BY <1>1, <1>2

(* The manager's fields and the durable store are well formed in every     *)
(* reachable state, whatever the threads do and whichever saves fail; the  *)
(* worker's control point agrees with who owns the active Run's outcome    *)
(* (CancellationControl), which the type of a durable cancellation rests   *)
(* on.                                                                     *)
THEOREM TypeCorrect == Spec => []TypeOK /\ []ControlOK
BY TypeInit, TypeStep, PTL DEF Spec

-----------------------------------------------------------------------------
(* After begin_shutdown() nothing enters the FIFO or is admitted again.    *)
THEOREM Frozen == Spec => []QueueFrozen
<1>1. Init => QueueFrozen
  BY DEF Init, QueueFrozen
<1>2. QueueFrozen /\ [Next]_vars => QueueFrozen'
  <2> SUFFICES ASSUME QueueFrozen, [Next]_vars PROVE QueueFrozen'
    OBVIOUS
  <2>1. ASSUME NEW r \in Runs, Enqueue(r)
        PROVE  QueueFrozen'
    BY <2>1 DEF Enqueue, QueueFrozen, gateVars
  <2>2. ASSUME NEW r \in Runs, CancelQueued(r)
        PROVE  QueueFrozen'
    BY <2>2 DEF CancelQueued, QueueFrozen, gateVars
  <2>3. CASE Dequeue
    BY <2>3 DEF Dequeue, QueueFrozen, gateVars
  <2>4. ASSUME NEW b \in BOOLEAN, Start(b)
        PROVE  QueueFrozen'
    BY <2>4 DEF Start, QueueFrozen
  <2>5. CASE BeginShutdown \/ Stop
    BY <2>5 DEF BeginShutdown, Stop, QueueFrozen
  <2>6. ASSUME ClearActive
        PROVE  QueueFrozen'
    BY <2>6, Zenon DEF ClearActive, QueueFrozen, admitVars
  <2>frame. CASE UNCHANGED <<queue, accepting, shutdownStarted>>
    BY <2>frame DEF QueueFrozen
  <2>7. ASSUME NEW r \in Runs,
             \/ Reserve(r) \/ RefuseStorage(r) \/ Track(r) \/ Create(r)
             \/ ResolveFailedCreation(r) \/ ConfirmAdmission(r)
             \/ SubmitReserved(r) \/ SubmitDirect(r) \/ MarkQueued(r)
             \/ MarkFailed(r) \/ MarkEnqueueFailed(r)
             \/ AdmitPreallocated(r) \/ ReconcilePreallocated(r)
             \/ CancelCall(r) \/ CancelUnowned(r) \/ CancelActive(r)
        PROVE  QueueFrozen'
    BY <2>7, <2>frame
       DEF Reserve, RefuseStorage, Track, Create, ResolveFailedCreation,
           ConfirmAdmission, SubmitReserved, SubmitDirect, MarkQueued,
           MarkFailed, MarkEnqueueFailed, AdmitPreallocated,
           ReconcilePreallocated, CancelCall, CancelUnowned, CancelActive,
           admitVars, gateVars
  <2>8. ASSUME NEW f \in BOOLEAN, CallbackRaises(f)
        PROVE  QueueFrozen'
    BY <2>8, <2>frame DEF CallbackRaises, admitVars, gateVars
  <2>9. CASE \/ WorkerExit \/ GuardBlocks \/ GuardTerminalizes
             \/ BeginPipeline \/ ObserveCancellation \/ LoseClaim
             \/ FinalizeCancellation \/ ClaimTerminal \/ FinishRun
             \/ CallbackReturns \/ FinalizeWorkerError
    BY <2>9, <2>frame
       DEF WorkerExit, GuardBlocks, GuardTerminalizes, BeginPipeline,
           ObserveCancellation, LoseClaim, FinalizeCancellation,
           ClaimTerminal, FinishRun, CallbackReturns, FinalizeWorkerError,
           admitVars, gateVars
  <2>10. CASE \/ Shutdown \/ DrainTake \/ DrainPersist \/ DrainRecord
              \/ DrainReturn \/ JoinWorker \/ ShutdownResult \/ Expire
              \/ Terminated \/ UNCHANGED vars
    BY <2>10, <2>frame
       DEF Shutdown, DrainTake, DrainPersist, DrainRecord, DrainReturn,
           JoinWorker, ShutdownResult, Expire, Terminated, vars, admitVars,
           gateVars
  <2> QED
    BY <2>1, <2>2, <2>3, <2>4, <2>5, <2>6, <2>7, <2>8, <2>9, <2>10
       DEF Next, Admission, Cancelling, Worker, Callback, ShutdownSteps
<1> QED
  BY <1>1, <1>2, PTL DEF Spec

-----------------------------------------------------------------------------
(* Why a place counted at the start of an admission is still counted when  *)
(* the Run joins the queue: whoever will turn a reservation into a         *)
(* submission, or a submission into a queue entry, still holds it.         *)
PlacesOK ==
    \A r \in Runs :
        /\ adm[r] = "reserved" /\ r \in leases => r \in reservations
        /\ adm[r] \in {"tracked", "created"} /\ r \notin Preallocated
              => r \in tracked /\ r \in reservations
        /\ adm[r] \in {"submitting", "marked"} => r \in submitting

LEMMA PlacesStep ==
    ASSUME TypeOK, PlacesOK, [Next]_vars
    PROVE  PlacesOK'
<1> USE DEF TypeOK
<1>1. ASSUME NEW r \in Runs,
             \/ Reserve(r) \/ RefuseStorage(r) \/ Track(r) \/ Create(r)
             \/ ResolveFailedCreation(r) \/ ConfirmAdmission(r)
      PROVE  PlacesOK'
  BY <1>1
     DEF Reserve, RefuseStorage, Track, Create, ResolveFailedCreation,
         ConfirmAdmission, Settle, Goto, AdmissionOK, PlacesOK, leaseVars
<1>2. ASSUME NEW r \in Runs,
             \/ SubmitReserved(r) \/ SubmitDirect(r) \/ MarkQueued(r)
             \/ Enqueue(r) \/ MarkFailed(r) \/ MarkEnqueueFailed(r)
             \/ AdmitPreallocated(r)
      PROVE  PlacesOK'
  BY <1>2
     DEF SubmitReserved, SubmitDirect, MarkQueued, Enqueue, MarkFailed,
         MarkEnqueueFailed, AdmitPreallocated, Settle, Goto, AdmissionOK,
         PlacesOK, leaseVars
<1>3. CASE Stop
  BY <1>3 DEF Stop, AdmissionOK, PlacesOK
<1>frame. CASE UNCHANGED <<leaseVars, submitting, adm>>
  BY <1>frame DEF PlacesOK, leaseVars
<1>4. ASSUME NEW r \in Runs,
             \/ ReconcilePreallocated(r) \/ CancelCall(r) \/ CancelUnowned(r)
             \/ CancelQueued(r) \/ CancelActive(r)
      PROVE  PlacesOK'
  BY <1>4, <1>frame
     DEF ReconcilePreallocated, CancelCall, CancelUnowned, CancelQueued,
         CancelActive, admitVars
<1>5. ASSUME NEW f \in BOOLEAN, Start(f) \/ CallbackRaises(f)
      PROVE  PlacesOK'
  BY <1>5, <1>frame DEF Start, CallbackRaises, admitVars
<1>6. CASE \/ WorkerExit \/ Dequeue \/ GuardBlocks \/ GuardTerminalizes
           \/ BeginPipeline \/ ObserveCancellation \/ LoseClaim
           \/ FinalizeCancellation \/ ClaimTerminal \/ FinishRun
           \/ CallbackReturns \/ FinalizeWorkerError \/ ClearActive
  BY <1>6, <1>frame
     DEF WorkerExit, Dequeue, GuardBlocks, GuardTerminalizes, BeginPipeline,
         ObserveCancellation, LoseClaim, FinalizeCancellation, ClaimTerminal,
         FinishRun, CallbackReturns, FinalizeWorkerError, ClearActive,
         admitVars
<1>7. CASE \/ BeginShutdown \/ Shutdown \/ DrainTake \/ DrainPersist
           \/ DrainRecord \/ DrainReturn \/ JoinWorker \/ ShutdownResult
           \/ Expire \/ Terminated \/ UNCHANGED vars
  BY <1>7, <1>frame
     DEF BeginShutdown, Shutdown, DrainTake, DrainPersist, DrainRecord,
         DrainReturn, JoinWorker, ShutdownResult, Expire, Terminated, vars,
         admitVars
<1> QED
  BY <1>1, <1>2, <1>3, <1>4, <1>5, <1>6, <1>7
     DEF Next, Admission, Cancelling, Worker, Callback, ShutdownSteps

(* Cardinality of a set of Runs that grows or shrinks by one.              *)
LEMMA PlaceCount ==
    ASSUME NEW S \in SUBSET Runs
    PROVE  /\ Cardinality(S) \in Nat
           /\ \A T \in SUBSET S : Cardinality(T) <= Cardinality(S)
           /\ \A r \in Runs : Cardinality(S \cup {r}) <= Cardinality(S) + 1
           /\ \A r \in S : Cardinality(S \ {r}) = Cardinality(S) - 1
<1>1. IsFiniteSet(S)
  BY ConstantsAssumption, FS_Subset
<1>2. Cardinality(S) \in Nat
  BY <1>1, FS_CardinalityType
<1>3. \A T \in SUBSET S : Cardinality(T) <= Cardinality(S)
  BY <1>1, FS_Subset
<1>4. \A r \in Runs : Cardinality(S \cup {r}) <= Cardinality(S) + 1
  BY <1>1, <1>2, FS_AddElement
<1>5. \A r \in S : Cardinality(S \ {r}) = Cardinality(S) - 1
  BY <1>1, FS_RemoveElement
<1> QED
  BY <1>2, <1>3, <1>4, <1>5

(* The FIFO with the places reserved for it never exceeds queue_capacity,  *)
(* although _require_capacity looks only once, many steps before a Run is  *)
(* appended.                                                               *)
THEOREM Bounded == Spec => []CapacityBound
<1>1. Init => CapacityBound /\ PlacesOK
  BY ConstantsAssumption, FS_EmptySet, EmptySeq
     DEF Init, CapacityBound, PlacesOK
<1>2. TypeOK /\ PlacesOK /\ CapacityBound /\ [Next]_vars => CapacityBound'
  <2> SUFFICES ASSUME TypeOK, PlacesOK, CapacityBound, [Next]_vars
               PROVE  CapacityBound'
    OBVIOUS
  <2> USE DEF TypeOK
  <2>a. /\ reservations \in SUBSET Runs /\ submitting \in SUBSET Runs
        /\ Len(queue) \in Nat /\ Capacity \in Nat
    BY ConstantsAssumption DEF AdmissionOK
  <2>fewer. CASE /\ Len(queue') <= Len(queue) /\ Len(queue') \in Nat
                 /\ reservations' \in SUBSET reservations
                 /\ submitting' \in SUBSET submitting
    <3>1. /\ Cardinality(reservations') <= Cardinality(reservations)
          /\ Cardinality(submitting') <= Cardinality(submitting)
          /\ Cardinality(reservations) \in Nat
          /\ Cardinality(submitting) \in Nat
          /\ Cardinality(reservations') \in Nat
          /\ Cardinality(submitting') \in Nat
      BY <2>a, <2>fewer, PlaceCount
    <3> QED
      BY <3>1, <2>a, <2>fewer DEF CapacityBound
  <2>1. ASSUME NEW r \in Runs, Reserve(r)
        PROVE  CapacityBound'
    BY <2>1, <2>a, PlaceCount DEF Reserve, HasCapacity, CapacityBound
  <2>2. ASSUME NEW r \in Runs, SubmitReserved(r)
        PROVE  CapacityBound'
    <3>1. r \in reservations
      BY <2>2 DEF SubmitReserved, PlacesOK
    <3> QED
      BY <2>2, <3>1, <2>a, PlaceCount DEF SubmitReserved, CapacityBound
  <2>3. ASSUME NEW r \in Runs, SubmitDirect(r)
        PROVE  CapacityBound'
    BY <2>3, <2>a, PlaceCount
       DEF SubmitDirect, HasCapacity, CapacityBound, leaseVars
  <2>4. ASSUME NEW r \in Runs, Enqueue(r)
        PROVE  CapacityBound'
    <3>1. r \in submitting
      BY <2>4 DEF Enqueue, PlacesOK
    <3>2. /\ Len(queue') \in Nat
          /\ Len(queue') <= Len(queue) + 1
      BY <2>4, <2>a, AppendProperties DEF Enqueue, AdmissionOK
    <3>3. /\ Cardinality(submitting') = Cardinality(submitting) - 1
          /\ Cardinality(submitting) \in Nat
      BY <2>4, <3>1, <2>a, PlaceCount DEF Enqueue
    <3>4. /\ Cardinality(reservations') <= Cardinality(reservations)
          /\ Cardinality(reservations) \in Nat
          /\ Cardinality(reservations') \in Nat
      BY <2>4, <2>a, PlaceCount DEF Enqueue, Settle
    <3> QED
      BY <3>2, <3>3, <3>4, <2>a DEF CapacityBound
  <2>5. ASSUME NEW r \in Runs, CancelQueued(r)
        PROVE  CapacityBound'
    <3>1. Len(queue') <= Len(queue) /\ Len(queue') \in Nat
      BY <2>5, <2>a, RemoveAtProperties DEF CancelQueued, AdmissionOK
    <3> QED
      BY <2>5, <3>1, <2>fewer DEF CancelQueued, leaseVars
  <2>6. CASE Dequeue
    <3>1. Len(queue') <= Len(queue) /\ Len(queue') \in Nat
      BY <2>6, <2>a, HeadTailProperties DEF Dequeue, AdmissionOK
    <3> QED
      BY <2>6, <3>1, <2>fewer DEF Dequeue, leaseVars
  <2>7. CASE BeginShutdown
    BY <2>7, <2>a, <2>fewer, EmptySeq DEF BeginShutdown, leaseVars
  <2>8. CASE Stop
    BY <2>8, <2>a, <2>fewer DEF Stop
  <2>9. ASSUME NEW r \in Runs,
               \/ RefuseStorage(r) \/ ResolveFailedCreation(r)
               \/ ConfirmAdmission(r) \/ MarkFailed(r)
        PROVE  CapacityBound'
    BY <2>9, <2>a, <2>fewer
       DEF RefuseStorage, ResolveFailedCreation, ConfirmAdmission, MarkFailed,
           Settle, leaseVars
  <2>frame. CASE UNCHANGED <<queue, leaseVars, submitting>>
    BY <2>frame DEF CapacityBound, leaseVars
  <2>10. ASSUME NEW r \in Runs,
               \/ Track(r) \/ Create(r) \/ MarkQueued(r)
               \/ MarkEnqueueFailed(r) \/ AdmitPreallocated(r)
               \/ ReconcilePreallocated(r) \/ CancelCall(r)
               \/ CancelUnowned(r) \/ CancelActive(r)
         PROVE  CapacityBound'
    BY <2>10 DEF Track, Create, MarkQueued, MarkEnqueueFailed,
       AdmitPreallocated, ReconcilePreallocated, CancelCall, CancelUnowned,
       CancelActive, admitVars, leaseVars, CapacityBound
  <2>11. ASSUME NEW f \in BOOLEAN, Start(f) \/ CallbackRaises(f)
         PROVE  CapacityBound'
    BY <2>11, <2>frame DEF Start, CallbackRaises, admitVars
  <2>12. CASE \/ WorkerExit \/ GuardBlocks \/ GuardTerminalizes
              \/ BeginPipeline \/ ObserveCancellation \/ LoseClaim
              \/ FinalizeCancellation \/ ClaimTerminal \/ FinishRun
              \/ CallbackReturns \/ FinalizeWorkerError \/ ClearActive
    BY <2>12, <2>frame
       DEF WorkerExit, GuardBlocks, GuardTerminalizes, BeginPipeline,
           ObserveCancellation, LoseClaim, FinalizeCancellation,
           ClaimTerminal, FinishRun, CallbackReturns, FinalizeWorkerError,
           ClearActive, admitVars
  <2>13. CASE \/ Shutdown \/ DrainTake \/ DrainPersist \/ DrainRecord
              \/ DrainReturn \/ JoinWorker \/ ShutdownResult \/ Expire
              \/ Terminated \/ UNCHANGED vars
    BY <2>13, <2>frame
       DEF Shutdown, DrainTake, DrainPersist, DrainRecord, DrainReturn,
           JoinWorker, ShutdownResult, Expire, Terminated, vars, admitVars
  <2> QED
    BY <2>1, <2>2, <2>3, <2>4, <2>5, <2>6, <2>7, <2>8, <2>9, <2>10, <2>11,
       <2>12, <2>13
       DEF Next, Admission, Cancelling, Worker, Callback, ShutdownSteps
<1> QED
  BY <1>1, <1>2, PlacesStep, TypeCorrect, PTL DEF Spec

(* Both together: while admissions are open the FIFO keeps its bound, and  *)
(* from begin_shutdown on it is empty and closed.                          *)
THEOREM QueueSound == Spec => []QueueIsSound
BY Bounded, Frozen, PTL DEF QueueIsSound

-----------------------------------------------------------------------------
(* Why a Run that is submitted is nowhere else: a Run requested over HTTP  *)
(* enters the FIFO at the very end of its only admission, one preallocated *)
(* by automation is looked for by submit(), and shutdown captures nothing  *)
(* before it has begun.                                                    *)
FreshOK ==
    /\ \A r \in Runs \ Preallocated :
          adm[r] # "done" => ~Queued(r) /\ r # active
    /\ ~shutdownStarted => shutdownPending = {}

OwnersOK == SingleOwner /\ FreshOK

(* A Run joins the end of the FIFO, or is handed to shutdown.              *)
LEMMA EnqueueOwners ==
    ASSUME TypeOK, PlacesOK, QueueFrozen, OwnersOK, NEW r \in Runs, Enqueue(r)
    PROVE  OwnersOK'
<1> USE DEF TypeOK
<1>1. /\ r \in submitting /\ submitting' = submitting \ {r}
      /\ ~Queued(r) /\ r # active
      /\ UNCHANGED <<active, shutdownStarted>>
  BY DEF Enqueue, PlacesOK, OwnersOK, SingleOwner, Queued, activeVars, gateVars
<1>2. \A q \in Runs \ Preallocated :
         adm'[q] # "done" => q # r /\ adm[q] # "done"
  BY DEF Enqueue, Goto, AdmissionOK
<1>3. CASE shutdownStarted
  <2>1. queue' = <<>> /\ shutdownPending' = shutdownPending \cup {r}
    BY <1>3 DEF Enqueue, QueueFrozen
  <2> QED
    BY <1>1, <1>2, <1>3, <2>1, EmptySeq
       DEF OwnersOK, SingleOwner, FreshOK, Queued
<1>4. CASE ~shutdownStarted
  <2>1. /\ queue' = Append(queue, r) /\ UNCHANGED shutdownPending
        /\ shutdownPending = {}
    BY <1>4 DEF Enqueue, OwnersOK, FreshOK
  <2>2. /\ queue \in Seq(Runs) /\ Len(queue) \in Nat
        /\ DOMAIN queue = 1..Len(queue)
        /\ DOMAIN queue' = 1..(Len(queue) + 1)
        /\ queue'[Len(queue) + 1] = r
        /\ \A i \in 1..Len(queue) : queue'[i] = queue[i]
    BY <2>1, AppendProperties DEF AdmissionOK
  <2>3. \A i \in DOMAIN queue' :
           \/ i \in DOMAIN queue /\ queue'[i] = queue[i]
           \/ i = Len(queue) + 1 /\ queue'[i] = r
    BY <2>2
  <2>4. SingleOwner'
    BY <1>1, <2>1, <2>3 DEF OwnersOK, SingleOwner, Queued
  <2>5. FreshOK'
    BY <1>1, <1>2, <1>4, <2>1, <2>3 DEF OwnersOK, FreshOK, Queued
  <2> QED BY <2>4, <2>5 DEF OwnersOK
<1> QED BY <1>3, <1>4

(* A cancelled Run leaves the FIFO; the others keep their order.           *)
LEMMA CancelQueuedOwners ==
    ASSUME TypeOK, OwnersOK, NEW r \in Runs, CancelQueued(r)
    PROVE  OwnersOK'
<1> USE DEF TypeOK
<1>1. PICK i \in DOMAIN queue : queue' \in {queue, RemoveAt(queue, i)}
  BY DEF CancelQueued
<1>2. UNCHANGED <<submitting, adm, active, shutdownStarted, shutdownPending>>
  BY DEF CancelQueued, activeVars, gateVars, ownedVars
<1>3. CASE queue' = queue
  BY <1>2, <1>3 DEF OwnersOK, SingleOwner, FreshOK, Queued
<1>4. CASE queue' = RemoveAt(queue, i)
  <2>1. /\ queue \in Seq(Runs) /\ Len(queue) \in Nat
        /\ DOMAIN queue = 1..Len(queue)
        /\ DOMAIN queue' = 1..(Len(queue) - 1)
        /\ \A j \in 1..(Len(queue) - 1) :
              queue'[j] = IF j < i THEN queue[j] ELSE queue[j + 1]
    <3>1. queue \in Seq(Runs) /\ Len(queue) \in Nat
          /\ DOMAIN queue = 1..Len(queue)
      BY DEF AdmissionOK
    <3>2. /\ queue' \in Seq(Runs) /\ Len(queue') = Len(queue) - 1
          /\ \A j \in 1..(Len(queue) - 1) :
                queue'[j] = IF j < i THEN queue[j] ELSE queue[j + 1]
      BY <1>4, <3>1, RemoveAtProperties, Zenon
    <3>3. DOMAIN queue' = 1..Len(queue')
      BY <3>2
    <3> QED BY <3>1, <3>2, <3>3
  <2> DEFINE old(j) == IF j < i THEN j ELSE j + 1
  <2>2. \A j \in DOMAIN queue' : old(j) \in DOMAIN queue
                                  /\ queue'[j] = queue[old(j)]
    BY <2>1
  <2>3. \A j, k \in DOMAIN queue' : old(j) = old(k) => j = k
    BY <2>1
  <2> HIDE DEF old
  <2> QED
    BY <1>2, <2>2, <2>3 DEF OwnersOK, SingleOwner, FreshOK, Queued
<1> QED BY <1>1, <1>3, <1>4

(* The head of the FIFO becomes the active Run in the step that removes it. *)
LEMMA DequeueOwners ==
    ASSUME TypeOK, OwnersOK, Dequeue
    PROVE  OwnersOK'
<1> USE DEF TypeOK
<1>1. /\ active' = Head(queue) /\ queue' = Tail(queue) /\ queue # <<>>
      /\ UNCHANGED <<submitting, adm, shutdownStarted, shutdownPending>>
  BY DEF Dequeue, gateVars, ownedVars
<1>2. /\ queue \in Seq(Runs) /\ Len(queue) \in Nat \ {0}
      /\ DOMAIN queue = 1..Len(queue)
      /\ DOMAIN queue' = 1..(Len(queue) - 1)
      /\ active' = queue[1]
      /\ \A j \in 1..(Len(queue) - 1) : queue'[j] = queue[j + 1]
  BY <1>1, HeadTailProperties, EmptySeq DEF AdmissionOK
<1>3. /\ 1 \in DOMAIN queue
      /\ \A j \in DOMAIN queue' : /\ j + 1 \in DOMAIN queue /\ j + 1 # 1
                                   /\ queue'[j] = queue[j + 1]
      /\ \A j, k \in DOMAIN queue' : j + 1 = k + 1 => j = k
  BY <1>2
<1>4. SingleOwner'
  BY <1>1, <1>2, <1>3 DEF OwnersOK, SingleOwner
<1>5. FreshOK'
  BY <1>1, <1>2, <1>3 DEF OwnersOK, FreshOK, Queued
<1> QED BY <1>4, <1>5 DEF OwnersOK

LEMMA OwnersStep ==
    ASSUME TypeOK, ControlOK, PlacesOK, QueueFrozen, OwnersOK, [Next]_vars
    PROVE  OwnersOK'
<1> USE DEF TypeOK
<1>frame. CASE /\ UNCHANGED <<queue, active, shutdownStarted>>
               /\ submitting' \subseteq submitting
               /\ shutdownPending' \subseteq shutdownPending
               /\ \A r \in Runs \ Preallocated :
                     adm'[r] # "done" => adm[r] # "done"
  BY <1>frame DEF OwnersOK, SingleOwner, FreshOK, Queued
<1>1. ASSUME NEW r \in Runs, SubmitReserved(r) \/ SubmitDirect(r)
      PROVE  OwnersOK'
  <2>1. /\ UNCHANGED <<queue, active, shutdownStarted, shutdownPending>>
        /\ submitting' \subseteq submitting \cup {r}
        /\ r \in submitting' => r \in submitting \/ (~Queued(r) /\ r # active)
    BY <1>1 DEF SubmitReserved, SubmitDirect, Submitted, OwnersOK, FreshOK,
                activeVars, gateVars, ownedVars
  <2>2. \A q \in Runs \ Preallocated : adm'[q] # "done" => adm[q] # "done"
    BY <1>1 DEF SubmitReserved, SubmitDirect, Goto, AdmissionOK
  <2> QED
    BY <2>1, <2>2 DEF OwnersOK, SingleOwner, FreshOK, Queued
<1>2. ASSUME NEW r \in Runs, Enqueue(r)
      PROVE  OwnersOK'
  BY <1>2, EnqueueOwners
<1>3. ASSUME NEW r \in Runs, CancelQueued(r)
      PROVE  OwnersOK'
  BY <1>3, CancelQueuedOwners
<1>4. CASE Dequeue
  BY <1>4, DequeueOwners
<1>5. CASE ClearActive
  <2>1. active' = NoRun
        /\ UNCHANGED <<queue, submitting, adm, shutdownStarted, shutdownPending>>
    BY <1>5 DEF ClearActive, admitVars
  <2>2. /\ NoRun \notin Runs /\ submitting \subseteq Runs
        /\ shutdownPending \subseteq Runs
        /\ \A i \in DOMAIN queue : queue[i] \in Runs
    BY ConstantsAssumption DEF AdmissionOK, ShutdownOK
  <2> QED
    BY <2>1, <2>2 DEF OwnersOK, SingleOwner, FreshOK, Queued
<1>6. CASE BeginShutdown
  <2>1. /\ queue' = <<>> /\ shutdownStarted' = TRUE
        /\ shutdownPending' = shutdownPending \cup ToSet(queue)
        /\ UNCHANGED <<submitting, adm, active>>
    BY <1>6 DEF BeginShutdown, activeVars
  <2>2. active \notin ToSet(queue)
    BY DEF OwnersOK, SingleOwner, ToSet
  <2> QED
    BY <2>1, <2>2, EmptySeq DEF OwnersOK, SingleOwner, FreshOK, Queued
<1>7. CASE DrainRecord
  BY <1>7, <1>frame DEF DrainRecord, admitVars, activeVars, gateVars
<1>8. ASSUME NEW r \in Runs,
             \/ Reserve(r) \/ RefuseStorage(r) \/ Track(r) \/ Create(r)
             \/ ResolveFailedCreation(r) \/ ConfirmAdmission(r)
             \/ MarkQueued(r) \/ MarkFailed(r) \/ MarkEnqueueFailed(r)
             \/ AdmitPreallocated(r)
      PROVE  OwnersOK'
  <2>1. /\ UNCHANGED <<queue, active, shutdownStarted, shutdownPending>>
        /\ submitting' \subseteq submitting
    BY <1>8
       DEF Reserve, RefuseStorage, Track, Create, ResolveFailedCreation,
           ConfirmAdmission, MarkQueued, MarkFailed, MarkEnqueueFailed,
           AdmitPreallocated, activeVars, gateVars, ownedVars
  <2>2. \A q \in Runs \ Preallocated : adm'[q] # "done" => adm[q] # "done"
    BY <1>8
       DEF Reserve, RefuseStorage, Track, Create, ResolveFailedCreation,
           ConfirmAdmission, MarkQueued, MarkFailed, MarkEnqueueFailed,
           AdmitPreallocated, Goto, AdmissionOK
  <2> QED BY <2>1, <2>2, <1>frame
<1>still. CASE UNCHANGED <<admitVars, active, shutdownStarted, shutdownPending>>
  BY <1>still, <1>frame DEF admitVars
<1>9. ASSUME NEW r \in Runs,
             \/ ReconcilePreallocated(r) \/ CancelCall(r)
             \/ CancelUnowned(r) \/ CancelActive(r)
      PROVE  OwnersOK'
  BY <1>9, <1>still
     DEF ReconcilePreallocated, CancelCall, CancelUnowned, CancelActive,
         activeVars, gateVars, ownedVars
<1>10. ASSUME NEW f \in BOOLEAN, Start(f) \/ CallbackRaises(f)
       PROVE  OwnersOK'
  BY <1>10, <1>still DEF Start, CallbackRaises, activeVars, gateVars, ownedVars
<1>11. CASE \/ WorkerExit \/ GuardBlocks \/ GuardTerminalizes
            \/ BeginPipeline \/ ObserveCancellation \/ LoseClaim
            \/ FinalizeCancellation \/ ClaimTerminal \/ FinishRun
            \/ CallbackReturns \/ FinalizeWorkerError
  BY <1>11, <1>still
     DEF WorkerExit, GuardBlocks, GuardTerminalizes, BeginPipeline,
         ObserveCancellation, LoseClaim, FinalizeCancellation, ClaimTerminal,
         FinishRun, CallbackReturns, FinalizeWorkerError, activeVars,
         gateVars, ownedVars
<1>12. CASE Stop
  BY <1>12, <1>frame DEF Stop, activeVars, ownedVars
<1>13. CASE \/ Shutdown \/ DrainTake \/ DrainPersist \/ DrainReturn
            \/ JoinWorker \/ ShutdownResult \/ Expire \/ Terminated
            \/ UNCHANGED vars
  BY <1>13, <1>still
     DEF Shutdown, DrainTake, DrainPersist, DrainReturn, JoinWorker,
         ShutdownResult, Expire, Terminated, vars, activeVars, gateVars,
         ownedVars
<1> QED
  BY <1>1, <1>2, <1>3, <1>4, <1>5, <1>6, <1>7, <1>8, <1>9, <1>10, <1>11,
     <1>12, <1>13
     DEF Next, Admission, Cancelling, Worker, Callback, ShutdownSteps

(* The manager is well formed and every Run is in one place: it is never   *)
(* twice in the FIFO, nor in the FIFO while it is active, being submitted  *)
(* or captured by shutdown, so it is executed at most once.                *)
THEOREM OneOwner == Spec => []StateIsSound
<1>1. Init => PlacesOK /\ OwnersOK
  BY ConstantsAssumption, EmptySeq
     DEF Init, PlacesOK, OwnersOK, SingleOwner, FreshOK, Queued
<1>2. TypeOK /\ SingleOwner => StateIsSound
  BY DEF StateIsSound
<1>3. OwnersOK => SingleOwner
  BY DEF OwnersOK
<1>4. TypeOK /\ ControlOK /\ PlacesOK /\ QueueFrozen /\ OwnersOK
        /\ [Next]_vars => PlacesOK' /\ OwnersOK'
  BY PlacesStep, OwnersStep
<1> QED
  BY <1>1, <1>2, <1>3, <1>4, TypeCorrect, Frozen, PTL DEF Spec

-----------------------------------------------------------------------------
(* What the durable status of a Run owes to the place the Run is in.  A    *)
(* Run in flight, queued or active has left "pending" only through its own *)
(* admission; the pipeline keeps the status it wrote under the workspace   *)
(* lock; and a cancellation is accepted only for a Run that can no longer  *)
(* become a result (CancellationControl's owner).                          *)
InFlight == {"created", "submitting", "marked"}
Fresh == {"absent", "partial", "pending"}

PipelineOK ==
    /\ wpc \in {"running", "claimed"} => status[active] = "running"
    /\ wpc = "cancelled" => status[active] \in {"running", "cancelling"}

(* Why no result is ever told to be cancelled, nor the reverse.            *)
ControlledOK ==
    active \in Runs =>
        /\ owner # "terminal_owned" => status[active] \notin Results
        /\ owner = "cancellation_owned" => active \in accepted
        /\ owner \in {"open", "terminal_owned"} => active \notin accepted

(* Work not yet taken by the worker has neither a result nor an accepted   *)
(* cancellation, and work already queued is never admitted again.          *)
WaitingOK ==
    \A r \in Runs :
        /\ Queued(r) \/ adm[r] \in InFlight =>
              status[r] \notin Results /\ r \notin accepted
        /\ Queued(r) \/ r = active =>
              status[r] \notin Fresh /\ adm[r] \in {"idle", "done"}
        /\ adm[r] = "marked" => status[r] \notin Fresh
        /\ status[r] \in Fresh => r \notin accepted

LifeInv == PipelineOK /\ ControlledOK /\ WaitingOK

(* What each helper may write, and what its answer means.                  *)
LEMMA SaveWrites ==
    ASSUME NEW r, NEW s, NEW c, NEW ok \in BOOLEAN, Save(r, s, c, ok)
    PROVE  /\ status' = status \/ status' = [status EXCEPT ![r] = s]
           /\ ok => status' = [status EXCEPT ![r] = s]
BY DEF Save

LEMMA TerminalizeWrites ==
    ASSUME StoreOK, NEW r \in Runs, NEW phase, NEW done \in BOOLEAN,
           TerminalizeAdmission(r, phase, done)
    PROVE  /\ LockFree(r)
           /\ \/ status' = status
              \/ status[r] = "partial" /\ status' = [status EXCEPT ![r] = "absent"]
              \/ /\ status[r] \in {"pending", "queued"}
                 /\ status' = [status EXCEPT ![r] = "failed"]
           /\ done => \/ status'[r] \in Terminal
                      \/ phase = "creation" /\ status'[r] = "absent"
<1>1. status[r] = "absent" => [status EXCEPT ![r] = "absent"] = status
  BY DEF StoreOK
<1>2. [status EXCEPT ![r] = "failed"][r] \in Terminal
      /\ [status EXCEPT ![r] = "absent"][r] = "absent"
  BY DEF StoreOK, Terminal
<1>3. LockFree(r)
  BY DEF TerminalizeAdmission
<1>4. CASE status[r] \in Terminal
  BY <1>4 DEF TerminalizeAdmission, storeVars, Terminal, Results
<1>5. CASE status[r] \in {"absent", "partial"}
  BY <1>1, <1>2, <1>5 DEF TerminalizeAdmission, storeVars, Terminal, Results
<1>6. CASE status[r] \in {"pending", "queued"}
  BY <1>2, <1>6, SaveWrites
     DEF TerminalizeAdmission, storeVars, Terminal, Results
<1>7. CASE status[r] \in {"running", "cancelling"}
  BY <1>7 DEF TerminalizeAdmission, storeVars, Terminal, Results
<1> QED
  <2>1. status[r] \in Statuses
    BY DEF StoreOK
  <2> QED
    BY <1>3, <1>4, <1>5, <1>6, <1>7, <2>1 DEF Statuses, Live

LEMMA FinalizeWrites ==
    ASSUME StoreOK, NEW r \in Runs, NEW done \in BOOLEAN,
           FinalizeError(r, done)
    PROVE  /\ LockFree(r)
           /\ \/ status' = status
              \/ /\ status[r] \in {"queued", "running", "cancelling"}
                 /\ status' = [status EXCEPT ![r] = "failed"]
           /\ done => status'[r] \in Terminal
<1>1. [status EXCEPT ![r] = "failed"][r] \in Terminal
  BY DEF StoreOK, Terminal
<1> QED
  BY <1>1, SaveWrites DEF FinalizeError, storeVars, Terminal, Results

LEMMA PersistWrites ==
    ASSUME StoreOK, NEW r \in Runs, NEW reason, NEW ok \in BOOLEAN,
           PersistQueuedCancellation(r, reason, ok)
    PROVE  /\ LockFree(r)
           /\ \/ status' = status
              \/ /\ status[r] = "queued"
                 /\ status' = [status EXCEPT ![r] = "cancelled"]
           /\ ok => status'[r] = "cancelled"
<1>1. [status EXCEPT ![r] = "cancelled"][r] = "cancelled"
  BY DEF StoreOK
<1> QED
  BY <1>1, SaveWrites DEF PersistQueuedCancellation, storeVars

LEMMA CreateWrites ==
    ASSUME StoreOK, NEW r \in Runs, NEW ok \in BOOLEAN, CreateRun(r, ok)
    PROVE  /\ status[r] = "absent"
           /\ \/ status' = status
              \/ status' = [status EXCEPT ![r] = "partial"]
              \/ status' = [status EXCEPT ![r] = "pending"]
           /\ ok => status' = [status EXCEPT ![r] = "pending"]
<1>1. status[r] = "absent" => [status EXCEPT ![r] = "absent"] = status
  BY DEF StoreOK
<1> QED
  BY <1>1 DEF CreateRun

(* A write by anyone but the pipeline never makes a result, never brings a *)
(* Run back, and never meets the Run whose workspace the pipeline locks.   *)
Outside(r, s) ==
    /\ status' = [status EXCEPT ![r] = s]
    /\ LockFree(r)
    /\ s \notin Results
    /\ s \in Fresh => status[r] \in {"absent", "partial"}

LEMMA OutsideWrite ==
    ASSUME TypeOK, ControlOK, LifeInv, NEW r \in Runs, NEW s \in Statuses,
           Outside(r, s) \/ status' = status,
           UNCHANGED <<queue, adm, activeVars, wpc, accepted>>
    PROVE  LifeInv'
<1>1. CASE status' = status
  BY <1>1
     DEF LifeInv, PipelineOK, ControlledOK, WaitingOK, Queued, activeVars
<1>2. CASE Outside(r, s)
  <2>1. /\ status'[r] = s
        /\ \A q \in Runs : q # r => status'[q] = status[q]
    BY <1>2 DEF Outside, TypeOK, StoreOK
  <2>2. PipelineOK'
    BY <1>2, <2>1
       DEF Outside, LockFree, LifeInv, PipelineOK, ControlOK, Busy, activeVars
  <2>3. ControlledOK'
    BY <1>2, <2>1 DEF Outside, LifeInv, ControlledOK, activeVars
  <2>4. WaitingOK'
    BY <1>2, <2>1
       DEF Outside, LifeInv, WaitingOK, Queued, activeVars, Fresh
  <2> QED
    BY <2>2, <2>3, <2>4 DEF LifeInv
<1> QED
  BY <1>1, <1>2

(* The steps of an admission, and of the requests to cancel, keep it.      *)
LEMMA LifeAdmission ==
    ASSUME TypeOK, ControlOK, OwnersOK, LifeInv, NEW r \in Runs,
           \/ Reserve(r) \/ RefuseStorage(r) \/ Track(r) \/ Create(r)
           \/ ResolveFailedCreation(r) \/ ConfirmAdmission(r)
           \/ SubmitReserved(r) \/ SubmitDirect(r) \/ MarkQueued(r)
           \/ MarkFailed(r) \/ MarkEnqueueFailed(r)
           \/ AdmitPreallocated(r)
    PROVE  LifeInv'
<1>a. UNCHANGED <<queue, activeVars, wpc, accepted>>
  BY DEF Reserve, RefuseStorage, Track, Create, ResolveFailedCreation,
         ConfirmAdmission, SubmitReserved, SubmitDirect, MarkQueued,
         MarkFailed, MarkEnqueueFailed, AdmitPreallocated, workerVars,
         cancelVars
<1>b. \A q : Queued(q)' <=> Queued(q)
  BY <1>a DEF Queued
<1>c. \A q \in Runs : q # r => adm'[q] = adm[q]
  BY DEF Reserve, RefuseStorage, Track, Create, ResolveFailedCreation,
         ConfirmAdmission, SubmitReserved, SubmitDirect, MarkQueued,
         MarkFailed, MarkEnqueueFailed, AdmitPreallocated, Goto, TypeOK,
         AdmissionOK
<1>d. ASSUME status' = status,
             Queued(r) \/ r = active => adm'[r] \in {"idle", "done"},
             adm'[r] \in InFlight => status[r] \notin Results /\ r \notin accepted,
             adm'[r] = "marked" => status[r] \notin Fresh
      PROVE  LifeInv'
  BY <1>a, <1>b, <1>c, <1>d
     DEF LifeInv, PipelineOK, ControlledOK, WaitingOK, activeVars
<1>e. ASSUME NEW s \in Statuses, Outside(r, s),
             Queued(r) \/ r = active => adm'[r] \in {"idle", "done"},
             adm'[r] \in InFlight => r \notin accepted,
             adm'[r] = "marked" => s \notin Fresh
      PROVE  LifeInv'
  <2>1. /\ status'[r] = s /\ s \notin Results
        /\ s \in Fresh => status[r] \in {"absent", "partial"}
        /\ \A q \in Runs : q # r => status'[q] = status[q]
    BY <1>e DEF Outside, TypeOK, StoreOK
  <2>2. PipelineOK'
    BY <1>a, <1>e, <2>1
       DEF Outside, LockFree, LifeInv, PipelineOK, ControlOK, Busy, activeVars
  <2>3. ControlledOK'
    BY <1>a, <2>1 DEF LifeInv, ControlledOK, activeVars
  <2>4. WaitingOK'
    BY <1>a, <1>b, <1>c, <1>e, <2>1
       DEF LifeInv, WaitingOK, activeVars, Fresh
  <2> QED
    BY <2>2, <2>3, <2>4 DEF LifeInv
<1>f. adm[r] \notin {"idle", "done"} => ~Queued(r) /\ r # active
  BY DEF LifeInv, WaitingOK
<1>g. adm[r] = "idle" /\ status[r] \in Fresh => ~Queued(r) /\ r # active
  BY DEF LifeInv, WaitingOK
<1>i. adm[r] = "idle" /\ r \notin Preallocated => ~Queued(r) /\ r # active
  BY DEF OwnersOK, FreshOK
<1>h. {"failed", "queued", "absent", "partial", "pending"} \subseteq Statuses
      /\ Results \cap {"failed", "queued", "absent", "partial", "pending"} = {}
      /\ Fresh \cap {"failed", "queued"} = {}
  BY DEF Statuses, Results, Live, Terminal, Fresh
<1>j. adm \in [Runs -> AdmissionPcs]
  BY DEF TypeOK, AdmissionOK
<1>k. status[r] \in Fresh => LockFree(r)
  BY DEF LockFree, LifeInv, PipelineOK, Fresh
<1>1. CASE \/ Reserve(r) \/ RefuseStorage(r) \/ Track(r)
           \/ ConfirmAdmission(r) \/ MarkFailed(r)
  <2>1. /\ status' = status
        /\ adm'[r] \notin InFlight
        /\ adm[r] = "idle" => r \notin Preallocated
        /\ adm[r] # "done"
    BY <1>1, <1>j
       DEF Reserve, RefuseStorage, Track, ConfirmAdmission, MarkFailed, Goto,
           storeVars, InFlight
  <2> QED
    BY <2>1, <1>d, <1>f, <1>i DEF InFlight
<1>2. CASE SubmitReserved(r) \/ SubmitDirect(r)
  <2>1. /\ status' = status /\ adm[r] = "created"
        /\ adm'[r] \in {"submitting", "idle"}
    BY <1>2, <1>j DEF SubmitReserved, SubmitDirect, Goto, storeVars
  <2>2. status[r] \notin Results /\ r \notin accepted
    BY <2>1 DEF LifeInv, WaitingOK, InFlight
  <2> QED
    BY <2>1, <2>2, <1>d, <1>f
<1>3. CASE Create(r)
  <2>1. PICK ok \in BOOLEAN : CreateRun(r, ok) /\ adm[r] = "tracked"
                    /\ adm'[r] = IF ok THEN "created" ELSE "createFailed"
    BY <1>3, <1>j DEF Create, Goto
  <2>2. r \notin accepted /\ ~Queued(r) /\ r # active /\ LockFree(r)
        /\ status[r] = "absent"
    BY <2>1, <1>f, <1>k, CreateWrites DEF TypeOK, LifeInv, WaitingOK, Fresh
  <2>3. CASE status' = status
    BY <2>1, <2>2, <2>3, <1>d DEF InFlight, Results
  <2>4. ASSUME NEW s \in {"partial", "pending"},
               status' = [status EXCEPT ![r] = s]
        PROVE  LifeInv'
    BY <2>1, <2>2, <2>4, <1>e, <1>h DEF Outside
  <2> QED
    BY <2>1, <2>3, <2>4, CreateWrites DEF TypeOK
<1>4. CASE AdmitPreallocated(r)
  <2>1. /\ adm[r] = "idle" /\ adm'[r] \in {"created", "idle"}
        /\ \/ \E ok \in BOOLEAN : CreateRun(r, ok)
           \/ status[r] = "pending" /\ status' = status
    BY <1>4, <1>j DEF AdmitPreallocated, Goto, storeVars
  <2>2. r \notin accepted /\ ~Queued(r) /\ r # active /\ LockFree(r)
        /\ status[r] \in {"absent", "pending"}
    BY <2>1, <1>g, <1>k, CreateWrites DEF TypeOK, LifeInv, WaitingOK, Fresh
  <2>3. CASE status' = status
    BY <2>1, <2>2, <2>3, <1>d DEF InFlight, Results
  <2>4. ASSUME NEW s \in {"partial", "pending"},
               status' = [status EXCEPT ![r] = s], status[r] = "absent"
        PROVE  LifeInv'
    BY <2>1, <2>2, <2>4, <1>e, <1>h DEF Outside
  <2> QED
    BY <2>1, <2>3, <2>4, CreateWrites DEF TypeOK
<1>5. CASE ResolveFailedCreation(r)
  <2>1. adm[r] = "createFailed" /\ adm'[r] \in {"done", "terminalized"}
    BY <1>5, <1>j DEF ResolveFailedCreation, Goto
  <2>2. CASE status' = status
    BY <2>1, <2>2, <1>d, <1>f DEF InFlight
  <2>3. CASE status' # status
    <3>1. PICK done \in BOOLEAN : TerminalizeAdmission(r, "creation", done)
      BY <1>5, <2>3 DEF ResolveFailedCreation, storeVars
    <3>2. Outside(r, "absent") \/ Outside(r, "failed")
      BY <2>3, <3>1, <1>h, TerminalizeWrites DEF Outside, TypeOK
    <3> QED
      BY <2>1, <3>2, <1>e, <1>f, <1>h DEF InFlight
  <2> QED
    BY <2>2, <2>3
<1>6. CASE MarkQueued(r)
  <2>1. /\ adm[r] = "submitting" /\ adm'[r] \in {"marked", "markFailed"}
        /\ LockFree(r)
        /\ adm'[r] = "marked" => status' # status
        /\ \/ status' = status
           \/ /\ status[r] = "pending"
              /\ status' = [status EXCEPT ![r] = "queued"]
    <3>1. PICK ok \in BOOLEAN :
             /\ Goto(r, IF ok THEN "marked" ELSE "markFailed")
             /\ IF status[r] = "pending"
                THEN Save(r, "queued", cancellation[r], ok)
                ELSE ~ok /\ UNCHANGED storeVars
      BY <1>6 DEF MarkQueued
    <3>2. adm'[r] = IF ok THEN "marked" ELSE "markFailed"
      BY <3>1, <1>j DEF Goto
    <3>3. [status EXCEPT ![r] = "queued"][r] = "queued"
      BY DEF TypeOK, StoreOK
    <3> QED
      BY <1>6, <3>1, <3>2, <3>3, SaveWrites DEF MarkQueued, storeVars
  <2>2. r \notin accepted /\ ~Queued(r) /\ r # active
    BY <2>1, <1>f DEF LifeInv, WaitingOK, InFlight
  <2>3. CASE status' = status
    BY <2>1, <2>2, <2>3, <1>d DEF InFlight
  <2>4. CASE status' = [status EXCEPT ![r] = "queued"]
    BY <2>1, <2>2, <2>4, <1>e, <1>h DEF Outside
  <2> QED
    BY <2>1, <2>3, <2>4
<1>7. CASE MarkEnqueueFailed(r)
  <2>1. /\ adm[r] = "enqueueFailed" /\ adm'[r] = "confirmFailed"
        /\ LockFree(r)
        /\ \/ status' = status
           \/ status' = [status EXCEPT ![r] = "failed"]
    BY <1>7, <1>j, SaveWrites DEF MarkEnqueueFailed, Goto, storeVars
  <2>2. CASE status' = status
    BY <2>1, <2>2, <1>d, <1>f DEF InFlight
  <2>3. CASE status' = [status EXCEPT ![r] = "failed"]
    BY <2>1, <2>3, <1>e, <1>f, <1>h DEF Outside, InFlight
  <2> QED
    BY <2>1, <2>2, <2>3
<1> QED
  BY <1>1, <1>2, <1>3, <1>4, <1>5, <1>6, <1>7

(* A Run that joins the FIFO keeps it.                                     *)
LEMMA LifeEnqueue ==
    ASSUME TypeOK, LifeInv, NEW r \in Runs, Enqueue(r)
    PROVE  LifeInv'
<1>1. /\ adm[r] = "marked" /\ adm'[r] \in {"idle", "done"}
      /\ UNCHANGED <<status, activeVars, wpc, accepted>>
      /\ \A q \in Runs : q # r => adm'[q] = adm[q]
      /\ queue' = queue \/ queue' = Append(queue, r)
  BY DEF Enqueue, Goto, TypeOK, AdmissionOK, storeVars, workerVars, cancelVars
<1>2. \A q : Queued(q)' => Queued(q) \/ q = r
  <2>1. CASE queue' = queue
    BY <2>1 DEF Queued
  <2>2. CASE queue' = Append(queue, r)
    <3>1. /\ queue \in Seq(Runs) /\ Len(queue) \in Nat
          /\ DOMAIN queue = 1..Len(queue)
          /\ DOMAIN queue' = 1..(Len(queue) + 1)
          /\ queue'[Len(queue) + 1] = r
          /\ \A i \in 1..Len(queue) : queue'[i] = queue[i]
      BY <2>2, AppendProperties DEF TypeOK, AdmissionOK
    <3>2. \A i \in DOMAIN queue' :
             \/ i \in DOMAIN queue /\ queue'[i] = queue[i]
             \/ queue'[i] = r
      BY <3>1
    <3> QED
      BY <3>2 DEF Queued
  <2> QED
    BY <1>1, <2>1, <2>2
<1>3. r # active /\ status[r] \notin Results \cup Fresh /\ r \notin accepted
  BY <1>1 DEF LifeInv, WaitingOK, InFlight
<1> QED
  BY <1>1, <1>2, <1>3
     DEF LifeInv, PipelineOK, ControlledOK, WaitingOK, activeVars, InFlight

(* A Run cancelled in the FIFO leaves it in the step that saves it.        *)
LEMMA LifeCancelQueued ==
    ASSUME TypeOK, ControlOK, OwnersOK, LifeInv, NEW r \in Runs,
           CancelQueued(r)
    PROVE  LifeInv'
<1>1. PICK i \in DOMAIN queue, ok \in BOOLEAN :
         /\ queue[i] = r
         /\ PersistQueuedCancellation(r, "user_requested", ok)
         /\ queue' = IF ok THEN RemoveAt(queue, i) ELSE queue
         /\ accepted' = IF ok THEN accepted \cup {r} ELSE accepted
  BY DEF CancelQueued
<1>2. /\ UNCHANGED <<adm, activeVars, wpc>>
      /\ Queued(r) /\ r # active
  BY <1>1 DEF CancelQueued, Queued, OwnersOK, SingleOwner, workerVars
<1>3. /\ LockFree(r)
      /\ \/ status' = status
         \/ status[r] = "queued" /\ status' = [status EXCEPT ![r] = "cancelled"]
      /\ ok => status'[r] = "cancelled"
  BY <1>1, PersistWrites DEF TypeOK
<1>4. CASE ~ok
  <2>1. UNCHANGED <<queue, adm, activeVars, wpc, accepted>>
    BY <1>1, <1>2, <1>4
  <2>2. "cancelled" \in Statuses /\ "cancelled" \notin Fresh \cup Results
    BY DEF Statuses, Terminal, Fresh, Results
  <2> QED
    BY <1>3, <2>1, <2>2, OutsideWrite DEF Outside
<1>5. CASE ok
  <2>1. /\ queue' = RemoveAt(queue, i) /\ accepted' = accepted \cup {r}
        /\ status'[r] = "cancelled"
        /\ \A q \in Runs : q # r => status'[q] = status[q]
    BY <1>1, <1>3, <1>5 DEF TypeOK, StoreOK
  <2>2. \A q : Queued(q)' => Queued(q) /\ q # r
    <3>1. /\ queue \in Seq(Runs) /\ Len(queue) \in Nat
          /\ DOMAIN queue = 1..Len(queue)
      BY DEF TypeOK, AdmissionOK
    <3>2. /\ queue' \in Seq(Runs) /\ Len(queue') = Len(queue) - 1
          /\ \A j \in 1..(Len(queue) - 1) :
                queue'[j] = IF j < i THEN queue[j] ELSE queue[j + 1]
      BY <2>1, <3>1, RemoveAtProperties, Zenon
    <3>3. DOMAIN queue' = 1..(Len(queue) - 1)
      BY <3>1, <3>2
    <3>4. \A j \in DOMAIN queue' :
             \E k \in DOMAIN queue : k # i /\ queue'[j] = queue[k]
      <4> TAKE j \in DOMAIN queue'
      <4>1. CASE j < i
        BY <3>1, <3>2, <3>3, <4>1
      <4>2. CASE ~(j < i)
        <5>1. j + 1 \in DOMAIN queue /\ j + 1 # i
          BY <3>1, <3>3, <4>2
        <5> QED
          BY <3>2, <3>3, <4>2, <5>1
      <4> QED
        BY <4>1, <4>2
    <3>5. \A k \in DOMAIN queue : queue[k] = r => k = i
      BY <1>1 DEF OwnersOK, SingleOwner
    <3> QED
      BY <3>4, <3>5 DEF Queued
  <2>3. \A q \in Runs : status'[q] \in Results => status[q] \in Results
    BY <2>1 DEF Results
  <2>4. \A q \in Runs : status'[q] \in Fresh <=> status[q] \in Fresh
    BY <1>2, <2>1 DEF Fresh, LifeInv, WaitingOK
  <2>5. PipelineOK'
    BY <1>2, <2>1 DEF LifeInv, PipelineOK, ControlOK, Busy, activeVars
  <2>6. ControlledOK'
    BY <1>2, <2>1 DEF LifeInv, ControlledOK, activeVars
  <2>7. adm[r] \notin InFlight /\ status[r] \notin Fresh
    BY <1>2 DEF LifeInv, WaitingOK, InFlight
  <2>8. WaitingOK'
    <3> SUFFICES ASSUME NEW q \in Runs
                 PROVE  /\ Queued(q)' \/ adm'[q] \in InFlight =>
                              status'[q] \notin Results /\ q \notin accepted'
                        /\ Queued(q)' \/ q = active' =>
                              /\ status'[q] \notin Fresh
                              /\ adm'[q] \in {"idle", "done"}
                        /\ adm'[q] = "marked" => status'[q] \notin Fresh
                        /\ status'[q] \in Fresh => q \notin accepted'
      BY DEF WaitingOK
    <3>1. adm' = adm /\ active' = active
      BY <1>2 DEF activeVars
    <3> QED
      BY <2>1, <2>2, <2>3, <2>4, <2>7, <3>1 DEF LifeInv, WaitingOK
  <2> QED
    BY <2>5, <2>6, <2>8 DEF LifeInv
<1> QED
  BY <1>4, <1>5

(* A request to the active Run's control is accepted unless its outcome is *)
(* already claimed.                                                        *)
LEMMA LifeRequest ==
    ASSUME TypeOK, ControlOK, OwnersOK, LifeInv, active \in Runs,
           NEW reason, RequestCancel(reason),
           UNCHANGED <<status, queue, adm, active, wpc>>
    PROVE  LifeInv'
<1>1. \A q : Queued(q)' <=> Queued(q)
  BY DEF Queued
<1>2. ~Queued(active) /\ adm[active] \in {"idle", "done"}
      /\ status[active] \notin Fresh /\ owner # "none"
  BY ConstantsAssumption
     DEF OwnersOK, SingleOwner, Queued, LifeInv, WaitingOK, ControlOK, TypeOK,
         ActiveOK, Busy
<1>3. PipelineOK'
  BY DEF LifeInv, PipelineOK
<1>4. ControlledOK'
  BY <1>2 DEF RequestCancel, LifeInv, ControlledOK, TypeOK, ActiveOK
<1>5. \A q \in Runs : q \in accepted' => q \in accepted \/ q = active
  BY DEF RequestCancel
<1>6. WaitingOK'
  BY <1>1, <1>2, <1>5 DEF LifeInv, WaitingOK, InFlight
<1> QED
  BY <1>3, <1>4, <1>6 DEF LifeInv

(* The Run taken from the FIFO has neither a result nor a cancellation.    *)
LEMMA LifeDequeue ==
    ASSUME TypeOK, LifeInv, Dequeue
    PROVE  LifeInv'
<1>1. /\ active' = Head(queue) /\ queue' = Tail(queue) /\ queue # <<>>
      /\ owner' = "open" /\ wpc' = "dequeued"
      /\ UNCHANGED <<status, adm, accepted>>
  BY DEF Dequeue, storeVars, cancelVars
<1>2. /\ queue \in Seq(Runs) /\ Len(queue) \in Nat \ {0}
      /\ DOMAIN queue = 1..Len(queue)
      /\ DOMAIN queue' = 1..(Len(queue) - 1)
      /\ active' = queue[1]
      /\ \A j \in 1..(Len(queue) - 1) : queue'[j] = queue[j + 1]
  BY <1>1, HeadTailProperties, EmptySeq DEF TypeOK, AdmissionOK
<1>3. /\ 1 \in DOMAIN queue
      /\ \A j \in DOMAIN queue' :
            j + 1 \in DOMAIN queue /\ queue'[j] = queue[j + 1]
  BY <1>2
<1>4. /\ \A q : Queued(q)' => Queued(q)
      /\ Queued(active')
  BY <1>2, <1>3 DEF Queued
<1>5. ControlledOK'
  BY <1>1, <1>4 DEF LifeInv, ControlledOK, WaitingOK
<1>6. WaitingOK'
  BY <1>1, <1>4 DEF LifeInv, WaitingOK
<1> QED
  BY <1>1, <1>5, <1>6 DEF LifeInv, PipelineOK

(* The callback and the worker write only the active Run, and a result     *)
(* only after its outcome was claimed.                                     *)
LEMMA LifeWorker ==
    ASSUME TypeOK, ControlOK, OwnersOK, LifeInv,
           \/ GuardBlocks \/ GuardTerminalizes \/ BeginPipeline
           \/ ObserveCancellation \/ LoseClaim \/ FinalizeCancellation
           \/ ClaimTerminal \/ FinishRun
           \/ (\E f \in BOOLEAN : CallbackRaises(f))
           \/ CallbackReturns \/ FinalizeWorkerError
    PROVE  LifeInv'
<1>1. UNCHANGED <<queue, adm, active, accepted>>
  BY DEF GuardBlocks, GuardTerminalizes, BeginPipeline, ObserveCancellation,
         LoseClaim, FinalizeCancellation, ClaimTerminal, FinishRun,
         CallbackRaises, CallbackReturns, FinalizeWorkerError, admitVars,
         activeVars, cancelVars
<1>2. \A q : Queued(q)' <=> Queued(q)
  BY <1>1 DEF Queued
<1>3. wpc \in Busy
  BY DEF GuardBlocks, GuardTerminalizes, BeginPipeline, ObserveCancellation,
         LoseClaim, FinalizeCancellation, ClaimTerminal, FinishRun,
         CallbackRaises, CallbackReturns, FinalizeWorkerError, Busy
<1>4. /\ active \in Runs /\ status[active] \notin Fresh
      /\ adm[active] \in {"idle", "done"} /\ ~Queued(active)
  BY <1>3 DEF ControlOK, LifeInv, WaitingOK, OwnersOK, SingleOwner, Queued
<1>w. ASSUME NEW s, s \notin Fresh, NEW ok \in BOOLEAN, NEW c,
             Save(active, s, c, ok), owner' = owner,
             s \in Results => owner = "terminal_owned"
      PROVE  /\ ControlledOK' /\ WaitingOK'
             /\ ok => status'[active] = s
  <2>1. /\ status'[active] \in {status[active], s}
        /\ ok => status'[active] = s
        /\ \A q \in Runs : q # active => status'[q] = status[q]
    BY <1>4, <1>w, SaveWrites DEF TypeOK, StoreOK
  <2>2. ControlledOK'
    BY <1>1, <1>4, <1>w, <2>1 DEF LifeInv, ControlledOK
  <2>3. WaitingOK'
    BY <1>1, <1>2, <1>4, <1>w, <2>1 DEF LifeInv, WaitingOK, InFlight
  <2> QED
    BY <2>1, <2>2, <2>3
<1>s. ASSUME status' = status,
             \/ owner' = owner
             \/ owner = "open" /\ owner' = "terminal_owned"
      PROVE  ControlledOK' /\ WaitingOK'
  BY <1>1, <1>2, <1>4, <1>s DEF LifeInv, ControlledOK, WaitingOK
<1>5. CASE GuardBlocks \/ LoseClaim \/ ClaimTerminal \/ CallbackReturns
           \/ (\E f \in BOOLEAN : CallbackRaises(f))
  <2>1. /\ status' = status
        /\ \/ owner' = owner
           \/ owner = "open" /\ owner' = "terminal_owned"
    BY <1>5 DEF GuardBlocks, LoseClaim, ClaimTerminal, CallbackRaises,
                CallbackReturns, storeVars, activeVars
  <2>2. PipelineOK'
    BY <1>1, <1>5, <2>1
       DEF GuardBlocks, LoseClaim, ClaimTerminal, CallbackRaises,
           CallbackReturns, LifeInv, PipelineOK
  <2> QED
    BY <2>1, <2>2, <1>s DEF LifeInv
<1>6. CASE GuardTerminalizes
  <2>1. /\ owner' = owner
        /\ \/ status' = status
           \/ \E ok \in BOOLEAN :
                 \/ Save(active, "failed", cancellation[active], ok)
                 \/ Save(active, "cancelled", Cancellation(request, "queue"),
                         ok)
        /\ wpc' \in {"returned", "failing"}
    BY <1>6 DEF GuardTerminalizes, activeVars, storeVars
  <2>2. ControlledOK' /\ WaitingOK'
    BY <2>1, <1>s, <1>w DEF Fresh, Results
  <2> QED
    BY <2>1, <2>2 DEF LifeInv, PipelineOK
<1>7. CASE BeginPipeline
  <2>1. /\ owner' = owner
        /\ \/ status' = status /\ wpc' = "failing"
           \/ \E ok \in BOOLEAN :
                 /\ Save(active, "running", cancellation[active], ok)
                 /\ wpc' = IF ok THEN "running" ELSE "failing"
    BY <1>7 DEF BeginPipeline, activeVars, storeVars
  <2>2. CASE status' = status /\ wpc' = "failing"
    BY <2>1, <2>2, <1>s DEF LifeInv, PipelineOK
  <2>3. ASSUME NEW ok \in BOOLEAN,
               Save(active, "running", cancellation[active], ok),
               wpc' = IF ok THEN "running" ELSE "failing"
        PROVE  LifeInv'
    <3>1. /\ ControlledOK' /\ WaitingOK'
          /\ ok => status'[active] = "running"
      BY <2>1, <2>3, <1>w DEF Fresh, Results
    <3> QED
      BY <2>3, <3>1, <1>1 DEF LifeInv, PipelineOK
  <2> QED
    BY <2>1, <2>2, <2>3
<1>8. CASE ObserveCancellation
  <2>1. PICK ok \in BOOLEAN :
           /\ Save(active, "cancelling", Cancellation(request, "pipeline"), ok)
           /\ wpc' = IF ok THEN "cancelled" ELSE "failing"
           /\ owner' = owner
    BY <1>8 DEF ObserveCancellation, activeVars
  <2>2. /\ ControlledOK' /\ WaitingOK'
        /\ ok => status'[active] = "cancelling"
    BY <2>1, <1>w DEF Fresh, Results
  <2> QED
    BY <2>1, <2>2, <1>1 DEF LifeInv, PipelineOK
<1>9. CASE FinalizeCancellation
  <2>1. PICK s \in {"cancelled", "failed"}, ok \in BOOLEAN :
           /\ Save(active, s, Cancellation(request, "pipeline"), ok)
           /\ wpc' = IF ok THEN "returned" ELSE "failing"
           /\ owner' = owner
    BY <1>9 DEF FinalizeCancellation, activeVars
  <2>2. ControlledOK' /\ WaitingOK'
    BY <2>1, <1>w DEF Fresh, Results
  <2> QED
    BY <2>1, <2>2 DEF LifeInv, PipelineOK
<1>10. CASE FinishRun
  <2>1. PICK s \in {"prepared", "success", "failed"}, ok \in BOOLEAN :
           /\ Save(active, s, cancellation[active], ok)
           /\ wpc' = IF ok THEN "returned" ELSE "failing"
           /\ owner' = owner /\ owner = "terminal_owned"
    BY <1>10 DEF FinishRun, ControlOK, activeVars
  <2>2. ControlledOK' /\ WaitingOK'
    BY <2>1, <1>w DEF Fresh
  <2> QED
    BY <2>1, <2>2 DEF LifeInv, PipelineOK
<1>11. CASE FinalizeWorkerError
  <2>1. PICK done \in BOOLEAN :
           FinalizeError(active, done) /\ owner' = owner /\ wpc' = "finally"
    BY <1>11 DEF FinalizeWorkerError, activeVars
  <2>2. \/ status' = status
        \/ status' = [status EXCEPT ![active] = "failed"]
    BY <1>4, <2>1, FinalizeWrites DEF TypeOK
  <2>3. CASE status' = status
    BY <2>1, <2>3, <1>s DEF LifeInv, PipelineOK
  <2>4. CASE status' = [status EXCEPT ![active] = "failed"]
    <3>1. /\ status'[active] = "failed"
          /\ \A q \in Runs : q # active => status'[q] = status[q]
      BY <1>4, <2>4 DEF TypeOK, StoreOK
    <3>2. ControlledOK' /\ WaitingOK'
      BY <1>1, <1>2, <1>4, <2>1, <3>1
         DEF LifeInv, ControlledOK, WaitingOK, Fresh, Results, InFlight
    <3> QED
      BY <2>1, <3>2 DEF LifeInv, PipelineOK
  <2> QED
    BY <2>2, <2>3, <2>4
<1> QED
  BY <1>5, <1>6, <1>7, <1>8, <1>9, <1>10, <1>11

(* Every step of every thread keeps it.                                    *)
LEMMA LifeStep ==
    ASSUME TypeOK, ControlOK, OwnersOK, LifeInv, [Next]_vars
    PROVE  LifeInv'
<1>frame. CASE UNCHANGED <<status, queue, adm, active, owner, accepted, wpc>>
  BY <1>frame DEF LifeInv, PipelineOK, ControlledOK, WaitingOK, Queued
<1>1. ASSUME NEW r \in Runs,
             \/ Reserve(r) \/ RefuseStorage(r) \/ Track(r) \/ Create(r)
             \/ ResolveFailedCreation(r) \/ ConfirmAdmission(r)
             \/ SubmitReserved(r) \/ SubmitDirect(r) \/ MarkQueued(r)
             \/ MarkFailed(r) \/ MarkEnqueueFailed(r)
             \/ AdmitPreallocated(r)
      PROVE  LifeInv'
  BY <1>1, LifeAdmission
<1>2. ASSUME NEW r \in Runs, Enqueue(r)
      PROVE  LifeInv'
  BY <1>2, LifeEnqueue
<1>3. ASSUME NEW r \in Runs, ReconcilePreallocated(r)
      PROVE  LifeInv'
  <2>1. Outside(r, "absent")
    BY <1>3
       DEF ReconcilePreallocated, Outside, Results, LockFree, LifeInv,
           PipelineOK
  <2>2. "absent" \in Statuses
    BY DEF Statuses
  <2> QED
    BY <1>3, <2>1, <2>2, OutsideWrite
       DEF ReconcilePreallocated, admitVars, workerVars, cancelVars
<1>4. ASSUME NEW r \in Runs, CancelQueued(r)
      PROVE  LifeInv'
  BY <1>4, LifeCancelQueued
<1>5. ASSUME NEW r \in Runs, CancelActive(r)
      PROVE  LifeInv'
  BY <1>5, LifeRequest DEF CancelActive, storeVars, admitVars, workerVars
<1>6. CASE Shutdown
  <2>1. CASE active = NoRun
    BY <1>6, <2>1, <1>frame DEF Shutdown, storeVars, admitVars, workerVars
  <2>2. CASE active # NoRun
    BY <1>6, <2>2, LifeRequest
       DEF Shutdown, storeVars, admitVars, workerVars, TypeOK, ActiveOK
  <2> QED
    BY <2>1, <2>2
<1>7. CASE Dequeue
  BY <1>7, LifeDequeue
<1>8. CASE \/ GuardBlocks \/ GuardTerminalizes \/ BeginPipeline
           \/ ObserveCancellation \/ LoseClaim \/ FinalizeCancellation
           \/ ClaimTerminal \/ FinishRun
           \/ (\E f \in BOOLEAN : CallbackRaises(f))
           \/ CallbackReturns \/ FinalizeWorkerError
  BY <1>8, LifeWorker
<1>9. CASE ClearActive
  <2>1. /\ active' = NoRun /\ wpc' \in {"wait", "exited"}
        /\ UNCHANGED <<status, queue, adm, accepted>>
    BY <1>9 DEF ClearActive, admitVars, cancelVars
  <2> QED
    BY <2>1, ConstantsAssumption
       DEF LifeInv, PipelineOK, ControlledOK, WaitingOK, Queued
<1>10. CASE DrainPersist
  <2>1. /\ task.run \in Runs /\ task.kind \in Kinds
        /\ UNCHANGED <<queue, adm, activeVars, wpc, accepted>>
    BY <1>10 DEF DrainPersist, ControlOK, Tasks, admitVars, workerVars,
                 cancelVars
  <2>2. \/ status' = status
        \/ \E s \in {"absent", "failed", "cancelled"} : Outside(task.run, s)
    <3>1. /\ "absent" \notin Results
          /\ "failed" \notin Results \cup Fresh
          /\ "cancelled" \notin Results \cup Fresh
      BY DEF Results, Fresh
    <3>2. PICK done \in BOOLEAN :
             \/ PersistQueuedCancellation(task.run, "server_shutdown", done)
             \/ TerminalizeAdmission(task.run, unresolvedAdmission[task.run],
                                     done)
             \/ FinalizeError(task.run, done)
      BY <1>10, <2>1 DEF DrainPersist, Kinds
    <3>3. /\ LockFree(task.run)
          /\ \/ status' = status
             \/ /\ status[task.run] = "partial"
                /\ status' = [status EXCEPT ![task.run] = "absent"]
             \/ status' = [status EXCEPT ![task.run] = "failed"]
             \/ status' = [status EXCEPT ![task.run] = "cancelled"]
      <4>1. CASE PersistQueuedCancellation(task.run, "server_shutdown", done)
        BY <2>1, <4>1, PersistWrites DEF TypeOK
      <4>2. CASE TerminalizeAdmission(task.run, unresolvedAdmission[task.run],
                                      done)
        BY <2>1, <4>2, TerminalizeWrites DEF TypeOK
      <4>3. CASE FinalizeError(task.run, done)
        BY <2>1, <4>3, FinalizeWrites DEF TypeOK
      <4> QED
        BY <3>2, <4>1, <4>2, <4>3
    <3>4. CASE /\ status[task.run] = "partial"
               /\ status' = [status EXCEPT ![task.run] = "absent"]
      <4>1. Outside(task.run, "absent")
        BY <3>1, <3>3, <3>4 DEF Outside
      <4> QED
        BY <4>1
    <3>5. CASE status' = [status EXCEPT ![task.run] = "failed"]
      <4>1. Outside(task.run, "failed")
        BY <3>1, <3>3, <3>5 DEF Outside
      <4> QED
        BY <4>1
    <3>6. CASE status' = [status EXCEPT ![task.run] = "cancelled"]
      <4>1. Outside(task.run, "cancelled")
        BY <3>1, <3>3, <3>6 DEF Outside
      <4> QED
        BY <4>1
    <3> QED
      BY <3>3, <3>4, <3>5, <3>6
  <2>3. {"absent", "failed", "cancelled"} \subseteq Statuses
    BY DEF Statuses, Terminal
  <2> QED
    BY <2>1, <2>2, <2>3, OutsideWrite
<1>11. ASSUME NEW r \in Runs, CancelCall(r) \/ CancelUnowned(r)
       PROVE  LifeInv'
  BY <1>11, <1>frame
     DEF CancelCall, CancelUnowned, storeVars, admitVars, activeVars,
         workerVars
<1>12. ASSUME NEW b \in BOOLEAN, Start(b)
       PROVE  LifeInv'
  <2>1. /\ wpc = "unstarted" /\ wpc' = "wait"
        /\ UNCHANGED <<status, queue, adm, active, owner, accepted>>
    BY <1>12 DEF Start, storeVars, admitVars, activeVars, cancelVars
  <2> QED
    BY <2>1 DEF LifeInv, PipelineOK, ControlledOK, WaitingOK, Queued
<1>13. CASE WorkerExit
  <2>1. /\ wpc = "wait" /\ wpc' = "exited"
        /\ UNCHANGED <<status, queue, adm, active, owner, accepted>>
    BY <1>13 DEF WorkerExit, storeVars, admitVars, activeVars, cancelVars
  <2> QED
    BY <2>1 DEF LifeInv, PipelineOK, ControlledOK, WaitingOK, Queued
<1>14. CASE BeginShutdown
  <2>1. /\ queue' = <<>>
        /\ UNCHANGED <<status, adm, active, owner, accepted, wpc>>
    BY <1>14 DEF BeginShutdown, storeVars, activeVars, workerVars, cancelVars
  <2>2. \A q : ~Queued(q)'
    BY <2>1, EmptySeq DEF Queued
  <2> QED
    BY <2>1, <2>2 DEF LifeInv, PipelineOK, ControlledOK, WaitingOK
<1>15. CASE \/ Stop \/ DrainTake \/ DrainRecord \/ DrainReturn
            \/ JoinWorker \/ ShutdownResult \/ Expire \/ Terminated
            \/ UNCHANGED vars
  BY <1>15, <1>frame
     DEF Stop, DrainTake, DrainRecord, DrainReturn, JoinWorker,
         ShutdownResult, Expire, Terminated, vars, storeVars, admitVars,
         activeVars, workerVars, cancelVars
<1> QED
  BY <1>1, <1>2, <1>3, <1>4, <1>5, <1>6, <1>7, <1>8, <1>9, <1>10, <1>11,
     <1>12, <1>13, <1>14, <1>15
     DEF Next, Admission, Cancelling, Worker, Callback, ShutdownSteps

(* What each write means to a reader of run.json.                          *)
LEMMA ReadersSee ==
    ASSUME NEW r \in Runs, NEW s, status' = [status EXCEPT ![r] = s],
           UNCHANGED accepted,
           \/ s \in {"partial", "pending"} /\ status[r] = "absent"
           \/ s = "absent" /\ status[r] = "partial"
           \/ s = "queued" /\ status[r] = "pending"
           \/ s = "running" /\ status[r] = "queued"
           \/ s = "cancelling" /\ status[r] = "running" /\ r \in accepted
           \/ s = "cancelled" /\ status[r] = "queued"
           \/ /\ s = "cancelled" /\ status[r] \in {"running", "cancelling"}
              /\ r \in accepted
           \/ s = "failed" /\ status[r] \in Live
           \/ /\ s \in {"prepared", "success"} /\ status[r] = "running"
              /\ r \notin accepted
    PROVE  Lifecycle!Next
<1>1. CASE s \in {"partial", "pending"} /\ status[r] = "absent"
  BY <1>1 DEF Lifecycle!Next, Lifecycle!Create, Lifecycle!Becomes
<1>2. CASE s = "absent" /\ status[r] = "partial"
  BY <1>2 DEF Lifecycle!Next, Lifecycle!Discard, Lifecycle!Becomes
<1>3. CASE s = "queued" /\ status[r] = "pending"
  BY <1>3 DEF Lifecycle!Next, Lifecycle!Queue, Lifecycle!Becomes
<1>4. CASE s = "running" /\ status[r] = "queued"
  BY <1>4 DEF Lifecycle!Next, Lifecycle!Begin, Lifecycle!Becomes
<1>5. CASE s = "cancelling" /\ status[r] = "running" /\ r \in accepted
  BY <1>5 DEF Lifecycle!Next, Lifecycle!ObserveCancel, Lifecycle!Becomes
<1>6. CASE s = "cancelled" /\ status[r] = "queued"
  BY <1>6 DEF Lifecycle!Next, Lifecycle!CancelQueued, Lifecycle!Becomes
<1>7. CASE /\ s = "cancelled" /\ status[r] \in {"running", "cancelling"}
           /\ r \in accepted
  BY <1>7 DEF Lifecycle!Next, Lifecycle!CancelRunning, Lifecycle!Becomes
<1>8. CASE s = "failed" /\ status[r] \in Live
  BY <1>8 DEF Lifecycle!Next, Lifecycle!Fail, Lifecycle!Becomes,
              Lifecycle!Live, Live
<1>9. CASE /\ s \in {"prepared", "success"} /\ status[r] = "running"
           /\ r \notin accepted
  BY <1>9 DEF Lifecycle!Next, Lifecycle!Succeed, Lifecycle!Becomes
<1> QED
  BY <1>1, <1>2, <1>3, <1>4, <1>5, <1>6, <1>7, <1>8, <1>9

(* Every step of the manager is a step of the durable history that readers *)
(* may rely on, or does not show.                                          *)
LEMMA LifecycleStep ==
    ASSUME TypeOK, ControlOK, OwnersOK, LifeInv, [Next]_vars
    PROVE  [Lifecycle!Next]_(Lifecycle!vars)
<1>still. CASE UNCHANGED <<status, accepted>>
  BY <1>still DEF Lifecycle!vars
<1>step. CASE Lifecycle!Next
  BY <1>step
<1>t. StoreOK
  BY DEF TypeOK
<1>1. ASSUME NEW r \in Runs, NEW ok \in BOOLEAN, CreateRun(r, ok),
             UNCHANGED accepted
      PROVE  [Lifecycle!Next]_(Lifecycle!vars)
  BY <1>1, <1>t, <1>still, <1>step, CreateWrites, ReadersSee
<1>2. ASSUME NEW r \in Runs, NEW phase, NEW done \in BOOLEAN,
             TerminalizeAdmission(r, phase, done), UNCHANGED accepted
      PROVE  [Lifecycle!Next]_(Lifecycle!vars)
  BY <1>2, <1>t, <1>still, <1>step, TerminalizeWrites, ReadersSee DEF Live
<1>3. ASSUME NEW r \in Runs, NEW done \in BOOLEAN, FinalizeError(r, done),
             UNCHANGED accepted
      PROVE  [Lifecycle!Next]_(Lifecycle!vars)
  BY <1>3, <1>t, <1>still, <1>step, FinalizeWrites, ReadersSee DEF Live
<1>4. ASSUME NEW r \in Runs, NEW reason, NEW ok \in BOOLEAN,
             PersistQueuedCancellation(r, reason, ok), UNCHANGED accepted
      PROVE  [Lifecycle!Next]_(Lifecycle!vars)
  BY <1>4, <1>t, <1>still, <1>step, PersistWrites, ReadersSee
<1>5. ASSUME NEW r \in Runs, Create(r) \/ AdmitPreallocated(r)
      PROVE  [Lifecycle!Next]_(Lifecycle!vars)
  BY <1>5, <1>1, <1>still
     DEF Create, AdmitPreallocated, storeVars, cancelVars
<1>6. ASSUME NEW r \in Runs, ResolveFailedCreation(r)
      PROVE  [Lifecycle!Next]_(Lifecycle!vars)
  BY <1>6, <1>2, <1>still DEF ResolveFailedCreation, storeVars, cancelVars
<1>7. ASSUME NEW r \in Runs, MarkQueued(r)
      PROVE  [Lifecycle!Next]_(Lifecycle!vars)
  <2>1. /\ UNCHANGED accepted
        /\ \/ status' = status
           \/ /\ status[r] = "pending"
              /\ status' = [status EXCEPT ![r] = "queued"]
    BY <1>7, SaveWrites DEF MarkQueued, storeVars, cancelVars
  <2> QED
    BY <2>1, <1>still, <1>step, ReadersSee
<1>8. ASSUME NEW r \in Runs, MarkEnqueueFailed(r)
      PROVE  [Lifecycle!Next]_(Lifecycle!vars)
  <2>1. /\ UNCHANGED accepted
        /\ \/ status' = status
           \/ /\ status[r] \in Live
              /\ status' = [status EXCEPT ![r] = "failed"]
    BY <1>8, SaveWrites DEF MarkEnqueueFailed, storeVars, cancelVars, Live
  <2> QED
    BY <2>1, <1>still, <1>step, ReadersSee
<1>9. ASSUME NEW r \in Runs, ReconcilePreallocated(r)
      PROVE  [Lifecycle!Next]_(Lifecycle!vars)
  BY <1>9, <1>step, ReadersSee DEF ReconcilePreallocated, cancelVars
<1>10. ASSUME NEW r \in Runs, CancelQueued(r)
       PROVE  [Lifecycle!Next]_(Lifecycle!vars)
  <2>1. PICK ok \in BOOLEAN :
           /\ PersistQueuedCancellation(r, "user_requested", ok)
           /\ accepted' = IF ok THEN accepted \cup {r} ELSE accepted
    BY <1>10 DEF CancelQueued
  <2>2. CASE ~ok
    BY <2>1, <2>2, <1>4
  <2>3. CASE ok
    <3>1. /\ accepted' = accepted \cup {r} /\ status'[r] = "cancelled"
          /\ \/ status' = status
             \/ /\ status[r] = "queued"
                /\ status' = [status EXCEPT ![r] = "cancelled"]
      BY <2>1, <2>3, <1>t, PersistWrites
    <3>2. CASE status' = status
      <4>1. Lifecycle!AcceptCancel(r)
        BY <3>1, <3>2 DEF Lifecycle!AcceptCancel, Lifecycle!Results
      <4> QED
        BY <4>1, <1>step DEF Lifecycle!Next
    <3>3. CASE /\ status[r] = "queued"
               /\ status' = [status EXCEPT ![r] = "cancelled"]
      <4>1. Lifecycle!CancelQueued(r)
        BY <3>1, <3>3 DEF Lifecycle!CancelQueued, Lifecycle!Becomes
      <4> QED
        BY <4>1, <1>step DEF Lifecycle!Next
    <3> QED
      BY <3>1, <3>2, <3>3
  <2> QED
    BY <2>2, <2>3
<1>11. ASSUME NEW reason, active \in Runs, RequestCancel(reason),
              status' = status
       PROVE  [Lifecycle!Next]_(Lifecycle!vars)
  <2>1. CASE owner = "terminal_owned"
    BY <1>11, <2>1, <1>still DEF RequestCancel
  <2>2. CASE owner # "terminal_owned"
    <3>1. Lifecycle!AcceptCancel(active)
      BY <1>11, <2>2
         DEF RequestCancel, LifeInv, ControlledOK, Lifecycle!AcceptCancel,
             Lifecycle!Results, Results
    <3> QED
      BY <1>11, <3>1, <1>step DEF Lifecycle!Next
  <2> QED
    BY <2>1, <2>2
<1>12. ASSUME NEW r \in Runs, CancelActive(r)
       PROVE  [Lifecycle!Next]_(Lifecycle!vars)
  BY <1>12, <1>11 DEF CancelActive, storeVars
<1>13. CASE Shutdown
  <2>1. CASE active = NoRun
    BY <1>13, <2>1, <1>still DEF Shutdown, storeVars
  <2>2. CASE active # NoRun
    BY <1>13, <2>2, <1>11 DEF Shutdown, storeVars, TypeOK, ActiveOK
  <2> QED
    BY <2>1, <2>2
<1>14. CASE GuardTerminalizes \/ BeginPipeline \/ ObserveCancellation
            \/ FinalizeCancellation \/ FinishRun
  <2>1. active \in Runs /\ UNCHANGED accepted
    BY <1>14 DEF GuardTerminalizes, BeginPipeline, ObserveCancellation,
                 FinalizeCancellation, FinishRun, ControlOK, Busy, cancelVars
  <2>2. CASE GuardTerminalizes
    <3>1. \/ status' = status
          \/ /\ status[active] = "queued"
             /\ \/ status' = [status EXCEPT ![active] = "failed"]
                \/ status' = [status EXCEPT ![active] = "cancelled"]
      BY <2>2, SaveWrites DEF GuardTerminalizes, storeVars
    <3> QED
      BY <2>1, <3>1, <1>still, <1>step, ReadersSee DEF Live
  <2>3. CASE BeginPipeline
    <3>1. \/ status' = status
          \/ /\ status[active] = "queued"
             /\ status' = [status EXCEPT ![active] = "running"]
      BY <2>3, SaveWrites DEF BeginPipeline, storeVars
    <3> QED
      BY <2>1, <3>1, <1>still, <1>step, ReadersSee
  <2>4. CASE ObserveCancellation
    <3>1. /\ status[active] = "running" /\ active \in accepted
          /\ \/ status' = status
             \/ status' = [status EXCEPT ![active] = "cancelling"]
      BY <2>1, <2>4, SaveWrites
         DEF ObserveCancellation, LifeInv, PipelineOK, ControlledOK
    <3> QED
      BY <2>1, <3>1, <1>still, <1>step, ReadersSee
  <2>5. CASE FinalizeCancellation
    <3>1. /\ status[active] \in {"running", "cancelling"}
          /\ active \in accepted
          /\ \/ status' = status
             \/ status' = [status EXCEPT ![active] = "cancelled"]
             \/ status' = [status EXCEPT ![active] = "failed"]
      BY <2>1, <2>5, SaveWrites
         DEF FinalizeCancellation, LifeInv, PipelineOK, ControlledOK,
             ControlOK
    <3> QED
      BY <2>1, <3>1, <1>still, <1>step, ReadersSee DEF Live
  <2>6. CASE FinishRun
    <3>1. /\ status[active] = "running" /\ active \notin accepted
          /\ \/ status' = status
             \/ status' = [status EXCEPT ![active] = "failed"]
             \/ \E s \in {"prepared", "success"} :
                   status' = [status EXCEPT ![active] = s]
      <4>1. status[active] = "running" /\ active \notin accepted
        BY <2>1, <2>6
           DEF FinishRun, LifeInv, PipelineOK, ControlledOK, ControlOK
      <4>2. PICK s \in {"prepared", "success", "failed"} :
               \/ status' = status
               \/ status' = [status EXCEPT ![active] = s]
        BY <2>6, SaveWrites DEF FinishRun
      <4> QED
        BY <4>1, <4>2
    <3> QED
      BY <2>1, <3>1, <1>still, <1>step, ReadersSee DEF Live
  <2> QED
    BY <1>14, <2>2, <2>3, <2>4, <2>5, <2>6
<1>15. CASE FinalizeWorkerError
  BY <1>15, <1>3 DEF FinalizeWorkerError, ControlOK, Busy, cancelVars
<1>16. CASE DrainPersist
  <2>1. task.run \in Runs /\ task.kind \in Kinds /\ UNCHANGED accepted
    BY <1>16 DEF DrainPersist, ControlOK, Tasks, cancelVars
  <2> QED
    BY <1>16, <2>1, <1>2, <1>3, <1>4 DEF DrainPersist, Kinds
<1>17. ASSUME NEW r \in Runs,
             \/ Reserve(r) \/ RefuseStorage(r) \/ Track(r)
             \/ ConfirmAdmission(r) \/ SubmitReserved(r) \/ SubmitDirect(r)
             \/ Enqueue(r) \/ MarkFailed(r) \/ CancelCall(r)
             \/ CancelUnowned(r)
       PROVE  [Lifecycle!Next]_(Lifecycle!vars)
  BY <1>17, <1>still
     DEF Reserve, RefuseStorage, Track, ConfirmAdmission, SubmitReserved,
         SubmitDirect, Enqueue, MarkFailed, CancelCall, CancelUnowned,
         storeVars, cancelVars
<1>18. ASSUME NEW b \in BOOLEAN, Start(b) \/ CallbackRaises(b)
       PROVE  [Lifecycle!Next]_(Lifecycle!vars)
  BY <1>18, <1>still DEF Start, CallbackRaises, storeVars, cancelVars
<1>19. CASE \/ WorkerExit \/ Dequeue \/ GuardBlocks \/ LoseClaim
            \/ ClaimTerminal \/ CallbackReturns \/ ClearActive \/ Stop
            \/ BeginShutdown \/ DrainTake \/ DrainRecord \/ DrainReturn
            \/ JoinWorker \/ ShutdownResult \/ Expire \/ Terminated
            \/ UNCHANGED vars
  BY <1>19, <1>still
     DEF WorkerExit, Dequeue, GuardBlocks, LoseClaim, ClaimTerminal,
         CallbackReturns, ClearActive, Stop, BeginShutdown, DrainTake,
         DrainRecord, DrainReturn, JoinWorker, ShutdownResult, Expire,
         Terminated, vars, storeVars, cancelVars
<1> QED
  BY <1>5, <1>6, <1>7, <1>8, <1>9, <1>10, <1>12, <1>13, <1>14, <1>15, <1>16,
     <1>17, <1>18, <1>19
     DEF Next, Admission, Cancelling, Worker, Callback, ShutdownSteps

(* In the history readers see, an outcome is final, and a Run that was     *)
(* told to be cancelled never becomes a result.                            *)
LEMMA HistoryKeeps ==
    ASSUME status \in [Runs -> Statuses], CancelledIsNoResult,
           accepted \subseteq Runs, [Lifecycle!Next]_(Lifecycle!vars)
    PROVE  /\ CancelledIsNoResult'
           /\ \A r \in Runs : status[r] \in Terminal => status'[r] = status[r]
<1> USE DEF Lifecycle!vars, Lifecycle!Becomes, Lifecycle!Results,
            Lifecycle!Live, Results, Terminal
<1>1. CASE UNCHANGED <<status, accepted>>
  BY <1>1 DEF CancelledIsNoResult
<1>2. ASSUME NEW r \in Runs, Lifecycle!AcceptCancel(r)
      PROVE  /\ CancelledIsNoResult'
             /\ \A q \in Runs : status[q] \in Terminal => status'[q] = status[q]
  BY <1>2 DEF Lifecycle!AcceptCancel, CancelledIsNoResult
<1>3. ASSUME NEW r \in Runs,
             \/ Lifecycle!Create(r) \/ Lifecycle!Discard(r)
             \/ Lifecycle!Queue(r) \/ Lifecycle!Begin(r)
             \/ Lifecycle!ObserveCancel(r) \/ Lifecycle!CancelQueued(r)
             \/ Lifecycle!CancelRunning(r) \/ Lifecycle!Fail(r)
             \/ Lifecycle!Succeed(r)
      PROVE  /\ CancelledIsNoResult'
             /\ \A q \in Runs : status[q] \in Terminal => status'[q] = status[q]
  BY <1>3
     DEF Lifecycle!Create, Lifecycle!Discard, Lifecycle!Queue,
         Lifecycle!Begin, Lifecycle!ObserveCancel, Lifecycle!CancelQueued,
         Lifecycle!CancelRunning, Lifecycle!Fail, Lifecycle!Succeed,
         CancelledIsNoResult
<1> QED
  BY <1>1, <1>2, <1>3 DEF Lifecycle!Next

(* A manager that has started with an empty store satisfies all of it.    *)
LEMMA LifeInit == Init => LifeInv /\ CancelledIsNoResult /\ Lifecycle!Init
BY ConstantsAssumption, EmptySeq
   DEF Init, LifeInv, PipelineOK, ControlledOK, WaitingOK, Queued, Fresh,
       Results, InFlight, CancelledIsNoResult, Lifecycle!Init

(* The invariant everything about a Run's outcome rests on.                *)
ManagerInv ==
    /\ TypeOK /\ ControlOK /\ PlacesOK /\ QueueFrozen /\ OwnersOK
    /\ LifeInv /\ CancelledIsNoResult

(* It is inductive, and every step under it is a step readers may see.     *)
LEMMA ManagerInvariant ==
    Spec => []ManagerInv /\ [][[Lifecycle!Next]_(Lifecycle!vars)]_vars
<1>1. Init => PlacesOK /\ OwnersOK
  BY ConstantsAssumption, EmptySeq
     DEF Init, PlacesOK, OwnersOK, SingleOwner, FreshOK, Queued
<1>2. TypeOK /\ ControlOK /\ PlacesOK /\ QueueFrozen /\ OwnersOK /\ LifeInv
        /\ CancelledIsNoResult /\ [Next]_vars
        => PlacesOK' /\ OwnersOK' /\ LifeInv' /\ CancelledIsNoResult'
           /\ [Lifecycle!Next]_(Lifecycle!vars)
  <2> SUFFICES ASSUME TypeOK, ControlOK, PlacesOK, QueueFrozen, OwnersOK,
                      LifeInv, CancelledIsNoResult, [Next]_vars
               PROVE  PlacesOK' /\ OwnersOK' /\ LifeInv' /\ CancelledIsNoResult'
                      /\ [Lifecycle!Next]_(Lifecycle!vars)
    OBVIOUS
  <2>1. PlacesOK' /\ OwnersOK' /\ LifeInv'
    BY PlacesStep, OwnersStep, LifeStep
  <2>2. [Lifecycle!Next]_(Lifecycle!vars)
    BY LifecycleStep
  <2>3. CancelledIsNoResult'
    BY <2>2, HistoryKeeps DEF TypeOK, StoreOK, AdmissionOK
  <2> QED
    BY <2>1, <2>2, <2>3
<1> QED
  BY <1>1, <1>2, LifeInit, TypeCorrect, Frozen, PTL DEF Spec, ManagerInv

(* The manager implements RunLifecycle: within one process, whatever the   *)
(* threads of admission, cancellation, worker and shutdown do, and whether *)
(* a save fails before or after it replaced run.json, the durable history  *)
(* of every Run is one its readers may rely on.  So an outcome that was    *)
(* written is never written over (_finalize_worker_error and               *)
(* _persist_queued_cancellation check), and a Run that a caller was told   *)
(* is being cancelled never becomes a result.  A crash and the recovery    *)
(* after it are not steps of this module.                                  *)
THEOREM Implements ==
    Spec => /\ ImplementsLifecycle
            /\ Lifecycle!TerminalIsFinal
            /\ []Lifecycle!CancelledIsNoResult
<1>1. UNCHANGED vars => [Lifecycle!Next]_(Lifecycle!vars)
  BY DEF vars, storeVars, cancelVars, Lifecycle!vars
<1>2. ManagerInv /\ [Lifecycle!Next]_(Lifecycle!vars)
        => [\A r \in Runs : status[r] \in Lifecycle!Terminal
                                => status'[r] = status[r]]_(Lifecycle!vars)
  BY HistoryKeeps
     DEF ManagerInv, TypeOK, StoreOK, AdmissionOK, Terminal, Results,
         Lifecycle!Terminal, Lifecycle!Results
<1>3. ManagerInv => Lifecycle!CancelledIsNoResult
  BY DEF ManagerInv, CancelledIsNoResult, Results,
         Lifecycle!CancelledIsNoResult, Lifecycle!Results
<1>4. Spec => ImplementsLifecycle
  BY <1>1, LifeInit, ManagerInvariant, PTL
     DEF Spec, ImplementsLifecycle, Lifecycle!Spec
<1>5. Spec => Lifecycle!TerminalIsFinal
  BY <1>1, <1>2, ManagerInvariant, PTL DEF Spec, Lifecycle!TerminalIsFinal
<1> QED
  BY <1>3, <1>4, <1>5, ManagerInvariant, PTL

-----------------------------------------------------------------------------
(* Who holds a Run on its way through admission, and what a settled        *)
(* shutdown task has proved about it.                                      *)
Held == {"tracked", "createFailed", "terminalized", "created", "submitting",
         "marked", "markFailed", "enqueueFailed", "confirmFailed"}

HandOK ==
    \A r \in Runs :
        /\ r \notin Preallocated /\ adm[r] \in Held => r \in tracked
        /\ adm[r] \in {"submitting", "marked", "markFailed"} => r \in submitting
        /\ adm[r] = "reserved" => status[r] = "absent"
        /\ r \notin Preallocated /\ adm[r] = "idle" => status[r] = "absent"
        /\ r \notin Preallocated /\ unresolvedAdmission[r] # "none" =>
              adm[r] = "done"
        /\ unresolvedAdmission[r] = "creation" => r \notin Preallocated
        /\ r \in Preallocated =>
              adm[r] \in {"idle", "created", "submitting", "marked", "markFailed"}

Settled(r) ==
    \/ status[r] \in Terminal
    \/ r \notin Preallocated /\ adm[r] = "done" /\ status[r] = "absent"

RecordOK == spc = "record" /\ resolved => task \in Tasks /\ Settled(task.run)

(* What _shutdown_result has seen stays so: nobody is left who could own   *)
(* a Run again.                                                            *)
CompleteOK ==
    /\ spc # "idle" => shutdownStarted
    /\ pass = "final" => wpc = "exited"
    /\ spc = "complete" =>
          /\ pass = "final" /\ active = NoRun
          /\ leases = {} /\ submitting = {}
          /\ \A k \in Kinds : Unresolved(k) = {}

OwnInv == HandOK /\ RecordOK /\ CompleteOK

(* A Run whose durable status asks for an owner.                           *)
Needy(r) ==
    \/ status[r] \in {"queued", "running", "cancelling"}
    \/ r \notin Preallocated /\ status[r] \in {"partial", "pending"}

(* NoRunLost in these terms.                                               *)
LEMMA NeedyMeans == NoRunLost <=> \A r \in Runs : Needy(r) => Owned(r)
BY DEF NoRunLost, Needy

(* Only its own admission brings a Run into being, or queues it.           *)
LEMMA Awakens ==
    ASSUME ManagerInv, [Next]_vars, NEW q \in Runs
    PROVE  /\ status[q] = "absent" /\ status'[q] # "absent"
                 => Create(q) \/ AdmitPreallocated(q)
           /\ status[q] = "pending" /\ status'[q] = "queued" => MarkQueued(q)
<1> DEFINE Goal == /\ status[q] = "absent" /\ status'[q] # "absent"
                         => Create(q) \/ AdmitPreallocated(q)
                   /\ status[q] = "pending" /\ status'[q] = "queued"
                         => MarkQueued(q)
<1> SUFFICES Goal
  OBVIOUS
<1>t. StoreOK /\ ControlOK
  BY DEF ManagerInv, TypeOK
<1>still. CASE status' = status
  BY <1>still
<1>w. ASSUME NEW r \in Runs, NEW s, status' = [status EXCEPT ![r] = s],
             status[r] # "absent" \/ r # q, s # "queued" \/ r # q
      PROVE  Goal
  BY <1>w, <1>t DEF StoreOK
<1> HIDE DEF Goal
<1>1. ASSUME NEW r \in Runs, Create(r) \/ AdmitPreallocated(r)
      PROVE  Goal
  <2>1. CASE r = q
    <3>1. status[q] = "pending" => status'[q] # "queued"
      BY <1>1, <2>1, <1>t, CreateWrites
         DEF Create, AdmitPreallocated, storeVars
    <3> QED
      BY <1>1, <2>1, <3>1 DEF Goal
  <2>2. CASE r # q
    <3>1. \/ status' = status
          \/ \E s \in {"partial", "pending"} :
                status' = [status EXCEPT ![r] = s]
      BY <1>1, <1>t, CreateWrites DEF Create, AdmitPreallocated, storeVars
    <3> QED
      BY <2>2, <3>1, <1>still, <1>w
  <2> QED
    BY <2>1, <2>2
<1>2. ASSUME NEW r \in Runs, NEW phase, NEW done \in BOOLEAN,
             TerminalizeAdmission(r, phase, done)
      PROVE  Goal
  BY <1>2, <1>t, <1>w, <1>still, TerminalizeWrites
<1>3. ASSUME NEW r \in Runs, NEW done \in BOOLEAN, FinalizeError(r, done)
      PROVE  Goal
  BY <1>3, <1>t, <1>w, <1>still, FinalizeWrites
<1>4. ASSUME NEW r \in Runs, NEW reason, NEW ok \in BOOLEAN,
             PersistQueuedCancellation(r, reason, ok)
      PROVE  Goal
  BY <1>4, <1>t, <1>w, <1>still, PersistWrites
<1>6. ASSUME NEW r \in Runs, ResolveFailedCreation(r)
      PROVE  Goal
  BY <1>6, <1>2, <1>still DEF ResolveFailedCreation, storeVars
<1>7. ASSUME NEW r \in Runs, MarkQueued(r)
      PROVE  Goal
  <2>1. \/ status' = status
        \/ /\ status[r] = "pending"
           /\ status' = [status EXCEPT ![r] = "queued"]
    BY <1>7, SaveWrites DEF MarkQueued, storeVars
  <2> QED
    BY <1>7, <2>1, <1>still, <1>t DEF Goal, StoreOK
<1>8. ASSUME NEW r \in Runs, MarkEnqueueFailed(r)
      PROVE  Goal
  <2>1. \/ status' = status
        \/ /\ status[r] # "absent"
           /\ status' = [status EXCEPT ![r] = "failed"]
    BY <1>8, SaveWrites DEF MarkEnqueueFailed, storeVars
  <2> QED
    BY <2>1, <1>still, <1>w
<1>9. ASSUME NEW r \in Runs, ReconcilePreallocated(r)
      PROVE  Goal
  BY <1>9, <1>w DEF ReconcilePreallocated
<1>10. ASSUME NEW r \in Runs, CancelQueued(r)
       PROVE  Goal
  BY <1>10, <1>4 DEF CancelQueued
<1>14. CASE GuardTerminalizes \/ BeginPipeline \/ ObserveCancellation
            \/ FinalizeCancellation \/ FinishRun
  <2>1. active \in Runs /\ status[active] # "absent"
    BY <1>14 DEF GuardTerminalizes, BeginPipeline, ObserveCancellation,
                 FinalizeCancellation, FinishRun, ControlOK, Busy,
                 ManagerInv, LifeInv, WaitingOK, Fresh
  <2>2. \/ status' = status
        \/ \E s \in {"failed", "cancelled", "running", "cancelling",
                     "prepared", "success"} :
              status' = [status EXCEPT ![active] = s]
    <3>1. CASE GuardTerminalizes
      BY <3>1, SaveWrites DEF GuardTerminalizes, storeVars
    <3>2. CASE BeginPipeline
      BY <3>2, SaveWrites DEF BeginPipeline, storeVars
    <3>3. CASE ObserveCancellation
      BY <3>3, SaveWrites DEF ObserveCancellation
    <3>4. CASE FinalizeCancellation
      <4>1. PICK s \in {"cancelled", "failed"}, ok \in BOOLEAN :
               Save(active, s, Cancellation(request, "pipeline"), ok)
        BY <3>4 DEF FinalizeCancellation
      <4> QED
        BY <4>1, SaveWrites
    <3>5. CASE FinishRun
      <4>1. PICK s \in {"prepared", "success", "failed"}, ok \in BOOLEAN :
               Save(active, s, cancellation[active], ok)
        BY <3>5 DEF FinishRun
      <4> QED
        BY <4>1, SaveWrites
    <3> QED
      BY <1>14, <3>1, <3>2, <3>3, <3>4, <3>5
  <2> QED
    BY <2>1, <2>2, <1>still, <1>w
<1>15. CASE FinalizeWorkerError
  BY <1>15, <1>3, <1>t DEF FinalizeWorkerError, ControlOK, Busy
<1>16. CASE DrainPersist
  <2>1. task.run \in Runs /\ task.kind \in Kinds
    BY <1>16, <1>t DEF DrainPersist, ControlOK, Tasks
  <2> QED
    BY <1>16, <2>1, <1>2, <1>3, <1>4 DEF DrainPersist, Kinds
<1>17. ASSUME NEW r \in Runs,
             \/ Reserve(r) \/ RefuseStorage(r) \/ Track(r)
             \/ ConfirmAdmission(r) \/ SubmitReserved(r) \/ SubmitDirect(r)
             \/ Enqueue(r) \/ MarkFailed(r) \/ CancelCall(r)
             \/ CancelUnowned(r) \/ CancelActive(r)
       PROVE  Goal
  BY <1>17, <1>still
     DEF Reserve, RefuseStorage, Track, ConfirmAdmission, SubmitReserved,
         SubmitDirect, Enqueue, MarkFailed, CancelCall, CancelUnowned,
         CancelActive, storeVars
<1>18. ASSUME NEW b \in BOOLEAN, Start(b) \/ CallbackRaises(b)
       PROVE  Goal
  BY <1>18, <1>still DEF Start, CallbackRaises, storeVars
<1>19. CASE \/ WorkerExit \/ Dequeue \/ GuardBlocks \/ LoseClaim
            \/ ClaimTerminal \/ CallbackReturns \/ ClearActive \/ Stop
            \/ BeginShutdown \/ Shutdown \/ DrainTake \/ DrainRecord
            \/ DrainReturn \/ JoinWorker \/ ShutdownResult \/ Expire
            \/ Terminated \/ UNCHANGED vars
  BY <1>19, <1>still
     DEF WorkerExit, Dequeue, GuardBlocks, LoseClaim, ClaimTerminal,
         CallbackReturns, ClearActive, Stop, BeginShutdown, Shutdown,
         DrainTake, DrainRecord, DrainReturn, JoinWorker, ShutdownResult,
         Expire, Terminated, vars, storeVars
<1> QED
  BY <1>1, <1>6, <1>7, <1>8, <1>9, <1>10, <1>14, <1>15, <1>16, <1>17,
     <1>18, <1>19
     DEF Next, Admission, Cancelling, Worker, Callback, ShutdownSteps

(* What the durable history says of a Run that needs an owner after a step.*)
LEMMA HistoryMoves ==
    ASSUME status \in [Runs -> Statuses], [Lifecycle!Next]_(Lifecycle!vars),
           NEW q \in Runs
    PROVE  /\ Needy(q)' => \/ Needy(q)
                           \/ status[q] = "absent"
                           \/ status[q] = "pending" /\ status'[q] = "queued"
           /\ status[q] = "absent" => status'[q] \in Fresh
<1> USE DEF Lifecycle!vars, Lifecycle!Becomes, Lifecycle!Results,
            Lifecycle!Live, Needy, Fresh
<1>1. CASE UNCHANGED <<status, accepted>>
  BY <1>1
<1>2. ASSUME NEW r \in Runs, Lifecycle!AcceptCancel(r)
      PROVE  status' = status
  BY <1>2 DEF Lifecycle!AcceptCancel
<1>3. ASSUME NEW r \in Runs,
             \/ Lifecycle!Create(r) \/ Lifecycle!Discard(r)
             \/ Lifecycle!Queue(r) \/ Lifecycle!Begin(r)
             \/ Lifecycle!ObserveCancel(r) \/ Lifecycle!CancelQueued(r)
             \/ Lifecycle!CancelRunning(r) \/ Lifecycle!Fail(r)
             \/ Lifecycle!Succeed(r)
      PROVE  /\ Needy(q)' => \/ Needy(q)
                             \/ status[q] = "absent"
                             \/ status[q] = "pending" /\ status'[q] = "queued"
             /\ status[q] = "absent" => status'[q] \in Fresh
  BY <1>3
     DEF Lifecycle!Create, Lifecycle!Discard, Lifecycle!Queue,
         Lifecycle!Begin, Lifecycle!ObserveCancel, Lifecycle!CancelQueued,
         Lifecycle!CancelRunning, Lifecycle!Fail, Lifecycle!Succeed
<1> QED
  BY <1>1, <1>2, <1>3 DEF Lifecycle!Next

(* Every step keeps the hand that holds a Run on its way.                  *)
LEMMA HandStep ==
    ASSUME ManagerInv, HandOK, [Next]_vars
    PROVE  HandOK'
<1>t. /\ adm \in [Runs -> AdmissionPcs]
      /\ unresolvedAdmission \in [Runs -> {"none", "creation", "submission"}]
      /\ tracked \subseteq leases /\ leases \subseteq Runs \ Preallocated
      /\ submitting \subseteq Runs
  BY DEF ManagerInv, TypeOK, AdmissionOK, ShutdownOK
(* Nobody but its admission brings an absent Run into being.               *)
<1>q. ASSUME NEW q \in Runs, status[q] = "absent",
             adm[q] # "tracked", q \notin Preallocated
      PROVE  status'[q] = "absent"
  BY <1>q, Awakens DEF Create, AdmitPreallocated
<1>frame. CASE /\ UNCHANGED <<adm, tracked, submitting>>
               /\ \A q \in Runs :
                     unresolvedAdmission'[q] \in {unresolvedAdmission[q], "none"}
               /\ \A q \in Runs : status[q] = "absent" /\ adm[q] = "reserved"
                     => status'[q] = "absent"
  BY <1>frame, <1>q DEF HandOK
<1>r. ASSUME NEW r \in Runs,
             \A q \in Runs : q # r => /\ adm'[q] = adm[q]
                                      /\ q \in tracked => q \in tracked'
                                      /\ q \in submitting => q \in submitting'
                                      /\ unresolvedAdmission'[q] = unresolvedAdmission[q],
             r \notin Preallocated /\ adm'[r] \in Held => r \in tracked',
             adm'[r] \in {"submitting", "marked", "markFailed"}
                => r \in submitting',
             adm'[r] = "reserved" => status'[r] = "absent",
             r \notin Preallocated /\ adm'[r] = "idle" => status'[r] = "absent",
             r \notin Preallocated /\ unresolvedAdmission'[r] # "none"
                => adm'[r] = "done",
             unresolvedAdmission'[r] = "creation" => r \notin Preallocated,
             r \in Preallocated =>
                adm'[r] \in {"idle", "created", "submitting", "marked",
                             "markFailed"}
      PROVE  HandOK'
  <2> SUFFICES ASSUME NEW q \in Runs, q # r
               PROVE  /\ adm'[q] = "reserved" => status'[q] = "absent"
                      /\ q \notin Preallocated /\ adm'[q] = "idle"
                            => status'[q] = "absent"
    BY <1>r DEF HandOK
  <2>1. adm[q] = "reserved" => q \notin Preallocated
    BY DEF HandOK
  <2> QED
    BY <1>r, <1>q, <2>1 DEF HandOK
<1>1. ASSUME NEW r \in Runs, Reserve(r)
      PROVE  HandOK'
  <2>1. /\ adm[r] = "idle" /\ r \notin Preallocated
        /\ adm' = [adm EXCEPT ![r] = "reserved"]
        /\ UNCHANGED <<status, tracked, submitting, unresolvedAdmission>>
    BY <1>1 DEF Reserve, Goto, storeVars, ownedVars
  <2> QED
    BY <2>1, <1>r, <1>t DEF HandOK, Held
<1>2. ASSUME NEW r \in Runs, RefuseStorage(r)
      PROVE  HandOK'
  <2>1. /\ adm[r] = "reserved" /\ adm' = [adm EXCEPT ![r] = "done"]
        /\ tracked' = tracked \ {r}
        /\ UNCHANGED <<status, submitting, unresolvedAdmission>>
    BY <1>2 DEF RefuseStorage, Goto, Settle, storeVars, ownedVars
  <2> QED
    BY <2>1, <1>r, <1>t DEF HandOK, Held
<1>3. ASSUME NEW r \in Runs, Track(r)
      PROVE  HandOK'
  <2>1. /\ adm[r] = "reserved"
        /\ \/ /\ adm' = [adm EXCEPT ![r] = "tracked"]
              /\ tracked' = tracked \cup {r}
           \/ adm' = [adm EXCEPT ![r] = "done"] /\ tracked' = tracked
        /\ UNCHANGED <<status, submitting, unresolvedAdmission>>
    BY <1>3 DEF Track, Goto, storeVars, ownedVars
  <2> QED
    BY <2>1, <1>r, <1>t DEF HandOK, Held
<1>4. ASSUME NEW r \in Runs, Create(r)
      PROVE  HandOK'
  <2>1. /\ adm[r] = "tracked"
        /\ \/ adm' = [adm EXCEPT ![r] = "created"]
           \/ adm' = [adm EXCEPT ![r] = "createFailed"]
        /\ UNCHANGED <<tracked, submitting, unresolvedAdmission>>
    BY <1>4 DEF Create, Goto, leaseVars, ownedVars
  <2> QED
    BY <2>1, <1>r, <1>t DEF HandOK, Held
<1>5. ASSUME NEW r \in Runs, ResolveFailedCreation(r)
      PROVE  HandOK'
  <2>1. /\ adm[r] = "createFailed"
        /\ \/ adm' = [adm EXCEPT ![r] = "done"] /\ tracked' = tracked \ {r}
           \/ adm' = [adm EXCEPT ![r] = "terminalized"] /\ tracked' = tracked
        /\ UNCHANGED <<submitting, unresolvedAdmission>>
    BY <1>5 DEF ResolveFailedCreation, Settle, Goto, leaseVars, ownedVars
  <2> QED
    BY <2>1, <1>r, <1>t DEF HandOK, Held
<1>6. ASSUME NEW r \in Runs, ConfirmAdmission(r)
      PROVE  HandOK'
  <2>1. /\ adm[r] \in {"terminalized", "confirmFailed"}
        /\ adm' = [adm EXCEPT ![r] = "done"] /\ tracked' = tracked \ {r}
        /\ \A q \in Runs : q # r =>
              unresolvedAdmission'[q] = unresolvedAdmission[q]
        /\ UNCHANGED submitting
    BY <1>6, <1>t DEF ConfirmAdmission, OwnUnresolved, Settle, Goto
  <2> QED
    BY <2>1, <1>r, <1>t DEF HandOK, Held
<1>7. ASSUME NEW r \in Runs, SubmitReserved(r)
      PROVE  HandOK'
  <2>1. /\ adm[r] = "created" /\ r \notin Preallocated
        /\ adm' = [adm EXCEPT ![r] = "submitting"]
        /\ submitting' = submitting \cup {r}
        /\ UNCHANGED <<tracked, unresolvedAdmission>>
    BY <1>7 DEF SubmitReserved, Goto, ownedVars
  <2> QED
    BY <2>1, <1>r, <1>t DEF HandOK, Held
<1>8. ASSUME NEW r \in Runs, SubmitDirect(r)
      PROVE  HandOK'
  <2>1. /\ adm[r] = "created" /\ r \in Preallocated
        /\ \/ /\ adm' = [adm EXCEPT ![r] = "submitting"]
              /\ submitting' = submitting \cup {r}
           \/ adm' = [adm EXCEPT ![r] = "idle"] /\ submitting' = submitting
        /\ UNCHANGED <<tracked, unresolvedAdmission>>
    BY <1>8 DEF SubmitDirect, Goto, leaseVars, ownedVars
  <2> QED
    BY <2>1, <1>r, <1>t DEF HandOK, Held
<1>9. ASSUME NEW r \in Runs, MarkQueued(r)
      PROVE  HandOK'
  <2>1. /\ adm[r] = "submitting"
        /\ \/ adm' = [adm EXCEPT ![r] = "marked"]
           \/ adm' = [adm EXCEPT ![r] = "markFailed"]
        /\ UNCHANGED <<tracked, submitting, unresolvedAdmission>>
    BY <1>9 DEF MarkQueued, Goto, leaseVars, ownedVars
  <2> QED
    BY <2>1, <1>r, <1>t DEF HandOK, Held
<1>10. ASSUME NEW r \in Runs, Enqueue(r)
      PROVE  HandOK'
  <2>1. /\ adm[r] = "marked"
        /\ adm' = [adm EXCEPT ![r] =
                      IF r \in Preallocated THEN "idle" ELSE "done"]
        /\ submitting' = submitting \ {r} /\ tracked' = tracked \ {r}
        /\ UNCHANGED unresolvedAdmission
    BY <1>10 DEF Enqueue, Settle, Goto
  <2> QED
    BY <2>1, <1>r, <1>t DEF HandOK, Held
<1>11. ASSUME NEW r \in Runs, MarkFailed(r)
      PROVE  HandOK'
  <2>1. /\ adm[r] = "markFailed"
        /\ adm' = [adm EXCEPT ![r] =
                      IF r \in Preallocated THEN "idle" ELSE "enqueueFailed"]
        /\ submitting' = submitting \ {r}
        /\ UNCHANGED tracked
    BY <1>11 DEF MarkFailed, Goto, leaseVars
  <2>2. /\ \A q \in Runs : q # r =>
              unresolvedAdmission'[q] = unresolvedAdmission[q]
        /\ r \notin Preallocated =>
              unresolvedAdmission'[r] = unresolvedAdmission[r]
        /\ unresolvedAdmission'[r] = "creation"
              => unresolvedAdmission[r] = "creation"
    BY <1>11, <1>t DEF MarkFailed, OwnUnresolved
  <2> QED
    BY <2>1, <2>2, <1>r, <1>t DEF HandOK, Held
<1>12. ASSUME NEW r \in Runs, MarkEnqueueFailed(r)
      PROVE  HandOK'
  <2>1. /\ adm[r] = "enqueueFailed"
        /\ adm' = [adm EXCEPT ![r] = "confirmFailed"]
        /\ UNCHANGED <<tracked, submitting, unresolvedAdmission>>
    BY <1>12 DEF MarkEnqueueFailed, Goto, leaseVars, ownedVars
  <2> QED
    BY <2>1, <1>r, <1>t DEF HandOK, Held
<1>13. ASSUME NEW r \in Runs, AdmitPreallocated(r)
      PROVE  HandOK'
  <2>1. /\ r \in Preallocated
        /\ \/ adm' = [adm EXCEPT ![r] = "created"]
           \/ adm' = [adm EXCEPT ![r] = "idle"]
        /\ UNCHANGED <<tracked, submitting, unresolvedAdmission>>
    BY <1>13 DEF AdmitPreallocated, Goto, leaseVars, ownedVars
  <2> QED
    BY <2>1, <1>r, <1>t DEF HandOK, Held
<1>a. \A q \in Runs : adm[q] = "reserved" => q \notin Preallocated
  BY DEF HandOK
<1>z. ASSUME NEW q \in Runs, status[q] = "absent", adm[q] = "reserved"
      PROVE  status'[q] = "absent"
  BY <1>z, <1>a, <1>q
<1>still. CASE UNCHANGED <<adm, leaseVars, submitting, unresolvedAdmission>>
  BY <1>still, <1>z, <1>frame, <1>t DEF leaseVars
<1>14. CASE Stop \/ BeginShutdown
  BY <1>14, <1>z, <1>frame, <1>t DEF Stop, BeginShutdown, leaseVars, ownedVars
<1>15. CASE DrainRecord
  <2>1. \A q \in Runs :
           unresolvedAdmission'[q] \in {unresolvedAdmission[q], "none"}
    BY <1>15, <1>t DEF DrainRecord
  <2> QED
    BY <1>15, <2>1, <1>z, <1>frame DEF DrainRecord, admitVars, leaseVars
<1>16. ASSUME NEW r \in Runs,
              \/ ReconcilePreallocated(r) \/ CancelCall(r)
              \/ CancelQueued(r) \/ CancelActive(r) \/ CancelUnowned(r)
       PROVE  HandOK'
  BY <1>16, <1>still
     DEF ReconcilePreallocated, CancelCall, CancelQueued, CancelActive,
         CancelUnowned, admitVars, ownedVars
<1>17. ASSUME NEW b \in BOOLEAN, Start(b) \/ CallbackRaises(b)
       PROVE  HandOK'
  BY <1>17, <1>still DEF Start, CallbackRaises, admitVars, ownedVars
<1>18. CASE \/ WorkerExit \/ Dequeue \/ GuardBlocks \/ GuardTerminalizes
            \/ BeginPipeline \/ ObserveCancellation \/ LoseClaim
            \/ FinalizeCancellation \/ ClaimTerminal \/ FinishRun
            \/ CallbackReturns \/ FinalizeWorkerError \/ ClearActive
  BY <1>18, <1>still
     DEF WorkerExit, Dequeue, GuardBlocks, GuardTerminalizes, BeginPipeline,
         ObserveCancellation, LoseClaim, FinalizeCancellation, ClaimTerminal,
         FinishRun, CallbackReturns, FinalizeWorkerError, ClearActive,
         admitVars, ownedVars
<1>19. CASE \/ Shutdown \/ DrainTake \/ DrainPersist \/ DrainReturn
            \/ JoinWorker \/ ShutdownResult \/ Expire \/ Terminated
            \/ UNCHANGED vars
  BY <1>19, <1>still
     DEF Shutdown, DrainTake, DrainPersist, DrainReturn, JoinWorker,
         ShutdownResult, Expire, Terminated, vars, admitVars, ownedVars
<1> QED
  BY <1>1, <1>2, <1>3, <1>4, <1>5, <1>6, <1>7, <1>8, <1>9, <1>10, <1>11,
     <1>12, <1>13, <1>14, <1>15, <1>16, <1>17, <1>18, <1>19
     DEF Next, Admission, Cancelling, Worker, Callback, ShutdownSteps

(* An admission that is over stays over.                                   *)
LEMMA DoneStays ==
    ASSUME TypeOK, [Next]_vars, NEW q \in Runs, adm[q] = "done"
    PROVE  adm'[q] = "done"
<1>t. adm \in [Runs -> AdmissionPcs]
  BY DEF TypeOK, AdmissionOK
<1>g. ASSUME NEW r \in Runs, NEW pc, Goto(r, pc), adm[r] # "done"
      PROVE  adm'[q] = "done"
  BY <1>g, <1>t DEF Goto
<1>frame. CASE UNCHANGED adm
  BY <1>frame
<1>1. ASSUME NEW r \in Runs,
             \/ Reserve(r) \/ RefuseStorage(r) \/ Track(r) \/ Create(r)
             \/ ResolveFailedCreation(r) \/ ConfirmAdmission(r)
             \/ SubmitReserved(r) \/ SubmitDirect(r) \/ MarkQueued(r)
             \/ Enqueue(r) \/ MarkFailed(r) \/ MarkEnqueueFailed(r)
             \/ AdmitPreallocated(r)
      PROVE  adm'[q] = "done"
  BY <1>1, <1>g
     DEF Reserve, RefuseStorage, Track, Create, ResolveFailedCreation,
         ConfirmAdmission, SubmitReserved, SubmitDirect, MarkQueued, Enqueue,
         MarkFailed, MarkEnqueueFailed, AdmitPreallocated
<1>2. ASSUME NEW r \in Runs,
              \/ ReconcilePreallocated(r) \/ CancelCall(r)
              \/ CancelQueued(r) \/ CancelActive(r) \/ CancelUnowned(r)
       PROVE  adm'[q] = "done"
  BY <1>2, <1>frame
     DEF ReconcilePreallocated, CancelCall, CancelQueued, CancelActive,
         CancelUnowned, admitVars
<1>3. ASSUME NEW b \in BOOLEAN, Start(b) \/ CallbackRaises(b)
       PROVE  adm'[q] = "done"
  BY <1>3, <1>frame DEF Start, CallbackRaises, admitVars
<1>4. CASE \/ WorkerExit \/ Dequeue \/ GuardBlocks \/ GuardTerminalizes
           \/ BeginPipeline \/ ObserveCancellation \/ LoseClaim
           \/ FinalizeCancellation \/ ClaimTerminal \/ FinishRun
           \/ CallbackReturns \/ FinalizeWorkerError \/ ClearActive
  BY <1>4, <1>frame
     DEF WorkerExit, Dequeue, GuardBlocks, GuardTerminalizes, BeginPipeline,
         ObserveCancellation, LoseClaim, FinalizeCancellation, ClaimTerminal,
         FinishRun, CallbackReturns, FinalizeWorkerError, ClearActive,
         admitVars
<1>5. CASE \/ Stop \/ BeginShutdown \/ Shutdown \/ DrainTake \/ DrainPersist
           \/ DrainRecord \/ DrainReturn \/ JoinWorker \/ ShutdownResult
           \/ Expire \/ Terminated \/ UNCHANGED vars
  BY <1>5, <1>frame
     DEF Stop, BeginShutdown, Shutdown, DrainTake, DrainPersist, DrainRecord,
         DrainReturn, JoinWorker, ShutdownResult, Expire, Terminated, vars,
         admitVars
<1> QED
  BY <1>1, <1>2, <1>3, <1>4, <1>5
     DEF Next, Admission, Cancelling, Worker, Callback, ShutdownSteps

(* What a persisted shutdown task reports is durable.                      *)
LEMMA RecordStep ==
    ASSUME ManagerInv, HandOK, RecordOK, [Next]_vars
    PROVE  RecordOK'
<1>t. TypeOK /\ ControlOK /\ StoreOK
  BY DEF ManagerInv, TypeOK
<1>1. CASE DrainPersist
  <2>1. task \in Tasks /\ task.run \in Runs /\ task.kind \in Kinds
        /\ task' = task /\ adm' = adm
    BY <1>1, <1>t DEF DrainPersist, ControlOK, Tasks, admitVars
  <2>2. PICK done \in BOOLEAN :
           /\ CASE task.kind = "queued" ->
                     PersistQueuedCancellation(task.run, "server_shutdown", done)
                [] task.kind = "admission" ->
                     TerminalizeAdmission(task.run,
                                          unresolvedAdmission[task.run], done)
                [] task.kind = "active" -> FinalizeError(task.run, done)
           /\ resolved' = done
    BY <1>1 DEF DrainPersist
  <2>3. CASE done
    <3>1. CASE task.kind = "queued"
      <4>1. status'[task.run] = "cancelled"
        BY <2>1, <2>2, <2>3, <3>1, <1>t, PersistWrites
      <4> QED
        BY <2>1, <4>1 DEF RecordOK, Settled, Terminal
    <3>2. CASE task.kind = "admission"
      <4>1. \/ status'[task.run] \in Terminal
            \/ /\ unresolvedAdmission[task.run] = "creation"
               /\ status'[task.run] = "absent"
        BY <2>1, <2>2, <2>3, <3>2, <1>t, TerminalizeWrites
      <4>2. unresolvedAdmission[task.run] = "creation" =>
               task.run \notin Preallocated /\ adm[task.run] = "done"
        BY <2>1 DEF HandOK
      <4> QED
        BY <2>1, <4>1, <4>2 DEF RecordOK, Settled
    <3>3. CASE task.kind = "active"
      <4>1. status'[task.run] \in Terminal
        BY <2>1, <2>2, <2>3, <3>3, <1>t, FinalizeWrites
      <4> QED
        BY <2>1, <4>1 DEF RecordOK, Settled
    <3> QED
      BY <2>1, <3>1, <3>2, <3>3 DEF Kinds
  <2>4. CASE ~done
    BY <2>2, <2>4 DEF RecordOK
  <2> QED
    BY <2>3, <2>4
<1>away. CASE spc' # "record"
  BY <1>away DEF RecordOK
<1>frame. CASE UNCHANGED <<spc, resolved, task>>
  <2> SUFFICES ASSUME spc = "record", resolved
               PROVE  task \in Tasks /\ Settled(task.run)'
    BY <1>frame DEF RecordOK
  <2>1. task \in Tasks /\ task.run \in Runs /\ Settled(task.run)
    BY DEF RecordOK, Tasks
  <2> DEFINE r == task.run
  <2>2. Settled(r)
    BY <2>1
  <2>3. status[r] \in Terminal => status'[r] = status[r]
    BY <2>1, LifecycleStep, HistoryKeeps
       DEF ManagerInv, TypeOK, StoreOK, AdmissionOK
  <2>4. /\ adm[r] = "done" => adm'[r] = "done"
        /\ status[r] = "absent" /\ adm[r] = "done" /\ r \notin Preallocated
              => status'[r] = "absent"
    BY <2>1, <1>t, DoneStays, Awakens DEF Create, AdmitPreallocated
  <2>5. task' = task
    BY <1>frame
  <2> QED
    BY <2>1, <2>3, <2>4, <2>5 DEF Settled
<1>2. ASSUME NEW r \in Runs,
             \/ Reserve(r) \/ RefuseStorage(r) \/ Track(r) \/ Create(r)
             \/ ResolveFailedCreation(r) \/ ConfirmAdmission(r)
             \/ SubmitReserved(r) \/ SubmitDirect(r) \/ MarkQueued(r)
             \/ Enqueue(r) \/ MarkFailed(r) \/ MarkEnqueueFailed(r)
             \/ AdmitPreallocated(r) \/ ReconcilePreallocated(r)
             \/ CancelCall(r) \/ CancelQueued(r) \/ CancelActive(r)
             \/ CancelUnowned(r)
      PROVE  RecordOK'
  BY <1>2, <1>frame
     DEF Reserve, RefuseStorage, Track, Create, ResolveFailedCreation,
         ConfirmAdmission, SubmitReserved, SubmitDirect, MarkQueued, Enqueue,
         MarkFailed, MarkEnqueueFailed, AdmitPreallocated,
         ReconcilePreallocated, CancelCall, CancelQueued, CancelActive,
         CancelUnowned, drainVars
<1>3. ASSUME NEW b \in BOOLEAN, Start(b) \/ CallbackRaises(b)
      PROVE  RecordOK'
  BY <1>3, <1>frame DEF Start, CallbackRaises, drainVars
<1>4. CASE \/ WorkerExit \/ Dequeue \/ GuardBlocks \/ GuardTerminalizes
           \/ BeginPipeline \/ ObserveCancellation \/ LoseClaim
           \/ FinalizeCancellation \/ ClaimTerminal \/ FinishRun
           \/ CallbackReturns \/ FinalizeWorkerError \/ ClearActive
  BY <1>4, <1>frame
     DEF WorkerExit, Dequeue, GuardBlocks, GuardTerminalizes, BeginPipeline,
         ObserveCancellation, LoseClaim, FinalizeCancellation, ClaimTerminal,
         FinishRun, CallbackReturns, FinalizeWorkerError, ClearActive,
         drainVars
<1>5. CASE Stop \/ Expire \/ Terminated \/ UNCHANGED vars
  BY <1>5, <1>frame DEF Stop, Expire, Terminated, vars, drainVars
<1>6. CASE \/ BeginShutdown \/ Shutdown \/ DrainTake \/ DrainRecord
           \/ DrainReturn \/ JoinWorker \/ ShutdownResult
  <2>1. spc' # "record"
    BY <1>6 DEF BeginShutdown, Shutdown, DrainTake, DrainRecord, DrainReturn,
                JoinWorker, ShutdownResult
  <2> QED
    BY <2>1, <1>away
<1> QED
  BY <1>1, <1>2, <1>3, <1>4, <1>5, <1>6
     DEF Next, Admission, Cancelling, Worker, Callback, ShutdownSteps

(* Once shutdown() has answered "complete" nobody can own a Run again.     *)
LEMMA CompleteStep ==
    ASSUME ManagerInv, HandOK, CompleteOK, [Next]_vars
    PROVE  CompleteOK'
<1>t. /\ tracked \subseteq leases /\ QueueFrozen /\ ControlOK
      /\ active \in Runs \cup {NoRun} /\ NoRun \notin Runs
  BY ConstantsAssumption DEF ManagerInv, TypeOK, AdmissionOK, ActiveOK
<1>k. \A k \in Kinds : UNCHANGED <<shutdownPending, unresolvedAdmission,
                                   unresolvedActive>>
         => Unresolved(k)' = Unresolved(k)
  BY DEF Kinds, Unresolved
<1>frame. CASE UNCHANGED <<spc, shutdownStarted, pass, wpc, active, leases,
                           submitting, shutdownPending, unresolvedAdmission,
                           unresolvedActive>>
  BY <1>frame, <1>k DEF CompleteOK
(* Nothing is complete while this step is possible.                        *)
<1>not. CASE /\ spc # "complete"
             /\ UNCHANGED <<spc, shutdownStarted, pass>>
             /\ wpc = "exited" => wpc' = "exited"
  BY <1>not DEF CompleteOK
<1>1. ASSUME NEW r \in Runs,
             \/ Reserve(r) \/ SubmitReserved(r) \/ SubmitDirect(r)
             \/ Enqueue(r) \/ MarkFailed(r) \/ ConfirmAdmission(r)
      PROVE  CompleteOK'
  <2>1. UNCHANGED <<spc, shutdownStarted, pass, wpc, active>>
    BY <1>1 DEF Reserve, SubmitReserved, SubmitDirect, Enqueue, MarkFailed,
                ConfirmAdmission, activeVars, gateVars, workerVars, drainVars
  <2>2. spc = "complete" => leases = {} /\ submitting = {} /\ ~accepting
    BY <1>t DEF CompleteOK, QueueFrozen
  <2>3. CASE spc # "complete"
    BY <2>1, <2>3, <1>not
  <2>4. CASE spc = "complete"
    <3>1. r \notin tracked /\ r \notin submitting /\ ~accepting
      BY <2>2, <2>4, <1>t
    <3>2. SubmitDirect(r)
      BY <1>1, <3>1 DEF Reserve, SubmitReserved, Enqueue, MarkFailed,
                        ConfirmAdmission, HandOK, Held
    <3>3. UNCHANGED <<leases, submitting, shutdownPending,
                      unresolvedAdmission, unresolvedActive>>
      BY <3>1, <3>2 DEF SubmitDirect, leaseVars, ownedVars
    <3> QED
      BY <2>1, <3>3, <1>frame
  <2> QED
    BY <2>3, <2>4
<1>2. ASSUME NEW r \in Runs, RefuseStorage(r) \/ ResolveFailedCreation(r)
      PROVE  CompleteOK'
  <2>1. /\ UNCHANGED <<spc, shutdownStarted, pass, wpc, active, submitting,
                       shutdownPending, unresolvedAdmission,
                       unresolvedActive>>
        /\ leases' \subseteq leases
    BY <1>2 DEF RefuseStorage, ResolveFailedCreation, Settle, leaseVars,
                activeVars, gateVars, ownedVars, workerVars, drainVars
  <2> QED
    BY <2>1, <1>k DEF CompleteOK
<1>3. CASE Stop
  <2>1. /\ UNCHANGED <<spc, shutdownStarted, pass, wpc, active, submitting,
                       shutdownPending, unresolvedAdmission,
                       unresolvedActive>>
        /\ leases' \subseteq leases
    BY <1>3 DEF Stop, activeVars, ownedVars, workerVars, drainVars
  <2> QED
    BY <2>1, <1>k DEF CompleteOK
<1>4. ASSUME NEW r \in Runs,
             \/ Track(r) \/ Create(r) \/ MarkQueued(r)
             \/ MarkEnqueueFailed(r) \/ AdmitPreallocated(r)
             \/ ReconcilePreallocated(r) \/ CancelCall(r) \/ CancelQueued(r)
             \/ CancelActive(r) \/ CancelUnowned(r)
      PROVE  CompleteOK'
  BY <1>4, <1>frame
     DEF Track, Create, MarkQueued, MarkEnqueueFailed, AdmitPreallocated,
         ReconcilePreallocated, CancelCall, CancelQueued, CancelActive,
         CancelUnowned, admitVars, leaseVars, activeVars, gateVars, ownedVars,
         workerVars, drainVars
(* The worker has exited before a shutdown is complete.                    *)
<1>e. spc = "complete" => wpc = "exited"
  BY DEF CompleteOK
<1>5. CASE \/ WorkerExit \/ Dequeue \/ GuardBlocks \/ GuardTerminalizes
           \/ BeginPipeline \/ ObserveCancellation \/ LoseClaim
           \/ FinalizeCancellation \/ ClaimTerminal \/ FinishRun
           \/ (\E f \in BOOLEAN : CallbackRaises(f) \/ Start(f))
           \/ CallbackReturns \/ FinalizeWorkerError
  <2>1. wpc # "exited" /\ UNCHANGED <<spc, shutdownStarted, pass>>
    BY <1>5 DEF WorkerExit, Dequeue, GuardBlocks, GuardTerminalizes,
                BeginPipeline, ObserveCancellation, LoseClaim,
                FinalizeCancellation, ClaimTerminal, FinishRun,
                CallbackRaises, Start, CallbackReturns, FinalizeWorkerError,
                gateVars, drainVars
  <2> QED
    BY <2>1, <1>e, <1>not
<1>6. CASE ClearActive
  <2>1. wpc # "exited" /\ UNCHANGED <<spc, shutdownStarted, pass>>
    BY <1>6 DEF ClearActive, drainVars
  <2> QED
    BY <2>1, <1>e, <1>not
<1>7. CASE BeginShutdown \/ Shutdown \/ DrainTake \/ DrainPersist
           \/ DrainRecord \/ DrainReturn \/ JoinWorker
  <2>1. /\ spc' # "complete" /\ (spc' # "idle" => shutdownStarted')
        /\ wpc' = wpc
        /\ \/ pass' = pass
           \/ wpc = "exited"
    BY <1>7 DEF BeginShutdown, Shutdown, DrainTake, DrainPersist, DrainRecord,
                DrainReturn, JoinWorker, CompleteOK, gateVars, workerVars
  <2> QED
    BY <2>1 DEF CompleteOK
<1>8. CASE ShutdownResult
  <2>1. /\ UNCHANGED <<shutdownStarted, wpc, active, leases, submitting,
                       shutdownPending, unresolvedAdmission,
                       unresolvedActive>>
        /\ spc = "result"
        /\ spc' = "complete" => Complete /\ pass' = pass
        /\ pass' \in {pass, "main"}
    BY <1>8 DEF ShutdownResult, admitVars, leaseVars, activeVars, gateVars,
                ownedVars, workerVars
  <2> QED
    BY <2>1, <1>k DEF CompleteOK, Complete
<1>9. CASE Expire \/ Terminated \/ UNCHANGED vars
  BY <1>9, <1>frame
     DEF Expire, Terminated, vars, admitVars, leaseVars, activeVars, gateVars,
         ownedVars, workerVars, drainVars
<1> QED
  BY <1>1, <1>2, <1>3, <1>4, <1>5, <1>6, <1>7, <1>8, <1>9
     DEF Next, Admission, Cancelling, Worker, Callback, ShutdownSteps

(* No step drops the last owner of a Run without an outcome.               *)
LEMMA LostStep ==
    ASSUME ManagerInv, HandOK, HandOK', RecordOK, NoRunLost, [Next]_vars
    PROVE  NoRunLost'
<1>t. /\ StoreOK /\ AdmissionOK /\ ShutdownOK /\ ControlOK
      /\ [Lifecycle!Next]_(Lifecycle!vars)
  BY LifecycleStep DEF ManagerInv, TypeOK
<1>n. \A q \in Runs : Needy(q) => Owned(q)
  BY NeedyMeans
<1> SUFFICES ASSUME NEW q \in Runs, Needy(q)'
             PROVE  Owned(q)'
  BY DEF NoRunLost, Needy
<1>new. CASE ~Needy(q)
  <2>1. \/ status[q] = "absent"
        \/ status[q] = "pending" /\ status'[q] = "queued"
    BY <1>new, <1>t, HistoryMoves DEF StoreOK
  <2>2. CASE status[q] = "absent"
    <3>1. status'[q] \in Fresh /\ status'[q] # "absent"
      BY <2>2, <1>t, HistoryMoves DEF StoreOK, Needy, Fresh
    <3>2. q \notin Preallocated /\ Create(q)
      BY <2>2, <3>1, Awakens DEF Needy, Fresh, AdmitPreallocated
    <3>3. adm'[q] \in {"created", "createFailed"}
      BY <3>2, <1>t DEF Create, Goto, AdmissionOK
    <3>4. q \in tracked'
      BY <3>2, <3>3 DEF HandOK, Held
    <3> QED
      BY <3>4 DEF Owned
  <2>3. CASE status[q] = "pending" /\ status'[q] = "queued"
    <3>1. MarkQueued(q)
      BY <2>3, Awakens
    <3>2. adm'[q] \in {"marked", "markFailed"}
      BY <3>1, <1>t DEF MarkQueued, Goto, AdmissionOK
    <3>3. q \in submitting'
      BY <3>2 DEF HandOK
    <3> QED
      BY <3>3 DEF Owned
  <2> QED
    BY <2>1, <2>2, <2>3
<1>old. CASE Owned(q) /\ Needy(q)
  <2>ended. status[q] \notin Terminal \cup {"absent"}
            /\ status'[q] \notin Terminal \cup {"absent"}
    BY <1>old DEF Needy, Terminal, Results
  <2>more. CASE /\ queue' = queue /\ (q = active => q = active')
                /\ q \in submitting => q \in submitting'
                /\ q \in tracked => q \in tracked'
                /\ q \in shutdownPending => q \in shutdownPending'
                /\ q \in unresolvedActive => q \in unresolvedActive'
                /\ unresolvedAdmission[q] # "none"
                      => unresolvedAdmission'[q] # "none"
    BY <1>old, <2>more DEF Owned, Queued
  <2>1. ASSUME NEW r \in Runs, RefuseStorage(r)
        PROVE  Owned(q)'
    <3>1. q # r
      BY <2>1, <2>ended DEF RefuseStorage, HandOK
    <3> QED
      BY <2>1, <2>more, <3>1
         DEF RefuseStorage, Settle, activeVars, ownedVars
  <2>2. ASSUME NEW r \in Runs, ResolveFailedCreation(r)
        PROVE  Owned(q)'
    <3>1. q # r \/ UNCHANGED leaseVars
      BY <2>2, <2>ended DEF ResolveFailedCreation
    <3> QED
      BY <2>2, <2>more, <3>1
         DEF ResolveFailedCreation, Settle, leaseVars, activeVars, ownedVars
  <2>3. ASSUME NEW r \in Runs, ConfirmAdmission(r)
        PROVE  Owned(q)'
    <3>1. CASE q # r
      BY <2>3, <2>more, <3>1, <1>t
         DEF ConfirmAdmission, OwnUnresolved, Settle, activeVars, ShutdownOK
    <3>2. CASE q = r
      <4>1. unresolvedAdmission'[q] # "none"
        BY <2>3, <3>2, <2>ended, <1>t
           DEF ConfirmAdmission, OwnUnresolved, ReadTerminal, ShutdownOK
      <4> QED
        BY <4>1 DEF Owned
    <3> QED
      BY <3>1, <3>2
  <2>4. ASSUME NEW r \in Runs, Enqueue(r)
        PROVE  Owned(q)'
    <3>1. /\ submitting' = submitting \ {r} /\ tracked' = tracked \ {r}
          /\ UNCHANGED <<active, unresolvedActive, unresolvedAdmission>>
          /\ \/ /\ shutdownPending' = shutdownPending \cup {r}
                /\ queue' = queue
             \/ /\ queue' = Append(queue, r)
                /\ shutdownPending' = shutdownPending
      BY <2>4 DEF Enqueue, Settle, activeVars
    <3>2. CASE queue' = queue
      BY <1>old, <3>1, <3>2, <2>4, EmptySeq, AppendProperties
         DEF Owned, Queued, AdmissionOK
    <3>3. CASE queue' = Append(queue, r)
      <4>1. /\ queue \in Seq(Runs) /\ Len(queue) \in Nat
            /\ DOMAIN queue = 1..Len(queue)
            /\ DOMAIN queue' = 1..(Len(queue) + 1)
            /\ queue'[Len(queue) + 1] = r
            /\ \A i \in 1..Len(queue) : queue'[i] = queue[i]
        BY <3>3, <1>t, AppendProperties DEF AdmissionOK
      <4>2. Len(queue) + 1 \in DOMAIN queue' /\ DOMAIN queue \subseteq DOMAIN queue'
        BY <4>1
      <4>3. /\ Queued(r)'
            /\ Queued(q) => Queued(q)'
        BY <4>1, <4>2 DEF Queued
      <4>4. \/ shutdownPending' = shutdownPending
            \/ shutdownPending' = shutdownPending \cup {r}
        BY <3>1
      <4> QED
        BY <1>old, <3>1, <4>3, <4>4 DEF Owned
    <3> QED
      BY <3>1, <3>2, <3>3
  <2>5. ASSUME NEW r \in Runs, MarkFailed(r)
        PROVE  Owned(q)'
    <3>1. CASE q # r
      BY <2>5, <2>more, <3>1, <1>t
         DEF MarkFailed, OwnUnresolved, leaseVars, activeVars, ShutdownOK
    <3>2. CASE q = r /\ r \in Preallocated
      <4>1. unresolvedAdmission'[q] # "none"
        BY <2>5, <3>2, <2>ended, <1>t
           DEF MarkFailed, OwnUnresolved, ShutdownOK
      <4> QED
        BY <4>1 DEF Owned
    <3>3. CASE q = r /\ r \notin Preallocated
      <4>1. q \in tracked /\ tracked' = tracked
        BY <2>5, <3>3 DEF MarkFailed, HandOK, Held, leaseVars
      <4> QED
        BY <4>1 DEF Owned
    <3> QED
      BY <3>1, <3>2, <3>3
  <2>6. ASSUME NEW r \in Runs, CancelQueued(r)
        PROVE  Owned(q)'
    <3>1. PICK i \in DOMAIN queue, ok \in BOOLEAN :
             /\ queue[i] = r
             /\ PersistQueuedCancellation(r, "user_requested", ok)
             /\ queue' = IF ok THEN RemoveAt(queue, i) ELSE queue
      BY <2>6 DEF CancelQueued
    <3>2. UNCHANGED <<active, submitting, tracked, shutdownPending,
                      unresolvedActive, unresolvedAdmission>>
      BY <2>6 DEF CancelQueued, activeVars, leaseVars, ownedVars
    <3>3. CASE ~ok
      BY <3>1, <3>2, <3>3, <2>more
    <3>4. CASE ok
      <4>1. q # r
        BY <3>1, <3>4, <2>ended, <1>t, PersistWrites DEF Terminal
      <4>2. Queued(q) => Queued(q)'
        <5>1. /\ queue \in Seq(Runs) /\ Len(queue) \in Nat
              /\ DOMAIN queue = 1..Len(queue)
          BY <1>t DEF AdmissionOK
        <5>2. queue' = RemoveAt(queue, i)
          BY <3>1, <3>4
        <5>3. /\ queue' \in Seq(Runs) /\ Len(queue') = Len(queue) - 1
              /\ \A j \in 1..(Len(queue) - 1) :
                    queue'[j] = IF j < i THEN queue[j] ELSE queue[j + 1]
          BY <5>1, <5>2, RemoveAtProperties, Zenon
        <5>4. DOMAIN queue' = 1..(Len(queue) - 1)
          BY <5>1, <5>3
        <5>5. ASSUME NEW k \in DOMAIN queue, queue[k] = q
              PROVE  \E j \in DOMAIN queue' : queue'[j] = q
          <6>1. k # i
            BY <3>1, <4>1, <5>5
          <6>2. CASE k < i
            <7>1. k \in DOMAIN queue' /\ queue'[k] = queue[k]
              BY <5>1, <5>3, <5>4, <6>2
            <7> QED
              BY <7>1, <5>5
          <6>3. CASE k > i
            <7>1. /\ k - 1 \in DOMAIN queue' /\ ~(k - 1 < i)
                  /\ (k - 1) + 1 = k
              BY <5>1, <5>4, <6>3
            <7>2. queue'[k - 1] = queue[k]
              BY <5>3, <5>4, <7>1
            <7> QED
              BY <7>1, <7>2, <5>5
          <6> QED
            BY <5>1, <6>1, <6>2, <6>3
        <5> QED
          BY <5>5 DEF Queued
      <4> QED
        BY <1>old, <3>2, <4>2 DEF Owned
    <3> QED
      BY <3>3, <3>4
  <2>7. CASE Dequeue
    <3>1. /\ active' = Head(queue) /\ queue' = Tail(queue) /\ queue # <<>>
          /\ active = NoRun
          /\ UNCHANGED <<submitting, tracked, shutdownPending,
                         unresolvedActive, unresolvedAdmission>>
      BY <2>7, <1>t DEF Dequeue, ControlOK, Busy, leaseVars, ownedVars
    <3>2. /\ queue \in Seq(Runs) /\ Len(queue) \in Nat \ {0}
          /\ DOMAIN queue = 1..Len(queue)
          /\ DOMAIN queue' = 1..(Len(queue) - 1)
          /\ active' = queue[1]
          /\ \A j \in 1..(Len(queue) - 1) : queue'[j] = queue[j + 1]
      BY <3>1, <1>t, HeadTailProperties, EmptySeq DEF AdmissionOK
    <3>3. Queued(q) => Queued(q)' \/ q = active'
      <4> SUFFICES ASSUME NEW k \in DOMAIN queue, queue[k] = q, k # 1
                   PROVE  \E j \in DOMAIN queue' : queue'[j] = q
        BY <3>2 DEF Queued
      <4>1. k - 1 \in DOMAIN queue' /\ (k - 1) + 1 = k
        BY <3>2
      <4>2. queue'[k - 1] = q
        BY <3>2, <4>1
      <4> QED
        BY <4>1, <4>2
    <3>4. q # active
      BY <3>1, ConstantsAssumption
    <3> QED
      BY <1>old, <3>1, <3>3, <3>4 DEF Owned
  <2>8. CASE ClearActive
    <3>1. /\ queue' = queue
          /\ UNCHANGED <<submitting, tracked, shutdownPending,
                         unresolvedAdmission>>
          /\ unresolvedActive \subseteq unresolvedActive'
      BY <2>8 DEF ClearActive, admitVars, leaseVars
    <3>2. q = active => q \in unresolvedActive'
      BY <2>8, <2>ended DEF ClearActive, ReadTerminal
    <3> QED
      BY <1>old, <3>1, <3>2 DEF Owned, Queued
  <2>9. CASE BeginShutdown
    <3>1. /\ shutdownPending' = shutdownPending \cup ToSet(queue)
          /\ UNCHANGED <<active, submitting, tracked, unresolvedActive,
                         unresolvedAdmission>>
      BY <2>9 DEF BeginShutdown, leaseVars, activeVars
    <3>2. Queued(q) => q \in ToSet(queue)
      BY DEF Queued, ToSet
    <3> QED
      BY <1>old, <3>1, <3>2 DEF Owned
  <2>10. CASE DrainRecord
    <3>1. /\ queue' = queue
          /\ UNCHANGED <<active, submitting, tracked>>
      BY <2>10 DEF DrainRecord, admitVars, leaseVars, activeVars
    <3>2. task.run = q => ~resolved
      BY <2>10, <2>ended DEF DrainRecord, RecordOK, Settled
    <3>3. /\ q \in shutdownPending => q \in shutdownPending'
          /\ q \in unresolvedActive => q \in unresolvedActive'
          /\ unresolvedAdmission'[q] = unresolvedAdmission[q]
      BY <2>10, <3>2, <1>t DEF DrainRecord, ShutdownOK
    <3> QED
      BY <3>1, <3>3, <2>more
  <2>still. CASE UNCHANGED <<queue, active, tracked, unresolvedActive,
                             shutdownPending, unresolvedAdmission>>
                 /\ submitting \subseteq submitting'
    BY <2>still, <2>more
  <2>11. ASSUME NEW r \in Runs,
                \/ Reserve(r) \/ Create(r) \/ SubmitReserved(r)
                \/ SubmitDirect(r) \/ MarkQueued(r) \/ MarkEnqueueFailed(r)
                \/ AdmitPreallocated(r) \/ ReconcilePreallocated(r)
                \/ CancelCall(r) \/ CancelActive(r) \/ CancelUnowned(r)
         PROVE  Owned(q)'
    BY <2>11, <2>still
       DEF Reserve, Create, SubmitReserved, SubmitDirect, MarkQueued,
           MarkEnqueueFailed, AdmitPreallocated, ReconcilePreallocated,
           CancelCall, CancelActive, CancelUnowned, admitVars, leaseVars,
           activeVars, ownedVars
  <2>12. ASSUME NEW r \in Runs, Track(r)
         PROVE  Owned(q)'
    BY <2>12, <2>more DEF Track, activeVars, ownedVars
  <2>13. ASSUME NEW b \in BOOLEAN, Start(b) \/ CallbackRaises(b)
         PROVE  Owned(q)'
    BY <2>13, <2>still
       DEF Start, CallbackRaises, admitVars, leaseVars, activeVars, ownedVars
  <2>14. CASE \/ WorkerExit \/ GuardBlocks \/ GuardTerminalizes
              \/ BeginPipeline \/ ObserveCancellation \/ LoseClaim
              \/ FinalizeCancellation \/ ClaimTerminal \/ FinishRun
              \/ CallbackReturns \/ FinalizeWorkerError
    BY <2>14, <2>still
       DEF WorkerExit, GuardBlocks, GuardTerminalizes, BeginPipeline,
           ObserveCancellation, LoseClaim, FinalizeCancellation,
           ClaimTerminal, FinishRun, CallbackReturns, FinalizeWorkerError,
           admitVars, leaseVars, activeVars, ownedVars
  <2>15. CASE \/ Stop \/ Shutdown \/ DrainTake \/ DrainPersist
              \/ DrainReturn \/ JoinWorker \/ ShutdownResult \/ Expire
              \/ Terminated \/ UNCHANGED vars
    BY <2>15, <2>still
       DEF Stop, Shutdown, DrainTake, DrainPersist, DrainReturn, JoinWorker,
           ShutdownResult, Expire, Terminated, vars, admitVars, leaseVars,
           activeVars, ownedVars
  <2> QED
    BY <2>1, <2>2, <2>3, <2>4, <2>5, <2>6, <2>7, <2>8, <2>9, <2>10, <2>11,
       <2>12, <2>13, <2>14, <2>15
       DEF Next, Admission, Cancelling, Worker, Callback, ShutdownSteps
<1> QED
  BY <1>new, <1>old, <1>n

(* A fresh manager owes nothing to any Run.                                *)
LEMMA OwnInit == Init => OwnInv /\ NoRunLost
BY ConstantsAssumption
   DEF Init, OwnInv, HandOK, Held, RecordOK, CompleteOK, NoRunLost

(* Ownership is inductive relative to ManagerInv.                          *)
LEMMA OwnInvariant == Spec => []OwnInv /\ []NoRunLost
<1>1. ManagerInv /\ OwnInv /\ NoRunLost /\ [Next]_vars => OwnInv' /\ NoRunLost'
  BY HandStep, RecordStep, CompleteStep, LostStep DEF OwnInv
<1> QED
  BY <1>1, OwnInit, ManagerInvariant, PTL DEF Spec

(* No admitted Run is forgotten: whatever fails, and whenever admission,   *)
(* worker and shutdown meet, a Run that is durably not terminal is owned   *)
(* by the queue, the worker, its admission or shutdown.                    *)
THEOREM NothingLost == Spec => []NoRunLost
BY OwnInvariant, PTL

(* What callers are told stays true: "complete" of a shutdown that left no *)
(* admitted Run without an outcome, "cancelling" of a Run that never       *)
(* becomes a result.                                                       *)
THEOREM Answers == Spec => []AnswersAreTrue
<1>1. OwnInv /\ NoRunLost /\ ManagerInv => AnswersAreTrue
  <2> SUFFICES ASSUME OwnInv, NoRunLost, ManagerInv, spc = "complete"
               PROVE  CompleteMeansResolved
    BY DEF AnswersAreTrue, ManagerInv, CompleteMeansResolved
  <2>1. /\ wpc = "exited" /\ active = NoRun /\ tracked = {} /\ submitting = {}
        /\ shutdownPending = {} /\ unresolvedActive = {}
        /\ \A r \in Runs : unresolvedAdmission[r] = "none"
        /\ queue = <<>>
    BY DEF OwnInv, CompleteOK, Unresolved, Kinds, ManagerInv, TypeOK,
           AdmissionOK, QueueFrozen
  <2>2. \A r \in Runs : ~Owned(r)
    BY <2>1, ConstantsAssumption, EmptySeq DEF Owned, Queued
  <2>3. \A r \in Runs : status[r] \in Statuses
    BY DEF ManagerInv, TypeOK, StoreOK
  <2> QED
    BY <2>1, <2>2, <2>3
       DEF NoRunLost, CompleteMeansResolved, Statuses, Live
<1> QED
  BY <1>1, OwnInvariant, ManagerInvariant, PTL
=============================================================================
