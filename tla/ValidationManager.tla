------------------------- MODULE ValidationManager --------------------------
(***************************************************************************)
(* Artifact validation: ValidationManager with its one worker, the durable *)
(* attempts (attempt.json, result.json, automation.json), the owned        *)
(* containers with their durable identities, the PreparationSupervisor     *)
(* that may forbid new containers, and the recovery at startup.            *)
(*                                                                         *)
(* An admission request is named by the identifier of the attempt it would *)
(* create: allocate_run_id makes identifiers fresh.  Everything except the *)
(* durable state is lost when the process ends.                            *)
(***************************************************************************)
EXTENDS Integers, Sequences, FiniteSets, SequencesExt

CONSTANTS Attempts, Runs,
          RunOf,        \* the Build Run whose artifact an attempt validates
          Publishing,   \* requests with publish_after_success
          Cancellable,  \* attempts that users cancel
          Capacity,     \* queue_capacity
          Faults,       \* kinds of failure that may happen
          MaxFaults,    \* bound: failures in one behaviour
          MaxRestarts,  \* bound: starts after the first in one behaviour
          NoAttempt

FaultKinds == {"lost", "committed", "unproved", "inventory"}

ASSUME ConstantsAssumption ==
    /\ IsFiniteSet(Attempts)
    /\ Attempts \cap {NoAttempt, "free", "worker"} = {}
    /\ RunOf \in [Attempts -> Runs]
    /\ Publishing \subseteq Attempts /\ Cancellable \subseteq Attempts
    /\ Capacity \in Nat \ {0} /\ Faults \subseteq FaultKinds
    /\ MaxFaults \in Nat /\ MaxRestarts \in Nat

VARIABLES
    \* durable
    attempt,        \* status in attempt.json
    result,         \* status in result.json
    intent,         \* publication_state in automation.json
    identities,     \* attempts with a record in the IdentityRegistry
    containers,     \* attempts that have a container (Podman)
    \* ValidationManager, guarded by its Condition
    queue, reservations, active, accepting, stopping, blocked,
    event,          \* the Event of the active attempt
    \* PreparationSupervisor
    supAccepting, supBlocked, supActive,
    \* threads
    adm, reuse,     \* admission of a, and the active attempt it found
    cpc, wasActive, \* cancellation of a
    wpc, stage, outcome, wdrain,    \* worker
    spc, sdrain, sactive,           \* shutdown
    runLock,        \* the holder of each Run's workspace lease
    \* process and its startup
    phase, todo, resolved, trusted, resume,
    \* bounds and history
    faults, ends,
    deferred,       \* attempts left to the next startup: a failed write, or
                    \* a startup that was blocked
    told,           \* the active attempt a duplicate request was answered
    accepted,       \* attempts whose cancellation was accepted
    tried           \* pending publications tried by this process

durableVars == <<attempt, result, intent>>
ociVars == <<identities, containers>>
queueVars == <<queue, reservations>>
gateVars == <<accepting, stopping, blocked>>
supVars == <<supAccepting, supBlocked, supActive>>
admVars == <<adm, reuse>>
cancelVars == <<cpc, wasActive>>
workerVars == <<wpc, stage, outcome, wdrain>>
shutdownVars == <<spc, sdrain, sactive>>
startVars == <<phase, todo, resolved, trusted, resume>>
faultVars == <<faults, deferred>>
historyVars == <<told, accepted, tried>>
vars == <<durableVars, ociVars, queueVars, active, gateVars, event, supVars,
          admVars, cancelVars, workerVars, shutdownVars, runLock, startVars,
          faultVars, ends, historyVars>>

Active == {"queued", "running", "cancelling"}
Terminal == {"success", "failed", "cancelled"}
Worker == "worker"
Free == "free"

-----------------------------------------------------------------------------
(* Documents.  load_attempt refuses a result.json next to an attempt that  *)
(* is not terminal.  storage.save_json fails before the replacement        *)
(* ("lost") or after it, in the directory sync or chmod ("committed").     *)

Unreadable(a) == result[a] # "none" /\ attempt[a] \notin Terminal

CanFail(kind) == kind \in Faults /\ faults < MaxFaults

WriteOutcomes == {"ok"} \cup {k \in {"lost", "committed"} : CanFail(k)}

Count(o) == faults' = faults + (IF o = "ok" THEN 0 ELSE 1)

Save(a, status, o) ==
    /\ attempt' = IF o = "lost" THEN attempt
                  ELSE [attempt EXCEPT ![a] = status]
    /\ Count(o)
    /\ deferred' = IF o = "ok" THEN deferred ELSE deferred \cup {a}

(* The attempt path lock is held from result.json to attempt.json.         *)
PathFree(a) == ~ (wpc = "writing" /\ active = a)

(* _cancel_durable, without the Run lease.                                 *)
Cancelled(a) == CASE attempt[a] = "queued"  -> "cancelled"
                  [] attempt[a] = "running" -> "cancelling"
                  [] OTHER                  -> attempt[a]

CancelDurable(a, o) ==
    /\ PathFree(a)
    /\ \/ Unreadable(a) /\ o = "refused" /\ UNCHANGED <<attempt, faultVars>>
       \/ attempt[a] \in Terminal /\ o = "ok"
          /\ UNCHANGED <<attempt, faultVars>>
       \/ attempt[a] \in Active /\ ~ Unreadable(a)
          /\ o \in WriteOutcomes /\ Save(a, Cancelled(a), o)

CancelOutcomes == {"ok", "lost", "committed", "refused"}

-----------------------------------------------------------------------------
Init ==
    /\ attempt = [a \in Attempts |-> "absent"]
    /\ result = [a \in Attempts |-> "none"]
    /\ intent = [a \in Attempts |-> "not_requested"]
    /\ identities = {} /\ containers = {}
    /\ queue = <<>> /\ reservations = 0 /\ active = NoAttempt
    /\ accepting = FALSE /\ stopping = FALSE /\ blocked = FALSE
    /\ event = FALSE
    /\ supAccepting = TRUE /\ supBlocked = FALSE /\ supActive = {}
    /\ adm = [a \in Attempts |-> "idle"]
    /\ reuse = [a \in Attempts |-> NoAttempt]
    /\ cpc = [a \in Attempts |-> "idle"]
    /\ wasActive = [a \in Attempts |-> FALSE]
    /\ wpc = "idle" /\ stage = "preparation" /\ outcome = "none"
    /\ wdrain = <<>>
    /\ spc = "none" /\ sdrain = <<>> /\ sactive = NoAttempt
    /\ runLock = [r \in Runs |-> Free]
    /\ phase = "down" /\ todo = {} /\ resolved = {} /\ trusted = FALSE
    /\ resume = {}
    /\ faults = 0 /\ ends = 0 /\ deferred = {}
    /\ told = [a \in Attempts |-> NoAttempt]
    /\ accepted = {} /\ tried = {}

-----------------------------------------------------------------------------
(* Admission.  admit looks for an active attempt of the Run twice: without *)
(* the Run lease, which a running validation keeps for a long time, and    *)
(* again when it has it.  Each time the attempt found is read again under  *)
(* its own lock before it is reused.                                       *)

Holds(a) == runLock[RunOf[a]] = a

Release(a) == runLock' = IF Holds(a) THEN [runLock EXCEPT ![RunOf[a]] = Free]
                         ELSE runLock

AdmissionFrame == UNCHANGED <<ociVars, active, gateVars, event, supVars,
                              cancelVars, workerVars, shutdownVars, startVars,
                              ends, accepted, tried>>

AdmitCall(a) ==
    /\ phase = "up" /\ adm[a] = "idle"
    /\ adm' = [adm EXCEPT ![a] = IF accepting THEN "select" ELSE "done"]
    /\ UNCHANGED <<durableVars, queueVars, reuse, runLock, faultVars, told>>
    /\ AdmissionFrame

(* _reuse_active: list_attempts fails on an attempt it cannot read.        *)
ActiveOf(r) == {b \in Attempts : RunOf[b] = r /\ attempt[b] \in Active}

Select(a) ==
    /\ adm[a] = "select"
    /\ \A b \in Attempts : RunOf[b] = RunOf[a] => ~ Unreadable(b)
    /\ \/ /\ ActiveOf(RunOf[a]) = {}
          /\ adm' = [adm EXCEPT ![a] = IF Holds(a) THEN "reserve" ELSE "lock"]
          /\ UNCHANGED reuse
       \/ \E b \in ActiveOf(RunOf[a]) :
            /\ reuse' = [reuse EXCEPT ![a] = b]
            /\ adm' = [adm EXCEPT ![a] = "confirm"]
    /\ UNCHANGED <<durableVars, queueVars, runLock, faultVars, told>>
    /\ AdmissionFrame

Upgraded(a, b) == IF a \in Publishing /\ intent[b] = "not_requested"
                  THEN "pending" ELSE intent[b]

(* Faulty variant: the attempt found is not read again under its lock.     *)
StillActiveUnchecked(b) == TRUE

StillActive(b) == attempt[b] \in Active

Confirm(a) ==
    LET b == reuse[a]
    IN /\ adm[a] = "confirm" /\ PathFree(b) /\ ~ Unreadable(b)
       /\ IF StillActive(b)
          THEN /\ intent' = [intent EXCEPT ![b] = Upgraded(a, b)]
               /\ adm' = [adm EXCEPT ![a] = "answer"]
          ELSE /\ adm' = [adm EXCEPT ![a] =
                            IF Holds(a) THEN "reserve" ELSE "lock"]
               /\ UNCHANGED intent
       /\ UNCHANGED <<attempt, result, queueVars, reuse, runLock, faultVars,
                      told>>
       /\ AdmissionFrame

Answer(a) ==
    /\ adm[a] = "answer"
    /\ told' = IF accepting THEN [told EXCEPT ![a] = reuse[a]] ELSE told
    /\ adm' = [adm EXCEPT ![a] = "done"]
    /\ Release(a)
    /\ UNCHANGED <<durableVars, queueVars, reuse, faultVars>>
    /\ AdmissionFrame

(* Faulty variant: no second search under the Run lease.                   *)
SecondSearchSkipped == "reserve"

(* Where admit continues with the lease, and what becomes of an attempt    *)
(* that was created when the manager has closed.                           *)
SecondSearch == "select"

AcquireRun(a) ==
    /\ adm[a] = "lock" /\ runLock[RunOf[a]] = Free
    /\ IF accepting
       THEN /\ runLock' = [runLock EXCEPT ![RunOf[a]] = a]
            /\ adm' = [adm EXCEPT ![a] = SecondSearch]
       ELSE adm' = [adm EXCEPT ![a] = "done"] /\ UNCHANGED runLock
    /\ UNCHANGED <<durableVars, queueVars, reuse, faultVars, told>>
    /\ AdmissionFrame

Reserve(a) ==
    /\ adm[a] = "reserve"
    /\ IF accepting /\ Len(queue) + reservations < Capacity
       THEN /\ reservations' = reservations + 1
            /\ adm' = [adm EXCEPT ![a] = "create"]
            /\ UNCHANGED runLock
       ELSE /\ adm' = [adm EXCEPT ![a] = "done"]
            /\ Release(a) /\ UNCHANGED reservations
    /\ UNCHANGED <<durableVars, queue, reuse, faultVars, told>>
    /\ AdmissionFrame

(* _admit_locked: automation.json and then attempt.json; a failure removes *)
(* the directory of the attempt.                                           *)
Create(a) ==
    /\ adm[a] = "create"
    /\ attempt' = [attempt EXCEPT ![a] = "queued"]
    /\ intent' = [intent EXCEPT ![a] = IF a \in Publishing THEN "pending"
                                       ELSE "not_requested"]
    /\ adm' = [adm EXCEPT ![a] = "enqueue"]
    /\ Release(a)
    /\ UNCHANGED <<result, queueVars, reuse, faultVars, told>>
    /\ AdmissionFrame

(* Faulty variant: a closed manager just drops the created attempt.        *)
ClosedDrops == "done"

WhenClosed == "abandon"

Enqueue(a) ==
    /\ adm[a] = "enqueue"
    /\ reservations' = reservations - 1
    /\ queue' = IF accepting THEN Append(queue, a) ELSE queue
    /\ adm' = [adm EXCEPT ![a] = IF accepting THEN "done" ELSE WhenClosed]
    /\ UNCHANGED <<durableVars, reuse, runLock, faultVars, told>>
    /\ AdmissionFrame

(* The manager stopped accepting between creation and submission.          *)
Abandon(a) ==
    /\ adm[a] = "abandon"
    /\ \E o \in CancelOutcomes : CancelDurable(a, o)
    /\ adm' = [adm EXCEPT ![a] = "done"]
    /\ UNCHANGED <<result, intent, queueVars, reuse, runLock, told>>
    /\ AdmissionFrame

(* An error before the attempt exists: an unreadable attempt, a conflict   *)
(* of automation metadata, an unusable artifact, a failed write.  The      *)
(* finally clause gives back the reservation.                              *)
Reserved(a) == IF adm[a] = "create" THEN 1 ELSE 0

AdmitFails(a) ==
    /\ adm[a] \in {"select", "confirm", "create"}
    /\ reservations' = reservations - Reserved(a)
    /\ adm' = [adm EXCEPT ![a] = "done"]
    /\ Release(a)
    /\ UNCHANGED <<durableVars, queue, reuse, faultVars, told>>
    /\ AdmissionFrame

Admission(a) ==
    \/ AdmitCall(a) \/ Select(a) \/ Confirm(a) \/ Answer(a)
    \/ AcquireRun(a) \/ Reserve(a) \/ Create(a) \/ Enqueue(a)
    \/ Abandon(a) \/ AdmitFails(a)

-----------------------------------------------------------------------------
(* Cancellation by a user.                                                 *)

CancelFrame == UNCHANGED <<result, intent, ociVars, reservations, active,
                           gateVars, supVars, admVars, workerVars,
                           shutdownVars, runLock, startVars, ends, told,
                           tried>>

(* self._queue.remove, if the attempt is in the queue.                     *)
WithoutQueued(a) ==
    IF a \in ToSet(queue)
    THEN {RemoveAt(queue, i) : i \in {j \in DOMAIN queue : queue[j] = a}}
    ELSE {queue}

CancelCall(a) ==
    /\ phase = "up" /\ a \in Cancellable /\ cpc[a] = "idle"
    /\ attempt[a] # "absent"
    /\ queue' \in WithoutQueued(a)
    /\ wasActive' = [wasActive EXCEPT ![a] = active = a]
    /\ event' = (event \/ active = a)
    /\ cpc' = [cpc EXCEPT ![a] = "durable"]
    /\ UNCHANGED <<attempt, faultVars, accepted>>
    /\ CancelFrame

CancelDurably(a) ==
    /\ cpc[a] = "durable"
    /\ \E o \in CancelOutcomes :
        /\ CancelDurable(a, o)
        /\ accepted' =
             IF o = "ok" /\ \/ attempt'[a] = "cancelled"
                            \/ attempt'[a] = "cancelling" /\ wasActive[a]
             THEN accepted \cup {a} ELSE accepted
    /\ cpc' = [cpc EXCEPT ![a] = "idle"]
    /\ wasActive' = [wasActive EXCEPT ![a] = FALSE]
    /\ UNCHANGED <<queue, event>>
    /\ CancelFrame

-----------------------------------------------------------------------------
(* The worker: _work around execute_validation_attempt.  stage tells the   *)
(* two containers apart: dependency preparation, then offline lifecycle.   *)
(* outcome is the exception or result that is on its way.                  *)

WorkerFrame == UNCHANGED <<reservations, stopping, admVars, cancelVars,
                           shutdownVars, startVars, ends, told, accepted>>

QueueFrame == UNCHANGED <<queue, active, accepting, blocked, event, wdrain>>

NoSave == UNCHANGED <<attempt, faultVars>>

Lock(a) == runLock[RunOf[a]] = Free
           /\ runLock' = [runLock EXCEPT ![RunOf[a]] = Worker]
Unlock(a) == runLock' = [runLock EXCEPT ![RunOf[a]] = Free]

Dequeue ==
    /\ phase = "up" /\ wpc = "idle" /\ queue # <<>>
    /\ active' = Head(queue) /\ queue' = Tail(queue)
    /\ event' = FALSE
    /\ wpc' = "begin" /\ outcome' = "none" /\ stage' = "preparation"
    /\ UNCHANGED <<durableVars, ociVars, accepting, blocked, supVars, wdrain,
                   runLock, faultVars, tried>>
    /\ WorkerFrame

WorkerExit ==
    /\ phase = "up" /\ wpc = "idle" /\ queue = <<>> /\ stopping
    /\ wpc' = "stopped"
    /\ UNCHANGED <<durableVars, ociVars, supVars, stage, outcome, runLock,
                   faultVars, tried>>
    /\ QueueFrame /\ WorkerFrame

RegistryEmpty == identities = {}

(* SUPERVISOR.register and, before the preparation, the check that the     *)
(* identity registry is empty.  Either may refuse; execute may also fail   *)
(* before it, because the artifact is gone.                                *)
Register(a) ==
    /\ wpc \in {"begin", "prepared"} /\ active = a
    /\ \/ /\ supAccepting /\ supActive = {}
          /\ wpc = "begin" => RegistryEmpty
          /\ supActive' = {a}
          /\ wpc' = IF wpc = "begin" THEN "claim" ELSE "enter"
       \/ /\ \/ ~ supAccepting \/ supActive # {}
             \/ wpc = "begin"
          /\ wpc' = "fail" /\ UNCHANGED supActive
    /\ UNCHANGED <<durableVars, ociVars, supAccepting, supBlocked, stage,
                   outcome, runLock, faultVars, tried>>
    /\ QueueFrame /\ WorkerFrame

Claimable(a) == attempt[a] = "queued"

(* The durable claim, under the Run lease and the attempt lock.            *)
Claim(a) ==
    /\ wpc = "claim" /\ active = a /\ runLock[RunOf[a]] = Free
    /\ \/ /\ Claimable(a)
          /\ \E o \in WriteOutcomes :
               /\ Save(a, "running", o)
               /\ IF o = "ok"
                  THEN Lock(a) /\ wpc' = "prepare" /\ UNCHANGED outcome
                  ELSE wpc' = "settle" /\ outcome' = "error"
                       /\ UNCHANGED runLock
       \/ /\ ~ Claimable(a)
          /\ wpc' = "settle" /\ outcome' = "error"
          /\ NoSave /\ UNCHANGED runLock
    /\ UNCHANGED <<result, intent, ociVars, supVars, stage, tried>>
    /\ QueueFrame /\ WorkerFrame

(* Inspections end in the last look at the cancellation before a container *)
(* exists; then its identity is recorded.  A record that cannot be written *)
(* fails like a container that cannot be created.                          *)
CancelSeen(a) == event \/ attempt[a] = "cancelling"

Prepare(a) ==
    /\ wpc = "prepare" /\ stage = "preparation" /\ active = a
    /\ \/ /\ ~ CancelSeen(a) /\ attempt[a] = "running"
          /\ identities' = identities \cup {a}
          /\ wpc' = "create" /\ UNCHANGED <<outcome, runLock>>
       \/ /\ outcome' = IF CancelSeen(a) THEN "cancelled" ELSE "error"
          /\ wpc' = "settle" /\ Unlock(a) /\ UNCHANGED identities
    /\ UNCHANGED <<durableVars, containers, supVars, stage, faultVars, tried>>
    /\ QueueFrame /\ WorkerFrame

(* begin_lifecycle_attempt and the lease of validate_artifact.             *)
EnterLifecycle(a) ==
    /\ wpc = "enter" /\ active = a /\ Lock(a)
    /\ wpc' = "prepare" /\ stage' = "lifecycle"
    /\ UNCHANGED <<durableVars, ociVars, supVars, outcome, faultVars, tried>>
    /\ QueueFrame /\ WorkerFrame

(* _prepare_lifecycle_inputs and the overlap check of backend.start.       *)
PrepareLifecycle(a) ==
    /\ wpc = "prepare" /\ stage = "lifecycle" /\ active = a
    /\ \/ /\ ~ event /\ identities = {}
          /\ identities' = {a}
          /\ wpc' = "create" /\ UNCHANGED <<outcome, runLock>>
       \/ /\ outcome' = IF event THEN "cancelled" ELSE "failed"
          /\ wpc' = "complete" /\ Unlock(a) /\ UNCHANGED identities
    /\ UNCHANGED <<durableVars, containers, supVars, stage, faultVars, tried>>
    /\ QueueFrame /\ WorkerFrame

(* How a command in the container, or a sequence of them, ends.  A set     *)
(* event interrupts the commands of both stages.                           *)
Interrupted == IF event THEN {"cancelled"} ELSE {}
Broken == {IF stage = "preparation" THEN "error" ELSE "failed"}
          \cup Interrupted

(* The Run lease ends where the preparation raises; the lifecycle keeps it *)
(* until the container is gone.                                            *)
(* Faulty variant: the preparation keeps the lease when it fails.          *)
LeaveOnErrorNever(a) == UNCHANGED runLock

LeaveOnError(a) == IF stage = "preparation" THEN Unlock(a)
                   ELSE UNCHANGED runLock

CreateContainer(a) ==
    /\ wpc = "create" /\ active = a
    /\ \/ /\ containers' = containers \cup {a}
          /\ wpc' = "work" /\ UNCHANGED <<outcome, runLock>>
       \/ /\ containers' \in {containers, containers \cup {a}}
          /\ outcome' \in Broken
          /\ wpc' = "clean" /\ LeaveOnError(a)
    /\ UNCHANGED <<durableVars, identities, supVars, stage, faultVars, tried>>
    /\ QueueFrame /\ WorkerFrame

(* The dependencies are solved, downloaded and verified; prepared.json is  *)
(* written before the container is removed.                                *)
ResolveDependencies(a) ==
    /\ wpc = "work" /\ stage = "preparation" /\ active = a
    /\ wpc' = "clean"
    /\ \/ outcome' = "none" /\ UNCHANGED runLock
       \/ outcome' \in Broken /\ LeaveOnError(a)
    /\ UNCHANGED <<durableVars, ociVars, supVars, stage, faultVars, tried>>
    /\ QueueFrame /\ WorkerFrame

(* Install, upgrade, remove and purge, with their checks.                  *)
CheckLifecycle(a) ==
    /\ wpc = "work" /\ stage = "lifecycle" /\ active = a
    /\ wpc' = "clean"
    /\ outcome' \in {"success"} \cup Broken
    /\ UNCHANGED <<durableVars, ociVars, supVars, stage, runLock, faultVars,
                   tried>>
    /\ QueueFrame /\ WorkerFrame

(* OwnedContainer.cleanup clears the identity only when the container is   *)
(* proved absent.  The preparation tries again when the first cleanup came *)
(* after a success.                                                        *)
RemoveContainer(a) ==
    /\ containers' = containers \ {a} /\ identities' = identities \ {a}

KeepContainer(a) ==
    /\ containers' \in {containers, containers \ {a}}
    /\ UNCHANGED identities

AfterCleanup == IF stage = "lifecycle" THEN "complete"
                ELSE IF outcome = "none" THEN "recheck" ELSE "settle"

Cleanup(a) ==
    /\ wpc = "clean" /\ active = a
    /\ \/ /\ RemoveContainer(a)
          /\ wpc' = AfterCleanup
          /\ IF stage = "lifecycle" THEN Unlock(a) ELSE UNCHANGED runLock
          /\ UNCHANGED <<outcome, faults>>
       \/ /\ CanFail("unproved") /\ faults' = faults + 1
          /\ KeepContainer(a)
          /\ IF outcome = "none"
             THEN outcome' = "error" /\ UNCHANGED wpc
             ELSE outcome' = "unresolved"
                  /\ wpc' = IF stage = "lifecycle" THEN "complete"
                            ELSE "settle"
          /\ IF outcome = "none" \/ stage = "lifecycle" THEN Unlock(a)
             ELSE UNCHANGED runLock
    /\ UNCHANGED <<durableVars, supVars, stage, deferred, tried>>
    /\ QueueFrame /\ WorkerFrame

Recheck(a) ==
    /\ wpc = "recheck" /\ active = a
    /\ Unlock(a)
    /\ IF CancelSeen(a)
       THEN outcome' = "cancelled" /\ wpc' = "settle" /\ UNCHANGED supActive
       ELSE wpc' = "prepared" /\ supActive' = {} /\ UNCHANGED outcome
    /\ UNCHANGED <<durableVars, ociVars, supAccepting, supBlocked, stage,
                   faultVars, tried>>
    /\ QueueFrame /\ WorkerFrame

(* The except clause of prepare_runtime_dependencies.  An unresolved       *)
(* cleanup blocks the supervisor, unless the document cannot be written.   *)
(* Faulty variant: the supervisor closes but reports no blocker.           *)
BlockSupervisorSilently == supAccepting' = FALSE /\ UNCHANGED supBlocked

BlockSupervisor == supAccepting' = FALSE /\ supBlocked' = TRUE

Settled(a) == CASE outcome = "unresolved" -> "cancelling"
                [] outcome = "cancelled" \/ attempt[a] = "cancelling"
                                        -> "cancelled"
                [] OTHER                -> "failed"

Settle(a) ==
    /\ wpc = "settle" /\ active = a
    /\ \E o \in WriteOutcomes :
        /\ IF attempt[a] \in Active THEN Save(a, Settled(a), o)
           ELSE o = "ok" /\ NoSave
        /\ IF outcome = "unresolved" /\ o = "ok"
           THEN BlockSupervisor
           ELSE UNCHANGED <<supBlocked, supAccepting>>
    /\ supActive' = {}
    /\ wpc' = "fail"
    /\ UNCHANGED <<result, intent, ociVars, stage, outcome, runLock, tried>>
    /\ QueueFrame /\ WorkerFrame

(* Faulty variant: a cancellation during the lifecycle is overlooked.      *)
FinalStatusStale(a) == outcome

FinalStatus(a) == IF attempt[a] = "cancelling" THEN "cancelled" ELSE outcome

(* complete_lifecycle_attempt: result.json first, then attempt.json.       *)
Complete(a) ==
    /\ wpc = "complete" /\ active = a /\ runLock[RunOf[a]] = Free
    /\ \E o \in WriteOutcomes :
        IF outcome = "unresolved"
        THEN /\ BlockSupervisor
             /\ supActive' = {}
             /\ Save(a, "cancelling", o)
             /\ wpc' = IF o = "ok" THEN "continue" ELSE "fail"
             /\ UNCHANGED <<result, runLock>>
        ELSE /\ result' = IF o = "lost" THEN result
                          ELSE [result EXCEPT ![a] = FinalStatus(a)]
             /\ Count(o)
             /\ deferred' = IF o = "ok" THEN deferred ELSE deferred \cup {a}
             /\ IF o = "ok"
                THEN Lock(a) /\ wpc' = "writing" /\ UNCHANGED supActive
                ELSE wpc' = "fail" /\ supActive' = {} /\ UNCHANGED runLock
             /\ UNCHANGED <<attempt, supAccepting, supBlocked>>
    /\ UNCHANGED <<intent, ociVars, stage, outcome, tried>>
    /\ QueueFrame /\ WorkerFrame

WriteTerminal(a) ==
    /\ wpc = "writing" /\ active = a
    /\ \E o \in WriteOutcomes :
        /\ Save(a, result[a], o)
        /\ wpc' = IF o = "ok" THEN "continue" ELSE "fail"
    /\ Unlock(a) /\ supActive' = {}
    /\ UNCHANGED <<result, intent, ociVars, supAccepting, supBlocked, stage,
                   outcome, tried>>
    /\ QueueFrame /\ WorkerFrame

(* continue_validation_publication: the publication may fail, or find the  *)
(* mutation gate closed; the intent then stays pending.                    *)
Publish(a) ==
    IF attempt[a] = "success" /\ intent[a] = "pending"
    THEN /\ intent' \in {intent, [intent EXCEPT ![a] = "complete"]}
         /\ tried' = tried \cup {a}
    ELSE UNCHANGED <<intent, tried>>

Continue(a) ==
    /\ wpc = "continue" /\ active = a
    /\ Publish(a)
    /\ wpc' = "finish"
    /\ UNCHANGED <<attempt, result, ociVars, supVars, stage, outcome, runLock,
                   faultVars>>
    /\ QueueFrame /\ WorkerFrame

Failable == {"queued", "running"}

(* _fail_if_active leaves a cancelling attempt to the recovery.            *)
FailIfActive(a) ==
    /\ wpc = "fail" /\ active = a /\ runLock[RunOf[a]] = Free
    /\ \E o \in WriteOutcomes :
        IF ~ Unreadable(a) /\ attempt[a] \in Failable
        THEN Save(a, "failed", o)
        ELSE o = "ok" /\ NoSave
    /\ wpc' = "finish"
    /\ UNCHANGED <<result, intent, ociVars, supVars, stage, outcome, runLock,
                   tried>>
    /\ QueueFrame /\ WorkerFrame

(* Faulty variant: the queue is emptied and its attempts are forgotten.    *)
BehindBlockForgotten == <<>>

BehindBlock == queue

(* The finally clause of _work; _block_for_recovery empties the queue and  *)
(* cancels what was in it before the active attempt is given up.           *)
Finish ==
    /\ wpc = "finish"
    /\ IF supBlocked
       THEN /\ blocked' = TRUE /\ accepting' = FALSE
            /\ wdrain' = BehindBlock /\ queue' = <<>>
            /\ wpc' = "drain" /\ UNCHANGED active
       ELSE /\ active' = NoAttempt /\ wpc' = "idle"
            /\ UNCHANGED <<blocked, accepting, wdrain, queue>>
    /\ UNCHANGED <<durableVars, ociVars, event, supVars, stage, outcome,
                   runLock, faultVars, tried>>
    /\ WorkerFrame

WorkerDrain ==
    /\ wpc = "drain"
    /\ IF wdrain = <<>>
       THEN active' = NoAttempt /\ wpc' = "idle" /\ NoSave /\ UNCHANGED wdrain
       ELSE /\ \E o \in CancelOutcomes : CancelDurable(Head(wdrain), o)
            /\ wdrain' = Tail(wdrain) /\ UNCHANGED <<active, wpc>>
    /\ UNCHANGED <<result, intent, ociVars, queue, accepting, blocked, event,
                   supVars, stage, outcome, runLock, tried>>
    /\ WorkerFrame

WorkerStep ==
    \/ Dequeue \/ WorkerExit \/ Finish \/ WorkerDrain
    \/ \E a \in Attempts :
        \/ Register(a) \/ Claim(a) \/ Prepare(a) \/ EnterLifecycle(a)
        \/ PrepareLifecycle(a) \/ CreateContainer(a)
        \/ ResolveDependencies(a) \/ CheckLifecycle(a)
        \/ Cleanup(a) \/ Recheck(a) \/ Settle(a) \/ Complete(a)
        \/ WriteTerminal(a) \/ Continue(a) \/ FailIfActive(a)

-----------------------------------------------------------------------------
(* Shutdown, in the order of serve_application: begin_shutdown, then       *)
(* SUPERVISOR.shutdown, then shutdown, which joins the worker.             *)

ShutdownFrame == UNCHANGED <<result, intent, ociVars, reservations, active,
                             blocked, admVars, cancelVars, workerVars,
                             runLock, startVars, ends, historyVars>>

BeginShutdown ==
    /\ phase = "up" /\ spc = "none"
    /\ accepting' = FALSE /\ stopping' = TRUE
    /\ sdrain' = queue /\ queue' = <<>>
    /\ sactive' = active
    /\ event' = (event \/ active # NoAttempt)
    /\ spc' = "drain"
    /\ UNCHANGED <<attempt, faultVars, supVars>>
    /\ ShutdownFrame

ShutdownDrain ==
    /\ spc = "drain" /\ sdrain # <<>>
    /\ \E o \in CancelOutcomes : CancelDurable(Head(sdrain), o)
    /\ sdrain' = Tail(sdrain)
    /\ UNCHANGED <<queue, accepting, stopping, event, supVars, spc, sactive>>
    /\ ShutdownFrame

ShutdownActive ==
    /\ spc = "drain" /\ sdrain = <<>>
    /\ IF sactive = NoAttempt THEN NoSave
       ELSE \E o \in CancelOutcomes : CancelDurable(sactive, o)
    /\ spc' = "supervisor"
    /\ UNCHANGED <<queue, accepting, stopping, event, supVars, sdrain,
                   sactive>>
    /\ ShutdownFrame

CloseSupervisor ==
    /\ spc = "supervisor"
    /\ supAccepting' = FALSE
    /\ event' = (event \/ supActive # {})
    /\ spc' = "join"
    /\ UNCHANGED <<attempt, faultVars, queue, accepting, stopping, supBlocked,
                   supActive, sdrain, sactive>>
    /\ ShutdownFrame

(* The end of the process: everything in memory is gone, and every thread  *)
(* with it.                                                                *)
Forget ==
    /\ queue' = <<>> /\ reservations' = 0 /\ active' = NoAttempt
    /\ accepting' = FALSE /\ stopping' = FALSE /\ blocked' = FALSE
    /\ event' = FALSE
    /\ supAccepting' = TRUE /\ supBlocked' = FALSE /\ supActive' = {}
    /\ adm' = [a \in Attempts |-> IF adm[a] = "idle" THEN "idle" ELSE "done"]
    /\ reuse' = [a \in Attempts |-> NoAttempt]
    /\ cpc' = [a \in Attempts |-> "idle"]
    /\ wasActive' = [a \in Attempts |-> FALSE]
    /\ wpc' = "idle" /\ stage' = "preparation" /\ outcome' = "none"
    /\ wdrain' = <<>>
    /\ spc' = "none" /\ sdrain' = <<>> /\ sactive' = NoAttempt
    /\ runLock' = [r \in Runs |-> Free]
    /\ phase' = "down" /\ todo' = {} /\ resolved' = {} /\ trusted' = FALSE
    /\ resume' = {}
    /\ deferred' = {} /\ tried' = {}
    /\ ends' = ends + 1
    /\ UNCHANGED <<durableVars, ociVars, faults, told, accepted>>

Crash == phase # "down" /\ Forget

Exit == spc = "join" /\ wpc = "stopped" /\ Forget

-----------------------------------------------------------------------------
(* Startup.  recover_owned_containers removes the container of every       *)
(* recorded identity; what it cannot prove absent becomes a blocker.  With *)
(* no identity recorded, a missing Podman is not an error.                 *)

StartFrame == UNCHANGED <<result, reservations, active, stopping, event,
                          supActive, admVars, cancelVars, workerVars,
                          shutdownVars, runLock, ends, told, accepted>>

RecoverContainers ==
    /\ phase = "down" /\ ends <= MaxRestarts
    /\ \/ \E unproved \in SUBSET identities :
            /\ unproved = {} \/ CanFail("unproved")
            /\ faults' = faults + (IF unproved = {} THEN 0 ELSE 1)
            /\ resolved' = identities \ unproved
            /\ identities' = unproved
            /\ containers' = containers \ resolved'
            /\ trusted' = TRUE
            /\ blocked' = (unproved # {} \/ containers \ identities # {})
       \/ /\ CanFail("inventory") /\ faults' = faults + 1
          /\ resolved' = {} /\ trusted' = FALSE
          /\ blocked' = (identities # {})
          /\ UNCHANGED ociVars
    /\ todo' = {a \in Attempts : attempt[a] # "absent"}
    /\ phase' = "recovering"
    /\ UNCHANGED <<attempt, intent, queue, accepting, supAccepting,
                   supBlocked, deferred, resume, tried>>
    /\ StartFrame

(* recover_interrupted_attempts, one attempt.                              *)
RecoverAttempt(a) ==
    /\ phase = "recovering" /\ a \in todo
    /\ todo' = todo \ {a}
    /\ \/ /\ Unreadable(a)
          /\ blocked' = TRUE /\ NoSave
       \/ /\ ~ Unreadable(a) /\ attempt[a] \notin {"running", "cancelling"}
          /\ NoSave /\ UNCHANGED blocked
       \/ /\ ~ Unreadable(a) /\ attempt[a] \in {"running", "cancelling"}
          /\ ~ trusted /\ a \notin resolved
          /\ blocked' = TRUE /\ NoSave
       \/ /\ ~ Unreadable(a) /\ attempt[a] \in {"running", "cancelling"}
          /\ trusted \/ a \in resolved
          /\ \E o \in WriteOutcomes :
               /\ Save(a, IF attempt[a] = "cancelling" THEN "cancelled"
                          ELSE "failed", o)
               /\ blocked' = (blocked \/ o # "ok")
    /\ UNCHANGED <<intent, ociVars, queue, accepting, supAccepting,
                   supBlocked, phase, resolved, trusted, resume, tried>>
    /\ StartFrame

(* ValidationManager.start requeues in the order of the identifiers, which *)
(* says nothing about the order of the requests.                           *)
Orders(S) == {q \in [1..Cardinality(S) -> S] : IsInjective(q)}

Start ==
    /\ phase = "recovering" /\ todo = {}
    /\ phase' = "up"
    /\ accepting' = ~ blocked
    /\ supAccepting' = ~ blocked /\ supBlocked' = blocked
    /\ IF blocked
       THEN /\ queue' = <<>> /\ resume' = {}
            /\ deferred' = Attempts
       ELSE /\ queue' \in Orders({a \in Attempts : attempt[a] = "queued"})
            /\ resume' = {a \in Attempts : /\ attempt[a] = "success"
                                           /\ intent[a] = "pending"}
            /\ UNCHANGED deferred
    /\ UNCHANGED <<attempt, intent, ociVars, blocked, todo, resolved, trusted,
                   faults, tried>>
    /\ StartFrame

ResumePublication(a) ==
    /\ phase = "up" /\ a \in resume
    /\ resume' = resume \ {a}
    /\ Publish(a)
    /\ UNCHANGED <<attempt, ociVars, queue, accepting, blocked, supAccepting,
                   supBlocked, phase, todo, resolved, trusted, faultVars>>
    /\ StartFrame

-----------------------------------------------------------------------------
Shutdown == \/ BeginShutdown \/ ShutdownDrain \/ ShutdownActive
            \/ CloseSupervisor \/ Exit
Startup == RecoverContainers \/ Start
           \/ \E a \in Attempts : RecoverAttempt(a) \/ ResumePublication(a)
Cancellation(a) == CancelCall(a) \/ CancelDurably(a)

Next ==
    \/ \E a \in Attempts : Admission(a) \/ Cancellation(a)
    \/ WorkerStep \/ Shutdown \/ Startup \/ Crash

Spec == Init /\ [][Next]_vars

(* A started thread keeps running and every command of the worker has a    *)
(* time limit; nobody has to request, cancel, stop or crash anything.      *)
FairSpec ==
    /\ Spec
    /\ WF_vars(WorkerStep) /\ WF_vars(Startup)
    /\ WF_vars(spc # "none" /\ Shutdown)
    /\ \A a \in Attempts : /\ WF_vars(adm[a] # "idle" /\ Admission(a))
                           /\ WF_vars(CancelDurably(a))

-----------------------------------------------------------------------------
StoreOK ==
    /\ attempt \in [Attempts -> {"absent"} \cup Active \cup Terminal]
    /\ result \in [Attempts -> {"none"} \cup Terminal]
    /\ intent \in [Attempts -> {"not_requested", "pending", "complete"}]
    /\ identities \subseteq Attempts /\ containers \subseteq Attempts
    /\ faults \in 0..MaxFaults /\ deferred \subseteq Attempts

QueueOK ==
    /\ queue \in Seq(Attempts) /\ reservations \in Nat
    /\ active \in Attempts \cup {NoAttempt}
    /\ wdrain \in Seq(Attempts) /\ sdrain \in Seq(Attempts)
    /\ sactive \in Attempts \cup {NoAttempt}

FlagsOK ==
    /\ {accepting, stopping, blocked, event, supAccepting, supBlocked,
        trusted} \subseteq BOOLEAN
    /\ wasActive \in [Attempts -> BOOLEAN]

ControlOK ==
    /\ adm \in [Attempts -> {"idle", "select", "confirm", "answer", "lock",
                             "reserve", "create", "enqueue", "abandon",
                             "done"}]
    /\ reuse \in [Attempts -> Attempts \cup {NoAttempt}]
    /\ cpc \in [Attempts -> {"idle", "durable"}]
    /\ wpc \in {"idle", "begin", "claim", "prepare", "create", "work",
                "clean", "recheck", "settle", "prepared", "enter",
                "complete", "writing", "continue", "fail", "finish",
                "drain", "stopped"}
    /\ stage \in {"preparation", "lifecycle"}
    /\ outcome \in {"none", "error", "failed", "success", "cancelled",
                    "unresolved"}
    /\ spc \in {"none", "drain", "supervisor", "join"}
    /\ runLock \in [Runs -> Attempts \cup {Free, Worker}]
    /\ supActive \subseteq Attempts

StartOK ==
    /\ phase \in {"down", "recovering", "up"} /\ ends \in Nat
    /\ todo \subseteq Attempts /\ resolved \subseteq Attempts
    /\ resume \subseteq Attempts
    /\ accepted \subseteq Attempts /\ tried \subseteq Attempts
    /\ told \in [Attempts -> Attempts \cup {NoAttempt}]

TypeOK == StoreOK /\ QueueOK /\ FlagsOK /\ ControlOK /\ StartOK

(* Requests, cancellations and the worker never leave a Build Run with two *)
(* attempts that are queued, running or cancelling, although the first     *)
(* search of admit holds no lock (_reuse_active).                          *)
OneActivePerRun ==
    \A a, b \in Attempts :
        (RunOf[a] = RunOf[b] /\ {attempt[a], attempt[b]} \subseteq Active)
            => a = b

(* Every container has its identity on disk, so that a crash at any moment *)
(* leaves it to the recovery, and there is never a second container, also  *)
(* when cleanup and writes fail (IdentityRegistry, OwnedContainer).        *)
OneRecordedContainer ==
    containers \subseteq identities /\ Cardinality(identities) <= 1

(* The state of the manager and of its store: well formed, one active      *)
(* attempt for each Build Run, one container and that recorded.            *)
StateIsSound == TypeOK /\ OneActivePerRun /\ OneRecordedContainer

(* While requests are accepted, a container belongs to the attempt that    *)
(* the worker is executing: no container is left behind an open admission  *)
(* (block, _block_for_recovery, the startup blockers).  The one exception: *)
(* the preparation writes the attempt before it blocks the supervisor, so  *)
(* a container whose attempt could not be written either is left to the    *)
(* registry, which refuses the next preparation, and to the next startup.  *)
NoContainerBehindAdmission ==
    \A a \in containers :
        (phase = "up" /\ accepting) => active = a \/ a \in deferred

(* An accepted cancellation stands through completion, failure, crash and  *)
(* recovery: the attempt never succeeds and never fails (cancel,           *)
(* complete_lifecycle_attempt, recover_interrupted_attempts).              *)
CancellationStands ==
    \A a \in accepted : attempt[a] \in {"cancelling", "cancelled"}

(* An attempt that is not terminal has somebody who will end it: the       *)
(* queue, the worker, an admission, a cancellation or a shutdown that is   *)
(* about to cancel it.  The exceptions wait for the next startup: a failed *)
(* write, a blocked startup, and a cancelling attempt whose container      *)
(* could not be removed or which the shutdown caught between its stages.   *)
Owned(a) ==
    \/ a \in ToSet(queue) \cup ToSet(wdrain) \cup ToSet(sdrain)
    \/ active = a
    \/ adm[a] \in {"enqueue", "abandon"} \/ cpc[a] = "durable"

NoAttemptLost ==
    phase = "up" => \A a \in Attempts : attempt[a] \in Active =>
        \/ Owned(a)
        \/ a \in deferred
        \/ attempt[a] = "cancelling" /\ (stopping \/ blocked)

(* A duplicate request with publish_after_success that was answered with   *)
(* the active attempt is not forgotten by that attempt.                    *)
AnsweredIntentKept ==
    \A a \in Publishing : told[a] # NoAttempt =>
        intent[told[a]] # "not_requested"

(* A pending publication of a successful attempt is about to be tried, was *)
(* tried by this process, or waits for the next startup.                   *)
NoIntentMissed ==
    phase = "up" => \A a \in Attempts :
        (attempt[a] = "success" /\ intent[a] = "pending") =>
            \/ active = a /\ wpc = "continue"
            \/ a \in resume \cup tried
            \/ a \in deferred

(* A publication that a caller was promised is neither dropped by a        *)
(* request that found an attempt ending, nor by a crash.                   *)
IntentsKept == AnsweredIntentKept /\ NoIntentMissed

(* recover_interrupted_attempts says that it terminalizes "only after OCI  *)
(* absence is proved".                                                     *)
AbsenceBeforeTerminal ==
    \A a \in containers : attempt[a] \notin Terminal

(* _work, _block_for_recovery: every attempt ends unless the process shuts *)
(* down, and except the one whose container could not be removed: those    *)
(* queued behind it are cancelled.                                         *)
AttemptEnds ==
    \A a \in Attempts : attempt[a] \in Active ~>
        \/ attempt[a] \in Terminal \/ stopping \/ phase # "up"
        \/ blocked /\ a \in identities

(* A shutdown that has begun ends the process: the worker can always       *)
(* finish and nothing waits for a lease that is kept for ever.             *)
ShutdownEnds == stopping ~> phase = "down"
=============================================================================
