---------------------- MODULE ValidationManagerProofs -----------------------
(***************************************************************************)
(* Proofs about ValidationManager, for any attempts, Runs, capacity,       *)
(* faults, restarts and cancellations.                                     *)
(***************************************************************************)
EXTENDS ValidationManager, TLAPS, FiniteSetTheorems, SequenceTheorems

(* A process that is not serving has no thread and nothing in memory.      *)
Quiet ==
    phase # "up" =>
        /\ \A a \in Attempts : adm[a] \in {"idle", "done"} /\ cpc[a] = "idle"
        /\ wpc = "idle" /\ spc = "none"
        /\ queue = <<>> /\ wdrain = <<>> /\ sdrain = <<>>
        /\ supActive = {} /\ accepting = FALSE
        /\ resume = {}

(* Where the worker has no attempt, holds the Run lease, is registered     *)
(* with the supervisor, and executes an attempt it has claimed.            *)
Unused == {"idle", "stopped"}

Leased ==
    \/ wpc \in {"prepare", "create", "work", "recheck", "writing"}
    \/ wpc = "clean" /\ (stage = "lifecycle" \/ outcome = "none")

Executing == {"prepare", "create", "work", "clean", "recheck", "prepared",
              "enter", "complete", "writing"}

WorkerInv ==
    /\ wpc \in Unused <=> active = NoAttempt
    /\ Leased => runLock[RunOf[active]] = Worker
    /\ wpc \in Executing => attempt[active] \in {"running", "cancelling"}
    /\ wpc \in {"begin", "claim", "recheck", "prepared", "enter"} =>
          stage = "preparation"
    /\ wpc \in {"complete", "writing"} => stage = "lifecycle"
    /\ wpc \in {"create", "work", "prepare"} => outcome = "none"
    /\ wpc \in {"begin", "claim", "recheck", "prepared", "enter"} =>
          outcome = "none"
    /\ wpc = "clean" /\ stage = "lifecycle" =>
          outcome \in {"failed", "success", "cancelled"}
    /\ wpc = "clean" /\ stage = "preparation" =>
          outcome \in {"none", "error", "cancelled"}
    /\ wpc = "complete" =>
          outcome \in {"failed", "success", "cancelled", "unresolved"}
    /\ wpc = "settle" => outcome \in {"error", "cancelled", "unresolved"}
    /\ wpc = "writing" => result[active] \in Terminal

(* The registry holds the container that the worker is using, or one that  *)
(* could not be removed: then nobody creates another.                      *)
ContainerInv ==
    /\ containers \subseteq identities
    /\ \A a, b \in identities : a = b
    /\ wpc \in {"claim", "recheck", "prepared", "enter"} => identities = {}
    /\ wpc = "prepare" => identities = {}
    /\ wpc \in {"create", "work", "clean"} => identities = {active}

(* From the second search on, an admission holds the Run lease and knows   *)
(* that the Run has no active attempt, or only the one it will look at.    *)
LeaseInv ==
    \A a \in Attempts :
        /\ adm[a] \in {"idle", "select", "confirm", "answer", "lock",
                       "reserve", "create"} => attempt[a] = "absent"
        /\ adm[a] \in {"reserve", "create"} =>
              Holds(a) /\ ActiveOf(RunOf[a]) = {}
        /\ adm[a] \in {"confirm", "answer"} =>
              /\ reuse[a] \in Attempts /\ RunOf[reuse[a]] = RunOf[a]
              /\ attempt[reuse[a]] # "absent"
        /\ adm[a] = "confirm" /\ Holds(a) => ActiveOf(RunOf[a]) \subseteq {reuse[a]}

Places == {a \in Attempts : adm[a] \in {"create", "enqueue"}}
PlacesInv == reservations = Cardinality(Places)

IInv == /\ TypeOK /\ Quiet /\ WorkerInv /\ ContainerInv /\ LeaseInv
        /\ PlacesInv /\ OneActivePerRun

-----------------------------------------------------------------------------
(* Types.  A write, done, lost or reported as failed, keeps the documents  *)
(* well formed.                                                            *)
LEMMA SaveType ==
    ASSUME NEW a, NEW s \in {"absent"} \cup Active \cup Terminal,
           NEW o \in WriteOutcomes, StoreOK, a \in Attempts, Save(a, s, o)
    PROVE  /\ attempt' \in [Attempts -> {"absent"} \cup Active \cup Terminal]
           /\ faults' \in 0..MaxFaults /\ deferred' \subseteq Attempts
BY ConstantsAssumption DEF StoreOK, Save, Count, WriteOutcomes, CanFail

LEMMA CancelType ==
    ASSUME NEW a \in Attempts, NEW o, StoreOK, CancelDurable(a, o)
    PROVE  /\ attempt' \in [Attempts -> {"absent"} \cup Active \cup Terminal]
           /\ faults' \in 0..MaxFaults /\ deferred' \subseteq Attempts
<1>1. Cancelled(a) \in {"absent"} \cup Active \cup Terminal
  BY DEF Cancelled, StoreOK, Active, Terminal
<1>2. CASE UNCHANGED <<attempt, faultVars>>
  BY <1>2 DEF faultVars, StoreOK
<1>3. CASE o \in WriteOutcomes /\ Save(a, Cancelled(a), o)
  BY <1>1, <1>3, SaveType
<1> QED
  BY <1>2, <1>3 DEF CancelDurable

(* Every step keeps the documents, the registry and Podman well formed.    *)
LEMMA StoreStep ==
    ASSUME TypeOK, WorkerInv, Next
    PROVE  StoreOK'
<1> USE DEF TypeOK
<1>a. /\ {"queued", "running", "cancelling", "success", "failed",
          "cancelled", "absent"} \subseteq {"absent"} \cup Active \cup Terminal
      /\ {"failed", "cancelled", "success"} \subseteq Terminal
  BY DEF Active, Terminal
<1>frame. CASE UNCHANGED <<durableVars, ociVars, faultVars>>
  BY <1>frame DEF durableVars, ociVars, faultVars, StoreOK
<1>1. ASSUME NEW a \in Attempts,
             \/ AdmitCall(a) \/ Select(a) \/ Answer(a) \/ AcquireRun(a)
             \/ Reserve(a) \/ Enqueue(a) \/ AdmitFails(a)
      PROVE  StoreOK'
  BY <1>1, <1>frame
     DEF AdmitCall, Select, Answer, AcquireRun, Reserve, Enqueue, AdmitFails,
         AdmissionFrame
<1>2. ASSUME NEW a \in Attempts, Confirm(a)
      PROVE  StoreOK'
  BY <1>2 DEF Confirm, Upgraded, AdmissionFrame, StoreOK, faultVars, ociVars
<1>3. ASSUME NEW a \in Attempts, Create(a)
      PROVE  StoreOK'
  BY <1>3, <1>a DEF Create, AdmissionFrame, StoreOK, faultVars, ociVars
<1>4. ASSUME NEW a \in Attempts, Abandon(a)
      PROVE  StoreOK'
  BY <1>4, CancelType DEF Abandon, AdmissionFrame, StoreOK, ociVars
<1>5. ASSUME NEW a \in Attempts, CancelCall(a)
      PROVE  StoreOK'
  BY <1>5, <1>frame DEF CancelCall, CancelFrame, durableVars
<1>6. ASSUME NEW a \in Attempts, CancelDurably(a)
      PROVE  StoreOK'
  BY <1>6, CancelType DEF CancelDurably, CancelFrame, StoreOK, ociVars
<1>7. CASE Dequeue \/ WorkerExit \/ Finish
  BY <1>7, <1>frame DEF Dequeue, WorkerExit, Finish
<1>8. CASE WorkerDrain
  <2>1. CASE wdrain = <<>>
    BY <1>8, <2>1, <1>frame DEF WorkerDrain, NoSave, durableVars
  <2>2. CASE wdrain # <<>>
    <3>1. Head(wdrain) \in Attempts
      BY <2>2, HeadTailProperties DEF QueueOK
    <3> QED
      BY <1>8, <2>2, <3>1, CancelType DEF WorkerDrain, StoreOK, ociVars
  <2> QED
    BY <2>1, <2>2
<1>9. ASSUME NEW a \in Attempts,
             Register(a) \/ EnterLifecycle(a) \/ ResolveDependencies(a)
             \/ CheckLifecycle(a) \/ Recheck(a)
      PROVE  StoreOK'
  BY <1>9, <1>frame
     DEF Register, EnterLifecycle, ResolveDependencies, CheckLifecycle,
         Recheck
<1>10. ASSUME NEW a \in Attempts, Claim(a)
       PROVE  StoreOK'
  <2>1. CASE NoSave
    BY <1>10, <2>1 DEF Claim, NoSave, StoreOK, faultVars, ociVars
  <2>2. ASSUME NEW o \in WriteOutcomes, Save(a, "running", o)
        PROVE  StoreOK'
    BY <1>10, <2>2, <1>a, SaveType DEF Claim, StoreOK, ociVars
  <2> QED
    BY <1>10, <2>1, <2>2 DEF Claim
<1>11. ASSUME NEW a \in Attempts,
              Prepare(a) \/ PrepareLifecycle(a) \/ CreateContainer(a)
       PROVE  StoreOK'
  BY <1>11
     DEF Prepare, PrepareLifecycle, CreateContainer, StoreOK, durableVars,
         faultVars
<1>12. ASSUME NEW a \in Attempts, Cleanup(a)
       PROVE  StoreOK'
  BY <1>12, ConstantsAssumption
     DEF Cleanup, RemoveContainer, KeepContainer, CanFail, StoreOK,
         durableVars
<1>13. ASSUME NEW a \in Attempts, Settle(a)
       PROVE  StoreOK'
  <2>1. Settled(a) \in {"absent"} \cup Active \cup Terminal
    BY <1>a DEF Settled
  <2>2. CASE NoSave
    BY <1>13, <2>2 DEF Settle, NoSave, StoreOK, faultVars, ociVars
  <2>3. ASSUME NEW o \in WriteOutcomes, Save(a, Settled(a), o)
        PROVE  StoreOK'
    BY <1>13, <2>1, <2>3, SaveType DEF Settle, StoreOK, ociVars
  <2> QED
    BY <1>13, <2>2, <2>3 DEF Settle
<1>14. ASSUME NEW a \in Attempts, Complete(a)
       PROVE  StoreOK'
  <2>1. CASE outcome = "unresolved"
    BY <1>14, <2>1, <1>a, SaveType DEF Complete, StoreOK, ociVars
  <2>2. CASE outcome # "unresolved"
    <3>1. FinalStatus(a) \in Terminal
      BY <1>14, <2>2, <1>a DEF Complete, FinalStatus, WorkerInv
    <3> QED
      BY <1>14, <2>2, <3>1, ConstantsAssumption
         DEF Complete, Count, WriteOutcomes, CanFail, StoreOK, ociVars
  <2> QED
    BY <2>1, <2>2
<1>15. ASSUME NEW a \in Attempts, WriteTerminal(a)
       PROVE  StoreOK'
  <2>1. result[a] \in {"absent"} \cup Active \cup Terminal
    BY <1>15 DEF WriteTerminal, WorkerInv
  <2> QED
    BY <1>15, <2>1, SaveType DEF WriteTerminal, StoreOK, ociVars
<1>16. ASSUME NEW a \in Attempts, Continue(a) \/ ResumePublication(a)
       PROVE  StoreOK'
  BY <1>16
     DEF Continue, ResumePublication, Publish, StartFrame, StoreOK, ociVars,
         faultVars
<1>17. ASSUME NEW a \in Attempts, FailIfActive(a)
       PROVE  StoreOK'
  <2>1. CASE NoSave
    BY <1>17, <2>1 DEF FailIfActive, NoSave, StoreOK, faultVars, ociVars
  <2>2. ASSUME NEW o \in WriteOutcomes, Save(a, "failed", o)
        PROVE  StoreOK'
    BY <1>17, <2>2, <1>a, SaveType DEF FailIfActive, StoreOK, ociVars
  <2> QED
    BY <1>17, <2>1, <2>2 DEF FailIfActive
<1>18. CASE BeginShutdown \/ CloseSupervisor
  BY <1>18, <1>frame
     DEF BeginShutdown, CloseSupervisor, ShutdownFrame, durableVars
<1>19. CASE ShutdownDrain
  <2>1. Head(sdrain) \in Attempts
    BY <1>19, HeadTailProperties DEF QueueOK, ShutdownDrain
  <2> QED
    BY <1>19, <2>1, CancelType
       DEF ShutdownDrain, ShutdownFrame, StoreOK, ociVars
<1>20. CASE ShutdownActive
  <2>1. CASE NoSave
    BY <1>20, <2>1
       DEF ShutdownActive, ShutdownFrame, NoSave, StoreOK, faultVars, ociVars
  <2>2. CASE sactive # NoAttempt
    BY <1>20, <2>2, CancelType
       DEF ShutdownActive, ShutdownFrame, StoreOK, ociVars, QueueOK
  <2> QED
    BY <1>20, <2>1, <2>2 DEF ShutdownActive
<1>21. CASE Exit \/ Crash
  BY <1>21 DEF Exit, Crash, Forget, StoreOK, durableVars, ociVars
<1>22. CASE RecoverContainers
  BY <1>22, ConstantsAssumption
     DEF RecoverContainers, StartFrame, CanFail, StoreOK, ociVars
<1>23. CASE Start
  BY <1>23 DEF Start, StartFrame, StoreOK, ociVars
<1>24. ASSUME NEW a \in Attempts, RecoverAttempt(a)
       PROVE  StoreOK'
  <2>1. CASE NoSave
    BY <1>24, <2>1
       DEF RecoverAttempt, StartFrame, NoSave, StoreOK, faultVars, ociVars
  <2>2. ASSUME NEW o \in WriteOutcomes,
               Save(a, IF attempt[a] = "cancelling" THEN "cancelled"
                       ELSE "failed", o)
        PROVE  StoreOK'
    BY <1>24, <2>2, <1>a, SaveType
       DEF RecoverAttempt, StartFrame, StoreOK, ociVars
  <2> QED
    BY <1>24, <2>1, <2>2 DEF RecoverAttempt
<1> QED
  BY <1>1, <1>2, <1>3, <1>4, <1>5, <1>6, <1>7, <1>8, <1>9, <1>10, <1>11,
     <1>12, <1>13, <1>14, <1>15, <1>16, <1>17, <1>18, <1>19, <1>20, <1>21,
     <1>22, <1>23, <1>24
     DEF Next, Admission, Cancellation, WorkerStep, Shutdown, Startup

(* Cancelling a queued attempt takes it, and nothing else, from the queue. *)
LEMMA RemoveAtProperties ==
    ASSUME NEW S, NEW s \in Seq(S), NEW i \in DOMAIN s
    PROVE  /\ RemoveAt(s, i) \in Seq(S)
           /\ ToSet(s) \subseteq ToSet(RemoveAt(s, i)) \cup {s[i]}
<1> DEFINE p == SubSeq(s, 1, i - 1)
           q == SubSeq(s, i + 1, Len(s))
<1>1. i \in 1..Len(s) /\ Len(s) \in Nat /\ DOMAIN s = 1..Len(s)
  OBVIOUS
<1>2. /\ p \in Seq(S) /\ Len(p) = i - 1
      /\ \A j \in 1..(i - 1) : p[j] = s[j]
  BY <1>1, SubSeqProperties
<1>3. /\ q \in Seq(S) /\ Len(q) = Len(s) - i
      /\ \A j \in 1..(Len(s) - i) : q[j] = s[i + j]
  BY <1>1, SubSeqProperties
<1>4. RemoveAt(s, i) = p \o q
  BY DEF RemoveAt
<1> HIDE DEF p, q
<1>5. /\ p \o q \in Seq(S)
      /\ Len(p \o q) = Len(p) + Len(q)
      /\ \A j \in 1..(Len(p) + Len(q)) :
            (p \o q)[j] = IF j <= Len(p) THEN p[j] ELSE q[j - Len(p)]
  BY <1>2, <1>3, ConcatProperties, Zenon
<1>6. ASSUME NEW j \in 1..Len(s), j # i
      PROVE  \E k \in 1..Len(p \o q) : (p \o q)[k] = s[j]
  <2>1. CASE j < i
    <3>1. j \in 1..(i - 1) /\ j <= Len(p) /\ j \in 1..(Len(p) + Len(q))
      BY <2>1, <1>1, <1>2, <1>3
    <3>2. (p \o q)[j] = p[j]
      BY <3>1, <1>5, Zenon
    <3>3. p[j] = s[j] /\ j \in 1..Len(p \o q)
      BY <3>1, <1>2, <1>5, Zenon
    <3> QED
      BY <3>2, <3>3, Zenon
  <2>2. CASE j > i
    <3>1. /\ j - i \in 1..(Len(s) - i)
          /\ i + (j - i) = j /\ (j - 1) - (i - 1) = j - i
          /\ j - 1 \in 1..(Len(p) + Len(q)) /\ ~(j - 1 <= Len(p))
      <4>1. Len(p) = i - 1 /\ Len(q) = Len(s) - i
        BY <1>2, <1>3
      <4>2. i \in Nat /\ i >= 1 /\ j \in Nat /\ j <= Len(s) /\ Len(s) \in Nat
        BY <1>1
      <4>3. Len(p) + Len(q) = Len(s) - 1
        BY <4>1, <4>2
      <4>4. j - i \in 1..(Len(s) - i) /\ i + (j - i) = j
        BY <4>2, <2>2
      <4>5. (j - 1) - (i - 1) = j - i /\ ~(j - 1 <= i - 1)
        BY <4>2, <2>2
      <4>6. j - 1 \in 1..(Len(s) - 1)
        BY <4>2, <2>2
      <4> QED
        BY <4>1, <4>3, <4>4, <4>5, <4>6
    <3>2. q[j - i] = s[j]
      BY <3>1, <1>3
    <3>3. (p \o q)[j - 1] = q[(j - 1) - Len(p)]
      BY <3>1, <1>5, Zenon
    <3>4. (j - 1) - Len(p) = j - i
      BY <3>1, <1>2
    <3> QED
      BY <3>1, <3>2, <3>3, <3>4, <1>5
  <2> QED
    BY <2>1, <2>2, <1>6, <1>1
<1>7. DOMAIN (p \o q) = 1..Len(p \o q)
  BY <1>5
<1>8. ToSet(s) \subseteq ToSet(p \o q) \cup {s[i]}
  BY <1>1, <1>6, <1>7 DEF ToSet
<1> QED
  BY <1>4, <1>5, <1>8

LEMMA WithoutType ==
    ASSUME NEW a, queue \in Seq(Attempts), NEW q \in WithoutQueued(a)
    PROVE  q \in Seq(Attempts) /\ ToSet(queue) \subseteq ToSet(q) \cup {a}
BY RemoveAtProperties DEF WithoutQueued

(* Places in the queue: who holds a reservation.                           *)
LEMMA PlaceCount ==
    ASSUME NEW S \in SUBSET Attempts
    PROVE  /\ Cardinality(S) \in Nat
           /\ \A a \in Attempts \ S :
                 Cardinality(S \cup {a}) = Cardinality(S) + 1
           /\ \A a \in S : /\ Cardinality(S \ {a}) = Cardinality(S) - 1
                           /\ Cardinality(S) - 1 \in Nat
<1>1. IsFiniteSet(S)
  BY ConstantsAssumption, FS_Subset
<1>2. Cardinality(S) \in Nat
  BY <1>1, FS_CardinalityType
<1>3. \A a \in Attempts \ S : Cardinality(S \cup {a}) = Cardinality(S) + 1
  BY <1>1, FS_AddElement
<1>4. ASSUME NEW a \in S
      PROVE  /\ Cardinality(S \ {a}) = Cardinality(S) - 1
             /\ Cardinality(S) - 1 \in Nat
  <2>1. IsFiniteSet(S \ {a}) /\ Cardinality(S \ {a}) = Cardinality(S) - 1
    BY <1>1, FS_RemoveElement
  <2> QED
    BY <2>1, FS_CardinalityType
<1> QED
  BY <1>2, <1>3, <1>4

LEMMA PlacesStep ==
    ASSUME TypeOK, PlacesInv, Quiet, Next
    PROVE  PlacesInv' /\ reservations' \in Nat
<1> USE DEF TypeOK
<1>a. Places \in SUBSET Attempts
  BY DEF Places
<1>b. reservations \in Nat /\ reservations = Cardinality(Places)
  BY DEF QueueOK, PlacesInv
<1>same. CASE Places' = Places /\ UNCHANGED reservations
  BY <1>same, <1>b DEF PlacesInv
<1>1. ASSUME NEW a \in Attempts, Reserve(a)
      PROVE  PlacesInv' /\ reservations' \in Nat
  <2>1. CASE adm'[a] = "create" /\ reservations' = reservations + 1
    <3>1. a \notin Places /\ Places' = Places \cup {a}
      BY <1>1, <2>1 DEF Reserve, Places, ControlOK
    <3> QED
      BY <2>1, <3>1, <1>a, <1>b, PlaceCount DEF PlacesInv
  <2>2. CASE adm' = [adm EXCEPT ![a] = "done"] /\ UNCHANGED reservations
    <3>1. Places' = Places
      BY <1>1, <2>2 DEF Reserve, Places, ControlOK
    <3> QED
      BY <2>2, <3>1, <1>same
  <2> QED
    BY <1>1, <2>1, <2>2 DEF Reserve, ControlOK
<1>2. ASSUME NEW a \in Attempts, Enqueue(a)
      PROVE  PlacesInv' /\ reservations' \in Nat
  <2>1. a \in Places /\ Places' = Places \ {a}
    BY <1>2 DEF Enqueue, Places, ControlOK, WhenClosed
  <2> QED
    BY <1>2, <2>1, <1>a, <1>b, PlaceCount DEF PlacesInv, Enqueue
<1>3. ASSUME NEW a \in Attempts, AdmitFails(a)
      PROVE  PlacesInv' /\ reservations' \in Nat
  <2>1. CASE adm[a] = "create"
    <3>1. a \in Places /\ Places' = Places \ {a}
      BY <1>3, <2>1 DEF AdmitFails, Places, ControlOK
    <3> QED
      BY <1>3, <2>1, <3>1, <1>a, <1>b, PlaceCount
         DEF PlacesInv, AdmitFails, Reserved
  <2>2. CASE adm[a] # "create"
    <3>1. Places' = Places
      BY <1>3, <2>2 DEF AdmitFails, Places, ControlOK
    <3> QED
      BY <1>3, <2>2, <3>1, <1>b, <1>same DEF AdmitFails, Reserved
  <2> QED
    BY <2>1, <2>2
<1>4. ASSUME NEW a \in Attempts,
             \/ AdmitCall(a) \/ Select(a) \/ Confirm(a) \/ Answer(a)
             \/ AcquireRun(a) \/ Create(a) \/ Abandon(a)
      PROVE  PlacesInv' /\ reservations' \in Nat
  <2>1. Places' = Places
    BY <1>4
       DEF AdmitCall, Select, Confirm, Answer, AcquireRun, Create, Abandon,
           Places, ControlOK, SecondSearch
  <2> QED
    BY <1>4, <2>1, <1>same
       DEF AdmitCall, Select, Confirm, Answer, AcquireRun, Create, Abandon,
           queueVars
<1>5. CASE Exit \/ Crash
  <2>1. Places' = {}
    BY <1>5 DEF Exit, Crash, Forget, Places, ControlOK
  <2> QED
    BY <1>5, <2>1, FS_EmptySet DEF Exit, Crash, Forget, PlacesInv
<1>frame. CASE UNCHANGED <<adm, reservations>>
  BY <1>frame, <1>b DEF PlacesInv, Places
<1>6. ASSUME NEW a \in Attempts, CancelCall(a) \/ CancelDurably(a)
      PROVE  PlacesInv' /\ reservations' \in Nat
  BY <1>6, <1>frame DEF CancelCall, CancelDurably, CancelFrame, admVars
<1>7. CASE WorkerStep
  <2>1. UNCHANGED <<adm, reservations>>
    BY <1>7
       DEF WorkerStep, Dequeue, WorkerExit, Finish, WorkerDrain, Register,
           Claim, Prepare, EnterLifecycle, PrepareLifecycle, CreateContainer,
           ResolveDependencies, CheckLifecycle, Cleanup, Recheck, Settle,
           Complete, WriteTerminal, Continue, FailIfActive, WorkerFrame,
           admVars
  <2> QED
    BY <2>1, <1>frame
<1>8. CASE BeginShutdown \/ ShutdownDrain \/ ShutdownActive
           \/ CloseSupervisor
  BY <1>8, <1>frame
     DEF BeginShutdown, ShutdownDrain, ShutdownActive, CloseSupervisor,
         ShutdownFrame, admVars
<1>9. CASE Startup
  <2>1. UNCHANGED <<adm, reservations>>
    BY <1>9
       DEF Startup, RecoverContainers, Start, RecoverAttempt,
           ResumePublication, StartFrame, admVars
  <2> QED
    BY <2>1, <1>frame
<1> QED
  BY <1>1, <1>2, <1>3, <1>4, <1>5, <1>6, <1>7, <1>8, <1>9
     DEF Next, Admission, Cancellation, Shutdown

(* Every step keeps the queue and what was taken from it well formed.      *)
LEMMA QueueStep ==
    ASSUME TypeOK, PlacesInv, Quiet, Next
    PROVE  QueueOK'
<1> USE DEF TypeOK
<1>a. reservations' \in Nat
  BY PlacesStep
<1>b. <<>> \in Seq(Attempts)
  BY EmptySeq
<1>frame. CASE UNCHANGED <<queue, active, wdrain, sdrain, sactive>>
  BY <1>a, <1>frame DEF QueueOK
<1>1. ASSUME NEW a \in Attempts, Enqueue(a)
      PROVE  QueueOK'
  <2>1. queue' \in Seq(Attempts)
    BY <1>1, AppendProperties DEF Enqueue, QueueOK
  <2> QED
    BY <1>1, <1>a, <2>1
       DEF Enqueue, AdmissionFrame, QueueOK, workerVars, shutdownVars
<1>2. ASSUME NEW a \in Attempts,
             \/ AdmitCall(a) \/ Select(a) \/ Confirm(a) \/ Answer(a)
             \/ AcquireRun(a) \/ Create(a) \/ Abandon(a) \/ Reserve(a)
             \/ AdmitFails(a)
      PROVE  QueueOK'
  BY <1>2, <1>frame
     DEF AdmitCall, Select, Confirm, Answer, AcquireRun, Create, Abandon,
         Reserve, AdmitFails, AdmissionFrame, workerVars, shutdownVars,
         queueVars
<1>3. ASSUME NEW a \in Attempts, CancelCall(a)
      PROVE  QueueOK'
  <2>1. queue' \in Seq(Attempts)
    BY <1>3, WithoutType DEF CancelCall, QueueOK
  <2> QED
    BY <1>3, <1>a, <2>1
       DEF CancelCall, CancelFrame, QueueOK, workerVars, shutdownVars
<1>4. ASSUME NEW a \in Attempts, CancelDurably(a)
      PROVE  QueueOK'
  BY <1>4, <1>frame DEF CancelDurably, CancelFrame, workerVars, shutdownVars
<1>5. CASE Dequeue
  <2>1. Head(queue) \in Attempts /\ Tail(queue) \in Seq(Attempts)
    BY <1>5, HeadTailProperties DEF Dequeue, QueueOK
  <2> QED
    BY <1>5, <2>1, <1>a DEF Dequeue, WorkerFrame, QueueOK, shutdownVars
<1>6. CASE Finish
  BY <1>6, <1>a, <1>b
     DEF Finish, BehindBlock, WorkerFrame, QueueOK, shutdownVars
<1>7. CASE WorkerDrain
  <2>1. wdrain # <<>> => Tail(wdrain) \in Seq(Attempts)
    BY HeadTailProperties DEF QueueOK
  <2> QED
    BY <1>7, <2>1, <1>a DEF WorkerDrain, WorkerFrame, QueueOK, shutdownVars
<1>8. CASE \/ WorkerExit
           \/ \E a \in Attempts :
                \/ Register(a) \/ Claim(a) \/ Prepare(a) \/ EnterLifecycle(a)
                \/ PrepareLifecycle(a) \/ CreateContainer(a)
                \/ ResolveDependencies(a) \/ CheckLifecycle(a)
                \/ Cleanup(a) \/ Recheck(a) \/ Settle(a) \/ Complete(a)
                \/ WriteTerminal(a) \/ Continue(a) \/ FailIfActive(a)
  <2>1. UNCHANGED <<queue, active, wdrain, sdrain, sactive>>
    BY <1>8
       DEF WorkerExit, Register, Claim, Prepare, EnterLifecycle,
           PrepareLifecycle, CreateContainer, ResolveDependencies,
           CheckLifecycle, Cleanup, Recheck, Settle, Complete, WriteTerminal,
           Continue, FailIfActive, QueueFrame, WorkerFrame, shutdownVars
  <2> QED
    BY <2>1, <1>frame
<1>9. CASE BeginShutdown
  BY <1>9, <1>a, <1>b DEF BeginShutdown, ShutdownFrame, QueueOK, workerVars
<1>10. CASE ShutdownDrain
  <2>1. Tail(sdrain) \in Seq(Attempts)
    BY <1>10, HeadTailProperties DEF ShutdownDrain, QueueOK
  <2> QED
    BY <1>10, <2>1, <1>a DEF ShutdownDrain, ShutdownFrame, QueueOK, workerVars
<1>11. CASE ShutdownActive \/ CloseSupervisor
  BY <1>11, <1>frame
     DEF ShutdownActive, CloseSupervisor, ShutdownFrame, workerVars
<1>12. CASE Exit \/ Crash
  <2>1. /\ queue' = <<>> /\ wdrain' = <<>> /\ sdrain' = <<>>
        /\ active' = NoAttempt /\ sactive' = NoAttempt
    BY <1>12 DEF Exit, Crash, Forget
  <2> QED
    BY <2>1, <1>a, <1>b, Zenon DEF QueueOK
<1>13. CASE Start
  <2>1. ASSUME NEW S \in SUBSET Attempts, NEW q \in Orders(S)
        PROVE  q \in Seq(Attempts)
    <3>1. Cardinality(S) \in Nat
      BY PlaceCount
    <3>2. q \in [1..Cardinality(S) -> Attempts]
      BY <2>1 DEF Orders
    <3> QED
      BY <3>1, <3>2
  <2>2. queue' \in Seq(Attempts)
    BY <1>13, <1>b, <2>1 DEF Start
  <2> QED
    BY <1>13, <1>a, <2>2 DEF Start, StartFrame, QueueOK, workerVars, shutdownVars
<1>14. ASSUME NEW a \in Attempts,
              RecoverAttempt(a) \/ ResumePublication(a)
       PROVE  QueueOK'
  BY <1>14, <1>frame
     DEF RecoverAttempt, ResumePublication, StartFrame, workerVars,
         shutdownVars
<1>15. CASE RecoverContainers
  BY <1>15, <1>frame
     DEF RecoverContainers, StartFrame, workerVars, shutdownVars
<1> QED
  BY <1>1, <1>2, <1>3, <1>4, <1>5, <1>6, <1>7, <1>8, <1>9, <1>10, <1>11,
     <1>12, <1>13, <1>14, <1>15
     DEF Next, Admission, Cancellation, WorkerStep, Shutdown, Startup

(* The flags are Boolean whatever happens (Boolean-valued variables are    *)
(* terms to Zenon, which proves this part).                                *)
LEMMA FlagsStep ==
    ASSUME FlagsOK, Next
    PROVE  FlagsOK'
<1>a. /\ accepting \in BOOLEAN /\ stopping \in BOOLEAN /\ blocked \in BOOLEAN
      /\ event \in BOOLEAN /\ supAccepting \in BOOLEAN
      /\ supBlocked \in BOOLEAN /\ trusted \in BOOLEAN
      /\ wasActive \in [Attempts -> BOOLEAN]
  BY DEF FlagsOK
<1>b. SUFFICES
        /\ accepting' \in BOOLEAN /\ stopping' \in BOOLEAN
        /\ blocked' \in BOOLEAN /\ event' \in BOOLEAN
        /\ supAccepting' \in BOOLEAN /\ supBlocked' \in BOOLEAN
        /\ trusted' \in BOOLEAN /\ wasActive' \in [Attempts -> BOOLEAN]
  BY DEF FlagsOK
<1>frame. CASE UNCHANGED <<accepting, stopping, blocked, event, supAccepting,
                           supBlocked, trusted, wasActive>>
  BY <1>a, <1>frame
<1>1. CASE \E a \in Attempts : Admission(a)
  <2>1. UNCHANGED <<accepting, stopping, blocked, event, supAccepting,
                    supBlocked, trusted, wasActive>>
    BY <1>1
       DEF Admission, AdmitCall, Select, Confirm, Answer, AcquireRun, Create,
           Abandon, Reserve, AdmitFails, Enqueue, AdmissionFrame, gateVars,
           supVars, cancelVars, startVars
  <2> QED
    BY <2>1, <1>frame
<1>2. ASSUME NEW a \in Attempts, CancelCall(a)
      PROVE  FlagsOK'
  <2>1. (active = a) \in BOOLEAN /\ (event \/ active = a) \in BOOLEAN
    BY Zenon
  <2>2. wasActive' = [wasActive EXCEPT ![a] = (active = a)]
        /\ event' = (event \/ active = a)
    BY <1>2 DEF CancelCall
  <2>3. wasActive' \in [Attempts -> BOOLEAN] /\ event' \in BOOLEAN
    BY <1>a, <2>1, <2>2, Zenon
  <2>4. UNCHANGED <<accepting, stopping, blocked, supAccepting, supBlocked,
                    trusted>>
    BY <1>2 DEF CancelCall, CancelFrame, gateVars, supVars, startVars
  <2> QED
    BY <1>a, <2>3, <2>4 DEF FlagsOK
<1>3. ASSUME NEW a \in Attempts, CancelDurably(a)
      PROVE  FlagsOK'
  BY <1>3, <1>a
     DEF CancelDurably, CancelFrame, gateVars, supVars, startVars, FlagsOK
<1>4. CASE Dequeue
  BY <1>4, <1>a DEF Dequeue, WorkerFrame, supVars, startVars, cancelVars, FlagsOK
<1>5. CASE Finish
  BY <1>5, <1>a DEF Finish, WorkerFrame, supVars, startVars, cancelVars, FlagsOK
<1>6. ASSUME NEW a \in Attempts, Settle(a) \/ Complete(a)
      PROVE  FlagsOK'
  BY <1>6, <1>a
     DEF Settle, Complete, BlockSupervisor, QueueFrame, WorkerFrame,
         startVars, cancelVars, FlagsOK
<1>7. CASE \/ WorkerExit \/ WorkerDrain
           \/ \E a \in Attempts :
                \/ Register(a) \/ Claim(a) \/ Prepare(a) \/ EnterLifecycle(a)
                \/ PrepareLifecycle(a) \/ CreateContainer(a)
                \/ ResolveDependencies(a) \/ CheckLifecycle(a)
                \/ Cleanup(a) \/ Recheck(a)
                \/ WriteTerminal(a) \/ Continue(a) \/ FailIfActive(a)
  <2>1. UNCHANGED <<accepting, stopping, blocked, event, supAccepting,
                    supBlocked, trusted, wasActive>>
    BY <1>7
       DEF WorkerExit, WorkerDrain, Register, Claim, Prepare, EnterLifecycle,
           PrepareLifecycle, CreateContainer, ResolveDependencies,
           CheckLifecycle, Cleanup, Recheck, WriteTerminal,
           Continue, FailIfActive, QueueFrame, WorkerFrame, supVars,
           startVars, cancelVars
  <2> QED
    BY <2>1, <1>frame
<1>8. CASE BeginShutdown
  <2>1. event' \in BOOLEAN
    BY <1>8, Zenon DEF BeginShutdown
  <2> QED
    BY <1>8, <1>a, <2>1
       DEF BeginShutdown, ShutdownFrame, supVars, startVars, cancelVars,
           FlagsOK
<1>9. CASE CloseSupervisor
  <2>1. event' \in BOOLEAN
    BY <1>9, Zenon DEF CloseSupervisor
  <2> QED
    BY <1>9, <1>a, <2>1
       DEF CloseSupervisor, ShutdownFrame, startVars, cancelVars, FlagsOK
<1>10. CASE ShutdownDrain \/ ShutdownActive
  BY <1>10, <1>frame
     DEF ShutdownDrain, ShutdownActive, ShutdownFrame, supVars, startVars,
         cancelVars
<1>11. CASE Exit \/ Crash
  BY <1>11 DEF Exit, Crash, Forget, FlagsOK
<1>12. CASE RecoverContainers
  <2>1. blocked' \in BOOLEAN /\ trusted' \in BOOLEAN
    BY <1>12, Zenon DEF RecoverContainers
  <2> QED
    BY <1>12, <1>a, <2>1 DEF RecoverContainers, StartFrame, cancelVars, FlagsOK
<1>13. CASE Start
  <2>1. accepting' \in BOOLEAN /\ supAccepting' \in BOOLEAN
    BY <1>13, Zenon DEF Start
  <2> QED
    BY <1>13, <1>a, <2>1 DEF Start, StartFrame, cancelVars, FlagsOK
<1>14. ASSUME NEW a \in Attempts, RecoverAttempt(a)
       PROVE  FlagsOK'
  <2>1. blocked' \in BOOLEAN
    BY <1>14, <1>a, Zenon DEF RecoverAttempt
  <2> QED
    BY <1>14, <1>a, <2>1 DEF RecoverAttempt, StartFrame, cancelVars, FlagsOK
<1>15. ASSUME NEW a \in Attempts, ResumePublication(a)
       PROVE  FlagsOK'
  BY <1>15, <1>a DEF ResumePublication, StartFrame, cancelVars, FlagsOK
<1> QED
  BY <1>1, <1>2, <1>3, <1>4, <1>5, <1>6, <1>7, <1>8, <1>9, <1>10, <1>11,
     <1>12, <1>13, <1>14, <1>15
     DEF Next, Cancellation, WorkerStep, Shutdown, Startup, FlagsOK

(* Every step keeps the threads and the leases well formed.                *)
LEMMA ControlStep ==
    ASSUME TypeOK, Next
    PROVE  ControlOK'
<1> USE DEF TypeOK
<1>a. \A a \in Attempts : RunOf[a] \in Runs
  BY ConstantsAssumption
<1>frame. CASE UNCHANGED <<admVars, cpc, wpc, stage, outcome, spc, runLock,
                           supActive>>
  BY <1>frame DEF admVars, ControlOK
<1>1. ASSUME NEW a \in Attempts,
             \/ AdmitCall(a) \/ Select(a) \/ Confirm(a) \/ Enqueue(a)
             \/ Abandon(a)
      PROVE  ControlOK'
  BY <1>1, <1>a
     DEF AdmitCall, Select, Confirm, Enqueue, Abandon, AdmissionFrame,
         ActiveOf, WhenClosed, ControlOK, admVars, cancelVars, workerVars,
         shutdownVars, supVars
<1>2. ASSUME NEW a \in Attempts,
             \/ Answer(a) \/ AcquireRun(a) \/ Reserve(a) \/ Create(a)
             \/ AdmitFails(a)
      PROVE  ControlOK'
  BY <1>2, <1>a
     DEF Answer, AcquireRun, Reserve, Create, AdmitFails, Release,
         SecondSearch, AdmissionFrame, ControlOK, admVars, cancelVars,
         workerVars, shutdownVars, supVars
<1>3. ASSUME NEW a \in Attempts, CancelCall(a) \/ CancelDurably(a)
      PROVE  ControlOK'
  BY <1>3
     DEF CancelCall, CancelDurably, CancelFrame, ControlOK, admVars,
         workerVars, shutdownVars, supVars
<1>4. CASE Dequeue \/ WorkerExit \/ Finish \/ WorkerDrain
  BY <1>4
     DEF Dequeue, WorkerExit, Finish, WorkerDrain, QueueFrame, WorkerFrame,
         ControlOK, admVars, cancelVars, shutdownVars, supVars
<1>5. ASSUME NEW a \in Attempts,
             \/ Register(a) \/ Claim(a) \/ Prepare(a) \/ EnterLifecycle(a)
             \/ PrepareLifecycle(a)
      PROVE  ControlOK'
  BY <1>5, <1>a
     DEF Register, Claim, Prepare, EnterLifecycle, PrepareLifecycle, Lock,
         Unlock, QueueFrame, WorkerFrame, ControlOK, admVars, cancelVars,
         shutdownVars, supVars
<1>6. ASSUME NEW a \in Attempts,
             \/ CreateContainer(a) \/ ResolveDependencies(a)
             \/ CheckLifecycle(a) \/ Cleanup(a) \/ Recheck(a)
      PROVE  ControlOK'
  BY <1>6, <1>a
     DEF CreateContainer, ResolveDependencies, CheckLifecycle, Cleanup,
         Recheck, Broken, Interrupted, LeaveOnError, AfterCleanup,
         Unlock, QueueFrame, WorkerFrame, ControlOK, admVars, cancelVars,
         shutdownVars, supVars
<1>7. ASSUME NEW a \in Attempts,
             \/ Settle(a) \/ Complete(a) \/ WriteTerminal(a) \/ Continue(a)
             \/ FailIfActive(a)
      PROVE  ControlOK'
  BY <1>7, <1>a
     DEF Settle, Complete, WriteTerminal, Continue, FailIfActive, Lock,
         Unlock, QueueFrame, WorkerFrame, ControlOK, admVars, cancelVars,
         shutdownVars, supVars
<1>8. CASE BeginShutdown \/ ShutdownDrain \/ ShutdownActive
           \/ CloseSupervisor
  BY <1>8
     DEF BeginShutdown, ShutdownDrain, ShutdownActive, CloseSupervisor,
         ShutdownFrame, ControlOK, admVars, cancelVars, workerVars, supVars
<1>9. CASE Exit \/ Crash
  BY <1>9 DEF Exit, Crash, Forget, ControlOK
<1>10. CASE Startup
  <2>1. UNCHANGED <<admVars, cpc, wpc, stage, outcome, spc, runLock,
                    supActive>>
    BY <1>10
       DEF Startup, RecoverContainers, Start, RecoverAttempt,
           ResumePublication, StartFrame, cancelVars, workerVars,
           shutdownVars
  <2> QED
    BY <2>1, <1>frame
<1> QED
  BY <1>1, <1>2, <1>3, <1>4, <1>5, <1>6, <1>7, <1>8, <1>9, <1>10
     DEF Next, Admission, Cancellation, WorkerStep, Shutdown

(* Every step keeps the startup, its sets and the history well formed.     *)
LEMMA StartStep ==
    ASSUME TypeOK, Next
    PROVE  StartOK'
<1> USE DEF TypeOK
<1>frame. CASE UNCHANGED <<startVars, ends, historyVars>>
  BY <1>frame DEF startVars, historyVars, StartOK
<1>1. ASSUME NEW a \in Attempts, Answer(a)
      PROVE  StartOK'
  BY <1>1 DEF Answer, AdmissionFrame, StartOK, startVars, ControlOK
<1>2. ASSUME NEW a \in Attempts,
             \/ AdmitCall(a) \/ Select(a) \/ Confirm(a) \/ Enqueue(a)
             \/ Abandon(a) \/ AcquireRun(a) \/ Reserve(a) \/ Create(a)
             \/ AdmitFails(a) \/ CancelCall(a)
      PROVE  StartOK'
  BY <1>2, <1>frame
     DEF AdmitCall, Select, Confirm, Enqueue, Abandon, AcquireRun, Reserve,
         Create, AdmitFails, AdmissionFrame, CancelCall, CancelFrame,
         historyVars
<1>3. ASSUME NEW a \in Attempts, CancelDurably(a)
      PROVE  StartOK'
  BY <1>3 DEF CancelDurably, CancelFrame, StartOK, startVars
<1>4. ASSUME NEW a \in Attempts, Continue(a)
      PROVE  StartOK'
  BY <1>4 DEF Continue, Publish, QueueFrame, WorkerFrame, StartOK, startVars
<1>5. CASE \/ Dequeue \/ WorkerExit \/ Finish \/ WorkerDrain
           \/ \E a \in Attempts :
                \/ Register(a) \/ Claim(a) \/ Prepare(a) \/ EnterLifecycle(a)
                \/ PrepareLifecycle(a) \/ CreateContainer(a)
                \/ ResolveDependencies(a) \/ CheckLifecycle(a)
                \/ Cleanup(a) \/ Recheck(a) \/ Settle(a) \/ Complete(a)
                \/ WriteTerminal(a) \/ FailIfActive(a)
  <2>1. UNCHANGED <<startVars, ends, historyVars>>
    BY <1>5
       DEF Dequeue, WorkerExit, Finish, WorkerDrain, Register, Claim,
           Prepare, EnterLifecycle, PrepareLifecycle, CreateContainer,
           ResolveDependencies, CheckLifecycle, Cleanup, Recheck, Settle,
           Complete, WriteTerminal, FailIfActive, WorkerFrame, historyVars
  <2> QED
    BY <2>1, <1>frame
<1>6. CASE BeginShutdown \/ ShutdownDrain \/ ShutdownActive
           \/ CloseSupervisor
  BY <1>6, <1>frame
     DEF BeginShutdown, ShutdownDrain, ShutdownActive, CloseSupervisor,
         ShutdownFrame
<1>7. CASE Exit \/ Crash
  BY <1>7 DEF Exit, Crash, Forget, StartOK
<1>8. CASE RecoverContainers
  BY <1>8 DEF RecoverContainers, StartFrame, StartOK, StoreOK
<1>9. CASE Start
  BY <1>9 DEF Start, StartFrame, StartOK
<1>10. ASSUME NEW a \in Attempts, RecoverAttempt(a)
       PROVE  StartOK'
  BY <1>10 DEF RecoverAttempt, StartFrame, StartOK
<1>11. ASSUME NEW a \in Attempts, ResumePublication(a)
       PROVE  StartOK'
  BY <1>11 DEF ResumePublication, Publish, StartFrame, StartOK
<1> QED
  BY <1>1, <1>2, <1>3, <1>4, <1>5, <1>6, <1>7, <1>8, <1>9, <1>10, <1>11
     DEF Next, Admission, Cancellation, WorkerStep, Shutdown, Startup

-----------------------------------------------------------------------------
(* Only a serving process has threads that act.                            *)
LEMMA Serving ==
    ASSUME Quiet
    PROVE  /\ \A a \in Attempts : Admission(a) \/ Cancellation(a) =>
                 phase = "up" /\ UNCHANGED startVars
           /\ WorkerStep => phase = "up" /\ UNCHANGED startVars
           /\ BeginShutdown \/ ShutdownDrain \/ ShutdownActive
              \/ CloseSupervisor => phase = "up" /\ UNCHANGED startVars
<1>1. ASSUME NEW a \in Attempts, Admission(a)
      PROVE  phase = "up" /\ UNCHANGED startVars
  BY <1>1
     DEF Admission, AdmitCall, Select, Confirm, Answer, AcquireRun, Reserve,
         Create, Enqueue, Abandon, AdmitFails, AdmissionFrame, Quiet
<1>2. ASSUME NEW a \in Attempts, Cancellation(a)
      PROVE  phase = "up" /\ UNCHANGED startVars
  BY <1>2 DEF Cancellation, CancelCall, CancelDurably, CancelFrame, Quiet
<1>3. ASSUME WorkerStep
      PROVE  phase = "up" /\ UNCHANGED startVars
  BY <1>3
     DEF WorkerStep, Dequeue, WorkerExit, Finish, WorkerDrain, Register,
         Claim, Prepare, EnterLifecycle, PrepareLifecycle, CreateContainer,
         ResolveDependencies, CheckLifecycle, Cleanup, Recheck, Settle,
         Complete, WriteTerminal, Continue, FailIfActive, WorkerFrame, Quiet
<1>4. ASSUME BeginShutdown \/ ShutdownDrain \/ ShutdownActive
             \/ CloseSupervisor
      PROVE  phase = "up" /\ UNCHANGED startVars
  BY <1>4
     DEF BeginShutdown, ShutdownDrain, ShutdownActive, CloseSupervisor,
         ShutdownFrame, Quiet
<1> QED
  BY <1>1, <1>2, <1>3, <1>4

LEMMA QuietStep ==
    ASSUME TypeOK, Quiet, Next
    PROVE  Quiet'
<1>1. CASE phase' = "up"
  BY <1>1 DEF Quiet
<1>2. CASE Exit \/ Crash
  BY <1>2 DEF Exit, Crash, Forget, Quiet, TypeOK, ControlOK
<1>3. CASE RecoverContainers
  BY <1>3
     DEF RecoverContainers, StartFrame, Quiet, admVars, cancelVars,
         workerVars, shutdownVars
<1>4. ASSUME NEW a \in Attempts, RecoverAttempt(a)
      PROVE  Quiet'
  BY <1>4
     DEF RecoverAttempt, StartFrame, Quiet, admVars, cancelVars, workerVars,
         shutdownVars
<1>5. CASE Start \/ \E a \in Attempts : ResumePublication(a)
  BY <1>5, <1>1 DEF Start, ResumePublication
<1>6. CASE \/ \E a \in Attempts : Admission(a) \/ Cancellation(a)
           \/ WorkerStep \/ BeginShutdown \/ ShutdownDrain
           \/ ShutdownActive \/ CloseSupervisor
  BY <1>6, <1>1, Serving DEF startVars
<1> QED
  BY <1>2, <1>3, <1>4, <1>5, <1>6 DEF Next, Shutdown, Startup

(* The life of an attempt document: it is created once, by its admission,  *)
(* and a terminal one never changes.                                       *)
LifeStep ==
    \A a \in Attempts :
        /\ attempt[a] = "absent" =>
              \/ attempt'[a] = "absent"
              \/ /\ adm[a] = "create" /\ adm'[a] = "enqueue"
                 /\ attempt'[a] = "queued"
        /\ attempt[a] \in Active => attempt'[a] \in Active \cup Terminal
        /\ attempt[a] \in Terminal => attempt'[a] = attempt[a]

LEMMA SaveLife ==
    ASSUME NEW a, NEW s \in Active \cup Terminal, NEW o, StoreOK,
           a \in Attempts, attempt[a] \in Active, Save(a, s, o)
    PROVE  LifeStep
<1>1. \A b \in Attempts : attempt'[b] \in {attempt[b]} \cup
                            (IF b = a THEN {s} ELSE {})
  BY DEF Save, StoreOK
<1>2. Active \cap Terminal = {} /\ "absent" \notin Active \cup Terminal
  BY DEF Active, Terminal
<1> QED
  BY <1>1, <1>2 DEF LifeStep

LEMMA CancelLife ==
    ASSUME NEW a \in Attempts, NEW o, StoreOK, CancelDurable(a, o)
    PROVE  LifeStep
<1>1. CASE UNCHANGED attempt
  BY <1>1 DEF LifeStep, StoreOK
<1>2. CASE attempt[a] \in Active /\ Save(a, Cancelled(a), o)
  <2>1. Cancelled(a) \in Active \cup Terminal
    BY <1>2 DEF Cancelled, Active, Terminal
  <2> QED
    BY <1>2, <2>1, SaveLife
<1> QED
  BY <1>1, <1>2 DEF CancelDurable

LEMMA LifeIsKept ==
    ASSUME TypeOK, WorkerInv, LeaseInv, Next
    PROVE  LifeStep
<1> USE DEF TypeOK
<1>a. /\ {"queued", "running", "cancelling"} \subseteq Active
      /\ {"failed", "cancelled", "success"} \subseteq Terminal
  BY DEF Active, Terminal
<1>frame. CASE UNCHANGED attempt
  BY <1>frame DEF LifeStep, StoreOK
<1>1. ASSUME NEW a \in Attempts, Create(a)
      PROVE  LifeStep
  <2>1. attempt[a] = "absent" /\ adm[a] = "create" /\ adm'[a] = "enqueue"
    BY <1>1 DEF Create, LeaseInv, ControlOK
  <2> QED
    BY <1>1, <2>1 DEF Create, LifeStep, StoreOK, Active, Terminal
<1>2. ASSUME NEW a \in Attempts, Abandon(a) \/ CancelDurably(a)
      PROVE  LifeStep
  BY <1>2, CancelLife DEF Abandon, CancelDurably
<1>3. CASE WorkerDrain
  <2>1. wdrain # <<>> => Head(wdrain) \in Attempts
    BY HeadTailProperties DEF QueueOK
  <2> QED
    BY <1>3, <2>1, <1>frame, CancelLife DEF WorkerDrain, NoSave
<1>4. CASE ShutdownDrain
  <2>1. Head(sdrain) \in Attempts
    BY <1>4, HeadTailProperties DEF QueueOK, ShutdownDrain
  <2> QED
    BY <1>4, <2>1, CancelLife DEF ShutdownDrain
<1>5. CASE ShutdownActive
  BY <1>5, <1>frame, CancelLife DEF ShutdownActive, NoSave, QueueOK
<1>6. ASSUME NEW a \in Attempts, Claim(a)
      PROVE  LifeStep
  BY <1>6, <1>a, <1>frame, SaveLife DEF Claim, Claimable, NoSave
<1>7. ASSUME NEW a \in Attempts, Settle(a)
      PROVE  LifeStep
  <2>1. Settled(a) \in Active \cup Terminal
    BY <1>a DEF Settled
  <2> QED
    BY <1>7, <2>1, <1>frame, SaveLife DEF Settle, NoSave
<1>8. ASSUME NEW a \in Attempts, Complete(a)
      PROVE  LifeStep
  <2>1. attempt[a] \in Active
    BY <1>8, <1>a DEF Complete, WorkerInv, Executing
  <2> QED
    BY <1>8, <2>1, <1>a, <1>frame, SaveLife DEF Complete
<1>9. ASSUME NEW a \in Attempts, WriteTerminal(a)
      PROVE  LifeStep
  <2>1. attempt[a] \in Active /\ result[a] \in Terminal
    BY <1>9, <1>a DEF WriteTerminal, WorkerInv, Executing
  <2> QED
    BY <1>9, <2>1, SaveLife DEF WriteTerminal
<1>10. ASSUME NEW a \in Attempts, FailIfActive(a)
       PROVE  LifeStep
  BY <1>10, <1>a, <1>frame, SaveLife DEF FailIfActive, Failable, NoSave
<1>11. ASSUME NEW a \in Attempts, RecoverAttempt(a)
       PROVE  LifeStep
  BY <1>11, <1>a, <1>frame, SaveLife DEF RecoverAttempt, NoSave
<1>12. ASSUME NEW a \in Attempts,
              \/ AdmitCall(a) \/ Select(a) \/ Confirm(a) \/ Answer(a)
              \/ AcquireRun(a) \/ Reserve(a) \/ Enqueue(a) \/ AdmitFails(a)
              \/ CancelCall(a)
       PROVE  LifeStep
  BY <1>12, <1>frame
     DEF AdmitCall, Select, Confirm, Answer, AcquireRun, Reserve, Enqueue,
         AdmitFails, CancelCall, durableVars
<1>13. CASE \/ Dequeue \/ WorkerExit \/ Finish
            \/ \E a \in Attempts :
                 \/ Register(a) \/ Prepare(a) \/ EnterLifecycle(a)
                 \/ PrepareLifecycle(a) \/ CreateContainer(a)
                 \/ ResolveDependencies(a) \/ CheckLifecycle(a)
                 \/ Cleanup(a) \/ Recheck(a) \/ Continue(a)
  BY <1>13, <1>frame
     DEF Dequeue, WorkerExit, Finish, Register, Prepare, EnterLifecycle,
         PrepareLifecycle, CreateContainer, ResolveDependencies,
         CheckLifecycle, Cleanup, Recheck, Continue, durableVars
<1>14. CASE \/ BeginShutdown \/ CloseSupervisor \/ Exit \/ Crash
            \/ RecoverContainers \/ Start
            \/ \E a \in Attempts : ResumePublication(a)
  BY <1>14, <1>frame
     DEF BeginShutdown, CloseSupervisor, Exit, Crash, Forget,
         RecoverContainers, Start, ResumePublication, durableVars
<1> QED
  BY <1>1, <1>2, <1>3, <1>4, <1>5, <1>6, <1>7, <1>8, <1>9, <1>10, <1>11,
     <1>12, <1>13, <1>14
     DEF Next, Admission, Cancellation, WorkerStep, Shutdown, Startup

-----------------------------------------------------------------------------
(* A cancellation by another thread leaves what the worker executes under  *)
(* the worker's control.                                                   *)
LEMMA CancelKeepsClaim ==
    ASSUME NEW a \in Attempts, NEW b \in Attempts, NEW o, StoreOK,
           CancelDurable(b, o), attempt[a] \in {"running", "cancelling"}
    PROVE  attempt'[a] \in {"running", "cancelling"}
<1>1. CASE UNCHANGED attempt
  BY <1>1
<1>2. CASE Save(b, Cancelled(b), o)
  <2>1. CASE a = b
    BY <1>2, <2>1 DEF Save, StoreOK, Cancelled
  <2>2. CASE a # b
    BY <1>2, <2>2 DEF Save, StoreOK
  <2> QED
    BY <2>1, <2>2
<1> QED
  BY <1>1, <1>2 DEF CancelDurable

(* Each step of the worker keeps its bookkeeping.                          *)
LEMMA WorkerOwnStep ==
    ASSUME TypeOK, WorkerInv, WorkerStep
    PROVE  WorkerInv'
<1> USE DEF TypeOK
<1>a. \A a \in Attempts : RunOf[a] \in Runs /\ a # NoAttempt
  BY ConstantsAssumption
<1> USE DEF Unused, Leased, Executing
<1>1. CASE Dequeue
  <2>1. Head(queue) \in Attempts
    BY <1>1, HeadTailProperties DEF Dequeue, QueueOK
  <2> QED
    BY <1>1, <2>1, <1>a DEF Dequeue, WorkerInv, durableVars
<1>2. CASE WorkerExit
  BY <1>2 DEF WorkerExit, WorkerInv, QueueFrame, durableVars
<1>3. CASE Finish
  BY <1>3 DEF Finish, WorkerInv, durableVars
<1>4. CASE WorkerDrain
  BY <1>4 DEF WorkerDrain, WorkerInv
<1>5. ASSUME NEW a \in Attempts, Register(a)
      PROVE  WorkerInv'
  BY <1>5 DEF Register, WorkerInv, QueueFrame, durableVars
<1>6. ASSUME NEW a \in Attempts, Claim(a)
      PROVE  WorkerInv'
  BY <1>6, <1>a
     DEF Claim, Claimable, Save, Lock, NoSave, WorkerInv, QueueFrame,
         StoreOK, ControlOK
<1>7. ASSUME NEW a \in Attempts, Prepare(a) \/ PrepareLifecycle(a)
      PROVE  WorkerInv'
  BY <1>7 DEF Prepare, PrepareLifecycle, WorkerInv, QueueFrame, durableVars
<1>8. ASSUME NEW a \in Attempts, EnterLifecycle(a)
      PROVE  WorkerInv'
  BY <1>8, <1>a
     DEF EnterLifecycle, Lock, WorkerInv, QueueFrame, durableVars, ControlOK
<1>9. ASSUME NEW a \in Attempts, CreateContainer(a)
      PROVE  WorkerInv'
  BY <1>9, <1>a
     DEF CreateContainer, Broken, Interrupted, LeaveOnError, Unlock,
         WorkerInv, QueueFrame, durableVars, ControlOK
<1>10. ASSUME NEW a \in Attempts, ResolveDependencies(a)
       PROVE  WorkerInv'
  BY <1>10, <1>a
     DEF ResolveDependencies, Broken, Interrupted, LeaveOnError, Unlock,
         WorkerInv, QueueFrame, durableVars, ControlOK
<1>11. ASSUME NEW a \in Attempts, CheckLifecycle(a)
       PROVE  WorkerInv'
  BY <1>11
     DEF CheckLifecycle, Broken, Interrupted, WorkerInv, QueueFrame,
         durableVars, ControlOK
<1>12. ASSUME NEW a \in Attempts, Cleanup(a)
       PROVE  WorkerInv'
  BY <1>12, <1>a
     DEF Cleanup, AfterCleanup, Unlock, WorkerInv, QueueFrame, durableVars,
         ControlOK
<1>13. ASSUME NEW a \in Attempts, Recheck(a)
       PROVE  WorkerInv'
  BY <1>13 DEF Recheck, WorkerInv, QueueFrame, durableVars
<1>14. ASSUME NEW a \in Attempts, Settle(a)
       PROVE  WorkerInv'
  BY <1>14 DEF Settle, WorkerInv, QueueFrame
<1>15. ASSUME NEW a \in Attempts, Complete(a)
       PROVE  WorkerInv'
  <2>1. FinalStatus(a) \in Terminal \/ outcome = "unresolved"
    BY <1>15 DEF Complete, FinalStatus, WorkerInv, Terminal
  <2>2. PICK o \in WriteOutcomes : wpc' = "writing" =>
          /\ outcome # "unresolved" /\ o = "ok" /\ Lock(a)
          /\ result' = [result EXCEPT ![a] = FinalStatus(a)]
          /\ UNCHANGED attempt
    BY <1>15 DEF Complete
  <2>3. wpc' = "writing" => /\ result'[a] \in Terminal
                            /\ runLock'[RunOf[a]] = Worker
                            /\ attempt'[a] = attempt[a]
    BY <2>1, <2>2, <1>a DEF Lock, StoreOK, ControlOK
  <2>4. wpc' \in {"continue", "fail", "writing"} /\ UNCHANGED <<stage, active>>
        /\ wpc = "complete" /\ active = a
    BY <1>15 DEF Complete, QueueFrame
  <2> QED
    BY <2>3, <2>4, <1>a DEF WorkerInv
<1>16. ASSUME NEW a \in Attempts,
              WriteTerminal(a) \/ Continue(a) \/ FailIfActive(a)
       PROVE  WorkerInv'
  BY <1>16 DEF WriteTerminal, Continue, FailIfActive, WorkerInv, QueueFrame
<1> QED
  BY <1>1, <1>2, <1>3, <1>4, <1>5, <1>6, <1>7, <1>8, <1>9, <1>10, <1>11,
     <1>12, <1>13, <1>14, <1>15, <1>16 DEF WorkerStep

(* The other threads leave the worker's bookkeeping true.                  *)
LEMMA WorkerInvStep ==
    ASSUME TypeOK, Quiet, WorkerInv, LeaseInv, Next
    PROVE  WorkerInv'
<1> USE DEF TypeOK
<1>a. /\ \A a \in Attempts : RunOf[a] \in Runs /\ a # Worker /\ Worker # Free
      /\ wpc \in Executing => wpc \notin Unused
      /\ Leased => wpc \in Executing
      /\ wpc \in Executing => active \in Attempts
  BY ConstantsAssumption
     DEF Worker, Free, Executing, Unused, Leased, QueueOK, WorkerInv
<1>frame. CASE /\ UNCHANGED <<wpc, stage, outcome, active, result>>
               /\ Leased => runLock'[RunOf[active]] = Worker
               /\ wpc \in Executing =>
                     attempt'[active] \in {"running", "cancelling"}
  BY <1>frame DEF WorkerInv, Leased
<1>1. ASSUME NEW a \in Attempts,
             \/ AdmitCall(a) \/ Select(a) \/ Confirm(a) \/ Answer(a)
             \/ AcquireRun(a) \/ Reserve(a) \/ Enqueue(a) \/ AdmitFails(a)
      PROVE  WorkerInv'
  <2>1. UNCHANGED <<wpc, stage, outcome, active, result, attempt>>
    BY <1>1
       DEF AdmitCall, Select, Confirm, Answer, AcquireRun, Reserve, Enqueue,
           AdmitFails, AdmissionFrame, workerVars, durableVars
  <2>2. Leased => runLock'[RunOf[active]] = Worker
    BY <1>1, <1>a
       DEF AdmitCall, Select, Confirm, Answer, AcquireRun, Reserve, Enqueue,
           AdmitFails, Release, Holds, WorkerInv, ControlOK
  <2> QED
    BY <2>1, <2>2, <1>frame DEF WorkerInv
<1>2. ASSUME NEW a \in Attempts, Create(a)
      PROVE  WorkerInv'
  <2>1. UNCHANGED <<wpc, stage, outcome, active, result>>
    BY <1>2 DEF Create, AdmissionFrame, workerVars
  <2>2. Leased => runLock'[RunOf[active]] = Worker
    BY <1>2, <1>a DEF Create, Release, Holds, WorkerInv, ControlOK
  <2>3. wpc \in Executing => attempt'[active] \in {"running", "cancelling"}
    BY <1>2, <1>a DEF Create, LeaseInv, WorkerInv, StoreOK
  <2> QED
    BY <2>1, <2>2, <2>3, <1>frame
<1>3. ASSUME NEW a \in Attempts, Abandon(a) \/ CancelDurably(a)
      PROVE  WorkerInv'
  <2>1. UNCHANGED <<wpc, stage, outcome, active, result, runLock>>
    BY <1>3
       DEF Abandon, AdmissionFrame, CancelDurably, CancelFrame, workerVars
  <2>2. wpc \in Executing => attempt'[active] \in {"running", "cancelling"}
    BY <1>3, <1>a, CancelKeepsClaim DEF Abandon, CancelDurably, WorkerInv
  <2> QED
    BY <2>1, <2>2, <1>frame DEF WorkerInv
<1>4. CASE ShutdownDrain
  <2>1. Head(sdrain) \in Attempts
    BY <1>4, HeadTailProperties DEF QueueOK, ShutdownDrain
  <2>2. UNCHANGED <<wpc, stage, outcome, active, result, runLock>>
    BY <1>4 DEF ShutdownDrain, ShutdownFrame, workerVars
  <2>3. wpc \in Executing => attempt'[active] \in {"running", "cancelling"}
    BY <1>4, <2>1, <1>a, CancelKeepsClaim DEF ShutdownDrain, WorkerInv
  <2> QED
    BY <2>2, <2>3, <1>frame DEF WorkerInv
<1>5. CASE ShutdownActive
  <2>1. UNCHANGED <<wpc, stage, outcome, active, result, runLock>>
    BY <1>5 DEF ShutdownActive, ShutdownFrame, workerVars
  <2>2. wpc \in Executing => attempt'[active] \in {"running", "cancelling"}
    BY <1>5, <1>a, CancelKeepsClaim
       DEF ShutdownActive, WorkerInv, NoSave, QueueOK
  <2> QED
    BY <2>1, <2>2, <1>frame DEF WorkerInv
<1>6. CASE \/ BeginShutdown \/ CloseSupervisor
           \/ \E a \in Attempts : CancelCall(a) \/ ResumePublication(a)
  BY <1>6, <1>frame
     DEF BeginShutdown, CloseSupervisor, ShutdownFrame, CancelCall,
         CancelFrame, ResumePublication, StartFrame, workerVars, WorkerInv
<1>7. CASE Exit \/ Crash
  <2>1. wpc' = "idle" /\ active' = NoAttempt
    BY <1>7 DEF Exit, Crash, Forget
  <2> QED
    BY <2>1 DEF WorkerInv, Leased, Executing, Unused
<1>8. CASE RecoverContainers \/ Start \/ \E a \in Attempts : RecoverAttempt(a)
  <2>1. wpc = "idle" /\ UNCHANGED <<wpc, active>>
    BY <1>8
       DEF RecoverContainers, Start, RecoverAttempt, StartFrame, Quiet,
           workerVars
  <2> QED
    BY <2>1 DEF WorkerInv, Leased, Executing, Unused
<1>9. CASE WorkerStep
  BY <1>9, WorkerOwnStep
<1> QED
  BY <1>1, <1>2, <1>3, <1>4, <1>5, <1>6, <1>7, <1>8, <1>9
     DEF Next, Admission, Cancellation, Shutdown, Startup

(* There is one container at most, and it is recorded.                     *)
LEMMA ContainerStep ==
    ASSUME TypeOK, Quiet, WorkerInv, ContainerInv, Next
    PROVE  ContainerInv'
<1> USE DEF TypeOK
<1>frame. CASE UNCHANGED <<ociVars, wpc, active>>
  BY <1>frame DEF ContainerInv, ociVars
<1>1. CASE \/ \E a \in Attempts : Admission(a) \/ Cancellation(a)
           \/ BeginShutdown \/ ShutdownDrain \/ ShutdownActive
           \/ CloseSupervisor \/ \E a \in Attempts : ResumePublication(a)
  <2>1. UNCHANGED <<ociVars, wpc, active>>
    BY <1>1
       DEF Admission, AdmitCall, Select, Confirm, Answer, AcquireRun,
           Reserve, Create, Enqueue, Abandon, AdmitFails, AdmissionFrame,
           Cancellation, CancelCall, CancelDurably, CancelFrame,
           BeginShutdown, ShutdownDrain, ShutdownActive, CloseSupervisor,
           ShutdownFrame, ResumePublication, StartFrame, workerVars
  <2> QED
    BY <2>1, <1>frame
<1>2. CASE Dequeue \/ WorkerExit \/ Finish \/ WorkerDrain
  BY <1>2
     DEF Dequeue, WorkerExit, Finish, WorkerDrain, QueueFrame, ContainerInv,
         ociVars
<1>3. ASSUME NEW a \in Attempts, Register(a)
      PROVE  ContainerInv'
  BY <1>3 DEF Register, RegistryEmpty, QueueFrame, ContainerInv, ociVars
<1>4. ASSUME NEW a \in Attempts, Claim(a) \/ EnterLifecycle(a)
      PROVE  ContainerInv'
  BY <1>4 DEF Claim, EnterLifecycle, QueueFrame, ContainerInv, ociVars
<1>5. ASSUME NEW a \in Attempts, Prepare(a) \/ PrepareLifecycle(a)
      PROVE  ContainerInv'
  BY <1>5 DEF Prepare, PrepareLifecycle, QueueFrame, ContainerInv
<1>6. ASSUME NEW a \in Attempts,
             CreateContainer(a) \/ ResolveDependencies(a) \/ CheckLifecycle(a)
      PROVE  ContainerInv'
  BY <1>6
     DEF CreateContainer, ResolveDependencies, CheckLifecycle, QueueFrame,
         ContainerInv, ociVars
<1>7. ASSUME NEW a \in Attempts, Cleanup(a)
      PROVE  ContainerInv'
  BY <1>7
     DEF Cleanup, RemoveContainer, KeepContainer, AfterCleanup, QueueFrame,
         ContainerInv
<1>8. ASSUME NEW a \in Attempts,
             \/ Recheck(a) \/ Settle(a) \/ Complete(a) \/ WriteTerminal(a)
             \/ Continue(a) \/ FailIfActive(a)
      PROVE  ContainerInv'
  BY <1>8
     DEF Recheck, Settle, Complete, WriteTerminal, Continue, FailIfActive,
         QueueFrame, ContainerInv, ociVars
<1>9. CASE Exit \/ Crash
  BY <1>9 DEF Exit, Crash, Forget, ContainerInv, ociVars
<1>10. CASE RecoverContainers
  BY <1>10
     DEF RecoverContainers, StartFrame, Quiet, ContainerInv, ociVars,
         workerVars
<1>11. CASE Start \/ \E a \in Attempts : RecoverAttempt(a)
  BY <1>11, <1>frame DEF Start, RecoverAttempt, StartFrame, workerVars
<1> QED
  BY <1>1, <1>2, <1>3, <1>4, <1>5, <1>6, <1>7, <1>8, <1>9, <1>10, <1>11
     DEF Next, WorkerStep, Shutdown, Startup

-----------------------------------------------------------------------------
(* Only a creation makes an attempt active.                                *)
LEMMA ActiveShrinks ==
    ASSUME LifeStep, StoreOK, StoreOK',
           \A a \in Attempts : adm[a] = "create" => adm'[a] # "enqueue"
    PROVE  /\ \A r : ActiveOf(r)' \subseteq ActiveOf(r)
           /\ \A a \in Attempts : attempt[a] = "absent" => attempt'[a] = "absent"
           /\ \A a \in Attempts : attempt[a] # "absent" => attempt'[a] # "absent"
           /\ OneActivePerRun => OneActivePerRun'
<1>1. Active \cap Terminal = {} /\ "absent" \notin Active \cup Terminal
  BY DEF Active, Terminal
<1>2. \A a \in Attempts : attempt'[a] \in Active => attempt[a] \in Active
  BY <1>1 DEF LifeStep, StoreOK
<1>3. \A a \in Attempts : attempt[a] = "absent" => attempt'[a] = "absent"
  BY DEF LifeStep
<1>4. \A a \in Attempts : attempt[a] # "absent" => attempt'[a] # "absent"
  BY <1>1 DEF LifeStep, StoreOK
<1>5. OneActivePerRun => OneActivePerRun'
  BY <1>2 DEF OneActivePerRun
<1> QED
  BY <1>2, <1>3, <1>4, <1>5 DEF ActiveOf

(* The worker takes a lease that is free and gives back its own.           *)
LEMMA WorkerLeases ==
    ASSUME TypeOK, WorkerInv, WorkerStep
    PROVE  \A a \in Attempts : Holds(a) <=> Holds(a)'
<1>a. \A a \in Attempts : RunOf[a] \in Runs /\ a # Worker /\ a # Free
  BY ConstantsAssumption DEF Worker, Free
<1>b. runLock \in [Runs -> Attempts \cup {Free, Worker}]
  BY DEF TypeOK, ControlOK
<1>frame. CASE UNCHANGED runLock
  BY <1>frame DEF Holds
<1>lock. ASSUME NEW a \in Attempts, Lock(a)
         PROVE  \A b \in Attempts : Holds(b) <=> Holds(b)'
  BY <1>lock, <1>a, <1>b DEF Lock, Holds
<1>unlock. ASSUME NEW a \in Attempts, runLock[RunOf[a]] = Worker, Unlock(a)
           PROVE  \A b \in Attempts : Holds(b) <=> Holds(b)'
  BY <1>unlock, <1>a, <1>b DEF Unlock, Holds
<1>1. CASE \/ Dequeue \/ WorkerExit \/ Finish \/ WorkerDrain
           \/ \E a \in Attempts :
                \/ Register(a) \/ CheckLifecycle(a) \/ Settle(a)
                \/ Continue(a) \/ FailIfActive(a)
  BY <1>1, <1>frame
     DEF Dequeue, WorkerExit, Finish, WorkerDrain, Register, CheckLifecycle,
         Settle, Continue, FailIfActive
<1>2. ASSUME NEW a \in Attempts,
             Claim(a) \/ EnterLifecycle(a) \/ Complete(a)
      PROVE  \A b \in Attempts : Holds(b) <=> Holds(b)'
  BY <1>2, <1>frame, <1>lock DEF Claim, EnterLifecycle, Complete
<1>3. ASSUME NEW a \in Attempts,
             \/ Prepare(a) \/ PrepareLifecycle(a) \/ CreateContainer(a)
             \/ ResolveDependencies(a) \/ Recheck(a) \/ WriteTerminal(a)
      PROVE  \A b \in Attempts : Holds(b) <=> Holds(b)'
  <2>1. runLock[RunOf[a]] = Worker
    BY <1>3
       DEF Prepare, PrepareLifecycle, CreateContainer, ResolveDependencies,
           Recheck, WriteTerminal, WorkerInv, Leased
  <2>2. UNCHANGED runLock \/ Unlock(a)
    BY <1>3
       DEF Prepare, PrepareLifecycle, CreateContainer, ResolveDependencies,
           Recheck, WriteTerminal, LeaveOnError
  <2> QED
    BY <2>1, <2>2, <1>frame, <1>unlock
<1>4. ASSUME NEW a \in Attempts, Cleanup(a)
      PROVE  \A b \in Attempts : Holds(b) <=> Holds(b)'
  <2>1. \/ runLock' = runLock
        \/ Unlock(a) /\ (stage = "lifecycle" \/ outcome = "none")
    BY <1>4 DEF Cleanup
  <2>2. (stage = "lifecycle" \/ outcome = "none") =>
            runLock[RunOf[a]] = Worker
    BY <1>4 DEF Cleanup, WorkerInv, Leased
  <2> QED
    BY <2>1, <2>2, <1>frame, <1>unlock
<1> QED
  BY <1>1, <1>2, <1>3, <1>4 DEF WorkerStep

(* Whoever takes no part in admissions leaves what they know true.         *)
LEMMA LeaseFrame ==
    ASSUME TypeOK, LifeStep, StoreOK', LeaseInv, OneActivePerRun,
           UNCHANGED admVars, \A a \in Attempts : Holds(a) <=> Holds(a)'
    PROVE  LeaseInv' /\ OneActivePerRun'
<1>1. /\ \A r : ActiveOf(r)' \subseteq ActiveOf(r)
      /\ \A a \in Attempts : attempt[a] = "absent" => attempt'[a] = "absent"
      /\ \A a \in Attempts : attempt[a] # "absent" => attempt'[a] # "absent"
      /\ OneActivePerRun'
  BY ActiveShrinks DEF TypeOK, admVars
<1>2. UNCHANGED <<adm, reuse>>
  BY DEF admVars
<1>3. ASSUME NEW a \in Attempts
      PROVE  /\ adm[a] \in {"idle", "select", "confirm", "answer", "lock",
                            "reserve", "create"} => attempt'[a] = "absent"
             /\ adm[a] \in {"reserve", "create"} =>
                   Holds(a)' /\ ActiveOf(RunOf[a])' = {}
             /\ adm[a] \in {"confirm", "answer"} =>
                   /\ reuse[a] \in Attempts /\ RunOf[reuse[a]] = RunOf[a]
                   /\ attempt'[reuse[a]] # "absent"
             /\ adm[a] = "confirm" /\ Holds(a)' =>
                   ActiveOf(RunOf[a])' \subseteq {reuse[a]}
  BY <1>1 DEF LeaseInv
<1> QED
  BY <1>1, <1>2, <1>3 DEF LeaseInv

(* One step of an admission keeps what every admission knows.              *)
LEMMA LeaseOwnStep ==
    ASSUME TypeOK, LifeStep, StoreOK', LeaseInv, OneActivePerRun,
           NEW a \in Attempts, Admission(a)
    PROVE  LeaseInv' /\ OneActivePerRun'
<1> DEFINE Early == {"idle", "select", "confirm", "answer", "lock",
                     "reserve", "create"}
           Known(b) ==
             /\ adm'[b] \in Early => attempt'[b] = "absent"
             /\ adm'[b] \in {"reserve", "create"} =>
                   Holds(b)' /\ ActiveOf(RunOf[b])' = {}
             /\ adm'[b] \in {"confirm", "answer"} =>
                   /\ reuse'[b] \in Attempts /\ RunOf[reuse'[b]] = RunOf[b]
                   /\ attempt'[reuse'[b]] # "absent"
             /\ adm'[b] = "confirm" /\ Holds(b)' =>
                   ActiveOf(RunOf[b])' \subseteq {reuse'[b]}
<1>a. /\ \A b \in Attempts : RunOf[b] \in Runs /\ b # Worker /\ b # Free
      /\ adm \in [Attempts -> {"idle", "select", "confirm", "answer", "lock",
                               "reserve", "create", "enqueue", "abandon",
                               "done"}]
      /\ reuse \in [Attempts -> Attempts \cup {NoAttempt}]
      /\ runLock \in [Runs -> Attempts \cup {Free, Worker}]
  BY ConstantsAssumption DEF Worker, Free, TypeOK, ControlOK
<1>b. SUFFICES OneActivePerRun' /\ \A b \in Attempts : Known(b)
  BY DEF LeaseInv
<1>c. /\ \A b \in Attempts : b # a => adm'[b] = adm[b] /\ reuse'[b] = reuse[b]
      /\ adm[a] # "create" => adm'[a] # "enqueue"
  BY <1>a
     DEF Admission, AdmitCall, Select, Confirm, Answer, AcquireRun, Reserve,
         Create, Enqueue, Abandon, AdmitFails, SecondSearch, WhenClosed
<1>d. \/ UNCHANGED runLock
      \/ Release(a)
      \/ runLock[RunOf[a]] = Free /\ runLock' = [runLock EXCEPT ![RunOf[a]] = a]
  BY DEF Admission, AdmitCall, Select, Confirm, Answer, AcquireRun, Reserve,
         Create, Enqueue, Abandon, AdmitFails
<1>e. \A b \in Attempts : b # a => (Holds(b) <=> Holds(b)')
  BY <1>a, <1>d DEF Holds, Release
<1>1. CASE Create(a)
  <2>1. /\ adm[a] = "create" /\ adm'[a] = "enqueue"
        /\ attempt' = [attempt EXCEPT ![a] = "queued"]
        /\ attempt \in [Attempts -> {"absent"} \cup Active \cup Terminal]
        /\ Holds(a) /\ ActiveOf(RunOf[a]) = {}
    BY <1>1, <1>a DEF Create, LeaseInv, TypeOK, StoreOK
  <2>2. OneActivePerRun'
    BY <2>1 DEF OneActivePerRun, ActiveOf
  <2>3. Known(a)
    BY <2>1
  <2>4. ASSUME NEW b \in Attempts, b # a
        PROVE  Known(b)
    <3>1. /\ adm'[b] = adm[b] /\ reuse'[b] = reuse[b]
          /\ attempt'[b] = attempt[b] /\ (Holds(b) <=> Holds(b)')
      BY <2>4, <1>c, <1>e, <2>1
    <3>2. RunOf[b] # RunOf[a] => ActiveOf(RunOf[b])' = ActiveOf(RunOf[b])
      BY <2>1 DEF ActiveOf
    <3>3. RunOf[b] = RunOf[a] => ~ Holds(b)
      BY <2>1, <2>4 DEF Holds
    <3>4. \A c \in Attempts : attempt[c] # "absent" => attempt'[c] # "absent"
      BY <2>1
    <3> QED
      BY <3>1, <3>2, <3>3, <3>4 DEF LeaseInv
  <2> QED
    BY <2>2, <2>3, <2>4
<1>2. CASE ~ Create(a)
  <2>1. adm[a] = "create" => adm'[a] # "enqueue"
    BY <1>2, <1>a
       DEF Admission, AdmitCall, Select, Confirm, Answer, AcquireRun,
           Reserve, Enqueue, Abandon, AdmitFails
  <2>2. /\ \A r : ActiveOf(r)' \subseteq ActiveOf(r)
        /\ \A b \in Attempts : attempt[b] = "absent" => attempt'[b] = "absent"
        /\ \A b \in Attempts : attempt[b] # "absent" => attempt'[b] # "absent"
        /\ OneActivePerRun'
    <3>1. \A b \in Attempts : adm[b] = "create" => adm'[b] # "enqueue"
      BY <1>c, <2>1
    <3> QED
      BY <3>1, ActiveShrinks DEF TypeOK
  <2>3. ASSUME NEW b \in Attempts, b # a
        PROVE  Known(b)
    <3>1. /\ adm'[b] = adm[b] /\ reuse'[b] = reuse[b]
          /\ (Holds(b) <=> Holds(b)')
      BY <2>3, <1>c, <1>e
    <3> QED
      BY <3>1, <2>2 DEF LeaseInv
  <2>4. Known(a)
    <3>1. CASE AdmitCall(a)
      BY <3>1, <1>a, <2>2 DEF AdmitCall, LeaseInv
    <3>2. CASE Select(a)
      <4>1. UNCHANGED <<attempt, runLock>> /\ attempt[a] = "absent"
        BY <3>2 DEF Select, LeaseInv, durableVars
      <4>2. CASE adm' = [adm EXCEPT ![a] = IF Holds(a) THEN "reserve"
                                           ELSE "lock"]
                 /\ ActiveOf(RunOf[a]) = {}
        BY <4>1, <4>2, <2>2, <1>a DEF Holds
      <4>3. ASSUME NEW b \in ActiveOf(RunOf[a]),
                   reuse' = [reuse EXCEPT ![a] = b],
                   adm' = [adm EXCEPT ![a] = "confirm"]
            PROVE  Known(a)
        <5>1. /\ b \in Attempts /\ RunOf[b] = RunOf[a]
              /\ attempt[b] \in Active
          BY <4>3 DEF ActiveOf
        <5>2. ActiveOf(RunOf[a]) \subseteq {b}
          BY <5>1 DEF ActiveOf, OneActivePerRun
        <5>3. reuse'[a] = b /\ adm'[a] = "confirm"
          BY <4>3, <1>a
        <5>4. attempt[b] # "absent"
          BY <5>1 DEF Active
        <5> QED
          BY <4>1, <5>1, <5>2, <5>3, <5>4, <2>2
      <4> QED
        BY <3>2, <4>2, <4>3 DEF Select
    <3>3. CASE Confirm(a)
      <4>1. /\ UNCHANGED <<attempt, runLock, reuse>> /\ attempt[a] = "absent"
            /\ reuse[a] \in Attempts /\ RunOf[reuse[a]] = RunOf[a]
            /\ attempt[reuse[a]] # "absent"
            /\ Holds(a) => ActiveOf(RunOf[a]) \subseteq {reuse[a]}
        BY <3>3 DEF Confirm, LeaseInv
      <4>2. CASE adm'[a] = "answer"
        BY <4>1, <4>2
      <4>3. CASE /\ attempt[reuse[a]] \notin Active
                 /\ adm'[a] = IF Holds(a) THEN "reserve" ELSE "lock"
        <5>1. Holds(a) => ActiveOf(RunOf[a]) = {}
          BY <4>1, <4>3 DEF ActiveOf
        <5> QED
          BY <4>1, <4>3, <5>1, <2>2 DEF Holds
      <4> QED
        BY <3>3, <4>2, <4>3, <1>a DEF Confirm, StillActive
    <3>4. CASE AcquireRun(a)
      BY <3>4, <1>a, <2>2 DEF AcquireRun, SecondSearch, LeaseInv
    <3>5. CASE Reserve(a)
      <4>1. attempt'[a] = "absent" /\ Holds(a) /\ ActiveOf(RunOf[a])' = {}
        BY <3>5, <2>2 DEF Reserve, LeaseInv
      <4>2. \/ adm'[a] = "done"
            \/ adm'[a] = "create" /\ runLock' = runLock
        BY <3>5, <1>a DEF Reserve
      <4> QED
        BY <4>1, <4>2 DEF Holds
    <3>6. CASE Answer(a) \/ Enqueue(a) \/ Abandon(a) \/ AdmitFails(a)
      <4>1. adm'[a] \in {"done", "abandon"}
        BY <3>6, <1>a DEF Answer, Enqueue, Abandon, AdmitFails, WhenClosed
      <4> QED
        BY <4>1
    <3> QED
      BY <1>2, <3>1, <3>2, <3>3, <3>4, <3>5, <3>6 DEF Admission
  <2> QED
    BY <2>2, <2>3, <2>4
<1> QED
  BY <1>1, <1>2

LEMMA LeaseStep ==
    ASSUME IInv, StoreOK', Next
    PROVE  LeaseInv' /\ OneActivePerRun'
<1> USE DEF IInv
<1>1. LifeStep
  BY LifeIsKept
<1>2. CASE \E a \in Attempts : Admission(a)
  BY <1>1, <1>2, LeaseOwnStep
<1>3. CASE WorkerStep
  <2>1. UNCHANGED admVars
    BY <1>3
       DEF WorkerStep, Dequeue, WorkerExit, Finish, WorkerDrain, Register,
           Claim, Prepare, EnterLifecycle, PrepareLifecycle, CreateContainer,
           ResolveDependencies, CheckLifecycle, Cleanup, Recheck, Settle,
           Complete, WriteTerminal, Continue, FailIfActive, WorkerFrame
  <2> QED
    BY <1>1, <1>3, <2>1, WorkerLeases, LeaseFrame
<1>4. CASE \/ \E a \in Attempts : Cancellation(a)
           \/ BeginShutdown \/ ShutdownDrain \/ ShutdownActive
           \/ CloseSupervisor \/ Startup
  <2>1. UNCHANGED <<admVars, runLock>>
    BY <1>4
       DEF Cancellation, CancelCall, CancelDurably, CancelFrame,
           BeginShutdown, ShutdownDrain, ShutdownActive, CloseSupervisor,
           ShutdownFrame, Startup, RecoverContainers, Start, RecoverAttempt,
           ResumePublication, StartFrame
  <2> QED
    BY <1>1, <2>1, LeaseFrame DEF Holds
<1>5. CASE Exit \/ Crash
  <2>1. /\ UNCHANGED attempt
        /\ \A a \in Attempts : adm'[a] = IF adm[a] = "idle" THEN "idle"
                                         ELSE "done"
    BY <1>5 DEF Exit, Crash, Forget, durableVars
  <2>2. \A a \in Attempts : adm'[a] = "idle" => adm[a] = "idle"
    BY <2>1
  <2> QED
    BY <2>1, <2>2 DEF LeaseInv, OneActivePerRun
<1> QED
  BY <1>2, <1>3, <1>4, <1>5 DEF Next, Shutdown

(* The invariant holds at first and every step keeps it.                   *)
LEMMA InvInit == Init => IInv
<1> SUFFICES ASSUME Init PROVE IInv
  OBVIOUS
<1> USE ConstantsAssumption DEF Init
<1>1. StoreOK
  BY DEF StoreOK
<1>2. QueueOK
  BY EmptySeq DEF QueueOK
<1>3. FlagsOK
  BY DEF FlagsOK
<1>4. ControlOK
  BY DEF ControlOK
<1>5. StartOK
  BY DEF StartOK
<1>6. Quiet /\ WorkerInv /\ ContainerInv
  BY DEF Quiet, WorkerInv, ContainerInv, Unused, Leased, Executing
<1>7. LeaseInv /\ OneActivePerRun
  BY DEF LeaseInv, OneActivePerRun, ActiveOf, Active
<1>8. PlacesInv
  <2>1. Places = {}
    BY DEF Places
  <2> QED
    BY <2>1, FS_EmptySet DEF PlacesInv
<1> QED
  BY <1>1, <1>2, <1>3, <1>4, <1>5, <1>6, <1>7, <1>8 DEF IInv, TypeOK

LEMMA InvStep == IInv /\ [Next]_vars => IInv'
<1> SUFFICES ASSUME IInv, [Next]_vars PROVE IInv'
  OBVIOUS
<1>1. CASE UNCHANGED vars
  BY <1>1
     DEF vars, durableVars, ociVars, queueVars, gateVars, supVars, admVars,
         cancelVars, workerVars, shutdownVars, startVars, faultVars,
         historyVars, IInv, TypeOK, StoreOK, QueueOK, FlagsOK, ControlOK,
         StartOK, Quiet, WorkerInv, Leased, ContainerInv, LeaseInv,
         ActiveOf, Holds, PlacesInv, Places, OneActivePerRun
<1>2. CASE Next
  <2>1. TypeOK'
    BY <1>2, StoreStep, QueueStep, FlagsStep, ControlStep, StartStep
       DEF IInv, TypeOK
  <2>2. Quiet' /\ WorkerInv' /\ ContainerInv' /\ PlacesInv'
    BY <1>2, QuietStep, WorkerInvStep, ContainerStep, PlacesStep DEF IInv
  <2>3. LeaseInv' /\ OneActivePerRun'
    BY <1>2, <2>1, LeaseStep DEF TypeOK
  <2> QED
    BY <2>1, <2>2, <2>3 DEF IInv
<1> QED
  BY <1>1, <1>2

LEMMA InvHolds == Spec => []IInv
BY InvInit, InvStep, PTL DEF Spec

(* The state of the manager and its store is sound in every behaviour, for *)
(* any number of requests, cancellations, faults and restarts: documents   *)
(* and threads are well formed, a Build Run never has two active attempts, *)
(* and there is never a second container, nor one without its identity on  *)
(* disk (_reuse_active, _claim_attempt, IdentityRegistry, OwnedContainer). *)
THEOREM Sound == Spec => []StateIsSound
<1>1. IInv => StateIsSound
  <2> SUFFICES ASSUME IInv PROVE StateIsSound
    OBVIOUS
  <2>1. Cardinality(identities) <= 1
    <3>1. CASE identities = {}
      BY <3>1, FS_EmptySet
    <3>2. ASSUME NEW a \in identities
          PROVE  Cardinality(identities) <= 1
      <4>1. identities = {a}
        BY DEF IInv, ContainerInv
      <4>2. Cardinality({a}) = 1
        BY FS_Singleton, Zenon
      <4> QED
        BY <4>1, <4>2
    <3> QED
      BY <3>1, <3>2
  <2> QED
    BY <2>1 DEF IInv, StateIsSound, OneRecordedContainer, ContainerInv
<1> QED
  BY <1>1, InvHolds, PTL

-----------------------------------------------------------------------------
(* Containers and the open admission.  A container whose removal was not   *)
(* proved is still recorded when its outcome is settled, so the outcome is *)
(* unresolved and blocks the supervisor, which closes the admission before *)
(* the worker gives the attempt up; a startup that finds one is blocked.   *)
GateInv ==
    /\ phase = "recovering" /\ containers # {} => blocked
    /\ wpc \in {"settle", "complete"} /\ active \in identities =>
          outcome = "unresolved"
    /\ wpc = "writing" => active \notin identities
    /\ wpc \in {"begin", "fail", "continue", "finish"}
       /\ active \in containers =>
          supBlocked \/ active \in deferred \/ ~ accepting
    /\ wpc = "drain" => ~ accepting
    /\ NoContainerBehindAdmission

(* While the result is on disk and the attempt is not, the result agrees   *)
(* with an accepted cancellation.                                          *)
CancelInv ==
    /\ CancellationStands
    /\ wpc = "writing" /\ active \in accepted =>
          result[active] = "cancelled"

(* A request that was or will be answered with an attempt has seen that    *)
(* attempt exist, and has recorded its wish there.                         *)
IntentInv ==
    /\ \A a \in Publishing : adm[a] = "answer" =>
          intent[reuse[a]] # "not_requested"
    /\ \A a \in Attempts : told[a] # NoAttempt => attempt[told[a]] # "absent"
    /\ IntentsKept

(* Who will end an attempt, by its status: what an unreadable or cancelling *)
(* attempt waits for is what NoAttemptLost cannot say by itself.           *)
DrainInv ==
    /\ wpc # "drain" => wdrain = <<>>
    /\ spc = "none" => sdrain = <<>>
    /\ spc # "none" => stopping
    /\ ~ supAccepting => stopping \/ supBlocked
    /\ wpc = "prepared" => supActive = {}
    /\ \A a \in Attempts : attempt[a] = "absent" => result[a] = "none"

Waiting(a) ==
    \/ a \in ToSet(queue) \cup ToSet(wdrain) \cup ToSet(sdrain)
    \/ active = a /\ wpc \in {"begin", "claim", "fail"}
    \/ adm[a] \in {"enqueue", "abandon"} \/ cpc[a] = "durable"

Served(a) ==
    /\ active = a
    /\ \/ wpc \in Executing \cup {"settle"}
       \/ wpc = "fail" /\ (stopping \/ supBlocked)

Given(a) ==
    \/ stopping \/ blocked
    \/ active = a /\ wpc \in Executing \cup {"settle"}
    \/ active = a /\ wpc \in {"fail", "continue", "finish"} /\ supBlocked

Kept(a) ==
    \/ a \in deferred
    \/ /\ attempt[a] = "queued" => Waiting(a)
       /\ attempt[a] = "running" => Served(a)
       /\ attempt[a] = "cancelling" => Given(a)
       /\ Unreadable(a) => active = a /\ wpc = "writing"

OwnInv ==
    /\ phase = "up" => \A a \in Attempts : Kept(a)
    /\ phase = "recovering" /\ ~ blocked => \A a \in Attempts \ todo :
          attempt[a] \notin {"running", "cancelling"} /\ ~ Unreadable(a)

-----------------------------------------------------------------------------
(* A failed write is remembered, until the process ends.                   *)
LEMMA DeferredGrows ==
    ASSUME TypeOK, Next, UNCHANGED ends
    PROVE  deferred \subseteq deferred'
<1>0. StoreOK /\ ~ (Exit \/ Crash)
  BY DEF TypeOK, StartOK, Exit, Crash, Forget
<1>1. \A a, s, o : Save(a, s, o) => deferred \subseteq deferred'
  BY DEF Save
<1>2. \A a, o : CancelDurable(a, o) => deferred \subseteq deferred'
  BY <1>1 DEF CancelDurable, faultVars
<1>frame. CASE UNCHANGED deferred
  BY <1>frame
<1>3. CASE \E a \in Attempts : Admission(a) \/ Cancellation(a)
  BY <1>3, <1>2
     DEF Admission, AdmitCall, Select, Confirm, Answer, AcquireRun,
         Reserve, Create, Enqueue, Abandon, AdmitFails, Cancellation,
         CancelCall, CancelDurably, faultVars
<1>4. CASE WorkerStep
  <2>1. CASE WorkerDrain \/ \E a \in Attempts : Claim(a) \/ Settle(a)
                              \/ Complete(a) \/ WriteTerminal(a)
                              \/ FailIfActive(a)
    BY <2>1, <1>1, <1>2
       DEF WorkerDrain, Claim, Settle, Complete, WriteTerminal, FailIfActive,
           NoSave, faultVars
  <2>2. CASE \/ Dequeue \/ WorkerExit \/ Finish
             \/ \E a \in Attempts :
                  \/ Register(a) \/ Prepare(a) \/ EnterLifecycle(a)
                  \/ PrepareLifecycle(a) \/ CreateContainer(a)
                  \/ ResolveDependencies(a) \/ CheckLifecycle(a)
                  \/ Cleanup(a) \/ Recheck(a) \/ Continue(a)
    <3>1. UNCHANGED deferred
      BY <2>2
         DEF Dequeue, WorkerExit, Finish, Register, Prepare, EnterLifecycle,
             PrepareLifecycle, CreateContainer, ResolveDependencies,
             CheckLifecycle, Cleanup, Recheck, Continue, faultVars
    <3> QED
      BY <3>1
  <2> QED
    BY <1>4, <2>1, <2>2 DEF WorkerStep
<1>5. CASE Shutdown
  BY <1>0, <1>5, <1>2
     DEF Shutdown, BeginShutdown, ShutdownDrain, ShutdownActive,
         CloseSupervisor, NoSave, faultVars
<1>6. CASE Startup
  <2>1. CASE Start
    BY <1>0, <2>1 DEF Start, StoreOK
  <2>2. CASE RecoverContainers \/ \E a \in Attempts : ResumePublication(a)
    BY <2>2 DEF RecoverContainers, ResumePublication, faultVars
  <2>3. ASSUME NEW a \in Attempts, RecoverAttempt(a)
        PROVE  deferred \subseteq deferred'
    BY <2>3, <1>1 DEF RecoverAttempt, NoSave, faultVars
  <2> QED
    BY <1>6, <2>1, <2>2, <2>3 DEF Startup
<1> QED
  BY <1>0, <1>3, <1>4, <1>5, <1>6 DEF Next

(* No step leaves a container behind an open admission.                    *)
LEMMA GateStep ==
    ASSUME IInv, GateInv, Next
    PROVE  GateInv'
<1> USE DEF IInv
<1>a. /\ wpc \in {"idle", "stopped"} <=> active = NoAttempt
      /\ NoAttempt \notin containers
  BY ConstantsAssumption DEF WorkerInv, Unused, TypeOK, StoreOK
<1>b. containers \subseteq identities
  BY DEF ContainerInv
<1>d. UNCHANGED ends => deferred \subseteq deferred'
  BY DeferredGrows
<1>frame. CASE /\ UNCHANGED <<ociVars, wpc, active, outcome, blocked, phase,
                              supBlocked>>
               /\ accepting' => accepting
               /\ deferred \subseteq deferred'
  BY <1>frame DEF GateInv, NoContainerBehindAdmission, ociVars
<1>1. CASE \/ \E a \in Attempts : Admission(a) \/ Cancellation(a)
           \/ BeginShutdown \/ ShutdownDrain \/ ShutdownActive
           \/ CloseSupervisor \/ \E a \in Attempts : ResumePublication(a)
  <2>1. /\ UNCHANGED <<ociVars, wpc, active, outcome, blocked, phase,
                       supBlocked, ends>>
        /\ accepting' => accepting
    BY <1>1
       DEF Admission, AdmitCall, Select, Confirm, Answer, AcquireRun,
           Reserve, Create, Enqueue, Abandon, AdmitFails, AdmissionFrame,
           Cancellation, CancelCall, CancelDurably, CancelFrame,
           BeginShutdown, ShutdownDrain, ShutdownActive, CloseSupervisor,
           ShutdownFrame, ResumePublication, StartFrame, workerVars,
           startVars, gateVars, supVars
  <2> QED
    BY <2>1, <1>d, <1>frame
<1>2. CASE Dequeue
  <2>1. UNCHANGED <<containers, blocked, phase, supBlocked, accepting,
                    deferred>> /\ wpc' = "begin" /\ phase = "up"
        /\ active = NoAttempt
    BY <1>2, <1>a DEF Dequeue, ociVars, WorkerFrame, startVars, supVars, faultVars
  <2> QED
    BY <2>1, <1>a DEF GateInv, NoContainerBehindAdmission
<1>3. CASE WorkerExit
  <2>1. UNCHANGED <<containers, active, blocked, phase, supBlocked, accepting,
                    deferred>> /\ wpc' = "stopped"
    BY <1>3 DEF WorkerExit, ociVars, WorkerFrame, QueueFrame, startVars,
                supVars, faultVars
  <2> QED
    BY <2>1 DEF GateInv, NoContainerBehindAdmission
<1>4. CASE Finish
  <2>1. /\ wpc = "finish" /\ UNCHANGED <<containers, phase, deferred>>
        /\ \/ blocked' /\ ~ accepting' /\ wpc' = "drain"
           \/ /\ ~ supBlocked /\ wpc' = "idle" /\ active' = NoAttempt
              /\ UNCHANGED <<blocked, accepting>>
    BY <1>4 DEF Finish, ociVars, WorkerFrame, startVars, faultVars
  <2> QED
    BY <2>1 DEF GateInv, NoContainerBehindAdmission
<1>5. CASE WorkerDrain
  <2>1. /\ UNCHANGED <<containers, blocked, phase, accepting, ends>>
        /\ wpc = "drain" /\ wpc' \in {"drain", "idle"}
    BY <1>5 DEF WorkerDrain, ociVars, WorkerFrame, startVars
  <2> QED
    BY <2>1 DEF GateInv, NoContainerBehindAdmission
<1>6. ASSUME NEW a \in Attempts, Register(a)
      PROVE  GateInv'
  <2>1. /\ UNCHANGED <<ociVars, active, outcome, blocked, phase, supBlocked,
                       accepting, deferred>>
        /\ wpc' \in {"claim", "enter", "fail"} /\ wpc \in {"begin", "prepared"}
    BY <1>6 DEF Register, QueueFrame, WorkerFrame, startVars, faultVars
  <2> QED
    BY <2>1 DEF GateInv, NoContainerBehindAdmission, ociVars, ContainerInv
<1>7. ASSUME NEW a \in Attempts, Claim(a)
      PROVE  GateInv'
  <2>1. /\ UNCHANGED <<ociVars, active, blocked, phase, supBlocked, accepting,
                       ends>>
        /\ wpc = "claim" /\ wpc' \in {"prepare", "settle"}
    BY <1>7 DEF Claim, QueueFrame, WorkerFrame, startVars, supVars
  <2> QED
    BY <2>1, <1>d DEF GateInv, NoContainerBehindAdmission, ociVars, ContainerInv
<1>8. ASSUME NEW a \in Attempts, Prepare(a) \/ PrepareLifecycle(a)
      PROVE  GateInv'
  <2>1. /\ UNCHANGED <<containers, active, blocked, phase, supBlocked,
                       accepting, deferred>>
        /\ wpc = "prepare"
        /\ \/ wpc' = "create"
           \/ wpc' \in {"settle", "complete"} /\ UNCHANGED identities
    BY <1>8 DEF Prepare, PrepareLifecycle, QueueFrame, WorkerFrame, startVars,
                supVars, faultVars
  <2> QED
    BY <2>1 DEF GateInv, NoContainerBehindAdmission, ContainerInv
<1>9. ASSUME NEW a \in Attempts,
             EnterLifecycle(a) \/ ResolveDependencies(a) \/ CheckLifecycle(a)
      PROVE  GateInv'
  <2>1. /\ UNCHANGED <<containers, active, blocked, phase, supBlocked,
                       accepting, deferred>>
        /\ wpc' \in {"prepare", "clean"}
    BY <1>9 DEF EnterLifecycle, ResolveDependencies, CheckLifecycle,
                QueueFrame, WorkerFrame, startVars, supVars, faultVars, ociVars
  <2> QED
    BY <2>1 DEF GateInv, NoContainerBehindAdmission
<1>10. ASSUME NEW a \in Attempts, CreateContainer(a)
       PROVE  GateInv'
  <2>1. /\ UNCHANGED <<active, blocked, phase, supBlocked, accepting, deferred>>
        /\ wpc' \in {"work", "clean"} /\ active = a /\ phase = "up"
        /\ containers' \subseteq containers \cup {a}
    BY <1>10, Serving
       DEF CreateContainer, QueueFrame, WorkerFrame, startVars, supVars,
           faultVars, WorkerStep
  <2> QED
    BY <2>1 DEF GateInv, NoContainerBehindAdmission
<1>11. ASSUME NEW a \in Attempts, Cleanup(a)
       PROVE  GateInv'
  <2>1. /\ UNCHANGED <<active, blocked, phase, supBlocked, accepting, deferred>>
        /\ wpc = "clean" /\ active = a
        /\ containers' \subseteq containers
        /\ \/ identities' = identities \ {a}
              /\ wpc' \in {"recheck", "settle", "complete"}
           \/ wpc' = "clean"
           \/ outcome' = "unresolved" /\ wpc' \in {"settle", "complete"}
    BY <1>11
       DEF Cleanup, RemoveContainer, KeepContainer, AfterCleanup, QueueFrame,
           WorkerFrame, startVars, supVars
  <2>2. phase = "up"
    BY <1>11, Serving DEF WorkerStep
  <2> QED
    BY <2>1, <2>2 DEF GateInv, NoContainerBehindAdmission
<1>12. ASSUME NEW a \in Attempts, Recheck(a)
       PROVE  GateInv'
  <2>1. /\ UNCHANGED <<ociVars, active, blocked, phase, supBlocked,
                       accepting, deferred>>
        /\ wpc = "recheck" /\ wpc' \in {"settle", "prepared"}
    BY <1>12 DEF Recheck, QueueFrame, WorkerFrame, startVars, faultVars
  <2> QED
    BY <2>1 DEF GateInv, NoContainerBehindAdmission, ContainerInv, ociVars
<1>13. ASSUME NEW a \in Attempts, Settle(a)
       PROVE  GateInv'
  <2>1. /\ UNCHANGED <<ociVars, active, blocked, phase, accepting, ends>>
        /\ wpc = "settle" /\ wpc' = "fail" /\ active = a
        /\ outcome = "unresolved" => supBlocked' \/ a \in deferred'
    BY <1>13
       DEF Settle, Save, BlockSupervisor, QueueFrame, WorkerFrame, startVars
  <2> QED
    BY <2>1, <1>b, <1>d DEF GateInv, NoContainerBehindAdmission, ociVars
<1>14. ASSUME NEW a \in Attempts, Complete(a)
       PROVE  GateInv'
  <2>1. /\ UNCHANGED <<ociVars, active, blocked, phase, accepting, ends>>
        /\ wpc = "complete" /\ active = a
        /\ \/ outcome = "unresolved" /\ supBlocked'
              /\ wpc' \in {"continue", "fail"}
           \/ outcome # "unresolved" /\ wpc' \in {"writing", "fail"}
    BY <1>14
       DEF Complete, BlockSupervisor, QueueFrame, WorkerFrame, startVars
  <2> QED
    BY <2>1, <1>b, <1>d DEF GateInv, NoContainerBehindAdmission, ociVars
<1>15. ASSUME NEW a \in Attempts,
              WriteTerminal(a) \/ Continue(a) \/ FailIfActive(a)
       PROVE  GateInv'
  <2>1. /\ UNCHANGED <<ociVars, active, blocked, phase, accepting, ends,
                       supBlocked>>
        /\ wpc \in {"writing", "continue", "fail"}
        /\ wpc' \in {"continue", "fail", "finish"}
    BY <1>15
       DEF WriteTerminal, Continue, FailIfActive, QueueFrame, WorkerFrame,
           startVars, supVars
  <2> QED
    BY <2>1, <1>b, <1>d DEF GateInv, NoContainerBehindAdmission, ociVars
<1>16. CASE Exit \/ Crash
  <2>1. phase' = "down" /\ wpc' = "idle"
    BY <1>16 DEF Exit, Crash, Forget
  <2> QED
    BY <2>1 DEF GateInv, NoContainerBehindAdmission
<1>17. CASE RecoverContainers
  <2>1. /\ phase' = "recovering" /\ wpc' = "idle"
        /\ containers' # {} => blocked'
    BY <1>17, <1>b
       DEF RecoverContainers, StartFrame, Quiet, workerVars, ociVars
  <2> QED
    BY <2>1 DEF GateInv, NoContainerBehindAdmission
<1>18. CASE Start
  <2>1. /\ phase = "recovering" /\ wpc' = "idle" /\ accepting' = ~ blocked
        /\ UNCHANGED containers /\ phase' = "up"
    BY <1>18 DEF Start, StartFrame, Quiet, workerVars, ociVars
  <2> QED
    BY <2>1 DEF GateInv, NoContainerBehindAdmission
<1>19. ASSUME NEW a \in Attempts, RecoverAttempt(a)
       PROVE  GateInv'
  <2>1. /\ phase = "recovering" /\ wpc' = "idle" /\ UNCHANGED containers
        /\ phase' = "recovering"
    BY <1>19 DEF RecoverAttempt, StartFrame, Quiet, workerVars, ociVars
  <2>2. blocked => blocked'
    BY <1>19 DEF RecoverAttempt
  <2> QED
    BY <2>1, <2>2 DEF GateInv, NoContainerBehindAdmission
<1> QED
  BY <1>1, <1>2, <1>3, <1>4, <1>5, <1>6, <1>7, <1>8, <1>9, <1>10, <1>11,
     <1>12, <1>13, <1>14, <1>15, <1>16, <1>17, <1>18, <1>19
     DEF Next, WorkerStep, Shutdown, Startup

-----------------------------------------------------------------------------
(* What a write may do to the attempts.                                    *)
LEMMA SaveEffect ==
    ASSUME NEW a \in Attempts, NEW s, NEW o, StoreOK, Save(a, s, o)
    PROVE  /\ \A b \in Attempts : b # a => attempt'[b] = attempt[b]
           /\ attempt'[a] \in {attempt[a], s}
           /\ o = "ok" => attempt'[a] = s
           /\ o # "ok" => a \in deferred'
BY DEF Save, StoreOK

LEMMA CancelEffect ==
    ASSUME NEW a \in Attempts, NEW o, StoreOK, CancelDurable(a, o)
    PROVE  /\ \A b \in Attempts : b # a => attempt'[b] = attempt[b]
           /\ attempt'[a] \in {attempt[a], Cancelled(a)}
           /\ \/ attempt'[a] = Cancelled(a) \/ a \in deferred'
              \/ Unreadable(a)
<1>1. CASE UNCHANGED attempt /\ (Unreadable(a) \/ attempt[a] \in Terminal)
  BY <1>1 DEF Cancelled, Terminal
<1>2. CASE o \in WriteOutcomes /\ Save(a, Cancelled(a), o)
  BY <1>2, SaveEffect
<1> QED
  BY <1>1, <1>2 DEF CancelDurable

(* An accepted cancellation stands.                                        *)
LEMMA CancelStep ==
    ASSUME IInv, CancelInv, Next
    PROVE  CancelInv'
<1> USE DEF IInv, TypeOK
<1> DEFINE Stands == {"cancelling", "cancelled"}
<1>a. \A a \in accepted : a \in Attempts /\ attempt[a] \in Stands
  BY DEF CancelInv, CancellationStands, StartOK
<1>frame. CASE UNCHANGED <<attempt, result, accepted, wpc, active>>
  BY <1>frame DEF CancelInv, CancellationStands
<1>save. ASSUME NEW b \in Attempts, NEW s, NEW o, Save(b, s, o),
                b \in accepted => s \in Stands, UNCHANGED accepted,
                wpc' # "writing"
         PROVE  CancelInv'
  <2>1. \A a \in accepted : attempt'[a] \in Stands
    BY <1>save, <1>a, SaveEffect
  <2> QED
    BY <2>1, <1>save DEF CancelInv, CancellationStands
<1>cancel. ASSUME NEW b \in Attempts, NEW o, CancelDurable(b, o)
           PROVE  /\ \A a \in accepted : attempt'[a] \in Stands
                  /\ wpc = "writing" => b # active
  <2>1. \A a \in accepted : attempt'[a] \in Stands
    <3>1. \A a \in accepted : Cancelled(a) \in Stands
      BY <1>a DEF Cancelled
    <3> QED
      BY <3>1, <1>cancel, <1>a, CancelEffect
  <2> QED
    BY <2>1, <1>cancel DEF CancelDurable, PathFree
<1>other. ASSUME NEW b \in Attempts, NEW o, CancelDurable(b, o),
                 UNCHANGED <<accepted, result, wpc, active>>
          PROVE  CancelInv'
  BY <1>other, <1>cancel DEF CancelInv, CancellationStands
<1>1. ASSUME NEW a \in Attempts, Create(a)
      PROVE  CancelInv'
  <2>1. a \notin accepted
    BY <1>1, <1>a DEF Create, LeaseInv
  <2>2. \A b \in accepted : attempt'[b] = attempt[b]
    BY <1>1, <1>a, <2>1 DEF Create, LeaseInv, StoreOK
  <2> QED
    BY <1>1, <2>2 DEF Create, AdmissionFrame, workerVars, CancelInv,
                      CancellationStands
<1>2. ASSUME NEW a \in Attempts, Abandon(a)
      PROVE  CancelInv'
  BY <1>2, <1>other DEF Abandon, AdmissionFrame, workerVars
<1>3. ASSUME NEW a \in Attempts, CancelDurably(a)
      PROVE  CancelInv'
  <2>1. PICK o \in CancelOutcomes :
          /\ CancelDurable(a, o)
          /\ accepted' = IF o = "ok" /\ \/ attempt'[a] = "cancelled"
                                        \/ attempt'[a] = "cancelling"
                                           /\ wasActive[a]
                         THEN accepted \cup {a} ELSE accepted
    BY <1>3 DEF CancelDurably
  <2>2. UNCHANGED <<result, wpc, active>>
    BY <1>3 DEF CancelDurably, CancelFrame, workerVars
  <2>3. \A b \in accepted' : attempt'[b] \in Stands
    BY <2>1, <1>cancel
  <2>4. wpc = "writing" /\ active \in accepted' => active \in accepted
    BY <2>1, <1>cancel
  <2> QED
    BY <2>2, <2>3, <2>4 DEF CancelInv, CancellationStands
<1>4. CASE WorkerDrain
  <2>1. CASE wdrain = <<>>
    BY <1>4, <2>1 DEF WorkerDrain, WorkerFrame, NoSave, CancelInv,
                      CancellationStands
  <2>2. CASE wdrain # <<>>
    <3>1. Head(wdrain) \in Attempts
      BY <2>2, HeadTailProperties DEF QueueOK
    <3> QED
      BY <1>4, <2>2, <3>1, <1>other DEF WorkerDrain, WorkerFrame
  <2> QED
    BY <2>1, <2>2
<1>5. CASE ShutdownDrain
  <2>1. Head(sdrain) \in Attempts
    BY <1>5, HeadTailProperties DEF QueueOK, ShutdownDrain
  <2> QED
    BY <1>5, <2>1, <1>other
       DEF ShutdownDrain, ShutdownFrame, workerVars, historyVars
<1>6. CASE ShutdownActive
  BY <1>6, <1>other, <1>frame
     DEF ShutdownActive, ShutdownFrame, NoSave, QueueOK, workerVars,
         historyVars
<1>7. ASSUME NEW a \in Attempts, Claim(a)
      PROVE  CancelInv'
  <2>1. UNCHANGED accepted /\ wpc' # "writing"
    BY <1>7 DEF Claim, WorkerFrame
  <2>2. CASE NoSave
    BY <2>1, <2>2 DEF NoSave, CancelInv, CancellationStands
  <2>3. ASSUME NEW o, Claimable(a), Save(a, "running", o)
        PROVE  CancelInv'
    BY <2>1, <2>3, <1>a, <1>save DEF Claimable
  <2> QED
    BY <1>7, <2>2, <2>3 DEF Claim
<1>8. ASSUME NEW a \in Attempts, Settle(a)
      PROVE  CancelInv'
  <2>1. UNCHANGED accepted /\ wpc' # "writing"
    BY <1>8 DEF Settle, WorkerFrame
  <2>2. CASE NoSave
    BY <2>1, <2>2 DEF NoSave, CancelInv, CancellationStands
  <2>3. ASSUME NEW o, attempt[a] \in Active, Save(a, Settled(a), o)
        PROVE  CancelInv'
    <3>1. a \in accepted => Settled(a) \in Stands
      BY <2>3, <1>a DEF Settled, Active
    <3> QED
      BY <2>1, <2>3, <3>1, <1>save
  <2> QED
    BY <1>8, <2>2, <2>3 DEF Settle
<1>9. ASSUME NEW a \in Attempts, Complete(a)
      PROVE  CancelInv'
  <2>1. UNCHANGED <<accepted, active>> /\ wpc = "complete" /\ active = a
    BY <1>9 DEF Complete, WorkerFrame, QueueFrame
  <2>2. ASSUME NEW o, Save(a, "cancelling", o), wpc' # "writing"
        PROVE  CancelInv'
    BY <2>1, <2>2, <1>save
  <2>3. CASE /\ UNCHANGED attempt
             /\ wpc' = "writing" =>
                  result' = [result EXCEPT ![a] = FinalStatus(a)]
    <3>1. a \in accepted => FinalStatus(a) = "cancelled"
      BY <1>a, <2>1 DEF FinalStatus, WorkerInv, Executing
    <3> QED
      BY <2>1, <2>3, <3>1 DEF CancelInv, CancellationStands, StoreOK
  <2> QED
    BY <1>9, <2>2, <2>3 DEF Complete
<1>10. ASSUME NEW a \in Attempts, WriteTerminal(a)
       PROVE  CancelInv'
  <2>1. UNCHANGED accepted /\ wpc' # "writing" /\ wpc = "writing"
        /\ active = a
    BY <1>10 DEF WriteTerminal, WorkerFrame
  <2>2. a \in accepted => result[a] \in Stands
    BY <2>1 DEF CancelInv
  <2> QED
    BY <1>10, <2>1, <2>2, <1>save DEF WriteTerminal
<1>11. ASSUME NEW a \in Attempts, FailIfActive(a)
       PROVE  CancelInv'
  <2>1. UNCHANGED accepted /\ wpc' # "writing"
    BY <1>11 DEF FailIfActive, WorkerFrame
  <2>2. CASE NoSave
    BY <2>1, <2>2 DEF NoSave, CancelInv, CancellationStands
  <2>3. ASSUME NEW o, attempt[a] \in Failable, Save(a, "failed", o)
        PROVE  CancelInv'
    BY <2>1, <2>3, <1>a, <1>save DEF Failable
  <2> QED
    BY <1>11, <2>2, <2>3 DEF FailIfActive
<1>12. ASSUME NEW a \in Attempts, RecoverAttempt(a)
       PROVE  CancelInv'
  <2>1. UNCHANGED accepted /\ wpc' # "writing"
    BY <1>12 DEF RecoverAttempt, StartFrame, Quiet, workerVars
  <2>2. CASE NoSave
    BY <2>1, <2>2 DEF NoSave, CancelInv, CancellationStands
  <2>3. ASSUME NEW o, attempt[a] \in {"running", "cancelling"},
               Save(a, IF attempt[a] = "cancelling" THEN "cancelled"
                       ELSE "failed", o)
        PROVE  CancelInv'
    BY <2>1, <2>3, <1>a, <1>save
  <2> QED
    BY <1>12, <2>2, <2>3 DEF RecoverAttempt
<1>13. ASSUME NEW a \in Attempts,
              \/ AdmitCall(a) \/ Select(a) \/ Confirm(a) \/ Answer(a)
              \/ AcquireRun(a) \/ Reserve(a) \/ Enqueue(a) \/ AdmitFails(a)
              \/ CancelCall(a)
       PROVE  CancelInv'
  BY <1>13, <1>frame
     DEF AdmitCall, Select, Confirm, Answer, AcquireRun, Reserve, Enqueue,
         AdmitFails, AdmissionFrame, CancelCall, CancelFrame, durableVars,
         workerVars
<1>14. CASE \/ Dequeue \/ WorkerExit \/ Finish
            \/ \E a \in Attempts :
                 \/ Register(a) \/ Prepare(a) \/ EnterLifecycle(a)
                 \/ PrepareLifecycle(a) \/ CreateContainer(a)
                 \/ ResolveDependencies(a) \/ CheckLifecycle(a)
                 \/ Cleanup(a) \/ Recheck(a) \/ Continue(a)
  <2>1. UNCHANGED <<attempt, accepted>> /\ wpc' # "writing"
    BY <1>14
       DEF Dequeue, WorkerExit, Finish, Register, Prepare, EnterLifecycle,
           PrepareLifecycle, CreateContainer, ResolveDependencies,
           CheckLifecycle, Cleanup, AfterCleanup, Recheck, Continue,
           WorkerFrame, durableVars
  <2> QED
    BY <2>1 DEF CancelInv, CancellationStands
<1>15. CASE \/ BeginShutdown \/ CloseSupervisor \/ RecoverContainers \/ Start
            \/ \E a \in Attempts : ResumePublication(a)
  BY <1>15, <1>frame
     DEF BeginShutdown, CloseSupervisor, ShutdownFrame, RecoverContainers,
         Start, ResumePublication, StartFrame, workerVars, historyVars
<1>16. CASE Exit \/ Crash
  <2>1. UNCHANGED <<attempt, accepted>> /\ wpc' = "idle"
    BY <1>16 DEF Exit, Crash, Forget, durableVars
  <2> QED
    BY <2>1 DEF CancelInv, CancellationStands
<1> QED
  BY <1>1, <1>2, <1>3, <1>4, <1>5, <1>6, <1>7, <1>8, <1>9, <1>10, <1>11,
     <1>12, <1>13, <1>14, <1>15, <1>16
     DEF Next, Admission, Cancellation, WorkerStep, Shutdown, Startup

-----------------------------------------------------------------------------
(* A recorded wish for publication is never withdrawn.                     *)
LEMMA IntentGrows ==
    ASSUME IInv, Next
    PROVE  \A a \in Attempts :
             (attempt[a] # "absent" /\ intent[a] # "not_requested") =>
               intent'[a] # "not_requested"
<1> USE DEF IInv, TypeOK
<1>frame. CASE UNCHANGED intent
  BY <1>frame
<1>1. ASSUME NEW b \in Attempts, Confirm(b)
      PROVE  \A a \in Attempts : intent[a] # "not_requested" =>
               intent'[a] # "not_requested"
  BY <1>1 DEF Confirm, Upgraded, StoreOK
<1>2. ASSUME NEW b \in Attempts, Create(b), NEW a \in Attempts,
             attempt[a] # "absent", intent[a] # "not_requested"
      PROVE  intent'[a] # "not_requested"
  BY <1>2 DEF Create, LeaseInv, StoreOK
<1>3. ASSUME NEW b \in Attempts, Continue(b) \/ ResumePublication(b)
      PROVE  \A a \in Attempts : intent[a] # "not_requested" =>
               intent'[a] # "not_requested"
  BY <1>3 DEF Continue, ResumePublication, Publish, StoreOK
<1>4. ASSUME NEW a \in Attempts,
             \/ AdmitCall(a) \/ Select(a) \/ Answer(a) \/ AcquireRun(a)
             \/ Reserve(a) \/ Enqueue(a) \/ Abandon(a) \/ AdmitFails(a)
             \/ Cancellation(a)
      PROVE  UNCHANGED intent
  BY <1>4
     DEF AdmitCall, Select, Answer, AcquireRun, Reserve, Enqueue, Abandon,
         AdmitFails, Cancellation, CancelCall, CancelDurably, CancelFrame,
         durableVars
<1>5. CASE \/ Dequeue \/ WorkerExit \/ Finish \/ WorkerDrain
           \/ \E a \in Attempts :
                \/ Register(a) \/ Claim(a) \/ Prepare(a) \/ EnterLifecycle(a)
                \/ PrepareLifecycle(a) \/ CreateContainer(a)
                \/ ResolveDependencies(a) \/ CheckLifecycle(a)
                \/ Cleanup(a) \/ Recheck(a) \/ Settle(a) \/ Complete(a)
                \/ WriteTerminal(a) \/ FailIfActive(a)
  <2>1. UNCHANGED intent
    BY <1>5
       DEF Dequeue, WorkerExit, Finish, WorkerDrain, Register, Claim,
           Prepare, EnterLifecycle, PrepareLifecycle, CreateContainer,
           ResolveDependencies, CheckLifecycle, Cleanup, Recheck, Settle,
           Complete, WriteTerminal, FailIfActive, durableVars
  <2> QED
    BY <2>1
<1>6. CASE \/ Shutdown \/ Crash \/ RecoverContainers \/ Start
           \/ \E a \in Attempts : RecoverAttempt(a)
  <2>1. UNCHANGED intent
    BY <1>6
       DEF Shutdown, BeginShutdown, ShutdownDrain, ShutdownActive,
           CloseSupervisor, ShutdownFrame, Exit, Crash, Forget,
           RecoverContainers, Start, RecoverAttempt, durableVars
  <2> QED
    BY <2>1
<1> QED
  BY <1>1, <1>2, <1>3, <1>4, <1>5, <1>6
     DEF Next, Admission, WorkerStep, Startup

(* An answered duplicate keeps its intent.                                 *)
LEMMA AnswerStep ==
    ASSUME IInv, IntentInv, Next
    PROVE  /\ \A a \in Publishing : adm'[a] = "answer" =>
                 intent'[reuse'[a]] # "not_requested"
           /\ \A a \in Attempts : told'[a] # NoAttempt =>
                 attempt'[told'[a]] # "absent"
           /\ \A a \in Publishing : told'[a] # NoAttempt =>
                 intent'[told'[a]] # "not_requested"
<1> USE DEF IInv, TypeOK
<1> DEFINE Goal ==
           /\ \A a \in Publishing : adm'[a] = "answer" =>
                 intent'[reuse'[a]] # "not_requested"
           /\ \A a \in Attempts : told'[a] # NoAttempt =>
                 attempt'[told'[a]] # "absent"
           /\ \A a \in Publishing : told'[a] # NoAttempt =>
                 intent'[told'[a]] # "not_requested"
<1>a. /\ Publishing \subseteq Attempts
      /\ told \in [Attempts -> Attempts \cup {NoAttempt}]
      /\ reuse \in [Attempts -> Attempts \cup {NoAttempt}]
      /\ adm \in [Attempts -> {"idle", "select", "confirm", "answer", "lock",
                               "reserve", "create", "enqueue", "abandon",
                               "done"}]
  BY ConstantsAssumption DEF StartOK, ControlOK
<1>b. \A a \in Attempts : attempt[a] # "absent" => attempt'[a] # "absent"
  BY LifeIsKept DEF LifeStep, StoreOK, Active, Terminal
<1>c. \A a \in Attempts : (attempt[a] # "absent" /\ intent[a] # "not_requested")
        => intent'[a] # "not_requested"
  BY IntentGrows
<1>d. \A a \in Attempts : told[a] # NoAttempt =>
        /\ told[a] \in Attempts
        /\ attempt[told[a]] # "absent"
        /\ a \in Publishing => intent[told[a]] # "not_requested"
  BY <1>a DEF IntentInv, IntentsKept, AnsweredIntentKept
<1>e. \A a \in Attempts : told[a] # NoAttempt =>
        /\ attempt'[told[a]] # "absent"
        /\ a \in Publishing => intent'[told[a]] # "not_requested"
  BY <1>b, <1>c, <1>d
<1>f. \A a \in Attempts : adm[a] = "answer" =>
        /\ reuse[a] \in Attempts /\ attempt[reuse[a]] # "absent"
        /\ a \in Publishing => intent[reuse[a]] # "not_requested"
  BY DEF LeaseInv, IntentInv
<1>g. \A a \in Attempts : adm[a] = "answer" =>
        /\ attempt'[reuse[a]] # "absent"
        /\ a \in Publishing => intent'[reuse[a]] # "not_requested"
  BY <1>b, <1>c, <1>f
<1>frame. CASE UNCHANGED <<admVars, told>>
  BY <1>frame, <1>a, <1>e, <1>g DEF admVars
<1>1. ASSUME NEW a \in Attempts, Answer(a)
      PROVE  Goal
  <2>1. /\ \A b \in Attempts : b # a => told'[b] = told[b]
        /\ told'[a] \in {told[a], reuse[a]} /\ adm[a] = "answer"
        /\ \A b \in Attempts : adm'[b] = "answer" => adm[b] = "answer"
        /\ UNCHANGED reuse
    BY <1>1, <1>a DEF Answer
  <2> QED
    BY <2>1, <1>a, <1>e, <1>g
<1>2. ASSUME NEW a \in Attempts, Confirm(a)
      PROVE  Goal
  <2>1. /\ UNCHANGED <<told, reuse>> /\ reuse[a] \in Attempts
        /\ \A b \in Attempts : b # a => adm'[b] = adm[b]
    BY <1>2, <1>a DEF Confirm, LeaseInv
  <2>2. a \in Publishing /\ adm'[a] = "answer" =>
           intent'[reuse[a]] # "not_requested"
    BY <1>2, <2>1, <1>a DEF Confirm, Upgraded, StoreOK
  <2> QED
    BY <2>1, <2>2, <1>a, <1>e, <1>g
<1>3. ASSUME NEW a \in Attempts,
             \/ AdmitCall(a) \/ Select(a) \/ AcquireRun(a) \/ Reserve(a)
             \/ Create(a) \/ Enqueue(a) \/ Abandon(a) \/ AdmitFails(a)
      PROVE  Goal
  <2>1. /\ UNCHANGED told
        /\ \A b \in Attempts : adm'[b] = "answer" =>
              adm[b] = "answer" /\ reuse'[b] = reuse[b]
    BY <1>3, <1>a
       DEF AdmitCall, Select, AcquireRun, Reserve, Create, Enqueue, Abandon,
           AdmitFails, SecondSearch, WhenClosed
  <2> QED
    BY <2>1, <1>a, <1>e, <1>g
<1>4. CASE Exit \/ Crash
  <2>1. UNCHANGED told /\ \A a \in Attempts : adm'[a] # "answer"
    BY <1>4, <1>a DEF Exit, Crash, Forget
  <2> QED
    BY <2>1, <1>a, <1>e
<1>5. CASE WorkerStep
  <2>1. UNCHANGED <<admVars, told>>
    BY <1>5
       DEF WorkerStep, Dequeue, WorkerExit, Finish, WorkerDrain, Register,
           Claim, Prepare, EnterLifecycle, PrepareLifecycle, CreateContainer,
           ResolveDependencies, CheckLifecycle, Cleanup, Recheck, Settle,
           Complete, WriteTerminal, Continue, FailIfActive, WorkerFrame
  <2> QED
    BY <2>1, <1>frame
<1>6. CASE \/ \E a \in Attempts : Cancellation(a)
           \/ BeginShutdown \/ ShutdownDrain \/ ShutdownActive
           \/ CloseSupervisor \/ Startup
  <2>1. UNCHANGED <<admVars, told>>
    BY <1>6
       DEF Cancellation, CancelCall, CancelDurably, CancelFrame,
           BeginShutdown, ShutdownDrain, ShutdownActive, CloseSupervisor,
           ShutdownFrame, Startup, RecoverContainers, Start, RecoverAttempt,
           ResumePublication, StartFrame, historyVars
  <2> QED
    BY <2>1, <1>frame
<1> QED
  BY <1>1, <1>2, <1>3, <1>4, <1>5, <1>6 DEF Next, Admission, Shutdown

(* A pending publication of a successful attempt stays somebody's task.    *)
LEMMA MissedStep ==
    ASSUME IInv, NoIntentMissed, Next
    PROVE  NoIntentMissed'
<1> USE DEF IInv, TypeOK
<1> DEFINE Due(a) == attempt[a] = "success" /\ intent[a] = "pending"
           DueNext(a) == attempt'[a] = "success" /\ intent'[a] = "pending"
           Covered(a) == \/ active' = a /\ wpc' = "continue"
                         \/ a \in resume' \cup tried'
                         \/ a \in deferred'
<1>a. UNCHANGED ends => deferred \subseteq deferred'
  BY DeferredGrows
<1>b. SUFFICES ASSUME phase' = "up"
               PROVE  \A a \in Attempts : DueNext(a) => Covered(a)
  BY DEF NoIntentMissed
<1>frame. CASE /\ phase = "up" /\ UNCHANGED <<resume, tried, ends>>
               /\ wpc = "continue" => UNCHANGED <<wpc, active>>
               /\ \A a \in Attempts : DueNext(a) => Due(a)
  BY <1>frame, <1>a DEF NoIntentMissed
<1>cancel. ASSUME NEW b \in Attempts, NEW o, CancelDurable(b, o)
           PROVE  \A a \in Attempts : attempt'[a] = "success" =>
                    attempt[a] = "success"
  BY <1>cancel, CancelEffect DEF Cancelled, StoreOK
<1>save. ASSUME NEW b \in Attempts, NEW s, NEW o, Save(b, s, o),
                s # "success"
         PROVE  \A a \in Attempts : attempt'[a] = "success" =>
                  attempt[a] = "success"
  BY <1>save, SaveEffect
<1>1. ASSUME NEW a \in Attempts,
             \/ AdmitCall(a) \/ Select(a) \/ Answer(a) \/ AcquireRun(a)
             \/ Reserve(a) \/ Enqueue(a) \/ AdmitFails(a) \/ CancelCall(a)
      PROVE  \A b \in Attempts : DueNext(b) => Covered(b)
  <2>1. /\ UNCHANGED <<attempt, intent, resume, tried, ends, wpc, active>>
        /\ phase' = phase
    BY <1>1
       DEF AdmitCall, Select, Answer, AcquireRun, Reserve, Enqueue,
           AdmitFails, AdmissionFrame, CancelCall, CancelFrame, durableVars,
           workerVars, startVars
  <2> QED
    BY <2>1, <1>b, <1>frame
<1>2. ASSUME NEW a \in Attempts, Confirm(a)
      PROVE  \A b \in Attempts : DueNext(b) => Covered(b)
  <2>1. /\ UNCHANGED <<attempt, resume, tried, ends, wpc, active>>
        /\ phase' = phase
    BY <1>2 DEF Confirm, AdmissionFrame, workerVars, startVars
  <2>2. \A b \in Attempts : attempt[b] = "success" => intent'[b] = intent[b]
    BY <1>2 DEF Confirm, StillActive, StoreOK, Active
  <2> QED
    BY <2>1, <2>2, <1>b, <1>frame
<1>3. ASSUME NEW a \in Attempts, Create(a)
      PROVE  \A b \in Attempts : DueNext(b) => Covered(b)
  <2>1. UNCHANGED <<resume, tried, ends, wpc, active>> /\ phase' = phase
    BY <1>3 DEF Create, AdmissionFrame, workerVars, startVars
  <2>2. \A b \in Attempts : DueNext(b) => Due(b)
    BY <1>3 DEF Create, StoreOK
  <2> QED
    BY <2>1, <2>2, <1>b, <1>frame
<1>4. ASSUME NEW a \in Attempts, Abandon(a) \/ CancelDurably(a)
      PROVE  \A b \in Attempts : DueNext(b) => Covered(b)
  <2>1. UNCHANGED <<intent, resume, tried, ends, wpc, active>>
        /\ phase' = phase
    BY <1>4 DEF Abandon, AdmissionFrame, CancelDurably, CancelFrame,
                workerVars, startVars
  <2>2. \A b \in Attempts : attempt'[b] = "success" => attempt[b] = "success"
    BY <1>4, <1>cancel DEF Abandon, CancelDurably
  <2> QED
    BY <2>1, <2>2, <1>b, <1>frame
<1>5. CASE WorkerDrain
  <2>1. /\ UNCHANGED <<intent, resume, tried, ends>> /\ phase' = phase
        /\ wpc = "drain"
    BY <1>5 DEF WorkerDrain, WorkerFrame, startVars
  <2>2. \A b \in Attempts : attempt'[b] = "success" => attempt[b] = "success"
    <3>1. wdrain # <<>> => Head(wdrain) \in Attempts
      BY HeadTailProperties DEF QueueOK
    <3> QED
      BY <1>5, <3>1, <1>cancel DEF WorkerDrain, NoSave
  <2> QED
    BY <2>1, <2>2, <1>b, <1>frame
<1>6. CASE ShutdownDrain \/ ShutdownActive
  <2>1. /\ UNCHANGED <<intent, resume, tried, ends, wpc, active>>
        /\ phase' = phase
    BY <1>6 DEF ShutdownDrain, ShutdownActive, ShutdownFrame, workerVars,
                startVars, historyVars
  <2>2. \A b \in Attempts : attempt'[b] = "success" => attempt[b] = "success"
    <3>1. sdrain # <<>> => Head(sdrain) \in Attempts
      BY HeadTailProperties DEF QueueOK
    <3> QED
      BY <1>6, <3>1, <1>cancel DEF ShutdownDrain, ShutdownActive, NoSave,
                                   QueueOK
  <2> QED
    BY <2>1, <2>2, <1>b, <1>frame
<1>7. ASSUME NEW a \in Attempts, Claim(a) \/ Settle(a) \/ FailIfActive(a)
      PROVE  \A b \in Attempts : DueNext(b) => Covered(b)
  <2>1. /\ UNCHANGED <<intent, resume, tried, ends>> /\ phase' = phase
        /\ wpc # "continue"
    BY <1>7 DEF Claim, Settle, FailIfActive, WorkerFrame, startVars
  <2>2. \A b \in Attempts : attempt'[b] = "success" => attempt[b] = "success"
    <3>1. Settled(a) # "success"
      BY DEF Settled
    <3> QED
      BY <1>7, <3>1, <1>save DEF Claim, Settle, FailIfActive, NoSave
  <2> QED
    BY <2>1, <2>2, <1>b, <1>frame
<1>8. ASSUME NEW a \in Attempts, Complete(a)
      PROVE  \A b \in Attempts : DueNext(b) => Covered(b)
  <2>1. /\ UNCHANGED <<intent, resume, tried, ends>> /\ phase' = phase
        /\ wpc # "continue"
    BY <1>8 DEF Complete, WorkerFrame, startVars
  <2>2. \A b \in Attempts : attempt'[b] = "success" => attempt[b] = "success"
    BY <1>8, <1>save DEF Complete
  <2> QED
    BY <2>1, <2>2, <1>b, <1>frame
<1>9. ASSUME NEW a \in Attempts, WriteTerminal(a)
      PROVE  \A b \in Attempts : DueNext(b) => Covered(b)
  <2>1. PICK o \in WriteOutcomes :
          /\ Save(a, result[a], o)
          /\ wpc' = IF o = "ok" THEN "continue" ELSE "fail"
    BY <1>9 DEF WriteTerminal
  <2>2. /\ UNCHANGED <<intent, resume, tried, ends, active>> /\ phase' = phase
        /\ wpc = "writing" /\ active = a
    BY <1>9 DEF WriteTerminal, QueueFrame, WorkerFrame, startVars
  <2>3. Covered(a)
    BY <2>1, <2>2, SaveEffect
  <2>4. \A b \in Attempts : b # a => attempt'[b] = attempt[b]
    BY <2>1, SaveEffect
  <2> QED
    BY <2>2, <2>3, <2>4, <1>a, <1>b DEF NoIntentMissed
<1>10. ASSUME NEW a \in Attempts, Continue(a)
       PROVE  \A b \in Attempts : DueNext(b) => Covered(b)
  <2>1. /\ UNCHANGED <<attempt, resume, ends, deferred>> /\ phase' = phase
        /\ active = a /\ Publish(a)
    BY <1>10 DEF Continue, WorkerFrame, startVars, faultVars
  <2>2. /\ tried \subseteq tried'
        /\ Due(a) => a \in tried'
        /\ \A b \in Attempts : b # a => intent'[b] = intent[b]
        /\ intent'[a] = "pending" => intent[a] = "pending"
    BY <2>1 DEF Publish, StoreOK
  <2> QED
    BY <2>1, <2>2, <1>b DEF NoIntentMissed
<1>11. ASSUME NEW a \in Attempts, ResumePublication(a)
       PROVE  \A b \in Attempts : DueNext(b) => Covered(b)
  <2>1. /\ UNCHANGED <<attempt, wpc, active, ends, deferred>> /\ phase = "up"
        /\ resume' = resume \ {a} /\ Publish(a)
    BY <1>11 DEF ResumePublication, StartFrame, workerVars, faultVars
  <2>2. /\ tried \subseteq tried'
        /\ Due(a) => a \in tried'
        /\ \A b \in Attempts : b # a => intent'[b] = intent[b]
        /\ intent'[a] = "pending" => intent[a] = "pending"
    BY <2>1 DEF Publish, StoreOK
  <2> QED
    BY <2>1, <2>2 DEF NoIntentMissed
<1>12. CASE Start
  <2>1. CASE blocked
    BY <1>12, <2>1 DEF Start
  <2>2. CASE ~ blocked
    BY <1>12, <2>2 DEF Start, StartFrame
  <2> QED
    BY <2>1, <2>2
<1>13. CASE \/ Exit \/ Crash \/ RecoverContainers
            \/ \E a \in Attempts : RecoverAttempt(a)
  <2>1. phase' # "up"
    BY <1>13 DEF Exit, Crash, Forget, RecoverContainers, RecoverAttempt
  <2> QED
    BY <2>1, <1>b
<1>14. CASE BeginShutdown \/ CloseSupervisor
  <2>1. /\ UNCHANGED <<attempt, intent, resume, tried, ends, wpc, active>>
        /\ phase' = phase
    BY <1>14 DEF BeginShutdown, CloseSupervisor, ShutdownFrame, workerVars,
                 startVars, historyVars
  <2> QED
    BY <2>1, <1>b, <1>frame
<1>15. CASE \/ Dequeue \/ WorkerExit \/ Finish
            \/ \E a \in Attempts :
                 \/ Register(a) \/ Prepare(a) \/ EnterLifecycle(a)
                 \/ PrepareLifecycle(a) \/ CreateContainer(a)
                 \/ ResolveDependencies(a) \/ CheckLifecycle(a)
                 \/ Cleanup(a) \/ Recheck(a)
  <2>1. /\ UNCHANGED <<attempt, intent, resume, tried, ends>>
        /\ phase' = phase /\ wpc # "continue"
    BY <1>15
       DEF Dequeue, WorkerExit, Finish, Register, Prepare, EnterLifecycle,
           PrepareLifecycle, CreateContainer, ResolveDependencies,
           CheckLifecycle, Cleanup, Recheck, WorkerFrame, durableVars,
           startVars
  <2> QED
    BY <2>1, <1>b, <1>frame
<1> QED
  BY <1>1, <1>2, <1>3, <1>4, <1>5, <1>6, <1>7, <1>8, <1>9, <1>10, <1>11,
     <1>12, <1>13, <1>14, <1>15
     DEF Next, Admission, Cancellation, WorkerStep, Shutdown, Startup

LEMMA IntentStep ==
    ASSUME IInv, IntentInv, Next
    PROVE  IntentInv'
<1>1. NoIntentMissed'
  BY MissedStep DEF IntentInv, IntentsKept
<1> QED
  BY <1>1, AnswerStep DEF IntentInv, IntentsKept, AnsweredIntentKept

-----------------------------------------------------------------------------
LEMMA DrainStep ==
    ASSUME IInv, DrainInv, Next
    PROVE  DrainInv'
<1> USE DEF IInv, TypeOK
<1> DEFINE NoResult == \A a \in Attempts : attempt'[a] = "absent" =>
                           result'[a] = "none"
<1>a. \A a \in Attempts : attempt'[a] = "absent" => attempt[a] = "absent"
  BY LifeIsKept DEF LifeStep, StoreOK, Active, Terminal
<1>b. UNCHANGED result => NoResult
  BY <1>a DEF DrainInv
<1>1. CASE \E a \in Attempts : Admission(a) \/ Cancellation(a)
  <2>1. UNCHANGED <<wpc, wdrain, spc, sdrain, stopping, supAccepting,
                    supBlocked, supActive, result>>
    BY <1>1
       DEF Admission, AdmitCall, Select, Confirm, Answer, AcquireRun,
           Reserve, Create, Enqueue, Abandon, AdmitFails, AdmissionFrame,
           Cancellation, CancelCall, CancelDurably, CancelFrame, workerVars,
           shutdownVars, gateVars, supVars, durableVars
  <2> QED
    BY <2>1, <1>b DEF DrainInv
<1>2. CASE Dequeue \/ WorkerExit \/ Finish \/ WorkerDrain
  <2>1. /\ UNCHANGED <<spc, sdrain, stopping, supAccepting, supBlocked,
                       supActive, result>>
        /\ wpc' # "drain" => wdrain' = <<>>
        /\ wpc' # "prepared"
    BY <1>2
       DEF Dequeue, WorkerExit, Finish, WorkerDrain, QueueFrame, WorkerFrame,
           shutdownVars, supVars, durableVars, DrainInv
  <2> QED
    BY <2>1, <1>b DEF DrainInv
<1>3. ASSUME NEW a \in Attempts,
             \/ Register(a) \/ Claim(a) \/ Prepare(a) \/ EnterLifecycle(a)
             \/ PrepareLifecycle(a) \/ CreateContainer(a)
             \/ ResolveDependencies(a) \/ CheckLifecycle(a)
             \/ Cleanup(a) \/ Recheck(a) \/ Continue(a) \/ FailIfActive(a)
      PROVE  DrainInv'
  <2>1. /\ UNCHANGED <<spc, sdrain, stopping, supAccepting, supBlocked,
                       result, wdrain>>
        /\ wpc' # "drain" /\ wpc # "drain"
        /\ wpc' = "prepared" => supActive' = {}
    BY <1>3
       DEF Register, Claim, Prepare, EnterLifecycle, PrepareLifecycle,
           CreateContainer, ResolveDependencies, CheckLifecycle, Cleanup,
           AfterCleanup, Recheck, Continue, FailIfActive, QueueFrame,
           WorkerFrame, shutdownVars, supVars, durableVars
  <2> QED
    BY <2>1, <1>b DEF DrainInv
<1>4. ASSUME NEW a \in Attempts, Settle(a) \/ WriteTerminal(a)
      PROVE  DrainInv'
  <2>1. /\ UNCHANGED <<spc, sdrain, stopping, result, wdrain>>
        /\ wpc' \in {"fail", "continue"} /\ wpc # "drain"
        /\ \/ supBlocked' \/ UNCHANGED <<supAccepting, supBlocked>>
    BY <1>4
       DEF Settle, WriteTerminal, BlockSupervisor, QueueFrame, WorkerFrame,
           shutdownVars
  <2> QED
    BY <2>1, <1>b DEF DrainInv
<1>5. ASSUME NEW a \in Attempts, Complete(a)
      PROVE  DrainInv'
  <2>1. /\ UNCHANGED <<spc, sdrain, stopping, wdrain>>
        /\ wpc' \in {"fail", "continue", "writing"} /\ wpc = "complete"
        /\ \/ supBlocked' \/ UNCHANGED <<supAccepting, supBlocked>>
        /\ active = a
    BY <1>5
       DEF Complete, BlockSupervisor, QueueFrame, WorkerFrame, shutdownVars
  <2>2. attempt[a] # "absent"
    BY <2>1 DEF WorkerInv, Executing
  <2>3. \A b \in Attempts : b # a => result'[b] = result[b]
    BY <1>5 DEF Complete, StoreOK
  <2>4. NoResult
    BY <2>2, <2>3, <1>a DEF DrainInv
  <2> QED
    BY <2>1, <2>4 DEF DrainInv
<1>6. CASE BeginShutdown \/ ShutdownDrain \/ ShutdownActive
           \/ CloseSupervisor
  <2>1. /\ UNCHANGED <<wpc, wdrain, supBlocked, supActive, result>>
        /\ spc' # "none" /\ stopping'
    BY <1>6
       DEF BeginShutdown, ShutdownDrain, ShutdownActive, CloseSupervisor,
           ShutdownFrame, workerVars, supVars, DrainInv
  <2> QED
    BY <2>1, <1>b DEF DrainInv
<1>7. CASE Exit \/ Crash
  <2>1. /\ wpc' = "idle" /\ wdrain' = <<>> /\ spc' = "none"
        /\ sdrain' = <<>> /\ supAccepting' /\ UNCHANGED result
    BY <1>7 DEF Exit, Crash, Forget, durableVars
  <2> QED
    BY <2>1, <1>b DEF DrainInv
<1>8. CASE Startup
  <2>1. UNCHANGED <<wpc, wdrain, spc, sdrain, stopping, supActive, result>>
    BY <1>8
       DEF Startup, RecoverContainers, Start, RecoverAttempt,
           ResumePublication, StartFrame, workerVars, shutdownVars
  <2>2. CASE Start
    <3>1. ~ supAccepting' => supBlocked'
      BY <2>2, Zenon DEF Start
    <3> QED
      BY <2>1, <3>1, <1>b DEF DrainInv
  <2>3. CASE UNCHANGED <<supAccepting, supBlocked>>
    BY <2>1, <2>3, <1>b DEF DrainInv
  <2> QED
    BY <1>8, <2>2, <2>3
       DEF Startup, RecoverContainers, RecoverAttempt, ResumePublication
<1> QED
  BY <1>1, <1>2, <1>3, <1>4, <1>5, <1>6, <1>7, <1>8
     DEF Next, WorkerStep, Shutdown

(* What taking from and adding to the queue does to its members.           *)
LEMMA TailMembers ==
    ASSUME NEW s \in Seq(Attempts), s # <<>>
    PROVE  ToSet(s) \subseteq {Head(s)} \cup ToSet(Tail(s))
<1>1. /\ Tail(s) \in Seq(Attempts) /\ Len(s) \in Nat /\ Len(s) > 0
      /\ Len(Tail(s)) = Len(s) - 1
      /\ \A i \in 1..Len(Tail(s)) : Tail(s)[i] = s[i + 1]
      /\ Head(s) = s[1]
  BY HeadTailProperties, EmptySeq
<1>2. DOMAIN s = 1..Len(s) /\ DOMAIN Tail(s) = 1..Len(Tail(s))
  BY <1>1
<1>3. ASSUME NEW i \in 1..Len(s), i # 1
      PROVE  \E j \in 1..Len(Tail(s)) : Tail(s)[j] = s[i]
  <2>1. i - 1 \in 1..Len(Tail(s)) /\ (i - 1) + 1 = i
    BY <1>1, <1>3
  <2>2. Tail(s)[i - 1] = s[(i - 1) + 1]
    BY <2>1, <1>1, Zenon
  <2> QED
    BY <2>1, <2>2, Zenon
<1>4. ASSUME NEW x \in ToSet(s)
      PROVE  x \in {Head(s)} \cup ToSet(Tail(s))
  <2>1. PICK i \in 1..Len(s) : x = s[i]
    BY <1>2 DEF ToSet
  <2>2. CASE i = 1
    BY <2>1, <2>2, <1>1
  <2>3. CASE i # 1
    BY <2>1, <2>3, <1>2, <1>3 DEF ToSet
  <2> QED
    BY <2>2, <2>3
<1> QED
  BY <1>4

LEMMA AppendMembers ==
    ASSUME NEW s \in Seq(Attempts), NEW a \in Attempts
    PROVE  ToSet(s) \cup {a} \subseteq ToSet(Append(s, a))
<1>1. /\ Append(s, a) \in Seq(Attempts) /\ Len(s) \in Nat
      /\ Len(Append(s, a)) = Len(s) + 1
      /\ \A i \in 1..Len(s) : Append(s, a)[i] = s[i]
      /\ Append(s, a)[Len(s) + 1] = a
  BY AppendProperties
<1>2. DOMAIN s = 1..Len(s) /\ DOMAIN Append(s, a) = 1..(Len(s) + 1)
  BY <1>1
<1> QED
  BY <1>1, <1>2 DEF ToSet

(* The requeue of a startup has every queued attempt.                      *)
LEMMA OrdersMembers ==
    ASSUME NEW S \in SUBSET Attempts, NEW q \in Orders(S)
    PROVE  ToSet(q) = S
<1>1. IsFiniteSet(S)
  BY ConstantsAssumption, FS_Subset
<1>2. Cardinality(S) \in Nat
  BY <1>1, FS_CardinalityType
<1>3. q \in Injection(1..Cardinality(S), S)
  BY DEF Orders, Injection
<1>4. Cardinality(1..Cardinality(S)) = Cardinality(S)
  BY <1>2, FS_Interval
<1>5. q \in Surjection(1..Cardinality(S), S)
  BY <1>1, <1>3, <1>4, FS_Injection, Zenon
<1> QED
  BY <1>5 DEF Surjection, ToSet

(* Whoever is not written, and keeps whoever takes care of it, is kept.    *)
LEMMA KeptFrame ==
    ASSUME NEW a \in Attempts, Kept(a), deferred \subseteq deferred',
           attempt'[a] = attempt[a], result'[a] = result[a],
           Waiting(a) => Waiting(a)', Served(a) => Served(a)',
           Given(a) => Given(a)',
           (active = a /\ wpc = "writing") => (active' = a /\ wpc' = "writing")
    PROVE  Kept(a)'
<1>1. Unreadable(a)' <=> Unreadable(a)
  BY DEF Unreadable
<1> QED
  BY <1>1 DEF Kept

(* A durable cancellation ends a queued attempt, leaves a running one to   *)
(* the worker, and keeps one it cannot read or write for the next startup. *)
LEMMA KeptCancel ==
    ASSUME NEW a \in Attempts, NEW o, StoreOK, CancelDurable(a, o), Kept(a),
           deferred \subseteq deferred', UNCHANGED result,
           Served(a) => Given(a)', Given(a) => Given(a)'
    PROVE  Kept(a)'
<1>1. CASE a \in deferred'
  BY <1>1 DEF Kept
<1>2. CASE a \notin deferred'
  <2>1. ~ Unreadable(a)
    BY <1>2 DEF CancelDurable, PathFree, Kept
  <2>2. attempt'[a] = Cancelled(a)
    BY <1>2, <2>1, CancelEffect
  <2>3. /\ attempt[a] = "running" => Served(a)
        /\ attempt[a] = "cancelling" => Given(a)
    BY <1>2 DEF Kept
  <2>4. attempt[a] \notin Terminal => result[a] = "none"
    BY <2>1 DEF Unreadable
  <2>5. attempt[a] \in Terminal => attempt'[a] \in Terminal
    BY <2>2 DEF Cancelled, Terminal
  <2>6. ~ Unreadable(a)'
    BY <2>4, <2>5 DEF Unreadable
  <2>7. attempt'[a] \notin {"queued", "running"}
    BY <2>2 DEF Cancelled
  <2>8. attempt'[a] = "cancelling" => attempt[a] \in {"running", "cancelling"}
    BY <2>2 DEF Cancelled
  <2> QED
    BY <2>3, <2>6, <2>7, <2>8 DEF Kept
<1> QED
  BY <1>1, <1>2

(* A written attempt is kept when the write is done or remembered.         *)
LEMMA KeptSave ==
    ASSUME NEW a \in Attempts, NEW s, NEW o, StoreOK, Save(a, s, o),
           o = "ok" =>
             \/ s \in Terminal
             \/ /\ s = "running" /\ Served(a)' /\ result'[a] = "none"
             \/ /\ s = "cancelling" /\ Given(a)' /\ result'[a] = "none"
    PROVE  Kept(a)'
<1>1. CASE o # "ok"
  BY <1>1, SaveEffect DEF Kept
<1>2. CASE o = "ok"
  <2>1. attempt'[a] = s
    BY <1>2, SaveEffect
  <2> QED
    BY <1>2, <2>1 DEF Kept, Unreadable, Terminal
<1> QED
  BY <1>1, <1>2

(* The threads of admission and cancellation lose no attempt.              *)
LEMMA OwnAdmission ==
    ASSUME IInv, DrainInv, Next, UNCHANGED ends,
           \A c \in Attempts : Kept(c),
           NEW a \in Attempts, Admission(a) \/ Cancellation(a)
    PROVE  \A c \in Attempts : Kept(c)'
<1> USE DEF IInv, TypeOK
<1>a. deferred \subseteq deferred'
  BY DeferredGrows
<1>b. UNCHANGED <<result, active, wpc, stopping, blocked, supBlocked, wdrain,
                  sdrain>>
  BY DEF Admission, AdmitCall, Select, Confirm, Answer, AcquireRun,
         Reserve, Create, Enqueue, Abandon, AdmitFails, AdmissionFrame,
         Cancellation, CancelCall, CancelDurably, CancelFrame, workerVars,
         shutdownVars, gateVars, supVars, durableVars
<1>c. \A c \in Attempts : /\ Served(c) => Served(c)'
                          /\ Given(c) => Given(c)'
                          /\ Served(c) => Given(c)'
  BY <1>b DEF Served, Given
<1>d. /\ adm \in [Attempts -> {"idle", "select", "confirm", "answer", "lock",
                               "reserve", "create", "enqueue", "abandon",
                               "done"}]
      /\ cpc \in [Attempts -> {"idle", "durable"}]
      /\ attempt \in [Attempts -> {"absent"} \cup Active \cup Terminal]
  BY DEF ControlOK, StoreOK
<1>frame. ASSUME NEW c \in Attempts, attempt'[c] = attempt[c],
                 Waiting(c) => Waiting(c)'
          PROVE  Kept(c)'
  BY <1>frame, <1>a, <1>b, <1>c, KeptFrame
<1>1. CASE \/ AdmitCall(a) \/ Select(a) \/ Confirm(a) \/ Answer(a)
           \/ AcquireRun(a) \/ Reserve(a) \/ AdmitFails(a)
  <2>1. /\ UNCHANGED <<attempt, queue, cpc>>
        /\ \A c \in Attempts : adm[c] \in {"enqueue", "abandon"} =>
              adm'[c] = adm[c]
    BY <1>1, <1>d
       DEF AdmitCall, Select, Confirm, Answer, AcquireRun, Reserve,
           AdmitFails, AdmissionFrame, durableVars, queueVars, cancelVars
  <2> QED
    BY <2>1, <1>b, <1>frame DEF Waiting
<1>2. CASE Create(a)
  <2>1. /\ UNCHANGED <<queue, cpc>> /\ adm'[a] = "enqueue"
        /\ attempt'[a] = "queued" /\ attempt[a] = "absent"
        /\ \A c \in Attempts : c # a =>
              adm'[c] = adm[c] /\ attempt'[c] = attempt[c]
    BY <1>2, <1>d
       DEF Create, AdmissionFrame, LeaseInv, queueVars, cancelVars
  <2>2. Kept(a)'
    BY <2>1, <1>b DEF DrainInv, Kept, Waiting, Unreadable
  <2> QED
    BY <2>1, <2>2, <1>b, <1>frame DEF Waiting
<1>3. CASE Enqueue(a)
  <2>1. /\ UNCHANGED <<attempt, cpc>>
        /\ \A c \in Attempts : c # a => adm'[c] = adm[c]
        /\ \/ queue' = Append(queue, a)
           \/ queue' = queue /\ adm'[a] = "abandon"
    BY <1>3, <1>d
       DEF Enqueue, WhenClosed, AdmissionFrame, durableVars, cancelVars
  <2>2. /\ ToSet(queue) \subseteq ToSet(queue')
        /\ a \in ToSet(queue') \/ adm'[a] = "abandon"
    BY <2>1, AppendMembers DEF QueueOK
  <2> QED
    BY <2>1, <2>2, <1>b, <1>frame DEF Waiting
<1>4. CASE Abandon(a)
  <2>1. /\ UNCHANGED <<queue, cpc>>
        /\ \A c \in Attempts : c # a => adm'[c] = adm[c]
    BY <1>4, <1>d DEF Abandon, AdmissionFrame, queueVars, cancelVars
  <2>2. PICK o \in CancelOutcomes : CancelDurable(a, o)
    BY <1>4 DEF Abandon
  <2>3. Kept(a)'
    BY <2>2, <1>a, <1>b, <1>c, KeptCancel
  <2>4. \A c \in Attempts : c # a => attempt'[c] = attempt[c]
    BY <2>2, CancelEffect
  <2> QED
    BY <2>1, <2>3, <2>4, <1>b, <1>frame DEF Waiting
<1>5. CASE CancelCall(a)
  <2>1. /\ UNCHANGED <<attempt, adm>> /\ cpc'[a] = "durable"
        /\ \A c \in Attempts : c # a => cpc'[c] = cpc[c]
        /\ ToSet(queue) \subseteq ToSet(queue') \cup {a}
    BY <1>5, <1>d, WithoutType DEF CancelCall, CancelFrame, admVars, QueueOK
  <2> QED
    BY <2>1, <1>b, <1>frame DEF Waiting
<1>6. CASE CancelDurably(a)
  <2>1. /\ UNCHANGED <<queue, adm>>
        /\ \A c \in Attempts : c # a => cpc'[c] = cpc[c]
    BY <1>6, <1>d DEF CancelDurably, CancelFrame, admVars
  <2>2. PICK o \in CancelOutcomes : CancelDurable(a, o)
    BY <1>6 DEF CancelDurably
  <2>3. Kept(a)'
    BY <2>2, <1>a, <1>b, <1>c, KeptCancel
  <2>4. \A c \in Attempts : c # a => attempt'[c] = attempt[c]
    BY <2>2, CancelEffect
  <2> QED
    BY <2>1, <2>3, <2>4, <1>b, <1>frame DEF Waiting
<1> QED
  BY <1>1, <1>2, <1>3, <1>4, <1>5, <1>6 DEF Admission, Cancellation

(* The worker ends, or hands on, every attempt it takes.                   *)
LEMMA OwnWorker ==
    ASSUME IInv, DrainInv, Next, UNCHANGED ends,
           \A c \in Attempts : Kept(c), WorkerStep
    PROVE  \A c \in Attempts : Kept(c)'
<1> USE DEF IInv, TypeOK
<1>a. deferred \subseteq deferred'
  BY DeferredGrows
<1>b. UNCHANGED <<adm, cpc, stopping, sdrain>>
  BY DEF WorkerStep, Dequeue, WorkerExit, Finish, WorkerDrain, Register,
         Claim, Prepare, EnterLifecycle, PrepareLifecycle, CreateContainer,
         ResolveDependencies, CheckLifecycle, Cleanup, Recheck, Settle,
         Complete, WriteTerminal, Continue, FailIfActive, WorkerFrame,
         admVars, cancelVars, shutdownVars
<1>c. /\ wpc \in {"idle", "stopped"} <=> active = NoAttempt
      /\ NoAttempt \notin Attempts
  BY ConstantsAssumption DEF WorkerInv, Unused
<1>frame. ASSUME NEW c \in Attempts, attempt'[c] = attempt[c],
                 result'[c] = result[c], active # c,
                 blocked => blocked', ToSet(queue) \cup ToSet(wdrain) \subseteq
                   ToSet(queue') \cup ToSet(wdrain') \cup
                   {d \in Attempts : Waiting(d)'}
          PROVE  Kept(c)'
  <2>1. Waiting(c) => Waiting(c)'
    BY <1>frame, <1>b DEF Waiting
  <2>2. /\ Served(c) => Served(c)'
        /\ Given(c) => Given(c)'
    BY <1>frame, <1>b DEF Served, Given
  <2> QED
    BY <2>1, <2>2, <1>frame, <1>a, KeptFrame
<1>own. ASSUME NEW a \in Attempts, active = a, Kept(a)',
               \A c \in Attempts : c # a => attempt'[c] = attempt[c],
               \A c \in Attempts : c # a => result'[c] = result[c],
               QueueFrame
        PROVE  \A c \in Attempts : Kept(c)'
  BY <1>own, <1>frame DEF QueueFrame
<1>1. CASE Dequeue
  <2>1. /\ UNCHANGED <<attempt, result, wdrain, blocked>>
        /\ active' = Head(queue) /\ queue' = Tail(queue) /\ wpc' = "begin"
        /\ active = NoAttempt /\ queue # <<>>
    BY <1>1, <1>c DEF Dequeue, durableVars
  <2>2. PICK h \in Attempts : /\ h = Head(queue)
                              /\ ToSet(queue) \subseteq {h} \cup ToSet(queue')
    BY <2>1, TailMembers, HeadTailProperties DEF QueueOK
  <2>3. Waiting(h)'
    BY <2>1, <2>2 DEF Waiting
  <2> QED
    BY <2>1, <2>2, <2>3, <1>c, <1>frame
<1>2. CASE WorkerExit
  <2>1. /\ UNCHANGED <<attempt, result, wdrain, blocked, queue, active>>
        /\ active = NoAttempt
    BY <1>2, <1>c DEF WorkerExit, QueueFrame, durableVars
  <2> QED
    BY <2>1, <1>c, <1>frame
<1>3. CASE Finish
  <2>1. UNCHANGED <<attempt, result>> /\ wpc = "finish" /\ wdrain = <<>>
    BY <1>3 DEF Finish, durableVars, DrainInv
  <2>2. CASE supBlocked
    <3>1. /\ blocked' /\ wdrain' = queue /\ ToSet(wdrain) = {}
          /\ UNCHANGED active
      BY <1>3, <2>1, <2>2 DEF Finish, BehindBlock, ToSet
    <3>2. \A c \in Attempts : /\ Waiting(c) => Waiting(c)'
                              /\ ~ Served(c)
                              /\ Given(c)'
      BY <2>1, <3>1, <1>b DEF Waiting, Served, Given, Executing
    <3> QED
      BY <2>1, <3>2, <1>a, KeptFrame
  <2>3. CASE ~ supBlocked
    <3>1. UNCHANGED <<blocked, wdrain, queue>>
      BY <1>3, <2>3 DEF Finish
    <3>2. \A c \in Attempts : /\ Waiting(c) => Waiting(c)'
                              /\ ~ Served(c)
                              /\ Given(c) => Given(c)'
      BY <2>1, <2>3, <3>1, <1>b DEF Waiting, Served, Given, Executing
    <3> QED
      BY <2>1, <3>2, <1>a, KeptFrame
  <2> QED
    BY <2>2, <2>3
<1>4. CASE WorkerDrain
  <2>1. /\ UNCHANGED <<result, blocked, queue, supBlocked>> /\ wpc = "drain"
    BY <1>4 DEF WorkerDrain, supVars
  <2>2. \A c \in Attempts : /\ ~ Served(c)
                            /\ Given(c) => Given(c)'
    BY <2>1, <1>b DEF Served, Given, Executing
  <2>3. CASE wdrain = <<>>
    <3>1. UNCHANGED <<attempt, wdrain>>
      BY <1>4, <2>3 DEF WorkerDrain, NoSave
    <3>2. \A c \in Attempts : Waiting(c) => Waiting(c)'
      BY <2>1, <3>1, <1>b DEF Waiting
    <3> QED
      BY <2>1, <2>2, <3>1, <3>2, <1>a, KeptFrame
  <2>4. CASE wdrain # <<>>
    <3>1. PICK h \in Attempts :
            /\ h = Head(wdrain) /\ wdrain' = Tail(wdrain)
            /\ ToSet(wdrain) \subseteq {h} \cup ToSet(wdrain')
      BY <1>4, <2>4, TailMembers, HeadTailProperties DEF WorkerDrain, QueueOK
    <3>2. PICK o \in CancelOutcomes : CancelDurable(h, o)
      BY <1>4, <2>4, <3>1 DEF WorkerDrain
    <3>3. Kept(h)'
      BY <2>1, <2>2, <3>1, <3>2, <1>a, KeptCancel
    <3>4. ASSUME NEW c \in Attempts, c # h
          PROVE  Kept(c)'
      <4>1. attempt'[c] = attempt[c]
        BY <3>1, <3>2, <3>4, CancelEffect
      <4>2. Waiting(c) => Waiting(c)'
        BY <2>1, <3>1, <3>4, <1>b DEF Waiting
      <4> QED
        BY <2>1, <2>2, <4>1, <4>2, <1>a, KeptFrame
    <3> QED
      BY <3>3, <3>4
  <2> QED
    BY <2>3, <2>4
<1>5. ASSUME NEW a \in Attempts, Register(a)
      PROVE  \A c \in Attempts : Kept(c)'
  <2>1. /\ UNCHANGED <<attempt, result, supBlocked, active, blocked, queue,
                       wdrain>>
        /\ active = a /\ QueueFrame
        /\ \/ wpc = "begin" /\ wpc' \in {"claim", "fail"}
           \/ wpc = "prepared" /\ wpc' = "enter"
           \/ wpc = "prepared" /\ wpc' = "fail" /\ (stopping \/ supBlocked)
    BY <1>5 DEF Register, QueueFrame, durableVars, DrainInv
  <2>2. /\ Waiting(a) => Waiting(a)'
        /\ Served(a) => Served(a)'
        /\ Given(a) => Given(a)'
    BY <2>1, <1>b DEF Waiting, Served, Given, Executing
  <2>3. Kept(a)'
    BY <2>1, <2>2, <1>a, KeptFrame
  <2> QED
    BY <2>1, <2>3, <1>own
<1>6. ASSUME NEW a \in Attempts, Claim(a)
      PROVE  \A c \in Attempts : Kept(c)'
  <2>1. /\ UNCHANGED <<result, active>> /\ QueueFrame
        /\ wpc = "claim" /\ active = a
    BY <1>6 DEF Claim, QueueFrame
  <2>2. CASE NoSave /\ ~ Claimable(a) /\ wpc' = "settle"
    <3>1. Served(a)' /\ Given(a)'
      BY <2>1, <2>2 DEF Served, Given
    <3>2. Kept(a)'
      BY <2>1, <2>2, <3>1, <1>a
         DEF Kept, Claimable, Unreadable, NoSave
    <3> QED
      BY <2>1, <2>2, <3>2, <1>own DEF NoSave
  <2>3. ASSUME NEW o, Claimable(a), Save(a, "running", o),
               o = "ok" => wpc' = "prepare"
        PROVE  \A c \in Attempts : Kept(c)'
    <3>1. o = "ok" => Served(a)'
      BY <2>1, <2>3 DEF Served, Executing
    <3>2. a \in deferred \/ result[a] = "none"
      BY <2>1, <2>3 DEF Kept, Claimable, Unreadable, Terminal
    <3>3. Kept(a)'
      <4>1. CASE a \in deferred
        BY <4>1, <1>a DEF Kept
      <4>2. CASE result[a] = "none"
        BY <2>1, <2>3, <3>1, <4>2, KeptSave
      <4> QED
        BY <3>2, <4>1, <4>2
    <3>4. \A c \in Attempts : c # a => attempt'[c] = attempt[c]
      BY <2>3, SaveEffect
    <3> QED
      BY <2>1, <3>3, <3>4, <1>own
  <2> QED
    BY <1>6, <2>2, <2>3 DEF Claim
<1>7. ASSUME NEW a \in Attempts,
             \/ Prepare(a) \/ EnterLifecycle(a) \/ PrepareLifecycle(a)
             \/ CreateContainer(a) \/ ResolveDependencies(a)
             \/ CheckLifecycle(a) \/ Cleanup(a) \/ Recheck(a)
      PROVE  \A c \in Attempts : Kept(c)'
  <2>1. /\ UNCHANGED <<attempt, result, supBlocked, active>> /\ QueueFrame
        /\ active = a /\ wpc \in Executing \ {"writing"}
        /\ wpc' \in Executing \cup {"settle"}
    BY <1>7
       DEF Prepare, EnterLifecycle, PrepareLifecycle, CreateContainer,
           ResolveDependencies, CheckLifecycle, Cleanup, AfterCleanup,
           Recheck, QueueFrame, durableVars, supVars, Executing
  <2>2. /\ Waiting(a) => Waiting(a)'
        /\ Served(a) => Served(a)'
        /\ Given(a) => Given(a)'
    BY <2>1, <1>b DEF Waiting, Served, Given, Executing, QueueFrame
  <2>3. Kept(a)'
    BY <2>1, <2>2, <1>a, KeptFrame
  <2> QED
    BY <2>1, <2>3, <1>own
<1>8. ASSUME NEW a \in Attempts, Settle(a)
      PROVE  \A c \in Attempts : Kept(c)'
  <2>1. /\ UNCHANGED <<result, active>> /\ QueueFrame
        /\ wpc = "settle" /\ active = a /\ wpc' = "fail"
    BY <1>8 DEF Settle, QueueFrame
  <2>2. CASE NoSave /\ attempt[a] \notin Active
    <3>1. Kept(a)'
      BY <2>1, <2>2, <1>a DEF Kept, Unreadable, NoSave, Active
    <3> QED
      BY <2>1, <2>2, <3>1, <1>own DEF NoSave
  <2>3. ASSUME NEW o, attempt[a] \in Active, Save(a, Settled(a), o),
               (outcome = "unresolved" /\ o = "ok") => supBlocked'
        PROVE  \A c \in Attempts : Kept(c)'
    <3>1. CASE a \in deferred
      BY <3>1, <2>1, <2>3, <1>a, <1>own, SaveEffect DEF Kept
    <3>2. CASE a \notin deferred
      <4>1. result[a] = "none"
        BY <3>2, <2>1, <2>3 DEF Kept, Unreadable, Active, Terminal
      <4>2. o = "ok" => \/ Settled(a) \in Terminal
                        \/ Settled(a) = "cancelling" /\ Given(a)'
        BY <2>1, <2>3 DEF Settled, Terminal, Given
      <4>3. Kept(a)'
        BY <2>1, <2>3, <4>1, <4>2, KeptSave
      <4> QED
        BY <2>1, <2>3, <4>3, <1>own, SaveEffect
    <3> QED
      BY <3>1, <3>2
  <2> QED
    BY <1>8, <2>2, <2>3 DEF Settle, BlockSupervisor
<1>9. ASSUME NEW a \in Attempts, Complete(a)
      PROVE  \A c \in Attempts : Kept(c)'
  <2>1. /\ UNCHANGED active /\ QueueFrame /\ wpc = "complete" /\ active = a
        /\ attempt[a] \in {"running", "cancelling"}
        /\ a \in deferred \/ result[a] = "none"
    BY <1>9 DEF Complete, QueueFrame, WorkerInv, Executing, Kept, Unreadable,
                Terminal
  <2>2. ASSUME NEW o, Save(a, "cancelling", o), UNCHANGED result, supBlocked',
               wpc' = IF o = "ok" THEN "continue" ELSE "fail"
        PROVE  \A c \in Attempts : Kept(c)'
    <3>1. Given(a)'
      BY <2>1, <2>2 DEF Given
    <3>2. Kept(a)'
      <4>1. CASE a \in deferred
        BY <4>1, <1>a DEF Kept
      <4>2. CASE result[a] = "none"
        BY <2>2, <3>1, <4>2, KeptSave
      <4> QED
        BY <2>1, <4>1, <4>2
    <3> QED
      BY <2>1, <2>2, <3>2, <1>own, SaveEffect
  <2>3. ASSUME NEW o, UNCHANGED attempt,
               o = "ok" => wpc' = "writing",
               o # "ok" => a \in deferred',
               \A c \in Attempts : c # a => result'[c] = result[c]
        PROVE  \A c \in Attempts : Kept(c)'
    <3>1. CASE o = "ok"
      <4>1. Served(a)' /\ Given(a)'
        BY <2>1, <2>3, <3>1 DEF Served, Given, Executing
      <4>2. Kept(a)'
        BY <2>1, <2>3, <3>1, <4>1 DEF Kept
      <4> QED
        BY <2>1, <2>3, <4>2, <1>own
    <3>2. CASE o # "ok"
      <4>1. Kept(a)'
        BY <2>3, <3>2 DEF Kept
      <4> QED
        BY <2>1, <2>3, <4>1, <1>own
    <3> QED
      BY <3>1, <3>2
  <2>4. CASE outcome = "unresolved"
    BY <1>9, <2>2, <2>4 DEF Complete, BlockSupervisor
  <2>5. CASE outcome # "unresolved"
    BY <1>9, <2>3, <2>5 DEF Complete, StoreOK
  <2> QED
    BY <2>4, <2>5
<1>10. ASSUME NEW a \in Attempts, WriteTerminal(a)
       PROVE  \A c \in Attempts : Kept(c)'
  <2>1. /\ UNCHANGED result /\ QueueFrame /\ active = a
        /\ result[a] \in Terminal
    BY <1>10 DEF WriteTerminal, WorkerInv
  <2>2. PICK o \in WriteOutcomes : Save(a, result[a], o)
    BY <1>10 DEF WriteTerminal
  <2>3. Kept(a)'
    BY <2>1, <2>2, KeptSave
  <2> QED
    BY <2>1, <2>2, <2>3, <1>own, SaveEffect
<1>11. ASSUME NEW a \in Attempts, Continue(a)
       PROVE  \A c \in Attempts : Kept(c)'
  <2>1. /\ UNCHANGED <<attempt, result, supBlocked, active>> /\ QueueFrame
        /\ active = a /\ wpc = "continue" /\ wpc' = "finish"
    BY <1>11 DEF Continue, QueueFrame, supVars
  <2>2. /\ Waiting(a) => Waiting(a)'
        /\ ~ Served(a)
        /\ Given(a) => Given(a)'
    BY <2>1, <1>b DEF Waiting, Served, Given, Executing, QueueFrame
  <2>3. Kept(a)'
    BY <2>1, <2>2, <1>a, KeptFrame
  <2> QED
    BY <2>1, <2>3, <1>own
<1>12. ASSUME NEW a \in Attempts, FailIfActive(a)
       PROVE  \A c \in Attempts : Kept(c)'
  <2>1. /\ UNCHANGED <<result, supBlocked, active>> /\ QueueFrame
        /\ active = a /\ wpc = "fail" /\ wpc' = "finish"
    BY <1>12 DEF FailIfActive, QueueFrame, supVars
  <2>2. ASSUME NEW o, Save(a, "failed", o)
        PROVE  \A c \in Attempts : Kept(c)'
    <3>1. Kept(a)'
      BY <2>2, KeptSave DEF Terminal
    <3> QED
      BY <2>1, <2>2, <3>1, <1>own, SaveEffect
  <2>3. CASE NoSave /\ (Unreadable(a) \/ attempt[a] \notin Failable)
    <3>1. Given(a) => Given(a)'
      BY <2>1, <1>b DEF Given, Executing, QueueFrame
    <3>2. Kept(a)'
      BY <2>1, <2>3, <3>1, <1>a DEF Kept, Unreadable, NoSave, Failable
    <3> QED
      BY <2>1, <2>3, <3>2, <1>own DEF NoSave
  <2> QED
    BY <1>12, <2>2, <2>3 DEF FailIfActive
<1> QED
  BY <1>1, <1>2, <1>3, <1>4, <1>5, <1>6, <1>7, <1>8, <1>9, <1>10, <1>11,
     <1>12 DEF WorkerStep

(* A shutdown cancels what it takes from the queue.                        *)
LEMMA OwnShutdown ==
    ASSUME IInv, DrainInv, Next, UNCHANGED ends,
           \A c \in Attempts : Kept(c),
           \/ BeginShutdown \/ ShutdownDrain \/ ShutdownActive
           \/ CloseSupervisor
    PROVE  \A c \in Attempts : Kept(c)'
<1> USE DEF IInv, TypeOK
<1>a. deferred \subseteq deferred'
  BY DeferredGrows
<1>b. /\ UNCHANGED <<result, active, wpc, wdrain, adm, cpc, blocked,
                     supBlocked>>
      /\ stopping'
  BY DEF BeginShutdown, ShutdownDrain, ShutdownActive, CloseSupervisor,
         ShutdownFrame, workerVars, admVars, cancelVars, supVars, DrainInv
<1>c. \A c \in Attempts : /\ Served(c) => Served(c)'
                          /\ Given(c)'
  BY <1>b DEF Served, Given
<1>frame. ASSUME NEW c \in Attempts, attempt'[c] = attempt[c],
                 Waiting(c) => Waiting(c)'
          PROVE  Kept(c)'
  BY <1>frame, <1>a, <1>b, <1>c, KeptFrame
<1>1. CASE BeginShutdown
  <2>1. /\ UNCHANGED attempt /\ sdrain' = queue /\ sdrain = <<>>
        /\ ToSet(sdrain) = {}
    BY <1>1 DEF BeginShutdown, DrainInv, ToSet
  <2> QED
    BY <2>1, <1>b, <1>frame DEF Waiting
<1>2. CASE ShutdownDrain
  <2>1. PICK h \in Attempts :
          /\ h = Head(sdrain) /\ UNCHANGED queue
          /\ ToSet(sdrain) \subseteq {h} \cup ToSet(sdrain')
    BY <1>2, TailMembers, HeadTailProperties DEF ShutdownDrain, QueueOK
  <2>2. PICK o \in CancelOutcomes : CancelDurable(h, o)
    BY <1>2, <2>1 DEF ShutdownDrain
  <2>3. Kept(h)'
    BY <2>1, <2>2, <1>a, <1>b, <1>c, KeptCancel
  <2>4. \A c \in Attempts : c # h => attempt'[c] = attempt[c]
    BY <2>1, <2>2, CancelEffect
  <2> QED
    BY <2>1, <2>3, <2>4, <1>b, <1>frame DEF Waiting
<1>3. CASE ShutdownActive
  <2>1. UNCHANGED <<queue, sdrain>>
    BY <1>3 DEF ShutdownActive
  <2>2. CASE UNCHANGED attempt
    BY <2>1, <2>2, <1>b, <1>frame DEF Waiting
  <2>3. ASSUME sactive \in Attempts, NEW o, CancelDurable(sactive, o)
        PROVE  \A c \in Attempts : Kept(c)'
    <3>1. PICK h \in Attempts : h = sactive
      BY <2>3
    <3>2. Kept(h)'
      BY <2>3, <3>1, <1>a, <1>b, <1>c, KeptCancel
    <3>3. \A c \in Attempts : c # h => attempt'[c] = attempt[c]
      BY <2>3, <3>1, CancelEffect
    <3> QED
      BY <2>1, <3>2, <3>3, <1>b, <1>frame DEF Waiting
  <2> QED
    BY <1>3, <2>2, <2>3 DEF ShutdownActive, NoSave, QueueOK
<1>4. CASE CloseSupervisor
  <2>1. UNCHANGED <<attempt, queue, sdrain>>
    BY <1>4 DEF CloseSupervisor
  <2> QED
    BY <2>1, <1>b, <1>frame DEF Waiting
<1> QED
  BY <1>1, <1>2, <1>3, <1>4

LEMMA OwnStep ==
    ASSUME IInv, DrainInv, OwnInv, Next
    PROVE  OwnInv'
<1> USE DEF IInv, TypeOK
<1>1. CASE \/ \E a \in Attempts : Admission(a) \/ Cancellation(a)
           \/ WorkerStep \/ BeginShutdown \/ ShutdownDrain
           \/ ShutdownActive \/ CloseSupervisor
  <2>1. phase = "up" /\ phase' = "up"
    BY <1>1, Serving DEF startVars
  <2>2. UNCHANGED ends
    BY <1>1
       DEF Admission, AdmitCall, Select, Confirm, Answer, AcquireRun,
           Reserve, Create, Enqueue, Abandon, AdmitFails, AdmissionFrame,
           Cancellation, CancelCall, CancelDurably, CancelFrame,
           WorkerStep, Dequeue, WorkerExit, Finish, WorkerDrain, Register,
           Claim, Prepare, EnterLifecycle, PrepareLifecycle, CreateContainer,
           ResolveDependencies, CheckLifecycle, Cleanup, Recheck, Settle,
           Complete, WriteTerminal, Continue, FailIfActive, WorkerFrame,
           BeginShutdown, ShutdownDrain, ShutdownActive, CloseSupervisor,
           ShutdownFrame
  <2>3. \A c \in Attempts : Kept(c)'
    BY <1>1, <2>1, <2>2, OwnAdmission, OwnWorker, OwnShutdown DEF OwnInv
  <2> QED
    BY <2>1, <2>3 DEF OwnInv
<1>2. CASE Exit \/ Crash
  <2>1. phase' = "down"
    BY <1>2 DEF Exit, Crash, Forget
  <2> QED
    BY <2>1 DEF OwnInv
<1>3. CASE RecoverContainers
  <2>1. /\ phase' = "recovering" /\ UNCHANGED <<attempt, result>>
        /\ todo' = {a \in Attempts : attempt[a] # "absent"}
    BY <1>3 DEF RecoverContainers, StartFrame
  <2>2. \A a \in Attempts \ todo' : attempt'[a] = "absent" /\ result'[a] = "none"
    BY <2>1 DEF DrainInv
  <2> QED
    BY <2>1, <2>2 DEF OwnInv, Unreadable
<1>4. CASE Start
  <2>1. /\ phase = "recovering" /\ phase' = "up" /\ todo = {}
        /\ UNCHANGED <<attempt, result>>
    BY <1>4 DEF Start, StartFrame
  <2>2. CASE blocked
    BY <1>4, <2>1, <2>2 DEF Start, OwnInv, Kept
  <2>3. CASE ~ blocked
    <3> DEFINE S == {a \in Attempts : attempt[a] = "queued"}
    <3>1. ToSet(queue') = S
      BY <1>4, <2>3, OrdersMembers DEF Start
    <3>2. \A a \in Attempts : /\ attempt[a] \notin {"running", "cancelling"}
                              /\ ~ Unreadable(a)
      BY <2>1, <2>3 DEF OwnInv
    <3>3. \A a \in Attempts : attempt[a] = "queued" => Waiting(a)'
      BY <3>1 DEF Waiting
    <3>4. \A a \in Attempts : Unreadable(a)' <=> Unreadable(a)
      BY <2>1 DEF Unreadable
    <3> QED
      BY <2>1, <3>2, <3>3, <3>4 DEF OwnInv, Kept
  <2> QED
    BY <2>2, <2>3
<1>5. ASSUME NEW a \in Attempts, RecoverAttempt(a)
      PROVE  OwnInv'
  <2>1. /\ phase' = "recovering" /\ phase = "recovering"
        /\ todo' = todo \ {a} /\ UNCHANGED result
    BY <1>5 DEF RecoverAttempt, StartFrame
  <2>2. blocked => blocked'
    BY <1>5 DEF RecoverAttempt
  <2>3. \A c \in Attempts : c # a => attempt'[c] = attempt[c]
    BY <1>5, SaveEffect DEF RecoverAttempt, NoSave
  <2>4. ~ blocked' => attempt'[a] \notin {"running", "cancelling"}
                      /\ ~ Unreadable(a)'
    <3>1. CASE /\ UNCHANGED attempt /\ ~ Unreadable(a)
               /\ attempt[a] \notin {"running", "cancelling"}
      BY <2>1, <3>1 DEF Unreadable
    <3>2. ASSUME NEW o, Save(a, IF attempt[a] = "cancelling" THEN "cancelled"
                                ELSE "failed", o),
                 blocked' = (blocked \/ o # "ok"), ~ blocked'
          PROVE  attempt'[a] \in {"cancelled", "failed"}
      <4>1. o = "ok"
        BY <3>2
      <4> QED
        BY <3>2, <4>1, SaveEffect
    <3> QED
      BY <1>5, <3>1, <3>2 DEF RecoverAttempt, NoSave, Unreadable, Terminal
  <2> QED
    BY <2>1, <2>2, <2>3, <2>4 DEF OwnInv, Unreadable
<1>6. ASSUME NEW a \in Attempts, ResumePublication(a)
      PROVE  OwnInv'
  <2>1. /\ UNCHANGED <<attempt, result, deferred, queue, wdrain, sdrain,
                       active, wpc, adm, cpc, stopping, blocked, supBlocked>>
        /\ phase = "up" /\ phase' = "up"
    BY <1>6 DEF ResumePublication, StartFrame, faultVars, workerVars,
                shutdownVars, admVars, cancelVars
  <2> QED
    BY <2>1 DEF OwnInv, Kept, Waiting, Served, Given, Unreadable
<1> QED
  BY <1>1, <1>2, <1>3, <1>4, <1>5, <1>6 DEF Next, Shutdown, Startup

-----------------------------------------------------------------------------
FullInv == /\ IInv /\ GateInv /\ CancelInv /\ IntentInv
           /\ DrainInv /\ OwnInv

LEMMA FullInit == Init => FullInv
<1> SUFFICES ASSUME Init PROVE FullInv
  OBVIOUS
<1>1. IInv
  BY InvInit
<1>2. GateInv /\ CancelInv
  BY DEF Init, GateInv, NoContainerBehindAdmission, CancelInv,
         CancellationStands
<1>3. IntentInv
  BY ConstantsAssumption
     DEF Init, IntentInv, IntentsKept, AnsweredIntentKept, NoIntentMissed
<1>4. DrainInv /\ OwnInv
  BY DEF Init, DrainInv, OwnInv
<1> QED
  BY <1>1, <1>2, <1>3, <1>4 DEF FullInv

LEMMA FullStep == FullInv /\ [Next]_vars => FullInv'
<1> SUFFICES ASSUME FullInv, [Next]_vars PROVE FullInv'
  OBVIOUS
<1>1. IInv'
  BY InvStep DEF FullInv
<1>2. CASE Next
  BY <1>1, <1>2, GateStep, CancelStep, IntentStep, DrainStep, OwnStep
     DEF FullInv
<1>3. CASE UNCHANGED vars
  <2> USE <1>3
      DEF vars, durableVars, ociVars, queueVars, gateVars, supVars, admVars,
          cancelVars, workerVars, shutdownVars, startVars, faultVars,
          historyVars, FullInv
  <2>1. GateInv' /\ CancelInv'
    BY DEF GateInv, NoContainerBehindAdmission, CancelInv, CancellationStands
  <2>2. IntentInv'
    BY DEF IntentInv, IntentsKept, AnsweredIntentKept, NoIntentMissed
  <2>3. DrainInv' /\ OwnInv'
    BY DEF DrainInv, OwnInv, Kept, Waiting, Served, Given, Unreadable
  <2> QED
    BY <1>1, <2>1, <2>2, <2>3
<1> QED
  BY <1>2, <1>3

LEMMA FullHolds == Spec => []FullInv
BY FullInit, FullStep, PTL DEF Spec

(* No container is left behind an open admission, whichever of cleanups,   *)
(* writes and startups fail: _block_for_recovery and the startup blockers  *)
(* close it, and the one exception is an attempt that could not be written *)
(* either.                                                                 *)
THEOREM Contained == Spec => []NoContainerBehindAdmission
<1>1. FullInv => NoContainerBehindAdmission
  BY DEF FullInv, GateInv
<1> QED
  BY <1>1, FullHolds, PTL

(* An accepted cancellation is never overtaken by a success or a failure:  *)
(* not by the completion that had begun, a failed write, a crash between   *)
(* result.json and attempt.json, nor by the recovery.                      *)
THEOREM CancellationsStand == Spec => []CancellationStands
<1>1. FullInv => CancellationStands
  BY DEF FullInv, CancelInv
<1> QED
  BY <1>1, FullHolds, PTL

(* Every attempt that is queued, running or cancelling has somebody who    *)
(* will end it, or waits for the next startup for a reason that the        *)
(* property names.                                                         *)
THEOREM NothingLost == Spec => []NoAttemptLost
<1>1. FullInv => NoAttemptLost
  <2> SUFFICES ASSUME FullInv, phase = "up", NEW a \in Attempts,
                      attempt[a] \in Active
               PROVE  \/ Owned(a)
                      \/ a \in deferred
                      \/ attempt[a] = "cancelling" /\ (stopping \/ blocked)
    BY DEF NoAttemptLost
  <2> QED
    BY DEF FullInv, OwnInv, Kept, Waiting, Served, Given, Owned, Active
<1> QED
  BY <1>1, FullHolds, PTL

(* A publication that a caller was promised is not dropped: a duplicate    *)
(* request leaves its wish on the attempt it is answered with, and a       *)
(* pending publication of a success is tried or waits for the startup.     *)
THEOREM IntentsAreKept == Spec => []IntentsKept
<1>1. FullInv => IntentsKept
  BY DEF FullInv, IntentInv
<1> QED
  BY <1>1, FullHolds, PTL
=============================================================================
