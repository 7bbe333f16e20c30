---------------------- MODULE CommandContainmentProofs ----------------------
(***************************************************************************)
(* Proofs about CommandContainment, for any Runs, units, resource          *)
(* policies, registry capacity, capabilities, faults, crashes and reboots. *)
(***************************************************************************)
EXTENDS CommandContainment, TLAPS, FiniteSetTheorems

-----------------------------------------------------------------------------
(* The inductive invariant, in named parts.                                *)

AdmitPcs == {"idle", "check1", "apply1", "capable", "limits", "probing",
             "limiting", "check2", "apply2", "enqueue"}
ProbePcs == {"probing", "limiting"}
\* Where a worker's command has a durable record and a unit of its own.
RecordedPcs == {"intent", "created", "running", "stopping", "abort"}
\* Where a thread names a unit.
NamingPcs == ProbePcs \cup RecordedPcs \cup {"latch", "spawned", "grouped"}

\* A thread works only for a Run it has taken, while admission is open; the
\* workspace lock keeps the workers on different Runs.
ThreadsOK ==
    /\ \A t \in Threads :
          /\ pc[t] = "idle" <=> job[t] = NoRun
          /\ job[t] # NoRun => Up /\ admission
          /\ cur[t] # NoUnit <=> pc[t] \in NamingPcs
          /\ pc[t] = "launch" /\ job[t] \in Finite
                => backend[t] = "systemd_cgroup"
    /\ pc["admit"] \in AdmitPcs
    /\ job["build"] = job["validate"] => job["build"] = NoRun

\* A unit name is given once: no thread names the unit of another, nor one
\* that is in the registry, and what was proved absent stays absent.
NamesOK ==
    /\ \A t, o \in Threads : cur[t] = cur[o] => t = o \/ cur[t] = NoUnit
    /\ \A t \in Threads : cur[t] \notin blockers
    /\ proven \subseteq blockers
    /\ \A u \in proven : ~Present(u)
    /\ \A t \in Threads : pc[t] = "intent" => unit[cur[t]].state = "free"

\* While admission is open, a unit is answered for or in the registry.
StrayOK ==
    /\ Up /\ admission /\ ~saturated =>
          \A u \in Units : Present(u) =>
             \/ u \in blockers
             \/ \E t \in Threads : cur[t] = u /\ pc[t] \in OwningPcs
    /\ blocked # {} => found

\* The identity of a Run names every unit that may still run for it; a record
\* that startup cleared too early leaves admission closed.
UnitOf(r, u) == ident[r].unit = u /\ ident[r].backend = "systemd_cgroup"

IdentityOK ==
    /\ \A u \in Units, r \in Runs : Present(u) /\ unit[u].run = r =>
          \/ UnitOf(r, u)
          \/ /\ ident[r] = NoIdentity /\ status[r] \in Terminal
             /\ ~(Up /\ admission)
    /\ \A w \in Workers :
          /\ pc[w] \in RecordedPcs => UnitOf(job[w], cur[w])
          /\ pc[w] = "grouped" => /\ ident[job[w]].unit = cur[w]
                                  /\ ident[job[w]].backend = "process_group"

\* Between the two writes of a recovery the workload is already gone; a group
\* named by an identity has survived no reboot.
RecoveryOK ==
    /\ pending # NoPending =>
          /\ phase = "recovering" /\ pending.run \in Runs
          /\ \A u \in Units : unit[u].run = pending.run => ~Present(u)
          /\ pending.write = "resolve" => ident[pending.run] = NoIdentity
    /\ \A r \in Runs, u \in Units :
          unit[u].state = "group" /\ ident[r].unit = u => ident[r].boot = boot
    /\ \A u \in Units : unit[u].state = "free" => unit[u].run = NoRun

IInv == /\ StateIsSound /\ ThreadsOK /\ NamesOK /\ StrayOK
        /\ IdentityOK /\ RecoveryOK

-----------------------------------------------------------------------------
(* Which actions write which part of the state.                            *)

ProbeSteps(t) ==
    \/ UseCapability(t) \/ ProbeUnavailable(t) \/ ProbeStart(t) \/ ProbeEnd(t)
    \/ LimitProbeStart(t) \/ LimitProbeEnd(t) \/ ProbeUnresolved(t)

AdmitSteps ==
    (\E r \in Runs : AdmitBegin(r)) \/ AdmitCheck \/ AdmitApply \/ AdmitEnqueue

RecordSteps(w) ==
    \/ RecordIntent(w) \/ NoConnection(w) \/ Activate(w) \/ Abort(w)
    \/ FinishCommand(w) \/ LostUnit(w) \/ PersistStopping(w) \/ StopCommand(w)
    \/ RecordGroup(w) \/ EndGroup(w)

RecoverSteps(r) ==
    \/ RecoverUnreadable(r) \/ RecoverResolved(r) \/ RecoverWithoutIdentity(r)
    \/ RecoverUnit(r) \/ RecoverGroup(r)

(* The next-state relation, in those groups.                               *)
LEMMA Steps ==
    ASSUME Next
    PROVE  \/ \E t \in Threads : ProbeSteps(t)
           \/ AdmitSteps
           \/ \E r \in Runs : TakeBuild(r) \/ TakeValidation(r)
           \/ \E w \in Workers : \/ GiveBack(w) \/ CommandCheck(w) \/ Latch(w)
                                 \/ StartUnit(w) \/ Popen(w) \/ RecordSteps(w)
           \/ \E u \in Units : HostStep(u)
           \/ Crash \/ Reboot \/ BeginRecovery
           \/ \E r \in Runs : RecoverSteps(r)
           \/ SecondWrite \/ Inventory
           \/ \E r \in Runs : CleanWorkspace(r)
BY DEF Next, ProbeSteps, AdmitSteps, RecordSteps, RecoverSteps,
       StartContained, StreamContained, StreamGroup

(* The durable state of the Runs is written by these only.                 *)
LEMMA DurableFrame ==
    ASSUME Next, ~UNCHANGED <<status, recovery, ident, data>>
    PROVE  \/ AdmitEnqueue
           \/ \E r \in Runs : TakeBuild(r) \/ CleanWorkspace(r)
           \/ \E w \in Workers : GiveBack(w) \/ RecordSteps(w)
           \/ \E r \in Runs : RecoverSteps(r)
           \/ SecondWrite
<1>1. ASSUME NEW t \in Threads, ProbeSteps(t) PROVE FALSE
  BY <1>1 DEF ProbeSteps, UseCapability, ProbeUnavailable, ProbeStart,
     StartProbe, ProbeEnd, LimitProbeStart, LimitProbeEnd, ProbeGone,
     ProbeUnresolved, runVars
<1>2. CASE AdmitSteps
  BY <1>2 DEF AdmitSteps, AdmitBegin, AdmitCheck, AdmitApply, runVars
<1>3. ASSUME NEW r \in Runs, TakeValidation(r) PROVE FALSE
  BY <1>3 DEF TakeValidation, TakeRun
<1>4. ASSUME NEW w \in Workers,
             CommandCheck(w) \/ Latch(w) \/ StartUnit(w) \/ Popen(w)
      PROVE  FALSE
  BY <1>4 DEF CommandCheck, Latch, StartUnit, Popen, runVars
<1>5. ASSUME NEW u \in Units, HostStep(u) PROVE FALSE
  BY <1>5 DEF HostStep, runVars
<1>6. ~Crash /\ ~Reboot /\ ~BeginRecovery /\ ~Inventory
  BY DEF Crash, Reboot, BeginRecovery, Inventory, runVars
<1> QED BY <1>1, <1>2, <1>3, <1>4, <1>5, <1>6, Steps

(* The units and groups of the host are touched by these only.             *)
LEMMA HostFrame ==
    ASSUME Next, ~UNCHANGED <<unit, boot>>
    PROVE  \/ \E t \in Threads : ProbeSteps(t)
           \/ \E w \in Workers : StartUnit(w) \/ Popen(w) \/ RecordSteps(w)
           \/ \E u \in Units : HostStep(u)
           \/ Reboot
           \/ \E r \in Runs : RecoverSteps(r)
           \/ Inventory
<1>1. CASE AdmitSteps
  BY <1>1 DEF AdmitSteps, AdmitBegin, AdmitCheck, AdmitApply, AdmitEnqueue
<1>2. ASSUME NEW r \in Runs, TakeBuild(r) \/ TakeValidation(r) PROVE FALSE
  BY <1>2 DEF TakeBuild, TakeValidation, TakeRun
<1>3. ASSUME NEW w \in Workers, GiveBack(w) \/ CommandCheck(w) \/ Latch(w)
      PROVE  FALSE
  BY <1>3 DEF GiveBack, CommandCheck, Latch
<1>4. ~Crash /\ ~BeginRecovery
  BY DEF Crash, BeginRecovery
<1>5. ~SecondWrite
  BY DEF SecondWrite, UnchangedByRecovery
<1>6. ASSUME NEW r \in Runs, CleanWorkspace(r) PROVE FALSE
  BY <1>6 DEF CleanWorkspace
<1> QED BY <1>1, <1>2, <1>3, <1>4, <1>5, <1>6, Steps

-----------------------------------------------------------------------------
(* What the actions that end a contained command do.                       *)

SettleSteps(w) ==
    Abort(w) \/ FinishCommand(w) \/ LostUnit(w) \/ StopCommand(w)

(* The unit is proved gone, and its record cleared or not ...              *)
Ended(w) ==
    /\ unit' = [unit EXCEPT ![cur[w]] = Nothing]
    /\ \/ /\ ident' = Cleared(job[w]) /\ cur' = [cur EXCEPT ![w] = NoUnit]
          /\ \E next \in {"ready", "failed"} : Goto(w, next)
       \/ /\ ident' \in {ident, Cleared(job[w])}
          /\ Goto(w, "latch") /\ UNCHANGED cur

(* ... or it is left where it is, with its record.                         *)
Left(w) ==
    /\ unit' \in Unstopped(cur[w])
    /\ Goto(w, "latch") /\ UNCHANGED <<ident, cur>>

(* Those actions do nothing else to a unit, a record or a thread.          *)
LEMMA Settling ==
    ASSUME NEW w \in Workers, SettleSteps(w)
    PROVE  /\ Up /\ pc[w] \in {"abort", "running", "stopping"}
           /\ Ended(w) \/ Left(w)
           /\ UnchangedBySettle
<1>1. ASSUME NEW next \in {"ready", "failed"}, Settle(w, next)
      PROVE  Ended(w) \/ Left(w)
  BY <1>1 DEF Settle, Ended, Left, Unstopped
<1>2. CASE Abort(w)
  BY <1>1, <1>2 DEF Abort
<1>3. CASE FinishCommand(w)
  BY <1>1, <1>3 DEF FinishCommand
<1>4. CASE LostUnit(w)
  <2>1. Settle(w, "failed") \/ Left(w)
    BY <1>4 DEF LostUnit, Left, Unstopped
  <2> QED BY <1>1, <1>4, <2>1 DEF LostUnit
<1>5. CASE StopCommand(w)
  <2>1. Settle(w, "failed") \/ Left(w)
    BY <1>5 DEF StopCommand, Left, Unstopped
  <2> QED BY <1>1, <1>5, <2>1 DEF StopCommand
<1> QED BY <1>2, <1>3, <1>4, <1>5 DEF SettleSteps

-----------------------------------------------------------------------------
(* The state of every step is well formed.                                 *)

(* A name that is given is a name of the namespace that no record, no      *)
(* thread and no blocker holds.                                            *)
LEMMA FreshNames ==
    ASSUME NEW u \in Fresh
    PROVE  /\ u \in Units /\ unit[u].state = "free" /\ u \notin blockers
           /\ \A r \in Runs : ident[r].unit # u
           /\ \A t \in Threads : cur[t] # u
BY DEF Fresh

(* A recorded identity is well formed, and so is an updated one.           *)
LEMMA IdentityWrites ==
    ASSUME DurableOK, HostOK, ConstantsAssumption, NEW r \in Runs
    PROVE  /\ Cleared(r) \in [Runs -> Identities]
           /\ \A u \in Units :
                 /\ Recorded(r, UnitIdentity(u)) \in [Runs -> Identities]
                 /\ Recorded(r, GroupIdentity(u)) \in [Runs -> Identities]
           /\ \A s \in {"starting", "active", "stopping"} :
                 ident[r] # NoIdentity => Updated(r, s) \in [Runs -> Identities]
<1>1. Cleared(r) \in [Runs -> Identities]
  BY DEF DurableOK, Cleared, Identities
<1>2. ASSUME NEW u \in Units
      PROVE  /\ Recorded(r, UnitIdentity(u)) \in [Runs -> Identities]
             /\ Recorded(r, GroupIdentity(u)) \in [Runs -> Identities]
  <2>1. UnitIdentity(u) \in Identities /\ GroupIdentity(u) \in Identities
    BY DEF UnitIdentity, GroupIdentity, Identity, Identities, HostOK, Backends
  <2> QED BY <2>1 DEF DurableOK, Recorded
<1>3. ASSUME NEW s \in {"starting", "active", "stopping"},
             ident[r] # NoIdentity
      PROVE  Updated(r, s) \in [Runs -> Identities]
  <2>1. ident[r] \in [unit : Units, backend : Backends,
                      state : {"starting", "active", "stopping"},
                      boot : 0 .. boot]
    BY <1>3 DEF DurableOK, Identities
  <2>2. [ident[r] EXCEPT !.state = s] \in Identities
    BY <2>1 DEF Identities
  <2> QED BY <2>2 DEF DurableOK, Updated
<1> QED BY <1>1, <1>2, <1>3

(* A worker that has a Run has one of the Runs, and a unit of its own.     *)
LEMMA HasRun ==
    ASSUME ConstantsAssumption, TypeOK, ThreadsOK, NEW t \in Threads
    PROVE  /\ pc[t] # "idle" => /\ job[t] \in Runs /\ Up /\ admission
           /\ pc[t] \in NamingPcs => cur[t] \in Units
           /\ pc[t] \notin NamingPcs => cur[t] = NoUnit
BY DEF ConstantsAssumption, TypeOK, ThreadOK, ThreadsOK

(* A worker whose command is recorded has an identity.                     *)
LEMMA HasRecord ==
    ASSUME ConstantsAssumption, IInv, NEW w \in Workers, pc[w] \in RecordedPcs
    PROVE  ident[job[w]] # NoIdentity
<1>1. job[w] \in Runs /\ cur[w] \in Units
  BY HasRun DEF IInv, StateIsSound, RecordedPcs, NamingPcs, Workers, Threads
<1>2. ident[job[w]].unit = cur[w]
  BY DEF IInv, IdentityOK, UnitOf
<1> QED BY <1>1, <1>2 DEF NoIdentity, ConstantsAssumption

(* The boot identifier only grows, and an identity stays well formed.      *)
LEMMA Boots ==
    ASSUME ConstantsAssumption, HostOK, Next
    PROVE  /\ boot' \in 0 .. MaxBoots /\ Identities \subseteq Identities'
           /\ ~Reboot => UNCHANGED boot
<1>1. CASE Reboot
  BY <1>1 DEF Reboot, HostOK, Identities, ConstantsAssumption
<1>2. ASSUME NEW t \in Threads, ProbeSteps(t) PROVE UNCHANGED boot
  BY <1>2 DEF ProbeSteps, UseCapability, ProbeUnavailable, ProbeStart,
     StartProbe, ProbeEnd, LimitProbeStart, LimitProbeEnd, ProbeGone,
     ProbeUnresolved
<1>3. ASSUME NEW w \in Workers, StartUnit(w) \/ Popen(w) \/ RecordSteps(w)
      PROVE  UNCHANGED boot
  BY <1>3, Settling DEF StartUnit, Popen, RecordSteps, RecordIntent,
     NoConnection, Activate, PersistStopping, RecordGroup, EndGroup,
     SettleSteps, UnchangedBySettle
<1>4. ASSUME NEW u \in Units, HostStep(u) PROVE UNCHANGED boot
  BY <1>4 DEF HostStep
<1>5. ASSUME NEW r \in Runs, RecoverSteps(r) PROVE UNCHANGED boot
  BY <1>5 DEF RecoverSteps, RecoverUnreadable, RecoverResolved,
     RecoverWithoutIdentity, RecoverUnit, RecoverGroup, UnchangedByRecovery
<1>6. Inventory => UNCHANGED boot
  BY DEF Inventory
<1>7. CASE UNCHANGED boot
  BY <1>7 DEF HostOK, Identities
<1> QED BY <1>1, <1>2, <1>3, <1>4, <1>5, <1>6, <1>7, HostFrame

(* Every step leaves the durable state of the Runs well formed.            *)
LEMMA DurableStep ==
    ASSUME ConstantsAssumption, IInv, Next
    PROVE  DurableOK'
<1> USE DEF Workers, Threads
<1>0. /\ DurableOK /\ HostOK /\ TypeOK /\ ThreadsOK
      /\ \A t \in Threads : pc[t] # "idle" => job[t] \in Runs
      /\ \A w \in Workers : pc[w] \in RecordedPcs => ident[job[w]] # NoIdentity
  BY HasRun, HasRecord DEF IInv, StateIsSound, TypeOK
<1> SUFFICES ASSUME TRUE
    PROVE  /\ status' \in [Runs -> {"absent", "queued", "running"} \cup Terminal]
           /\ recovery' \in [Runs -> {"none", "blocked", "resolved"}]
           /\ ident' \in [Runs -> Identities]
           /\ data' \in [Runs -> BOOLEAN]
  BY <1>0, Boots DEF DurableOK
<1>frame. CASE UNCHANGED <<status, recovery, ident, data>>
  BY <1>0, <1>frame DEF DurableOK
<1>1. CASE AdmitEnqueue
  BY <1>0, <1>1 DEF AdmitEnqueue, DurableOK
<1>2. ASSUME NEW r \in Runs, TakeBuild(r) \/ CleanWorkspace(r)
      PROVE  DurableOK' /\ UNCHANGED ident
  <2>1. CASE TakeBuild(r)
    BY <1>0, <2>1, Boots DEF TakeBuild, TakeRun, DurableOK
  <2>2. CASE CleanWorkspace(r)
    BY <1>0, <2>2, Boots DEF CleanWorkspace, DurableOK
  <2> QED BY <1>2, <2>1, <2>2
<1>3. ASSUME NEW w \in Workers, GiveBack(w)
      PROVE  DurableOK' /\ UNCHANGED ident
  BY <1>0, <1>3, Boots DEF GiveBack, DurableOK, Terminal
<1>4. ASSUME NEW w \in Workers, RecordSteps(w)
      PROVE  UNCHANGED <<status, recovery, data>> /\ ident' \in [Runs -> Identities]
  <2>1. UNCHANGED <<status, recovery, data>>
    BY <1>4, Settling DEF RecordSteps, SettleSteps, UnchangedBySettle,
       RecordIntent, NoConnection, Activate, PersistStopping, RecordGroup,
       EndGroup
  <2>2. pc[w] # "idle"
    BY <1>4, Settling DEF RecordSteps, SettleSteps, RecordIntent,
       NoConnection, Activate, PersistStopping, RecordGroup, EndGroup
  <2>3. job[w] \in Runs
    BY <1>0, <2>2
  <2>4. /\ ident \in [Runs -> Identities]
        /\ Cleared(job[w]) \in [Runs -> Identities]
    BY <1>0, <2>3, IdentityWrites DEF DurableOK
  <2>5. CASE RecordIntent(w)
    BY <1>0, <2>3, <2>4, <2>5, IdentityWrites, FreshNames DEF RecordIntent
  <2>6. CASE NoConnection(w) \/ EndGroup(w)
    BY <2>4, <2>6 DEF NoConnection, EndGroup
  <2>7. CASE Activate(w) \/ PersistStopping(w)
    <3>1. ident[job[w]] # NoIdentity
      BY <1>0, <2>7 DEF Activate, PersistStopping, RecordedPcs
    <3>2. /\ Updated(job[w], "active") \in [Runs -> Identities]
          /\ Updated(job[w], "stopping") \in [Runs -> Identities]
      BY <1>0, <2>3, <3>1, IdentityWrites
    <3> QED BY <2>4, <2>7, <3>2 DEF Activate, PersistStopping
  <2>8. CASE SettleSteps(w)
    BY <2>1, <2>4, <2>8, Settling DEF Ended, Left
  <2>9. CASE RecordGroup(w)
    <3>1. cur[w] \in Units
      BY <1>0, <2>9, HasRun DEF RecordGroup, NamingPcs
    <3>2. Recorded(job[w], GroupIdentity(cur[w])) \in [Runs -> Identities]
      BY <1>0, <2>3, <3>1, IdentityWrites
    <3> QED BY <2>4, <2>9, <3>2 DEF RecordGroup
  <2> QED BY <1>4, <2>1, <2>5, <2>6, <2>7, <2>8, <2>9
          DEF RecordSteps, SettleSteps
<1>5. ASSUME NEW r \in Runs, RecoverSteps(r)
      PROVE  /\ status' \in [Runs -> {"absent", "queued", "running"} \cup Terminal]
             /\ recovery' \in [Runs -> {"none", "blocked", "resolved"}]
             /\ ident' \in [Runs -> Identities] /\ UNCHANGED data
  <2>1. /\ ident \in [Runs -> Identities] /\ Cleared(r) \in [Runs -> Identities]
        /\ ident[r] # NoIdentity => Updated(r, "stopping") \in [Runs -> Identities]
    BY <1>0, IdentityWrites DEF DurableOK
  <2>2. \/ ident' \in {ident, Cleared(r)}
        \/ ident[r] # NoIdentity /\ ident' = Updated(r, "stopping")
    <3>1. CASE RecoverUnreadable(r) \/ RecoverResolved(r)
      BY <3>1 DEF RecoverUnreadable, RecoverResolved
    <3>2. CASE RecoverWithoutIdentity(r)
      BY <3>2 DEF RecoverWithoutIdentity
    <3>3. CASE RecoverUnit(r)
      BY <3>3 DEF RecoverUnit, HasIdentity, Resolve
    <3>4. CASE RecoverGroup(r)
      BY <3>4 DEF RecoverGroup, Resolve
    <3> QED BY <1>5, <3>1, <3>2, <3>3, <3>4 DEF RecoverSteps
  <2>3. /\ status' \in {status, [status EXCEPT ![r] = "failed"]}
        /\ \/ UNCHANGED recovery
           \/ \E v \in {"blocked", "resolved"} :
                 recovery' = [recovery EXCEPT ![r] = v]
        /\ UNCHANGED data
    BY <1>5 DEF RecoverSteps, RecoverUnreadable, RecoverResolved,
       RecoverWithoutIdentity, RecoverUnit, RecoverGroup,
       Blocker, Resolve, UnchangedByRecovery
  <2> QED BY <1>0, <2>1, <2>2, <2>3 DEF DurableOK, Terminal
<1>6. CASE SecondWrite
  <2>1. pending.run \in Runs
    BY <1>6 DEF SecondWrite, IInv, RecoveryOK
  <2>2. Cleared(pending.run) \in [Runs -> Identities]
    BY <1>0, <2>1, IdentityWrites
  <2> QED BY <1>0, <1>6, <2>1, <2>2 DEF SecondWrite, UnchangedByRecovery, DurableOK
<1> QED BY <1>0, <1>frame, <1>1, <1>2, <1>3, <1>4, <1>5, <1>6, DurableFrame
        DEF DurableOK

(* The units stay well formed; a unit without processes belongs to no Run; *)
(* and no group is started for a Run with a finite policy.                 *)
UnitShape == [state : {"free", "loaded", "exited", "cgroup", "group", "escaped"},
              run : Runs \cup {NoRun}]

UnitsOK ==
    /\ unit \in [Units -> UnitShape]
    /\ \A u \in Units : unit[u].state = "free" => unit[u].run = NoRun
    /\ FiniteIsContained

(* The ways a unit is written, and that each leaves the host well formed.  *)
LEMMA UnitWrites ==
    ASSUME ConstantsAssumption, UnitsOK, NEW u \in Units,
           \/ UNCHANGED unit
           \/ unit' = [unit EXCEPT ![u] = Nothing]
           \/ \E r \in Runs \cup {NoRun} : unit' = Loaded(u, r)
           \/ unit' \in Unstopped(u)
    PROVE  UnitsOK'
BY DEF UnitsOK, UnitShape, Nothing, Loaded, Unstopped, FiniteIsContained,
   ConstantsAssumption

(* Every step leaves the host well formed.                                 *)
LEMMA HostOKStep ==
    ASSUME ConstantsAssumption, IInv, Next
    PROVE  UnitsOK'
<1> USE DEF Workers, Threads
<1>0. /\ UnitsOK /\ TypeOK /\ ThreadsOK
      /\ \A t \in Threads :
            /\ pc[t] # "idle" => job[t] \in Runs
            /\ pc[t] \in NamingPcs => cur[t] \in Units
  BY HasRun DEF IInv, StateIsSound, TypeOK, UnitsOK, UnitShape, HostOK,
     RecoveryOK
<1>frame. CASE UNCHANGED <<unit, boot>>
  BY <1>0, <1>frame DEF UnitsOK, UnitShape, FiniteIsContained
<1>1. ASSUME NEW t \in Threads, ProbeSteps(t) PROVE UnitsOK'
  <2>1. CASE UseCapability(t) \/ ProbeUnavailable(t)
    BY <1>0, <2>1 DEF UseCapability, ProbeUnavailable, UnitsOK, UnitShape,
       FiniteIsContained
  <2>2. CASE ProbeStart(t) \/ LimitProbeStart(t)
    <3>1. PICK u \in Fresh : unit' = Loaded(u, NoRun)
      BY <2>2 DEF ProbeStart, LimitProbeStart, StartProbe
    <3> QED BY <1>0, <3>1, FreshNames, UnitWrites
  <2>3. CASE ProbeEnd(t) \/ LimitProbeEnd(t) \/ ProbeUnresolved(t)
    <3>1. cur[t] \in Units
      BY <1>0, <2>3 DEF ProbeEnd, LimitProbeEnd, ProbeUnresolved, NamingPcs,
         ProbePcs
    <3> QED BY <1>0, <2>3, <3>1, UnitWrites
            DEF ProbeEnd, LimitProbeEnd, ProbeUnresolved, ProbeGone
  <2> QED BY <1>1, <2>1, <2>2, <2>3 DEF ProbeSteps
<1>2. ASSUME NEW w \in Workers, StartUnit(w) PROVE UnitsOK'
  <2>1. cur[w] \in Units /\ job[w] \in Runs
    BY <1>0, <1>2 DEF StartUnit, NamingPcs, RecordedPcs
  <2> QED BY <1>0, <1>2, <2>1, UnitWrites DEF StartUnit
<1>3. ASSUME NEW w \in Workers, Popen(w) PROVE UnitsOK'
  <2>1. job[w] \in Runs /\ job[w] \notin Finite
    BY <1>0, <1>3 DEF Popen, ThreadsOK
  <2>2. PICK u \in Fresh :
            unit' = [unit EXCEPT ![u] = [state |-> "group", run |-> job[w]]]
    BY <1>3 DEF Popen
  <2> QED BY <1>0, <2>1, <2>2, FreshNames
          DEF UnitsOK, UnitShape, FiniteIsContained
<1>4. ASSUME NEW w \in Workers, RecordSteps(w) PROVE UnitsOK'
  <2>1. CASE RecordIntent(w) \/ NoConnection(w) \/ Activate(w)
             \/ PersistStopping(w)
    BY <1>0, <2>1 DEF RecordIntent, NoConnection, Activate, PersistStopping,
       UnitsOK, UnitShape, FiniteIsContained
  <2>2. CASE SettleSteps(w)
    <3>1. cur[w] \in Units
      BY <1>0, <2>2, Settling DEF NamingPcs, RecordedPcs
    <3> QED BY <1>0, <2>2, <3>1, Settling, UnitWrites DEF Ended, Left
  <2>3. CASE RecordGroup(w) \/ EndGroup(w)
    <3>1. cur[w] \in Units
      BY <1>0, <2>3 DEF RecordGroup, EndGroup, NamingPcs
    <3>2. UNCHANGED unit \/ unit' = [unit EXCEPT ![cur[w]] = Nothing]
      BY <2>3 DEF RecordGroup, EndGroup, Signalled
    <3> QED BY <1>0, <3>1, <3>2, UnitWrites
  <2> QED BY <1>4, <2>1, <2>2, <2>3 DEF RecordSteps, SettleSteps
<1>5. ASSUME NEW u \in Units, HostStep(u) PROVE UnitsOK'
  <2>1. \/ unit' = [unit EXCEPT ![u] = Nothing]
        \/ \E s \in {"exited", "escaped"} :
              /\ unit' = [unit EXCEPT ![u] = [unit[u] EXCEPT !.state = s]]
              /\ s = "escaped" <=> unit[u].state = "group"
              /\ unit[u].state # "free"
    <3> DEFINE To(s) == unit' = [unit EXCEPT ![u] = [unit[u] EXCEPT !.state = s]]
    <3>1. PICK next \in {<<"loaded", "exited">>, <<"loaded", "free">>,
                         <<"exited", "free">>, <<"cgroup", "free">>,
                         <<"group", "free">>, <<"group", "escaped">>,
                         <<"escaped", "free">>} :
                 /\ unit[u].state = next[1]
                 /\ unit' = [unit EXCEPT ![u] =
                               IF next[2] = "free" THEN Nothing
                               ELSE [unit[u] EXCEPT !.state = next[2]]]
      BY <1>5, Zenon DEF HostStep
    <3>2. CASE next = <<"loaded", "exited">>
      <4>1. unit[u].state = "loaded" /\ To("exited")
        BY <3>1, <3>2
      <4> QED BY <4>1
    <3>3. CASE next = <<"group", "escaped">>
      <4>1. unit[u].state = "group" /\ To("escaped")
        BY <3>1, <3>3
      <4> QED BY <4>1
    <3>4. CASE next[2] = "free"
      BY <3>1, <3>4
    <3> QED BY <3>1, <3>2, <3>3, <3>4
  <2>2. CASE unit' = [unit EXCEPT ![u] = Nothing]
    BY <1>0, <2>2, UnitWrites
  <2>3. ASSUME NEW s \in {"exited", "escaped"},
               unit' = [unit EXCEPT ![u] = [unit[u] EXCEPT !.state = s]],
               s = "escaped" <=> unit[u].state = "group"
        PROVE  UnitsOK'
    <3>1. /\ unit[u] \in UnitShape /\ [unit[u] EXCEPT !.state = s] \in UnitShape
          /\ unit'[u].state = s /\ unit'[u].run = unit[u].run
          /\ \A v \in Units \ {u} : unit'[v] = unit[v]
      BY <1>0, <2>3 DEF UnitsOK, UnitShape
    <3> QED BY <1>0, <2>3, <3>1 DEF UnitsOK, FiniteIsContained
  <2> QED BY <2>1, <2>2, <2>3
<1>6. CASE Reboot
  BY <1>0, <1>6 DEF Reboot, UnitsOK, UnitShape, FiniteIsContained, Nothing
<1>7. ASSUME NEW r \in Runs, RecoverSteps(r) PROVE UnitsOK'
  <2>1. CASE UNCHANGED unit
    BY <1>0, <2>1 DEF UnitsOK, UnitShape, FiniteIsContained
  <2>2. CASE ~UNCHANGED unit
    <3>1. /\ HasIdentity(r)
          /\ unit' = [unit EXCEPT ![ident[r].unit] = Nothing]
      BY <1>7, <2>2 DEF RecoverSteps, RecoverUnreadable, RecoverResolved,
         RecoverWithoutIdentity, RecoverUnit, RecoverGroup, Signalled
    <3>2. ident[r].unit \in Units
      BY <1>0, <3>1 DEF HasIdentity, TypeOK, DurableOK, Identities
    <3> QED BY <1>0, <3>1, <3>2, UnitWrites
  <2> QED BY <2>1, <2>2
<1>8. CASE Inventory
  <2>1. \/ UNCHANGED unit
        \/ \E gone \in SUBSET Units :
              unit' = [u \in Units |-> IF u \in gone THEN Nothing ELSE unit[u]]
    BY <1>8 DEF Inventory, Stoppable, Orphans
  <2> QED BY <1>0, <2>1 DEF UnitsOK, UnitShape, FiniteIsContained, Nothing
<1> QED BY <1>frame, <1>1, <1>2, <1>3, <1>4, <1>5, <1>6, <1>7, <1>8, HostFrame

(* The process and its startup are written by these only ...               *)
LEMMA ProcessFrame ==
    ASSUME Next, ~UNCHANGED <<phase, admission, scan, pending, bound, blocked,
                              trusted, found>>
    PROVE  \/ Crash \/ BeginRecovery \/ SecondWrite \/ Inventory
           \/ \E r \in Runs : RecoverSteps(r)
<1> USE DEF processVars, startVars
<1>1. ASSUME NEW t \in Threads, ProbeSteps(t) PROVE FALSE
  BY <1>1 DEF ProbeSteps, UseCapability, ProbeUnavailable, ProbeStart,
     StartProbe, ProbeEnd, LimitProbeStart, LimitProbeEnd, ProbeGone,
     ProbeUnresolved
<1>2. ~AdmitSteps
  BY DEF AdmitSteps, AdmitBegin, AdmitCheck, AdmitApply, AdmitEnqueue
<1>3. ASSUME NEW r \in Runs,
             TakeBuild(r) \/ TakeValidation(r) \/ CleanWorkspace(r)
      PROVE FALSE
  BY <1>3 DEF TakeBuild, TakeValidation, TakeRun, CleanWorkspace
<1>4. ASSUME NEW w \in Workers, \/ GiveBack(w) \/ CommandCheck(w) \/ Latch(w)
                                \/ StartUnit(w) \/ Popen(w)
      PROVE  FALSE
  BY <1>4 DEF GiveBack, CommandCheck, Latch, StartUnit, Popen
<1>5. ASSUME NEW w \in Workers, RecordSteps(w) PROVE FALSE
  BY <1>5, Settling DEF RecordSteps, SettleSteps, UnchangedBySettle,
     RecordIntent, NoConnection, Activate, PersistStopping, RecordGroup,
     EndGroup
<1>6. ASSUME NEW u \in Units, HostStep(u) PROVE FALSE
  BY <1>6 DEF HostStep
<1>7. ~Reboot
  BY DEF Reboot
<1> QED BY <1>1, <1>2, <1>3, <1>4, <1>5, <1>6, <1>7, Steps

(* ... and the threads and the registry by these.                          *)
LEMMA ThreadFrame ==
    ASSUME Next, ~UNCHANGED <<pc, job, cur, backend, tried, proven, blockers,
                              saturated, capability>>
    PROVE  \/ \E t \in Threads : ProbeSteps(t)
           \/ AdmitSteps
           \/ \E r \in Runs : TakeBuild(r) \/ TakeValidation(r)
           \/ \E w \in Workers : \/ GiveBack(w) \/ CommandCheck(w) \/ Latch(w)
                                 \/ StartUnit(w) \/ Popen(w) \/ RecordSteps(w)
           \/ Crash
<1> USE DEF threadVars, admitVars, registryVars
<1>1. ASSUME NEW r \in Runs, RecoverSteps(r) PROVE FALSE
  BY <1>1 DEF RecoverSteps, RecoverUnreadable, RecoverResolved,
     RecoverWithoutIdentity, RecoverUnit, RecoverGroup, UnchangedByRecovery
<1>2. ~Reboot /\ ~BeginRecovery /\ ~SecondWrite /\ ~Inventory
  BY DEF Reboot, BeginRecovery, SecondWrite, Inventory, UnchangedByRecovery
<1>3. ASSUME NEW u \in Units, HostStep(u) PROVE FALSE
  BY <1>3 DEF HostStep
<1>4. ASSUME NEW r \in Runs, CleanWorkspace(r) PROVE FALSE
  BY <1>4 DEF CleanWorkspace
<1> QED BY <1>1, <1>2, <1>3, <1>4, Steps

(* Every step leaves the state of the process and its startup well formed. *)
LEMMA StartupStep ==
    ASSUME ConstantsAssumption, IInv, Next
    PROVE  StartupOK'
<1>0. StartupOK /\ DurableOK
  BY DEF IInv, StateIsSound, TypeOK
<1>frame. CASE UNCHANGED <<phase, admission, scan, pending, bound, blocked,
                           trusted, found>>
  BY <1>0, <1>frame DEF StartupOK
<1>1. CASE Crash \/ BeginRecovery
  <2>1. CASE Crash
    <3>1. /\ phase' = "down" /\ admission' = FALSE /\ scan' = {}
          /\ pending' = NoPending /\ bound' = {} /\ blocked' = {}
          /\ trusted' = TRUE /\ found' = FALSE
      BY <2>1 DEF Crash
    <3> QED BY <3>1 DEF StartupOK, NoPending
  <2>2. CASE BeginRecovery
    <3>1. /\ phase' = "recovering" /\ scan' \subseteq Runs
          /\ UNCHANGED <<admission, pending, bound, blocked, trusted, found>>
      BY <2>2 DEF BeginRecovery
    <3> QED BY <1>0, <3>1 DEF StartupOK
  <2> QED BY <1>1, <2>1, <2>2
<1>2. ASSUME NEW r \in Runs, RecoverSteps(r) PROVE StartupOK'
  <2>1. /\ UNCHANGED <<phase, admission>> /\ scan' = scan \ {r}
        /\ blocked' \in {blocked, blocked \cup {r}}
        /\ pending' \in {pending, NoPending, [run |-> r, write |-> "clear"],
                         [run |-> r, write |-> "resolve"]}
    BY <1>2 DEF RecoverSteps, RecoverUnreadable, RecoverResolved,
       RecoverWithoutIdentity, RecoverUnit, RecoverGroup, HasIdentity,
       Recovering, Resolve, Blocker, UnchangedByRecovery
  <2>2. \/ bound' = bound
        \/ /\ bound' = bound \cup {ident[r].unit}
           /\ ident[r].backend = "systemd_cgroup"
    BY <1>2 DEF RecoverSteps, RecoverUnreadable, RecoverResolved,
       RecoverWithoutIdentity, RecoverUnit, RecoverGroup, Bind
  <2>3. ident[r].backend = "systemd_cgroup" => ident[r].unit \in Units
    BY <1>0 DEF DurableOK, Identities, NoIdentity
  <2>4. trusted' \in BOOLEAN /\ found' \in BOOLEAN
    <3>1. found' \in {TRUE, found}
      BY <1>2 DEF RecoverSteps, RecoverUnreadable, RecoverResolved,
         RecoverWithoutIdentity, RecoverUnit, RecoverGroup, Resolve, Blocker
    <3>2. trusted' \in {FALSE, trusted}
      BY <1>2 DEF RecoverSteps, RecoverUnreadable, RecoverResolved,
         RecoverWithoutIdentity, RecoverUnit, RecoverGroup
    <3> QED BY <1>0, <3>1, <3>2, Zenon DEF StartupOK
  <2>5. pending' \in [run : Runs \cup {NoRun},
                      write : {"none", "clear", "resolve"}]
    BY <1>0, <2>1 DEF StartupOK, NoPending
  <2>6. /\ scan' \subseteq Runs /\ blocked' \subseteq Runs
        /\ bound' \subseteq Units
    BY <1>0, <2>1, <2>2, <2>3 DEF StartupOK
  <2>7. phase' \in {"down", "recovering", "up"} /\ admission' \in BOOLEAN
    BY <1>0, <2>1 DEF StartupOK
  <2> QED BY <2>4, <2>5, <2>6, <2>7 DEF StartupOK
<1>3. CASE SecondWrite
  BY <1>0, <1>3 DEF SecondWrite, UnchangedByRecovery, StartupOK, NoPending
<1>4. CASE Inventory
  <2>1. admission' \in BOOLEAN
    BY <1>4, Zenon DEF Inventory
  <2>2. /\ phase' = "up" /\ bound' = {} /\ blocked' = {} /\ trusted' = TRUE
        /\ found' = FALSE /\ UNCHANGED <<scan, pending>>
    BY <1>4 DEF Inventory
  <2> QED BY <1>0, <2>1, <2>2 DEF StartupOK
<1> QED BY <1>frame, <1>1, <1>2, <1>3, <1>4, ProcessFrame

(* A failure is one of those that may happen.                              *)
Counted ==
    \/ UNCHANGED faults
    \/ faults < MaxFaults /\ faults' = faults + 1

(* No more failures and crashes happen than may happen.                    *)
LEMMA BoundsStep ==
    ASSUME ConstantsAssumption, IInv, Next
    PROVE  BoundsOK'
<1>0. BoundsOK
  BY DEF IInv, StateIsSound, TypeOK
<1> SUFFICES
      /\ Counted
      /\ \/ UNCHANGED crashes
         \/ crashes < MaxCrashes /\ crashes' = crashes + 1
  BY <1>0 DEF BoundsOK, ConstantsAssumption, Counted
<1> USE DEF Fault, NoFault, Counted
<1>1. ASSUME NEW t \in Threads, ProbeSteps(t)
      PROVE  /\ UNCHANGED crashes
             /\ Counted
  BY <1>1 DEF ProbeSteps, UseCapability, ProbeUnavailable, ProbeStart,
     StartProbe, ProbeEnd, LimitProbeStart, LimitProbeEnd, ProbeGone,
     ProbeUnresolved
<1>2. AdmitSteps => UNCHANGED <<faults, crashes>>
  BY DEF AdmitSteps, AdmitBegin, AdmitCheck, AdmitApply, AdmitEnqueue
<1>3. ASSUME NEW r \in Runs,
             TakeBuild(r) \/ TakeValidation(r) \/ CleanWorkspace(r)
      PROVE  UNCHANGED <<faults, crashes>>
  BY <1>3 DEF TakeBuild, TakeValidation, TakeRun, CleanWorkspace
<1>4. ASSUME NEW w \in Workers, \/ GiveBack(w) \/ CommandCheck(w) \/ Latch(w)
                                \/ StartUnit(w) \/ Popen(w) \/ RecordSteps(w)
      PROVE  /\ UNCHANGED crashes
             /\ Counted
  <2>1. CASE \/ GiveBack(w) \/ CommandCheck(w) \/ Latch(w) \/ StartUnit(w)
             \/ Popen(w)
    BY <2>1 DEF GiveBack, CommandCheck, Latch, StartUnit, Popen
  <2>2. CASE \/ RecordIntent(w) \/ NoConnection(w) \/ Activate(w)
             \/ PersistStopping(w) \/ RecordGroup(w) \/ EndGroup(w)
    BY <2>2 DEF RecordIntent, NoConnection, Activate, PersistStopping,
       RecordGroup, EndGroup
  <2>3. CASE SettleSteps(w)
    BY <2>3 DEF SettleSteps, Abort, FinishCommand, LostUnit, StopCommand,
       Settle, UnchangedBySettle
  <2> QED BY <1>4, <2>1, <2>2, <2>3 DEF RecordSteps, SettleSteps
<1>5. ASSUME NEW u \in Units, HostStep(u) PROVE UNCHANGED <<faults, crashes>>
  BY <1>5 DEF HostStep
<1>6. /\ Reboot \/ BeginRecovery => UNCHANGED <<faults, crashes>>
      /\ Crash => /\ UNCHANGED faults
                  /\ crashes < MaxCrashes /\ crashes' = crashes + 1
  BY DEF Reboot, BeginRecovery, Crash
<1>7. ASSUME SecondWrite \/ Inventory \/ \E r \in Runs : RecoverSteps(r)
      PROVE  /\ UNCHANGED crashes
             /\ Counted
  BY <1>7 DEF SecondWrite, Inventory, RecoverSteps, RecoverUnreadable,
     RecoverResolved, RecoverWithoutIdentity, RecoverUnit, RecoverGroup,
     UnchangedByRecovery
<1> QED BY <1>1, <1>2, <1>3, <1>4, <1>5, <1>6, <1>7, Steps

(* The registry never holds more than its capacity.                        *)
LEMMA PublishKeepsBound ==
    ASSUME ConstantsAssumption, RegistryOK, NEW u \in Units, Publish(u)
    PROVE  /\ blockers' \subseteq Units
           /\ Cardinality(blockers') <= MaxBlockers
           /\ saturated' \in BOOLEAN
<1>1. IsFiniteSet(blockers)
  BY FS_Subset DEF RegistryOK, ConstantsAssumption
<1>2. CASE u \notin blockers /\ Cardinality(blockers) >= MaxBlockers
  <2>1. saturated' = TRUE /\ blockers' = blockers
    BY <1>2 DEF Publish
  <2> QED BY <2>1 DEF RegistryOK
<1>3. CASE ~(u \notin blockers /\ Cardinality(blockers) >= MaxBlockers)
  <2>1. blockers' = blockers \cup {u} /\ saturated' = saturated
    BY <1>3 DEF Publish
  <2>2. Cardinality(blockers') <= MaxBlockers
    <3>1. CASE u \in blockers
      <4>1. blockers' = blockers
        BY <2>1, <3>1
      <4> QED BY <4>1 DEF RegistryOK
    <3>2. CASE u \notin blockers
      <4>1. Cardinality(blockers') = Cardinality(blockers) + 1
        BY <1>1, <2>1, <3>2, FS_AddElement
      <4>2. Cardinality(blockers) \in Nat
        BY <1>1, FS_CardinalityType
      <4> QED BY <1>3, <3>2, <4>1, <4>2 DEF ConstantsAssumption
    <3> QED BY <3>1, <3>2
  <2>3. saturated' \in BOOLEAN
    BY <2>1, Zenon DEF RegistryOK
  <2> QED BY <2>1, <2>2, <2>3 DEF RegistryOK
<1> QED BY <1>2, <1>3

(* Every step leaves the registry within its capacity.                     *)
LEMMA RegistryStep ==
    ASSUME ConstantsAssumption, IInv, Next
    PROVE  RegistryOK'
<1> USE DEF Workers, Threads
<1>0. /\ RegistryOK /\ TypeOK /\ ThreadsOK
      /\ \A t \in Threads : pc[t] \in NamingPcs => cur[t] \in Units
  BY HasRun DEF IInv, StateIsSound, TypeOK
<1>same. CASE UNCHANGED <<blockers, saturated, capability>>
  BY <1>0, <1>same DEF RegistryOK
<1>1. ASSUME NEW t \in Threads, ProbeSteps(t) PROVE RegistryOK'
  <2>1. CASE ProbeUnresolved(t)
    <3>1. cur[t] \in Units /\ Publish(cur[t])
      BY <1>0, <2>1 DEF ProbeUnresolved, NamingPcs, ProbePcs
    <3>2. capability' \in Backends \cup {"unknown", "unresolved"}
      BY <1>0, <2>1 DEF ProbeUnresolved, RegistryOK
    <3> QED BY <1>0, <3>1, <3>2, PublishKeepsBound DEF RegistryOK
  <2>2. CASE ~ProbeUnresolved(t)
    <3>1. UNCHANGED <<blockers, saturated>>
      BY <1>1, <2>2 DEF ProbeSteps, UseCapability, ProbeUnavailable,
         ProbeStart, StartProbe, ProbeEnd, LimitProbeStart, LimitProbeEnd,
         ProbeGone, registryVars
    <3>2. capability' \in Backends \cup {capability}
      BY <1>1, <2>2 DEF ProbeSteps, UseCapability, ProbeUnavailable,
         ProbeStart, StartProbe, ProbeEnd, LimitProbeStart, LimitProbeEnd,
         ProbeGone, registryVars, Backends
    <3>3. saturated' \in BOOLEAN
      BY <1>0, <3>1, Zenon DEF RegistryOK
    <3> QED BY <1>0, <3>1, <3>2, <3>3 DEF RegistryOK
  <2> QED BY <2>1, <2>2
<1>2. CASE AdmitApply
  <2>1. /\ blockers' = blockers \ proven /\ UNCHANGED <<saturated, capability>>
    BY <1>2 DEF AdmitApply
  <2>2. Cardinality(blockers') <= Cardinality(blockers)
    BY <1>0, <2>1, FS_Subset DEF RegistryOK, ConstantsAssumption
  <2>3. Cardinality(blockers') \in Nat /\ Cardinality(blockers) \in Nat
    BY <1>0, <2>1, FS_Subset, FS_CardinalityType
       DEF RegistryOK, ConstantsAssumption
  <2> QED BY <1>0, <2>1, <2>2, <2>3 DEF RegistryOK, ConstantsAssumption
<1>3. CASE AdmitSteps /\ ~AdmitApply
  BY <1>0, <1>3 DEF AdmitSteps, AdmitBegin, AdmitCheck, AdmitEnqueue,
     registryVars, RegistryOK
<1>4. ASSUME NEW w \in Workers, Latch(w) PROVE RegistryOK'
  <2>1. cur[w] \in Units /\ Publish(cur[w]) /\ UNCHANGED capability
    BY <1>0, <1>4 DEF Latch, NamingPcs
  <2> QED BY <1>0, <2>1, PublishKeepsBound DEF RegistryOK
<1>5. ASSUME NEW w \in Workers, \/ GiveBack(w) \/ CommandCheck(w)
                                \/ StartUnit(w) \/ Popen(w) \/ RecordSteps(w)
      PROVE  UNCHANGED <<blockers, saturated, capability>>
  BY <1>5, Settling DEF GiveBack, CommandCheck, StartUnit, Popen,
     RecordSteps, SettleSteps, UnchangedBySettle, RecordIntent, NoConnection,
     Activate, PersistStopping, RecordGroup, EndGroup, registryVars
<1>6. ASSUME NEW r \in Runs, TakeBuild(r) \/ TakeValidation(r)
      PROVE  UNCHANGED <<blockers, saturated, capability>>
  BY <1>6 DEF TakeBuild, TakeValidation, TakeRun, registryVars
<1>7. CASE Crash
  <2>1. blockers' = {} /\ saturated' = FALSE /\ capability' = "unknown"
    BY <1>7 DEF Crash
  <2>2. Cardinality({}) = 0
    BY FS_EmptySet
  <2>3. Cardinality(blockers') <= MaxBlockers
    BY <2>1, <2>2 DEF ConstantsAssumption
  <2> QED BY <2>1, <2>3 DEF RegistryOK
<1> QED BY <1>same, <1>1, <1>2, <1>3, <1>4, <1>5, <1>6, <1>7, ThreadFrame

(* What a thread may become in one step: a place, a Run, a unit and a      *)
(* backend of its own that fit together.                                   *)
LEMMA ThreadMoves ==
    ASSUME ConstantsAssumption, ThreadOK, ThreadsOK, NEW t \in Threads,
           pc' \in [Threads -> Pcs], job' \in [Threads -> Runs \cup {NoRun}],
           cur' \in [Threads -> Units \cup {NoUnit}],
           backend' \in [Threads -> Backends \cup {"unknown", "unresolved"}],
           \A o \in Threads \ {t} : /\ pc'[o] = pc[o] /\ job'[o] = job[o]
                                    /\ cur'[o] = cur[o]
                                    /\ backend'[o] = backend[o],
           UNCHANGED <<phase, admission>>,
           pc'[t] = "idle" <=> job'[t] = NoRun,
           job'[t] # NoRun => Up /\ admission,
           cur'[t] # NoUnit <=> pc'[t] \in NamingPcs,
           pc'[t] = "launch" /\ job'[t] \in Finite
               => backend'[t] = "systemd_cgroup",
           t = "admit" => pc'[t] \in AdmitPcs,
           \/ job'[t] \in {job[t], NoRun}
           \/ t = "admit"
           \/ \A o \in Workers : job'[t] # job[o]
    PROVE  ThreadsOK'
BY DEF ThreadsOK, ThreadOK, Threads, Workers, Up

(* Every step leaves each thread with a Run, a unit and a place that fit.  *)
LEMMA ThreadsStep ==
    ASSUME ConstantsAssumption, IInv, Next
    PROVE  ThreadOK' /\ ThreadsOK'
<1>0. /\ RegistryOK /\ ThreadOK /\ ThreadsOK /\ TypeOK
      /\ tried \in BOOLEAN /\ proven \subseteq Units
      /\ NoUnit \notin Units /\ NoRun \notin Runs
      /\ \A t \in Threads :
            /\ pc[t] # "idle" => job[t] \in Runs /\ Up /\ admission
            /\ pc[t] \in NamingPcs => cur[t] \in Units
            /\ pc[t] \notin NamingPcs => cur[t] = NoUnit
  BY HasRun DEF IInv, StateIsSound, TypeOK, ThreadOK, ConstantsAssumption
<1> DEFINE Typed == /\ pc' \in [Threads -> Pcs]
                    /\ job' \in [Threads -> Runs \cup {NoRun}]
                    /\ cur' \in [Threads -> Units \cup {NoUnit}]
                    /\ backend' \in [Threads ->
                          Backends \cup {"unknown", "unresolved"}]
           Others(t) == \A o \in Threads \ {t} :
                           /\ pc'[o] = pc[o] /\ job'[o] = job[o]
                           /\ cur'[o] = cur[o] /\ backend'[o] = backend[o]
           Fits(t) == /\ UNCHANGED <<phase, admission>>
                      /\ pc'[t] = "idle" <=> job'[t] = NoRun
                      /\ job'[t] # NoRun => Up /\ admission
                      /\ cur'[t] # NoUnit <=> pc'[t] \in NamingPcs
                      /\ pc'[t] = "launch" /\ job'[t] \in Finite
                            => backend'[t] = "systemd_cgroup"
                      /\ t = "admit" => pc'[t] \in AdmitPcs
                      /\ \/ job'[t] \in {job[t], NoRun}
                         \/ t = "admit"
                         \/ \A o \in Workers : job'[t] # job[o]
           Moved(t) == Typed /\ Others(t) /\ Fits(t)
<1>moved. ASSUME NEW t \in Threads, Moved(t), tried' \in BOOLEAN,
                 proven' \subseteq Units
          PROVE  ThreadOK' /\ ThreadsOK'
  <2>1. ThreadsOK'
    BY <1>0, <1>moved, ThreadMoves
  <2> QED BY <1>moved, <2>1, Zenon DEF ThreadOK
<1>1. ASSUME NEW t \in Threads, ProbeSteps(t) 
      PROVE  Moved(t) /\ UNCHANGED <<tried, proven>>
  <2> USE DEF AfterProbe, Goto, NamingPcs, ProbePcs, RecordedPcs, AdmitPcs,
              Pcs, OwningPcs, LeasePcs, Backends, ThreadOK, RegistryOK,
              threadVars, admitVars, processVars, Cached
  <2>1. CASE UseCapability(t)
    BY <1>0, <2>1 DEF UseCapability
  <2>2. CASE ProbeUnavailable(t)
    BY <1>0, <2>2 DEF ProbeUnavailable
  <2>3. CASE ProbeStart(t) \/ LimitProbeStart(t)
    <3>1. PICK u \in Fresh : cur' = [cur EXCEPT ![t] = u]
      BY <2>3 DEF ProbeStart, LimitProbeStart, StartProbe
    <3>2. u \in Units
      BY FreshNames
    <3> QED BY <1>0, <2>3, <3>1, <3>2
            DEF ProbeStart, LimitProbeStart, StartProbe
  <2>4. CASE ProbeEnd(t) \/ LimitProbeEnd(t)
    BY <1>0, <2>4 DEF ProbeEnd, LimitProbeEnd, ProbeGone
  <2>5. CASE ProbeUnresolved(t)
    BY <1>0, <2>5 DEF ProbeUnresolved
  <2> QED BY <1>1, <2>1, <2>2, <2>3, <2>4, <2>5 DEF ProbeSteps
<1> USE DEF Goto, Forget, NamingPcs, ProbePcs, RecordedPcs, AdmitPcs, Pcs,
            OwningPcs, LeasePcs, Backends, ThreadOK, threadVars, admitVars,
            processVars, EndAdmission, Threads, Workers
<1>2. CASE AdmitSteps
  <2>1. ASSUME NEW r \in Runs, AdmitBegin(r)
        PROVE  Moved("admit") /\ UNCHANGED <<tried, proven>>
    BY <1>0, <2>1 DEF AdmitBegin
  <2>2. CASE AdmitCheck
    <3>1. ASSUME NEW passed \in {"capable", "enqueue"},
                 NEW apply \in {"apply1", "apply2"},
                 Reconcile(passed, apply), pc["admit"] # "idle",
                 pc["admit"] \notin NamingPcs,
                 UNCHANGED <<cur, processVars>>
          PROVE  Moved("admit")
      BY <1>0, <3>1 DEF Reconcile
    <3>2. /\ \E passed \in {"capable", "enqueue"} :
               \E apply \in {"apply1", "apply2"} : Reconcile(passed, apply)
          /\ pc["admit"] # "idle" /\ pc["admit"] \notin NamingPcs
          /\ UNCHANGED <<cur, processVars>>
      BY <2>2 DEF AdmitCheck
    <3>3. tried' \in {tried, TRUE, FALSE} /\ proven' \subseteq Units
      BY <1>0, <3>2 DEF Reconcile, RegistryOK
    <3>4. tried' \in BOOLEAN
      BY <1>0, <3>3, Zenon
    <3> QED BY <1>moved, <3>1, <3>2, <3>3, <3>4
  <2>3. CASE AdmitApply
    BY <1>0, <1>moved, <2>3 DEF AdmitApply
  <2>4. CASE AdmitEnqueue
    <3>1. Moved("admit")
      BY <1>0, <2>4 DEF AdmitEnqueue
    <3>2. tried' \in BOOLEAN /\ proven' \subseteq Units
      BY <1>0, <2>4 DEF AdmitEnqueue
    <3> QED BY <1>moved, <3>1, <3>2
  <2> QED BY <1>0, <1>2, <1>moved, <2>1, <2>2, <2>3, <2>4 DEF AdmitSteps
<1>3. ASSUME NEW r \in Runs, TakeBuild(r) \/ TakeValidation(r)
      PROVE  ThreadOK' /\ ThreadsOK'
  <2>1. PICK w \in Workers : TakeRun(w, r)
    BY <1>3 DEF TakeBuild, TakeValidation
  <2>2. Moved(w) /\ UNCHANGED <<tried, proven>>
    BY <1>0, <2>1 DEF TakeRun, Unlocked
  <2> QED BY <1>0, <1>moved, <2>2
<1>4. ASSUME NEW w \in Workers, GiveBack(w) \/ CommandCheck(w) \/ Latch(w)
      PROVE  Moved(w) /\ UNCHANGED <<tried, proven>>
  <2>1. CASE GiveBack(w)
    BY <1>0, <2>1 DEF GiveBack
  <2>2. CASE CommandCheck(w)
    BY <1>0, <2>2 DEF CommandCheck
  <2>3. CASE Latch(w)
    BY <1>0, <2>3 DEF Latch
  <2> QED BY <1>4, <2>1, <2>2, <2>3
<1>5. ASSUME NEW w \in Workers, StartUnit(w) \/ Popen(w)
      PROVE  Moved(w) /\ UNCHANGED <<tried, proven>>
  <2>1. CASE StartUnit(w)
    BY <1>0, <2>1 DEF StartUnit
  <2>2. CASE Popen(w)
    <3>1. PICK u \in Fresh : cur' = [cur EXCEPT ![w] = u]
      BY <2>2 DEF Popen
    <3> QED BY <1>0, <2>2, <3>1, FreshNames DEF Popen
  <2> QED BY <1>5, <2>1, <2>2
<1>6. ASSUME NEW w \in Workers, RecordSteps(w)
      PROVE  Moved(w) /\ UNCHANGED <<tried, proven>>
  <2>1. CASE RecordIntent(w)
    <3>1. \/ UNCHANGED cur /\ Goto(w, "failed")
          \/ \E u \in Fresh : cur' = [cur EXCEPT ![w] = u] /\ Goto(w, "intent")
      BY <2>1 DEF RecordIntent
    <3> QED BY <1>0, <2>1, <3>1, FreshNames DEF RecordIntent
  <2>2. CASE NoConnection(w)
    BY <1>0, <2>2 DEF NoConnection
  <2>3. CASE Activate(w)
    BY <1>0, <2>3 DEF Activate
  <2>4. CASE PersistStopping(w)
    BY <1>0, <2>4 DEF PersistStopping
  <2>5. CASE RecordGroup(w)
    BY <1>0, <2>5 DEF RecordGroup
  <2>6. CASE EndGroup(w)
    <3>1. /\ cur' = [cur EXCEPT ![w] = NoUnit]
          /\ Goto(w, "ready") \/ Goto(w, "failed")
          /\ pc[w] = "grouped"
          /\ UNCHANGED <<job, backend, tried, proven, phase, admission>>
      BY <2>6 DEF EndGroup
    <3> QED BY <1>0, <3>1
  <2>7. CASE SettleSteps(w)
    <3>1. /\ \/ UNCHANGED cur /\ Goto(w, "latch")
             \/ /\ cur' = [cur EXCEPT ![w] = NoUnit]
                /\ Goto(w, "ready") \/ Goto(w, "failed")
          /\ pc[w] \in {"abort", "running", "stopping"}
          /\ UNCHANGED <<job, backend, tried, proven, phase, admission>>
      BY <2>7, Settling DEF Ended, Left, UnchangedBySettle
    <3> QED BY <1>0, <3>1
  <2> QED BY <1>6, <2>1, <2>2, <2>3, <2>4, <2>5, <2>6, <2>7
          DEF RecordSteps, SettleSteps
<1>7. CASE Crash
  <2>1. /\ pc' = [t \in Threads |-> "idle"] /\ job' = [t \in Threads |-> NoRun]
        /\ cur' = [t \in Threads |-> NoUnit]
        /\ backend' = [t \in Threads |-> "unknown"]
        /\ tried' = FALSE /\ proven' = {}
    BY <1>7 DEF Crash
  <2> QED BY <1>0, <2>1 DEF ThreadsOK
<1>8. CASE UNCHANGED <<pc, job, cur, backend, tried, proven>>
  <2>1. ThreadOK'
    BY <1>0, <1>8
  <2>2. UNCHANGED <<phase, admission>> \/ \A t \in Threads : job[t] = NoRun
    <3>1. CASE Up
      <4>1. ~BeginRecovery /\ ~Inventory
        BY <3>1 DEF BeginRecovery, Inventory, Up
      <4>2. ~SecondWrite \/ UNCHANGED <<phase, admission>>
        BY DEF SecondWrite, UnchangedByRecovery
      <4>3. ASSUME NEW r \in Runs, RecoverSteps(r)
            PROVE  UNCHANGED <<phase, admission>>
        BY <4>3 DEF RecoverSteps, RecoverUnreadable, RecoverResolved,
           RecoverWithoutIdentity, RecoverUnit, RecoverGroup,
           UnchangedByRecovery
      <4>4. Crash => \A t \in Threads : job'[t] = NoRun
        BY DEF Crash
      <4> QED BY <1>8, <4>1, <4>2, <4>3, <4>4, ProcessFrame
    <3>2. CASE ~Up
      BY <1>0, <3>2 DEF ThreadsOK
    <3> QED BY <3>1, <3>2
  <2> QED BY <1>0, <1>8, <2>1, <2>2 DEF ThreadsOK, Up
<1> QED
  <2>1. ASSUME NEW t \in Threads, Moved(t) /\ UNCHANGED <<tried, proven>>
        PROVE  ThreadOK' /\ ThreadsOK'
    BY <1>0, <1>moved, <2>1
  <2> QED BY <1>1, <1>2, <1>3, <1>4, <1>5, <1>6, <1>7, <1>8, <2>1, ThreadFrame

-----------------------------------------------------------------------------
(* What one step can make of one unit.                                     *)

Probed(u) ==
    \E t \in Threads : /\ ProbeStart(t) \/ LimitProbeStart(t)
                       /\ u \in Fresh /\ cur' = [cur EXCEPT ![t] = u]
                       /\ unit'[u] = [state |-> "loaded", run |-> NoRun]
Started(u) ==
    \E w \in Workers : /\ StartUnit(w) /\ u = cur[w]
                       /\ unit'[u] = [state |-> "loaded", run |-> job[w]]
Spawned(u) ==
    \E w \in Workers : /\ Popen(w) /\ u \in Fresh
                       /\ cur' = [cur EXCEPT ![w] = u]
                       /\ unit'[u] = [state |-> "group", run |-> job[w]]

\* Its processes end, its cgroup is left alone, or one leaves its group.
Decayed(u) ==
    /\ unit'[u].run = unit[u].run
    /\ \/ unit[u].state = "loaded" /\ unit'[u].state \in {"exited", "cgroup"}
       \/ unit[u].state = "group" /\ unit'[u].state = "escaped"

UnitChanges(u) ==
    \/ unit'[u] = unit[u] \/ unit'[u] = Nothing
    \/ Probed(u) \/ Started(u) \/ Spawned(u) \/ Decayed(u)

(* No step makes anything else of a unit.                                  *)
LEMMA UnitFate ==
    ASSUME ConstantsAssumption, IInv, Next, NEW u \in Units
    PROVE  UnitChanges(u)
<1> USE DEF Workers, Threads
<1>0. /\ UnitsOK /\ TypeOK /\ ThreadsOK
      /\ \A t \in Threads : pc[t] \in NamingPcs => cur[t] \in Units
  BY HasRun DEF IInv, StateIsSound, TypeOK, UnitsOK, UnitShape, HostOK,
     RecoveryOK
<1>1. ASSUME NEW v \in Units, unit' \in Unstopped(v) PROVE UnitChanges(u)
  BY <1>0, <1>1
     DEF Unstopped, UnitChanges, Decayed, UnitsOK, UnitShape
<1>2. ASSUME NEW v \in Units, unit' = [unit EXCEPT ![v] = Nothing]
      PROVE  UnitChanges(u)
  BY <1>0, <1>2 DEF UnitChanges, UnitsOK
<1>same. CASE UNCHANGED unit
  BY <1>same DEF UnitChanges
<1>3. ASSUME NEW t \in Threads, ProbeSteps(t) PROVE UnitChanges(u)
  <2>1. CASE ProbeStart(t) \/ LimitProbeStart(t)
    <3>1. PICK v \in Fresh : /\ unit' = Loaded(v, NoRun)
                             /\ cur' = [cur EXCEPT ![t] = v]
      BY <2>1 DEF ProbeStart, LimitProbeStart, StartProbe
    <3>2. u = v => unit'[u] = [state |-> "loaded", run |-> NoRun]
      BY <1>0, <3>1 DEF Loaded, UnitsOK
    <3>3. u = v => Probed(u)
      BY <2>1, <3>1, <3>2 DEF Probed
    <3>4. u # v => unit'[u] = unit[u]
      BY <1>0, <3>1 DEF Loaded, UnitsOK
    <3> QED BY <3>3, <3>4 DEF UnitChanges
  <2>2. CASE ProbeEnd(t) \/ LimitProbeEnd(t) \/ ProbeUnresolved(t)
    <3>1. cur[t] \in Units
      BY <1>0, <2>2 DEF ProbeEnd, LimitProbeEnd, ProbeUnresolved, NamingPcs,
         ProbePcs
    <3>2. \/ UNCHANGED unit \/ unit' \in Unstopped(cur[t])
          \/ unit' = [unit EXCEPT ![cur[t]] = Nothing]
      BY <2>2 DEF ProbeEnd, LimitProbeEnd, ProbeUnresolved, ProbeGone
    <3> QED BY <1>1, <1>2, <1>same, <3>1, <3>2
  <2>3. CASE UseCapability(t) \/ ProbeUnavailable(t)
    BY <1>same, <2>3 DEF UseCapability, ProbeUnavailable
  <2> QED BY <1>3, <2>1, <2>2, <2>3 DEF ProbeSteps
<1>4. ASSUME NEW w \in Workers, StartUnit(w) PROVE UnitChanges(u)
  <2>1. UNCHANGED unit \/ unit' = Loaded(cur[w], job[w])
    BY <1>4 DEF StartUnit
  <2>2. ASSUME unit' = Loaded(cur[w], job[w]) PROVE UnitChanges(u)
    <3>1. u = cur[w] => unit'[u] = [state |-> "loaded", run |-> job[w]]
      BY <1>0, <2>2 DEF Loaded, UnitsOK
    <3>2. u = cur[w] => Started(u)
      BY <1>4, <3>1 DEF Started
    <3>3. u # cur[w] => unit'[u] = unit[u]
      BY <1>0, <2>2 DEF Loaded, UnitsOK
    <3> QED BY <3>2, <3>3 DEF UnitChanges
  <2> QED BY <1>same, <2>1, <2>2
<1>5. ASSUME NEW w \in Workers, Popen(w) PROVE UnitChanges(u)
  <2>1. PICK v \in Fresh :
           /\ unit' = [unit EXCEPT ![v] = [state |-> "group", run |-> job[w]]]
           /\ cur' = [cur EXCEPT ![w] = v]
    BY <1>5 DEF Popen
  <2>2. u = v => unit'[u] = [state |-> "group", run |-> job[w]]
    BY <1>0, <2>1 DEF UnitsOK
  <2>3. u = v => Spawned(u)
    BY <1>5, <2>1, <2>2 DEF Spawned
  <2>4. u # v => unit'[u] = unit[u]
    BY <1>0, <2>1 DEF UnitsOK
  <2> QED BY <2>3, <2>4 DEF UnitChanges
<1>6. ASSUME NEW w \in Workers, RecordSteps(w) PROVE UnitChanges(u)
  <2>1. CASE RecordIntent(w) \/ NoConnection(w) \/ Activate(w)
             \/ PersistStopping(w)
    BY <1>same, <2>1 DEF RecordIntent, NoConnection, Activate, PersistStopping
  <2>2. CASE SettleSteps(w)
    <3>1. cur[w] \in Units
      BY <1>0, <2>2, Settling DEF NamingPcs, RecordedPcs
    <3> QED BY <1>1, <1>2, <2>2, <3>1, Settling DEF Ended, Left
  <2>3. CASE RecordGroup(w) \/ EndGroup(w)
    <3>1. cur[w] \in Units
      BY <1>0, <2>3 DEF RecordGroup, EndGroup, NamingPcs
    <3>2. UNCHANGED unit \/ unit' = [unit EXCEPT ![cur[w]] = Nothing]
      BY <2>3 DEF RecordGroup, EndGroup, Signalled
    <3> QED BY <1>2, <1>same, <3>1, <3>2
  <2> QED BY <1>6, <2>1, <2>2, <2>3 DEF RecordSteps, SettleSteps
<1>7. ASSUME NEW v \in Units, HostStep(v) PROVE UnitChanges(u)
  <2>1. PICK next \in {<<"loaded", "exited">>, <<"loaded", "free">>,
                       <<"exited", "free">>, <<"cgroup", "free">>,
                       <<"group", "free">>, <<"group", "escaped">>,
                       <<"escaped", "free">>} :
               /\ unit[v].state = next[1]
               /\ unit' = [unit EXCEPT ![v] =
                             IF next[2] = "free" THEN Nothing
                             ELSE [unit[v] EXCEPT !.state = next[2]]]
    BY <1>7, Zenon DEF HostStep
  <2>2. CASE next[2] = "free"
    BY <1>2, <2>1, <2>2
  <2>3. CASE next = <<"loaded", "exited">>
    <3>1. /\ unit[v].state = "loaded"
          /\ unit' = [unit EXCEPT ![v] = [unit[v] EXCEPT !.state = "exited"]]
      BY <2>1, <2>3
    <3> QED BY <1>0, <3>1 DEF UnitsOK, UnitShape, UnitChanges, Decayed
  <2>4. CASE next = <<"group", "escaped">>
    <3>1. /\ unit[v].state = "group"
          /\ unit' = [unit EXCEPT ![v] = [unit[v] EXCEPT !.state = "escaped"]]
      BY <2>1, <2>4
    <3> QED BY <1>0, <3>1 DEF UnitsOK, UnitShape, UnitChanges, Decayed
  <2> QED BY <2>1, <2>2, <2>3, <2>4
<1>8. CASE Reboot
  BY <1>8 DEF Reboot, UnitChanges
<1>9. ASSUME NEW r \in Runs, RecoverSteps(r) PROVE UnitChanges(u)
  <2>1. CASE ~UNCHANGED unit
    <3>1. /\ HasIdentity(r)
          /\ unit' = [unit EXCEPT ![ident[r].unit] = Nothing]
      BY <1>9, <2>1 DEF RecoverSteps, RecoverUnreadable, RecoverResolved,
         RecoverWithoutIdentity, RecoverUnit, RecoverGroup, Signalled
    <3>2. ident[r].unit \in Units
      BY <1>0, <3>1 DEF HasIdentity, TypeOK, DurableOK, Identities
    <3> QED BY <1>2, <3>1, <3>2
  <2> QED BY <1>same, <2>1
<1>10. CASE Inventory
  BY <1>10 DEF Inventory, UnitChanges
<1> QED BY <1>same, <1>3, <1>4, <1>5, <1>6, <1>7, <1>8, <1>9, <1>10, HostFrame

-----------------------------------------------------------------------------
(* The names of units, the registry and the reconciliation.                *)

Named == \E t \in Threads, u \in Fresh :
            /\ cur' = [cur EXCEPT ![t] = u]
            /\ UNCHANGED <<blockers, saturated, proven>>
Released ==
    /\ \A t \in Threads : cur'[t] \in {cur[t], NoUnit}
    /\ \A u \in blockers' :
          \/ u \in blockers
          \/ \E t \in Threads : cur[t] = u /\ cur'[t] = NoUnit

(* A step gives one thread a fresh name, or threads give names back; a     *)
(* name that enters the registry was given back in that step.              *)
LEMMA NameFate ==
    ASSUME ConstantsAssumption, IInv, Next
    PROVE  Named \/ Released
<1> USE DEF Workers, Threads
<1>0. ThreadOK /\ cur \in [Threads -> Units \cup {NoUnit}]
  BY DEF IInv, StateIsSound, TypeOK, ThreadOK
<1>1. CASE UNCHANGED <<cur, blockers>>
  BY <1>1 DEF Released
<1>2. ASSUME NEW t \in Threads, ProbeSteps(t) PROVE Named \/ Released
  <2>1. CASE ProbeStart(t) \/ LimitProbeStart(t)
    BY <2>1 DEF ProbeStart, LimitProbeStart, StartProbe, Named, registryVars,
       admitVars
  <2>2. CASE ProbeEnd(t) \/ LimitProbeEnd(t)
    BY <1>0, <2>2 DEF ProbeEnd, LimitProbeEnd, ProbeGone, Released
  <2>3. CASE ProbeUnresolved(t)
    BY <1>0, <2>3 DEF ProbeUnresolved, Released, Publish
  <2>4. CASE UseCapability(t) \/ ProbeUnavailable(t)
    BY <1>1, <2>4 DEF UseCapability, ProbeUnavailable, registryVars
  <2> QED BY <1>2, <2>1, <2>2, <2>3, <2>4 DEF ProbeSteps
<1>3. CASE AdmitSteps
  BY <1>0, <1>3 DEF AdmitSteps, AdmitBegin, AdmitCheck, AdmitApply,
     AdmitEnqueue, Released, registryVars
<1>4. ASSUME NEW r \in Runs, TakeBuild(r) \/ TakeValidation(r)
      PROVE  UNCHANGED <<cur, blockers>>
  BY <1>4 DEF TakeBuild, TakeValidation, TakeRun, registryVars
<1>5. ASSUME NEW w \in Workers,
             GiveBack(w) \/ CommandCheck(w) \/ StartUnit(w)
      PROVE  UNCHANGED <<cur, blockers>>
  BY <1>5 DEF GiveBack, CommandCheck, StartUnit, registryVars
<1>6. ASSUME NEW w \in Workers, Latch(w) PROVE Released
  BY <1>0, <1>6 DEF Latch, Publish, Released
<1>7. ASSUME NEW w \in Workers, Popen(w) PROVE Named
  BY <1>7 DEF Popen, Named, registryVars, admitVars
<1>8. ASSUME NEW w \in Workers, RecordSteps(w) PROVE Named \/ Released
  <2>1. CASE RecordIntent(w)
    <3>1. UNCHANGED <<blockers, saturated, proven>>
      BY <2>1 DEF RecordIntent, registryVars, admitVars
    <3>2. UNCHANGED cur \/ \E u \in Fresh : cur' = [cur EXCEPT ![w] = u]
      BY <2>1 DEF RecordIntent
    <3> QED BY <1>1, <3>1, <3>2 DEF Named
  <2>2. CASE SettleSteps(w)
    <3>1. \/ UNCHANGED cur
          \/ cur' = [cur EXCEPT ![w] = NoUnit]
      BY <2>2, Settling DEF Ended, Left
    <3>2. UNCHANGED blockers
      BY <2>2, Settling DEF UnchangedBySettle, registryVars
    <3> QED BY <1>0, <3>1, <3>2 DEF Released
  <2>3. CASE \/ NoConnection(w) \/ Activate(w) \/ PersistStopping(w)
             \/ RecordGroup(w) \/ EndGroup(w)
    <3>1. UNCHANGED cur \/ cur' = [cur EXCEPT ![w] = NoUnit]
      BY <2>3 DEF NoConnection, Activate, PersistStopping, RecordGroup,
         EndGroup
    <3>2. UNCHANGED blockers
      BY <2>3 DEF NoConnection, Activate, PersistStopping, RecordGroup,
         EndGroup, registryVars
    <3> QED BY <1>0, <3>1, <3>2 DEF Released
  <2> QED BY <1>8, <2>1, <2>2, <2>3 DEF RecordSteps, SettleSteps
<1>9. Crash => Released
  BY DEF Crash, Released
<1> QED BY <1>1, <1>2, <1>3, <1>4, <1>5, <1>6, <1>7, <1>8, <1>9, ThreadFrame

(* What a reconciliation has proved is only replaced while nothing moves,  *)
(* and a blocker is only removed with it.                                  *)
LEMMA ProvenFate ==
    ASSUME ConstantsAssumption, IInv, Next
    PROVE  \/ proven' = {}
           \/ /\ proven' \subseteq {u \in blockers : ~Present(u)}
              /\ UNCHANGED <<blockers, unit>>
           \/ UNCHANGED proven /\ blockers \subseteq blockers'
<1> USE DEF registryVars, admitVars
<1>1. CASE UNCHANGED <<proven, blockers>>
  BY <1>1
<1>2. ASSUME NEW t \in Threads, ProbeSteps(t)
      PROVE  UNCHANGED proven /\ blockers \subseteq blockers'
  BY <1>2 DEF ProbeSteps, UseCapability, ProbeUnavailable, ProbeStart,
     StartProbe, ProbeEnd, LimitProbeStart, LimitProbeEnd, ProbeGone,
     ProbeUnresolved, Publish
<1>3. AdmitApply \/ Crash => proven' = {}
  BY DEF AdmitApply, Crash
<1>4. AdmitCheck => /\ UNCHANGED <<blockers, unit>>
                    /\ \/ UNCHANGED proven
                       \/ proven' \subseteq {u \in blockers : ~Present(u)}
  BY DEF AdmitCheck, Reconcile, ProvenGone
<1>5. AdmitEnqueue \/ (\E r \in Runs : AdmitBegin(r))
         => UNCHANGED <<proven, blockers>>
  BY DEF AdmitEnqueue, AdmitBegin
<1>6. ASSUME NEW r \in Runs, TakeBuild(r) \/ TakeValidation(r)
      PROVE  UNCHANGED <<proven, blockers>>
  BY <1>6 DEF TakeBuild, TakeValidation, TakeRun
<1>7. ASSUME NEW w \in Workers, \/ GiveBack(w) \/ CommandCheck(w) \/ Latch(w)
                                \/ StartUnit(w) \/ Popen(w) \/ RecordSteps(w)
      PROVE  UNCHANGED proven /\ blockers \subseteq blockers'
  BY <1>7, Settling DEF GiveBack, CommandCheck, Latch, Publish, StartUnit,
     Popen, RecordSteps, SettleSteps, UnchangedBySettle, RecordIntent,
     NoConnection, Activate, PersistStopping, RecordGroup, EndGroup
<1> QED BY <1>1, <1>2, <1>3, <1>4, <1>5, <1>6, <1>7, ThreadFrame
        DEF AdmitSteps

(* A worker is about to ask for a unit since it recorded a fresh one.      *)
LEMMA IntentFate ==
    ASSUME ConstantsAssumption, IInv, Next,
           NEW t \in Threads, pc'[t] = "intent"
    PROVE  \/ pc[t] = "intent" /\ cur'[t] = cur[t] /\ ~StartUnit(t)
           \/ cur'[t] \in Fresh /\ UNCHANGED unit
<1> USE DEF Workers, Threads
<1>0. /\ pc \in [Threads -> Pcs] /\ cur \in [Threads -> Units \cup {NoUnit}]
  BY DEF IInv, StateIsSound, TypeOK, ThreadOK
<1>a. ~StartUnit(t)
  BY <1>0 DEF StartUnit, Goto
<1>1. CASE UNCHANGED <<pc, cur>>
  BY <1>1, <1>a
<1>2. ASSUME NEW o \in Threads, ProbeSteps(o)
      PROVE  pc[t] = "intent" /\ cur'[t] = cur[t]
  BY <1>0, <1>2 DEF ProbeSteps, UseCapability, ProbeUnavailable, ProbeStart,
     StartProbe, ProbeEnd, LimitProbeStart, LimitProbeEnd, ProbeGone,
     ProbeUnresolved, Goto, AfterProbe
<1>3. AdmitSteps => pc[t] = "intent" /\ cur'[t] = cur[t]
  BY <1>0 DEF AdmitSteps, AdmitBegin, AdmitCheck, AdmitApply, AdmitEnqueue,
     Reconcile, EndAdmission, Goto
<1>4. ASSUME NEW r \in Runs, TakeBuild(r) \/ TakeValidation(r)
      PROVE  pc[t] = "intent" /\ cur'[t] = cur[t]
  BY <1>0, <1>4 DEF TakeBuild, TakeValidation, TakeRun, Goto
<1>5. ASSUME NEW w \in Workers,
             \/ GiveBack(w) \/ CommandCheck(w) \/ Latch(w) \/ StartUnit(w)
             \/ NoConnection(w) \/ Activate(w) \/ PersistStopping(w)
             \/ RecordGroup(w) \/ EndGroup(w)
      PROVE  pc[t] = "intent" /\ cur'[t] = cur[t]
  BY <1>0, <1>5 DEF GiveBack, CommandCheck, Latch, StartUnit, NoConnection,
     Activate, PersistStopping, RecordGroup, EndGroup, Goto
<1>6. ASSUME NEW w \in Workers, Popen(w)
      PROVE  pc[t] = "intent" /\ cur'[t] = cur[t]
  BY <1>0, <1>6 DEF Popen, Goto
<1>7. ASSUME NEW w \in Workers, SettleSteps(w)
      PROVE  pc[t] = "intent" /\ cur'[t] = cur[t]
  BY <1>0, <1>7, Settling DEF Ended, Left, Goto
<1>8. ASSUME NEW w \in Workers, RecordIntent(w)
      PROVE  \/ pc[t] = "intent" /\ cur'[t] = cur[t]
             \/ cur'[t] \in Fresh /\ UNCHANGED unit
  BY <1>0, <1>8 DEF RecordIntent, Goto
<1>9. ~Crash
  BY DEF Crash
<1> QED BY <1>a, <1>1, <1>2, <1>3, <1>4, <1>5, <1>6, <1>7, <1>8, <1>9,
           ThreadFrame DEF RecordSteps, SettleSteps

(* Names stay unique, and what was proved absent stays absent.             *)
LEMMA NamesStep ==
    ASSUME ConstantsAssumption, IInv, Next
    PROVE  NamesOK'
<1> USE DEF Workers, Threads
<1>0. /\ NamesOK /\ ThreadOK /\ RegistryOK /\ RegistryOK' /\ ThreadOK'
      /\ NoUnit \notin Units
  BY RegistryStep, ThreadsStep
     DEF IInv, StateIsSound, TypeOK, ConstantsAssumption
<1>1. /\ \A t, o \in Threads : cur'[t] = cur'[o] => t = o \/ cur'[t] = NoUnit
      /\ \A t \in Threads : cur'[t] \notin blockers'
  <2>1. CASE Named
    BY <1>0, <2>1, FreshNames DEF Named, NamesOK, ThreadOK
  <2>2. CASE Released
    BY <1>0, <2>2 DEF Released, NamesOK, RegistryOK
  <2> QED BY <2>1, <2>2, NameFate
<1>2. proven' \subseteq blockers'
  BY <1>0, ProvenFate DEF NamesOK
<1>3. \A u \in proven' : ~Present(u)'
  <2>1. CASE proven' \subseteq {u \in blockers : ~Present(u)} /\ UNCHANGED unit
    BY <2>1 DEF Present
  <2>2. CASE UNCHANGED proven
    <3>1. SUFFICES ASSUME NEW u \in proven, Present(u)' PROVE FALSE
      BY <2>2
    <3>2. u \in Units /\ u \in blockers /\ ~Present(u)
      BY <1>0, <3>1 DEF NamesOK, ThreadOK
    <3>3. ~Probed(u) /\ ~Started(u) /\ ~Spawned(u)
      BY <1>0, <3>2, FreshNames DEF Probed, Started, Spawned, NamesOK
    <3>4. unit'[u] = unit[u] \/ unit'[u] = Nothing \/ Decayed(u)
      BY <3>2, <3>3, UnitFate DEF UnitChanges
    <3> QED BY <3>1, <3>2, <3>4 DEF Present, Nothing, Decayed
  <2> QED BY <2>1, <2>2, ProvenFate
<1>4. ASSUME NEW t \in Threads, pc'[t] = "intent"
      PROVE  unit'[cur'[t]].state = "free"
  <2>1. CASE cur'[t] \in Fresh /\ UNCHANGED unit
    BY <2>1, FreshNames
  <2>2. CASE pc[t] = "intent" /\ cur'[t] = cur[t] /\ ~StartUnit(t)
    <3> DEFINE u == cur[t]
    <3>1. u \in Units /\ u # NoUnit /\ unit[u].state = "free"
      BY <1>0, <2>2, HasRun DEF NamesOK, NamingPcs, RecordedPcs, IInv, StateIsSound
    <3>2. ~Probed(u) /\ ~Spawned(u)
      BY FreshNames DEF Probed, Spawned
    <3>3. ~Started(u)
      BY <1>0, <2>2, <3>1 DEF Started, NamesOK
    <3>4. unit'[u] = unit[u] \/ unit'[u] = Nothing \/ Decayed(u)
      BY <3>1, <3>2, <3>3, UnitFate DEF UnitChanges
    <3> QED BY <2>2, <3>1, <3>4 DEF Nothing, Decayed
  <2> QED BY <1>4, <2>1, <2>2, IntentFate
<1> QED BY <1>1, <1>2, <1>3, <1>4 DEF NamesOK

-----------------------------------------------------------------------------
(* Whoever answers for a unit keeps answering for it, until it is gone or  *)
(* in the registry.                                                        *)

Answers(t, u) == cur[t] = u /\ pc[t] \in OwningPcs

Relieved(t, u) ==
    \/ cur'[t] = u /\ pc'[t] \in OwningPcs
    \/ unit'[u] = Nothing
    \/ u \in blockers' \/ saturated' = TRUE
    \/ ~Present(u) /\ UNCHANGED unit

(* No step but the death of the process makes a thread forget its unit.    *)
LEMMA OwnerFate ==
    ASSUME ConstantsAssumption, IInv, Next, ~Crash,
           NEW t \in Threads, NEW u \in Units, Answers(t, u)
    PROVE  Relieved(t, u)
<1> USE DEF Workers, Threads, Answers, Relieved
<1>0. /\ pc \in [Threads -> Pcs] /\ cur \in [Threads -> Units \cup {NoUnit}]
      /\ unit \in [Units -> UnitShape]
      /\ \A w \in Threads : pc[w] = "intent" => unit[cur[w]].state = "free"
  BY DEF IInv, StateIsSound, TypeOK, ThreadOK, HostOK, UnitShape, NamesOK
<1>1. CASE UNCHANGED <<pc, cur>>
  BY <1>1
<1>2. ASSUME NEW o \in Threads, ProbeSteps(o) PROVE Relieved(t, u)
  <2>1. CASE UseCapability(o) \/ ProbeUnavailable(o)
    BY <1>0, <2>1 DEF UseCapability, ProbeUnavailable, Goto, OwningPcs,
       LeasePcs
  <2>2. CASE ProbeStart(o) \/ LimitProbeStart(o)
    BY <1>0, <2>2 DEF ProbeStart, LimitProbeStart, StartProbe, Goto,
       OwningPcs, LeasePcs
  <2>3. CASE ProbeEnd(o) \/ LimitProbeEnd(o)
    <3>1. /\ unit' = [unit EXCEPT ![cur[o]] = Nothing]
          /\ \A x \in Threads \ {o} : cur'[x] = cur[x] /\ pc'[x] = pc[x]
      BY <1>0, <2>3 DEF ProbeEnd, LimitProbeEnd, ProbeGone, Goto
    <3> QED BY <1>0, <3>1
  <2>4. CASE ProbeUnresolved(o)
    <3>1. /\ cur[o] \in blockers' \/ saturated' = TRUE
          /\ \A x \in Threads \ {o} : cur'[x] = cur[x] /\ pc'[x] = pc[x]
      BY <1>0, <2>4 DEF ProbeUnresolved, Goto, Publish
    <3> QED BY <3>1
  <2> QED BY <1>2, <2>1, <2>2, <2>3, <2>4 DEF ProbeSteps
<1>3. CASE AdmitSteps
  BY <1>0, <1>3 DEF AdmitSteps, AdmitBegin, AdmitCheck, AdmitApply,
     AdmitEnqueue, Reconcile, EndAdmission, Goto, OwningPcs, LeasePcs
<1>4. ASSUME NEW r \in Runs, TakeBuild(r) \/ TakeValidation(r)
      PROVE  Relieved(t, u)
  BY <1>0, <1>4 DEF TakeBuild, TakeValidation, TakeRun, Goto, OwningPcs,
     LeasePcs
<1>5. ASSUME NEW w \in Workers, \/ GiveBack(w) \/ CommandCheck(w)
                                \/ StartUnit(w) \/ Activate(w)
                                \/ PersistStopping(w)
      PROVE  Relieved(t, u)
  BY <1>0, <1>5 DEF GiveBack, CommandCheck, StartUnit, Activate,
     PersistStopping, Goto, OwningPcs, LeasePcs
<1>6. ASSUME NEW w \in Workers, \/ Popen(w) \/ RecordIntent(w)
                                \/ RecordGroup(w) \/ EndGroup(w)
      PROVE  Relieved(t, u)
  <2>1. /\ pc[w] \notin OwningPcs
        /\ \A x \in Threads \ {w} : cur'[x] = cur[x] /\ pc'[x] = pc[x]
    BY <1>0, <1>6 DEF Popen, RecordIntent, RecordGroup, EndGroup, Goto,
       OwningPcs, LeasePcs
  <2> QED BY <2>1
<1>7. ASSUME NEW w \in Workers, NoConnection(w) PROVE Relieved(t, u)
  <2>1. /\ unit[cur[w]].state = "free" /\ UNCHANGED unit
        /\ \A x \in Threads \ {w} : cur'[x] = cur[x] /\ pc'[x] = pc[x]
    BY <1>0, <1>7 DEF NoConnection, Goto
  <2> QED BY <2>1 DEF Present
<1>8. ASSUME NEW w \in Workers, Latch(w) PROVE Relieved(t, u)
  <2>1. /\ cur[w] \in blockers' \/ saturated' = TRUE
        /\ \A x \in Threads \ {w} : cur'[x] = cur[x] /\ pc'[x] = pc[x]
    BY <1>0, <1>8 DEF Latch, Goto, Publish
  <2> QED BY <2>1
<1>9. ASSUME NEW w \in Workers, SettleSteps(w) PROVE Relieved(t, u)
  <2>1. Ended(w) \/ Left(w)
    BY <1>9, Settling
  <2>2. \A x \in Threads \ {w} : cur'[x] = cur[x] /\ pc'[x] = pc[x]
    BY <1>0, <2>1 DEF Ended, Left, Goto
  <2>3. CASE Ended(w)
    BY <1>0, <2>2, <2>3 DEF Ended
  <2>4. CASE Left(w)
    BY <1>0, <2>2, <2>4 DEF Left, Goto, OwningPcs
  <2> QED BY <2>1, <2>3, <2>4
<1> QED BY <1>1, <1>2, <1>3, <1>4, <1>5, <1>6, <1>7, <1>8, <1>9, ThreadFrame
        DEF RecordSteps, SettleSteps

(* A blocker leaves the registry with the proof of its absence or with the *)
(* process, and a full registry stays full until then.                     *)
LEMMA RegistryFate ==
    ASSUME ConstantsAssumption, IInv, Next, ~Crash
    PROVE  /\ blockers \subseteq blockers' \cup proven
           /\ saturated = TRUE => saturated' = TRUE
<1> USE DEF registryVars
<1>1. CASE UNCHANGED <<blockers, saturated>>
  BY <1>1
<1>2. ASSUME NEW t \in Threads, ProbeSteps(t)
      PROVE  /\ blockers \subseteq blockers' \cup proven
             /\ saturated = TRUE => saturated' = TRUE
  BY <1>2 DEF ProbeSteps, UseCapability, ProbeUnavailable, ProbeStart,
     StartProbe, ProbeEnd, LimitProbeStart, LimitProbeEnd, ProbeGone,
     ProbeUnresolved, Publish
<1>3. AdmitSteps => /\ blockers \subseteq blockers' \cup proven
                    /\ saturated' = saturated
  BY DEF AdmitSteps, AdmitBegin, AdmitCheck, AdmitApply, AdmitEnqueue
<1>4. ASSUME NEW r \in Runs, TakeBuild(r) \/ TakeValidation(r)
      PROVE  UNCHANGED <<blockers, saturated>>
  BY <1>4 DEF TakeBuild, TakeValidation, TakeRun
<1>5. ASSUME NEW w \in Workers, \/ GiveBack(w) \/ CommandCheck(w) \/ Latch(w)
                                \/ StartUnit(w) \/ Popen(w) \/ RecordSteps(w)
      PROVE  /\ blockers \subseteq blockers' \cup proven
             /\ saturated = TRUE => saturated' = TRUE
  BY <1>5, Settling DEF GiveBack, CommandCheck, Latch, Publish, StartUnit,
     Popen, RecordSteps, SettleSteps, UnchangedBySettle, RecordIntent,
     NoConnection, Activate, PersistStopping, RecordGroup, EndGroup
<1> QED BY <1>1, <1>2, <1>3, <1>4, <1>5, ThreadFrame

(* Admission opens in one step only: the inventory that closes a startup,  *)
(* and then the namespace is empty.                                        *)
LEMMA OpeningIsClean ==
    ASSUME ConstantsAssumption, IInv, Inventory, admission' = TRUE,
           NEW u \in Units
    PROVE  ~Present(u)'
<1> DEFINE Acc == {v \in bound : Present(v) /\ unit[v].run \in blocked}
<1>1. PICK left \in SUBSET Stoppable :
         /\ unit' = [v \in Units |-> IF v \in Stoppable \ left
                                     THEN Nothing ELSE unit[v]]
         /\ admission' = (/\ ~found
                          /\ \A v \in Units : Present(v) =>
                                v \in Acc \cup (Stoppable \ left))
  BY DEF Inventory
<1>2. /\ ~found
      /\ \A v \in Units : Present(v) => v \in Acc \cup (Stoppable \ left)
  BY <1>1, Zenon
<1>3. blocked = {}
  BY <1>2 DEF IInv, StrayOK
<1>4. Present(u) => u \in Stoppable \ left
  BY <1>2, <1>3
<1> QED BY <1>1, <1>4 DEF Present, Nothing

(* Behind an open admission every unit stays answered for or blocked.      *)
LEMMA StrayStep ==
    ASSUME ConstantsAssumption, IInv, Next
    PROVE  StrayOK'
<1>0. /\ StrayOK /\ NamesOK /\ UnitsOK /\ UnitsOK' /\ StartupOK /\ StartupOK'
      /\ saturated \in BOOLEAN /\ saturated' \in BOOLEAN
      /\ admission \in BOOLEAN /\ admission' \in BOOLEAN
  BY HostOKStep, RegistryStep, StartupStep
     DEF IInv, StateIsSound, TypeOK, UnitsOK, UnitShape, HostOK, RecoveryOK,
         RegistryOK, StartupOK
<1>1. ASSUME Up', admission', ~saturated', NEW u \in Units, Present(u)'
      PROVE  \/ u \in blockers'
             \/ \E t \in Threads : cur'[t] = u /\ pc'[t] \in OwningPcs
  <2>a. saturated' # TRUE /\ admission' = TRUE
    BY <1>0, <1>1, Zenon
  <2>1. ~Crash /\ ~BeginRecovery
    BY <1>1 DEF Crash, BeginRecovery, Up
  <2>2. ~Inventory
    BY <1>1, <2>a, OpeningIsClean
  <2>3. UNCHANGED <<phase, admission>>
    <3>1. ASSUME NEW r \in Runs, RecoverSteps(r)
          PROVE  UNCHANGED <<phase, admission>>
      BY <3>1 DEF RecoverSteps, RecoverUnreadable, RecoverResolved,
         RecoverWithoutIdentity, RecoverUnit, RecoverGroup,
         UnchangedByRecovery
    <3>2. SecondWrite => UNCHANGED <<phase, admission>>
      BY DEF SecondWrite, UnchangedByRecovery
    <3> QED BY <2>1, <2>2, <3>1, <3>2, ProcessFrame
  <2>4. Up /\ admission /\ ~saturated
    <3>1. saturated # TRUE
      BY <2>a, <2>1, RegistryFate
    <3>2. ~saturated
      BY <1>0, <3>1, Zenon
    <3>3. Up /\ admission
      BY <1>1, <2>3 DEF Up
    <3> QED BY <3>2, <3>3
  <2>5. CASE Probed(u)
    <3>1. PICK t \in Threads : /\ ProbeStart(t) \/ LimitProbeStart(t)
                               /\ cur' = [cur EXCEPT ![t] = u]
      BY <2>5 DEF Probed
    <3>2. cur'[t] = u /\ pc'[t] \in OwningPcs
      BY <3>1 DEF ProbeStart, LimitProbeStart, StartProbe, Goto, OwningPcs,
         LeasePcs, IInv, StateIsSound, TypeOK, ThreadOK
    <3> QED BY <3>2
  <2>6. CASE Started(u)
    <3>1. PICK w \in Workers : StartUnit(w) /\ u = cur[w]
      BY <2>6 DEF Started
    <3>2. cur'[w] = u /\ pc'[w] \in OwningPcs
      BY <3>1 DEF StartUnit, Goto, OwningPcs, LeasePcs, IInv, StateIsSound,
         TypeOK, ThreadOK, Workers, Threads
    <3> QED BY <3>2 DEF Workers, Threads
  <2>7. CASE unit'[u] = unit[u] \/ Decayed(u)
    <3>1. Present(u)
      BY <1>1, <2>7 DEF Present, Decayed
    <3>2. \/ u \in blockers
          \/ \E t \in Threads : Answers(t, u)
      BY <1>0, <2>4, <3>1 DEF StrayOK, Answers
    <3>3. CASE u \in blockers
      <4>1. u \notin proven
        BY <1>0, <3>1 DEF NamesOK
      <4> QED BY <2>1, <3>3, <4>1, RegistryFate
    <3>4. ASSUME NEW t \in Threads, Answers(t, u)
          PROVE  \/ u \in blockers'
                 \/ cur'[t] = u /\ pc'[t] \in OwningPcs
      <4>1. Relieved(t, u)
        BY <2>1, <3>4, OwnerFate
      <4>2. unit'[u] # Nothing
        BY <1>1 DEF Present, Nothing
      <4> QED BY <2>a, <3>1, <4>1, <4>2 DEF Relieved
    <3> QED BY <3>2, <3>3, <3>4
  <2>8. unit'[u] # Nothing /\ ~Spawned(u)
    <3>1. unit'[u].state \in {"loaded", "exited", "cgroup"}
      BY <1>1 DEF Present
    <3>2. ~Spawned(u)
      <4>1. Spawned(u) => unit'[u].state = "group"
        BY DEF Spawned
      <4> QED BY <3>1, <4>1
    <3> QED BY <3>1, <3>2 DEF Nothing
  <2> QED BY <2>5, <2>6, <2>7, <2>8, UnitFate DEF UnitChanges
<1>2. blocked' # {} => found'
  <2>1. CASE UNCHANGED <<blocked, found>>
    BY <1>0, <2>1 DEF StrayOK
  <2>2. CASE Crash \/ Inventory
    BY <2>2 DEF Crash, Inventory
  <2>3. ASSUME NEW r \in Runs, RecoverSteps(r)
        PROVE  UNCHANGED <<blocked, found>> \/ found' = TRUE
    BY <2>3 DEF RecoverSteps, RecoverUnreadable, RecoverResolved,
       RecoverWithoutIdentity, RecoverUnit, RecoverGroup, Resolve, Blocker
  <2>4. BeginRecovery \/ SecondWrite => UNCHANGED <<blocked, found>>
    BY DEF BeginRecovery, SecondWrite
  <2> QED BY <2>1, <2>2, <2>3, <2>4, ProcessFrame
<1> QED BY <1>1, <1>2 DEF StrayOK, Present, Up

-----------------------------------------------------------------------------
(* The durable identities.                                                 *)

(* The record of a worker's command is its own until the worker ends it.   *)
RecordsOK(w) ==
    /\ pc[w] \in RecordedPcs => UnitOf(job[w], cur[w])
    /\ pc[w] = "grouped" => /\ ident[job[w]].unit = cur[w]
                            /\ ident[job[w]].backend = "process_group"

(* No step of anyone else touches the record of a worker's command.        *)
LEMMA RecordsStep ==
    ASSUME ConstantsAssumption, IInv, Next, NEW w \in Workers
    PROVE  RecordsOK(w)'
<1> USE DEF Workers, Threads
<1>0. /\ pc \in [Threads -> Pcs] /\ cur \in [Threads -> Units \cup {NoUnit}]
      /\ job \in [Threads -> Runs \cup {NoRun}]
      /\ ident \in [Runs -> Identities] /\ RecordsOK(w)
      /\ \A t \in Threads : pc[t] # "idle" => job[t] \in Runs /\ Up
      /\ job["build"] = job["validate"] => job["build"] = NoRun
      /\ NoRun \notin Runs
  BY HasRun DEF IInv, StateIsSound, TypeOK, ThreadOK, DurableOK, IdentityOK,
     RecordsOK, ThreadsOK, ConstantsAssumption
<1>a. ASSUME pc'[w] = pc[w], job'[w] = job[w], cur'[w] = cur[w],
             pc[w] # "idle" => ident'[job[w]] = ident[job[w]]
      PROVE  RecordsOK(w)'
  BY <1>0, <1>a DEF RecordsOK, UnitOf, RecordedPcs
<1>b. ASSUME pc'[w] \notin RecordedPcs \cup {"grouped"} PROVE RecordsOK(w)'
  BY <1>b DEF RecordsOK
<1>1. ASSUME NEW t \in Threads, ProbeSteps(t) PROVE RecordsOK(w)'
  <2>1. UNCHANGED <<ident, job>>
    BY <1>1 DEF ProbeSteps, UseCapability, ProbeUnavailable, ProbeStart,
       StartProbe, ProbeEnd, LimitProbeStart, LimitProbeEnd, ProbeGone,
       ProbeUnresolved, runVars
  <2>2. CASE t = w
    <3>1. pc'[w] \notin RecordedPcs \cup {"grouped"}
      BY <1>0, <1>1, <2>2 DEF ProbeSteps, UseCapability, ProbeUnavailable,
         ProbeStart, StartProbe, ProbeEnd, LimitProbeStart, LimitProbeEnd,
         ProbeUnresolved, Goto, AfterProbe, RecordedPcs
    <3> QED BY <1>b, <3>1
  <2>3. CASE t # w
    <3>1. pc'[w] = pc[w] /\ cur'[w] = cur[w]
      BY <1>0, <1>1, <2>3 DEF ProbeSteps, UseCapability, ProbeUnavailable,
         ProbeStart, StartProbe, ProbeEnd, LimitProbeStart, LimitProbeEnd,
         ProbeGone, ProbeUnresolved, Goto
    <3> QED BY <1>a, <2>1, <3>1
  <2> QED BY <2>2, <2>3
<1>2. CASE AdmitSteps
  <2>1. /\ pc'[w] = pc[w] /\ job'[w] = job[w] /\ cur'[w] = cur[w]
        /\ UNCHANGED ident
    BY <1>0, <1>2 DEF AdmitSteps, AdmitBegin, AdmitCheck, AdmitApply,
       AdmitEnqueue, Reconcile, EndAdmission, Goto, runVars
  <2> QED BY <1>a, <2>1
<1>3. ASSUME NEW r \in Runs, TakeBuild(r) \/ TakeValidation(r)
      PROVE  RecordsOK(w)'
  <2>1. PICK o \in Workers : TakeRun(o, r)
    BY <1>3 DEF TakeBuild, TakeValidation
  <2>2. UNCHANGED ident
    BY <2>1 DEF TakeRun
  <2>3. CASE o = w
    BY <1>0, <1>b, <2>1, <2>3 DEF TakeRun, Goto, RecordedPcs
  <2>4. CASE o # w
    BY <1>0, <1>a, <2>1, <2>2, <2>4 DEF TakeRun, Goto
  <2> QED BY <2>3, <2>4
<1>4. ASSUME NEW o \in Workers, o # w,
             \/ GiveBack(o) \/ CommandCheck(o) \/ Latch(o)
             \/ StartUnit(o) \/ Popen(o) \/ RecordSteps(o)
      PROVE  RecordsOK(w)'
  <2>0. /\ pc[o] # "idle" /\ job[o] \in Runs
    BY <1>0, <1>4, Settling DEF GiveBack, CommandCheck, Latch, StartUnit,
       Popen, RecordSteps, SettleSteps, RecordIntent, NoConnection, Activate,
       PersistStopping, RecordGroup, EndGroup
  <2>1. job[w] # job[o]
    BY <1>0, <1>4, <2>0
  <2>2. CASE \/ GiveBack(o) \/ CommandCheck(o) \/ Latch(o) \/ StartUnit(o)
             \/ Popen(o)
    <3>1. /\ pc'[w] = pc[w] /\ job'[w] = job[w] /\ cur'[w] = cur[w]
          /\ UNCHANGED ident
      BY <1>0, <1>4, <2>2 DEF GiveBack, CommandCheck, Latch, StartUnit, Popen,
         Goto, runVars
    <3> QED BY <1>a, <3>1
  <2>3. CASE SettleSteps(o)
    <3>1. /\ pc'[w] = pc[w] /\ job'[w] = job[w] /\ cur'[w] = cur[w]
          /\ ident' \in {ident, Cleared(job[o])}
      BY <1>0, <1>4, <2>3, Settling DEF Ended, Left, Goto, UnchangedBySettle
    <3>2. pc[w] # "idle" => ident'[job[w]] = ident[job[w]]
      BY <1>0, <2>1, <3>1 DEF Cleared
    <3> QED BY <1>a, <3>1, <3>2
  <2>4. CASE \/ RecordIntent(o) \/ NoConnection(o) \/ Activate(o)
             \/ PersistStopping(o) \/ RecordGroup(o) \/ EndGroup(o)
    <3>1. /\ pc'[w] = pc[w] /\ job'[w] = job[w] /\ cur'[w] = cur[w]
      BY <1>0, <1>4, <2>4 DEF RecordIntent, NoConnection, Activate,
         PersistStopping, RecordGroup, EndGroup, Goto
    <3>2. ident' = ident \/ \E x : ident' = [ident EXCEPT ![job[o]] = x]
      BY <2>4 DEF RecordIntent, NoConnection, Activate, PersistStopping,
         RecordGroup, EndGroup, Cleared, Recorded, Updated
    <3>3. pc[w] # "idle" => ident'[job[w]] = ident[job[w]]
      BY <1>0, <2>1, <3>2
    <3> QED BY <1>a, <3>1, <3>3
  <2> QED BY <1>4, <2>2, <2>3, <2>4 DEF RecordSteps, SettleSteps
<1>5. CASE GiveBack(w) \/ CommandCheck(w) \/ Latch(w) \/ Popen(w)
           \/ NoConnection(w) \/ EndGroup(w)
  <2>1. pc'[w] \notin RecordedPcs \cup {"grouped"}
    BY <1>0, <1>5 DEF GiveBack, CommandCheck, Latch, Popen, NoConnection,
       EndGroup, Goto, RecordedPcs
  <2> QED BY <1>b, <2>1
<1>6. CASE SettleSteps(w)
  BY <1>0, <1>6, <1>b, Settling DEF Ended, Left, Goto, RecordedPcs
<1>7. CASE StartUnit(w)
  BY <1>0, <1>7 DEF StartUnit, Goto, RecordsOK, UnitOf, runVars, RecordedPcs
<1>8. CASE Activate(w) \/ PersistStopping(w)
  <2>1. /\ pc[w] \in RecordedPcs /\ UNCHANGED <<job, cur>>
        /\ \/ UNCHANGED ident
           \/ \E s \in {"active", "stopping"} : ident' = Updated(job[w], s)
        /\ pc'[w] # "grouped"
    BY <1>0, <1>8 DEF Activate, PersistStopping, RecordedPcs, Goto
  <2>2. job[w] \in Runs /\ UnitOf(job[w], cur[w])
    BY <1>0, <2>1 DEF RecordsOK, RecordedPcs
  <2>3. ident[job[w]] # NoIdentity
    BY <2>1, HasRecord
  <2>4. /\ ident'[job[w]].unit = ident[job[w]].unit
        /\ ident'[job[w]].backend = ident[job[w]].backend
    BY <1>0, <2>1, <2>2, <2>3 DEF Updated, Identities
  <2> QED BY <2>1, <2>2, <2>4 DEF RecordsOK, UnitOf
<1>9. CASE RecordIntent(w)
  <2>1. \/ pc'[w] = "failed"
        \/ /\ pc'[w] = "intent" /\ UNCHANGED job
           /\ \E u \in Fresh : /\ ident' = Recorded(job[w], UnitIdentity(u))
                               /\ cur' = [cur EXCEPT ![w] = u]
    BY <1>0, <1>9 DEF RecordIntent, Goto
  <2>2. job[w] \in Runs
    BY <1>0, <1>9 DEF RecordIntent
  <2>3. CASE pc'[w] = "failed"
    BY <1>b, <2>3 DEF RecordedPcs
  <2>4. ASSUME pc'[w] = "intent", UNCHANGED job, NEW u \in Fresh,
               ident' = Recorded(job[w], UnitIdentity(u)),
               cur' = [cur EXCEPT ![w] = u]
        PROVE  RecordsOK(w)'
    <3>1. ident'[job[w]] = UnitIdentity(u) /\ cur'[w] = u
      BY <1>0, <2>2, <2>4 DEF Recorded
    <3> QED BY <2>4, <3>1 DEF RecordsOK, UnitOf, UnitIdentity, Identity
  <2> QED BY <2>1, <2>3, <2>4
<1>10. CASE RecordGroup(w)
  <2>1. \/ pc'[w] = "failed"
        \/ /\ pc'[w] = "grouped" /\ UNCHANGED <<job, cur>>
           /\ ident' = Recorded(job[w], GroupIdentity(cur[w]))
    BY <1>0, <1>10 DEF RecordGroup, Goto
  <2>2. job[w] \in Runs
    BY <1>0, <1>10 DEF RecordGroup
  <2> QED BY <1>0, <2>1, <2>2
          DEF RecordsOK, RecordedPcs, Recorded, GroupIdentity, Identity
<1>11. Crash => pc'[w] = "idle"
  BY DEF Crash
<1>12. CASE UNCHANGED <<pc, job, cur>>
  <2>1. CASE UNCHANGED ident
    BY <1>a, <1>12, <2>1
  <2>2. ASSUME SecondWrite \/ (\E r \in Runs : RecoverSteps(r))
        PROVE  pc[w] = "idle"
    <3>1. phase = "recovering"
      BY <2>2 DEF SecondWrite, RecoverSteps, RecoverUnreadable,
         RecoverResolved, RecoverWithoutIdentity, RecoverUnit, RecoverGroup,
         HasIdentity, Recovering, IInv, RecoveryOK
    <3> QED BY <1>0, <3>1 DEF Up
  <2>3. pc'[w] = "idle" => RecordsOK(w)'
    BY <1>b DEF RecordedPcs
  <2>4. AdmitEnqueue => UNCHANGED ident
    BY DEF AdmitEnqueue
  <2>5. ASSUME NEW r \in Runs, TakeBuild(r) \/ CleanWorkspace(r)
        PROVE  UNCHANGED ident
    BY <2>5 DEF TakeBuild, TakeRun, CleanWorkspace
  <2> QED BY <1>12, <1>4, <1>5, <1>6, <1>8, <1>9, <1>10, <2>1, <2>2, <2>3,
             <2>4, <2>5, DurableFrame DEF RecordSteps, SettleSteps
<1> QED BY <1>b, <1>1, <1>2, <1>3, <1>4, <1>5, <1>6, <1>7, <1>8, <1>9, <1>10,
           <1>11, <1>12, ThreadFrame DEF RecordSteps, SettleSteps, RecordedPcs

(* What one step can make of the identity of one Run.                      *)
Kept(r) ==
    \/ ident'[r] = ident[r]
    \/ /\ ident[r] # NoIdentity /\ ident'[r] # NoIdentity
       /\ ident'[r].unit = ident[r].unit
       /\ ident'[r].backend = ident[r].backend
       /\ ident'[r].boot = ident[r].boot
Made(r) ==
    /\ ident[r] = NoIdentity /\ Up /\ admission
    /\ ident'[r].boot = boot /\ UNCHANGED boot
Dropped(r) ==
    /\ ident'[r] = NoIdentity
    /\ \/ ident[r].backend # "systemd_cgroup"
       \/ unit'[ident[r].unit] = Nothing
       \/ unit[ident[r].unit].state = "free" /\ UNCHANGED unit
       \/ phase = "recovering" /\ UNCHANGED phase /\ status'[r] \in Terminal
       \/ pending # NoPending /\ r = pending.run /\ UNCHANGED unit

(* No step makes anything else of an identity.                             *)
LEMMA IdentityFate ==
    ASSUME ConstantsAssumption, IInv, Next, NEW r \in Runs
    PROVE  Kept(r) \/ Made(r) \/ Dropped(r)
<1> USE DEF Workers, Threads
<1>0. /\ pc \in [Threads -> Pcs] /\ ident \in [Runs -> Identities]
      /\ unit \in [Units -> UnitShape]
      /\ \A t \in Threads : pc[t] # "idle" => job[t] \in Runs /\ Up /\ admission
      /\ \A t \in Threads : pc[t] \in NamingPcs => cur[t] \in Units
      /\ \A t \in Threads : pc[t] = "intent" => unit[cur[t]].state = "free"
      /\ \A w \in Workers : pc[w] \in RecordedPcs =>
            ident[job[w]] # NoIdentity /\ ident[job[w]].unit = cur[w]
      /\ \A w \in Workers : pc[w] = "grouped" =>
            ident[job[w]].backend = "process_group"
  BY HasRun, HasRecord DEF IInv, StateIsSound, TypeOK, ThreadOK, DurableOK,
     HostOK, UnitShape, NamesOK, IdentityOK, UnitOf
<1>1. CASE UNCHANGED ident
  BY <1>1 DEF Kept
<1>2. ASSUME NEW o \in Runs, o # r, ident' \in {ident, Cleared(o), Updated(o, "stopping")}
      PROVE  Kept(r)
  BY <1>0, <1>2 DEF Kept, Cleared, Updated
<1>u. ASSUME NEW s, ident[r] # NoIdentity, ident' = Updated(r, s)
      PROVE  Kept(r)
  <2>1. ident[r] \in [unit : Units, backend : Backends,
                      state : {"starting", "active", "stopping"},
                      boot : 0 .. boot]
    BY <1>0, <1>u DEF Identities
  <2>2. ident'[r] = [ident[r] EXCEPT !.state = s]
    BY <1>0, <1>u DEF Updated
  <2>3. /\ ident'[r].unit = ident[r].unit
        /\ ident'[r].backend = ident[r].backend
        /\ ident'[r].boot = ident[r].boot
    BY <2>1, <2>2
  <2>4. ident'[r] # NoIdentity
    BY <2>1, <2>3 DEF NoIdentity, ConstantsAssumption
  <2> QED BY <1>u, <2>3, <2>4 DEF Kept
<1>3. AdmitEnqueue => UNCHANGED ident
  BY DEF AdmitEnqueue
<1>4. ASSUME NEW o \in Runs, TakeBuild(o) \/ CleanWorkspace(o)
      PROVE  UNCHANGED ident
  BY <1>4 DEF TakeBuild, TakeRun, CleanWorkspace
<1>5. ASSUME NEW w \in Workers, GiveBack(w) PROVE UNCHANGED ident
  BY <1>5 DEF GiveBack
<1>6. ASSUME NEW w \in Workers, RecordSteps(w)
      PROVE  Kept(r) \/ Made(r) \/ Dropped(r)
  <2>0. pc[w] # "idle" /\ job[w] \in Runs /\ Up /\ admission
    BY <1>0, <1>6, Settling DEF RecordSteps, SettleSteps, RecordIntent,
       NoConnection, Activate, PersistStopping, RecordGroup, EndGroup
  <2>1. CASE job[w] # r
    <3>1. ident' = ident \/ \E x : ident' = [ident EXCEPT ![job[w]] = x]
      <4>1. CASE SettleSteps(w)
        BY <4>1, Settling DEF Ended, Left, Cleared
      <4>2. CASE ~SettleSteps(w)
        BY <1>6, <4>2 DEF RecordSteps, SettleSteps, RecordIntent,
           NoConnection, Activate, PersistStopping, RecordGroup, EndGroup,
           Cleared, Recorded, Updated
      <4> QED BY <4>1, <4>2
    <3> QED BY <1>0, <2>0, <2>1, <3>1 DEF Kept
  <2>2. CASE job[w] = r /\ RecordIntent(w)
    <3>1. \/ UNCHANGED ident
          \/ /\ ident[r] = NoIdentity
             /\ \E u \in Fresh : ident' = Recorded(r, UnitIdentity(u))
      BY <2>2 DEF RecordIntent, Recordable
    <3>2. UNCHANGED boot
      BY <2>2 DEF RecordIntent
    <3> QED BY <1>0, <1>1, <2>0, <3>1, <3>2
            DEF Made, Recorded, UnitIdentity, Identity
  <2>3. CASE job[w] = r /\ RecordGroup(w)
    <3>1. \/ UNCHANGED ident
          \/ /\ ident[r] = NoIdentity
             /\ ident' = Recorded(r, GroupIdentity(cur[w]))
      BY <2>3 DEF RecordGroup, Recordable
    <3>2. UNCHANGED boot
      BY <2>3 DEF RecordGroup
    <3> QED BY <1>0, <1>1, <2>0, <3>1, <3>2
            DEF Made, Recorded, GroupIdentity, Identity
  <2>4. CASE job[w] = r /\ NoConnection(w)
    <3>1. /\ ident[r].unit = cur[w] /\ unit[cur[w]].state = "free"
          /\ UNCHANGED unit /\ ident' \in {ident, Cleared(r)}
      BY <1>0, <2>4 DEF NoConnection, RecordedPcs
    <3> QED BY <1>0, <1>1, <3>1 DEF Dropped, Cleared
  <2>5. CASE job[w] = r /\ (Activate(w) \/ PersistStopping(w))
    <3>1. /\ ident[r] # NoIdentity
          /\ UNCHANGED ident \/ \E s : ident' = Updated(r, s)
      BY <1>0, <2>5 DEF Activate, PersistStopping, RecordedPcs
    <3> QED BY <1>1, <1>u, <3>1
  <2>6. CASE job[w] = r /\ EndGroup(w)
    <3>1. /\ ident[r].backend = "process_group"
          /\ ident' \in {ident, Cleared(r)}
      BY <1>0, <2>6 DEF EndGroup
    <3> QED BY <1>0, <1>1, <3>1 DEF Dropped, Cleared
  <2>7. CASE job[w] = r /\ SettleSteps(w)
    <3>1. /\ ident[r].unit = cur[w] /\ cur[w] \in Units
          /\ Ended(w) \/ Left(w)
      BY <1>0, <2>7, Settling DEF RecordedPcs, NamingPcs
    <3>2. CASE Left(w)
      BY <1>1, <3>2 DEF Left
    <3>3. CASE Ended(w)
      <4>1. unit'[ident[r].unit] = Nothing /\ ident' \in {ident, Cleared(r)}
        BY <1>0, <2>7, <3>1, <3>3 DEF Ended
      <4> QED BY <1>0, <1>1, <4>1 DEF Dropped, Cleared
    <3> QED BY <3>1, <3>2, <3>3
  <2> QED BY <1>6, <2>1, <2>2, <2>3, <2>4, <2>5, <2>6, <2>7
          DEF RecordSteps, SettleSteps
<1>7. ASSUME NEW o \in Runs, RecoverSteps(o)
      PROVE  Kept(r) \/ Made(r) \/ Dropped(r)
  <2>1. CASE RecoverUnreadable(o) \/ RecoverWithoutIdentity(o)
    BY <1>1, <2>1 DEF RecoverUnreadable, RecoverWithoutIdentity
  <2>2. CASE RecoverResolved(o)
    <3>1. /\ phase = "recovering" /\ UNCHANGED phase /\ status'[o] \in Terminal
          /\ ident' \in {ident, Cleared(o)}
      BY <2>2 DEF RecoverResolved, Recovering, UnchangedByRecovery
    <3>2. CASE o = r
      BY <1>0, <1>1, <3>1, <3>2 DEF Dropped, Cleared
    <3> QED BY <1>2, <3>1, <3>2
  <2>3. CASE RecoverUnit(o)
    <3>1. \/ /\ ident' \in {ident, Cleared(o)}
             /\ unit' = [unit EXCEPT ![ident[o].unit] = Nothing]
          \/ ident' \in {ident, Updated(o, "stopping")}
      BY <2>3 DEF RecoverUnit, Resolve
    <3>2. ident[o] # NoIdentity
      BY <2>3 DEF RecoverUnit, HasIdentity
    <3>3. ident[o].unit \in Units
      BY <1>0, <3>2 DEF Identities
    <3>4. CASE o = r
      BY <1>0, <1>1, <1>u, <3>1, <3>2, <3>3, <3>4 DEF Dropped, Cleared
    <3> QED BY <1>2, <3>1, <3>4
  <2>4. CASE RecoverGroup(o)
    <3>1. /\ ident[o].backend = "process_group"
          /\ ident' \in {ident, Cleared(o)}
      BY <2>4 DEF RecoverGroup, Resolve
    <3>2. CASE o = r
      BY <1>0, <1>1, <3>1, <3>2 DEF Dropped, Cleared
    <3> QED BY <1>2, <3>1, <3>2
  <2> QED BY <1>7, <2>1, <2>2, <2>3, <2>4 DEF RecoverSteps
<1>8. CASE SecondWrite
  <2>1. /\ pending # NoPending /\ pending.run \in Runs /\ UNCHANGED unit
        /\ ident' \in {ident, Cleared(pending.run)}
    BY <1>8 DEF SecondWrite, IInv, RecoveryOK
  <2>2. CASE pending.run = r
    BY <1>0, <1>1, <2>1, <2>2 DEF Dropped, Cleared
  <2> QED BY <1>2, <2>1, <2>2
<1> QED BY <1>1, <1>3, <1>4, <1>5, <1>6, <1>7, <1>8, DurableFrame

(* Every unit that may still run stays named by its Run's identity.        *)
LEMMA IdentityStep ==
    ASSUME ConstantsAssumption, IInv, Next
    PROVE  IdentityOK'
<1>0. /\ IdentityOK /\ RecoveryOK /\ ThreadsOK /\ UnitsOK
      /\ ident \in [Runs -> Identities] /\ ident' \in [Runs -> Identities']
      /\ NoRun \notin Runs /\ NoUnit \notin Units
      /\ admission \in BOOLEAN /\ admission' \in BOOLEAN
      /\ status \in [Runs -> {"absent", "queued", "running"} \cup Terminal]
  BY DurableStep, StartupStep
     DEF IInv, StateIsSound, TypeOK, DurableOK, StartupOK, ConstantsAssumption,
         UnitsOK, UnitShape, HostOK, RecoveryOK
<1>1. ASSUME NEW u \in Units, NEW r \in Runs, Present(u)', unit'[u].run = r
      PROVE  \/ UnitOf(r, u)'
             \/ /\ ident'[r] = NoIdentity /\ status'[r] \in Terminal
                /\ ~(Up' /\ admission')
  <2>1. unit'[u].state \in {"loaded", "exited", "cgroup"}
    BY <1>1 DEF Present
  <2>2. unit'[u] # Nothing
    BY <2>1 DEF Nothing
  <2>3. ~Spawned(u) /\ ~Probed(u)
    <3>1. Spawned(u) => unit'[u].state = "group"
      BY DEF Spawned
    <3>2. Probed(u) => unit'[u].run = NoRun
      BY DEF Probed
    <3> QED BY <1>0, <1>1, <2>1, <3>1, <3>2
  <2>4. CASE Started(u)
    <3>1. PICK w \in Workers : /\ StartUnit(w) /\ u = cur[w]
                               /\ unit'[u] = [state |-> "loaded", run |-> job[w]]
      BY <2>4 DEF Started
    <3>2. job[w] = r /\ UNCHANGED ident /\ pc[w] \in RecordedPcs
      BY <1>1, <3>1 DEF StartUnit, runVars, RecordedPcs
    <3>3. UnitOf(r, u)
      BY <1>0, <3>1, <3>2 DEF IdentityOK
    <3> QED BY <3>2, <3>3 DEF UnitOf
  <2>5. CASE unit'[u] = unit[u] \/ Decayed(u)
    <3>1. Present(u) /\ unit[u].run = r
      BY <1>1, <2>1, <2>5 DEF Present, Decayed
    <3>2. CASE UnitOf(r, u)
      <4>1. ident[r].unit = u /\ ident[r].backend = "systemd_cgroup"
        BY <3>2 DEF UnitOf
      <4>2. ident[r] # NoIdentity
        BY <1>0, <4>1 DEF NoIdentity
      <4>3. CASE Kept(r)
        BY <4>1, <4>3 DEF Kept, UnitOf
      <4>4. CASE Dropped(r)
        <5>1. ~(pending # NoPending /\ r = pending.run)
          BY <1>0, <3>1 DEF RecoveryOK
        <5>2. unit[u].state # "free"
          BY <3>1 DEF Present
        <5>3. phase = "recovering" /\ UNCHANGED phase /\ status'[r] \in Terminal
          BY <2>2, <4>1, <4>4, <5>1, <5>2 DEF Dropped
        <5> QED BY <4>4, <5>3 DEF Dropped, Up
      <4> QED BY <4>2, <4>3, <4>4, IdentityFate DEF Made
    <3>3. CASE /\ ident[r] = NoIdentity /\ status[r] \in Terminal
               /\ ~(Up /\ admission)
      <4>1. ident'[r] = NoIdentity
        BY <3>3, IdentityFate DEF Kept, Made, Dropped
      <4>2. status'[r] \in Terminal
        <5>1. UNCHANGED status \/ \E o \in Runs : status' = [status EXCEPT ![o] = "failed"]
          <6>1. AdmitEnqueue => Up /\ admission
            BY <1>0 DEF AdmitEnqueue, ThreadsOK, Threads
          <6>2. ASSUME NEW o \in Runs, TakeBuild(o) PROVE Up /\ admission
            BY <6>2 DEF TakeBuild, TakeRun
          <6>3. ASSUME NEW w \in Workers, GiveBack(w) PROVE Up /\ admission
            BY <1>0, <6>3 DEF GiveBack, ThreadsOK, Threads
          <6>4. ASSUME NEW w \in Workers, RecordSteps(w) PROVE UNCHANGED status
            BY <6>4, Settling DEF RecordSteps, SettleSteps, UnchangedBySettle,
               RecordIntent, NoConnection, Activate, PersistStopping,
               RecordGroup, EndGroup
          <6>5. ASSUME NEW o \in Runs, RecoverSteps(o)
                PROVE  status' \in {status, [status EXCEPT ![o] = "failed"]}
            BY <6>5 DEF RecoverSteps, RecoverUnreadable, RecoverResolved,
               RecoverWithoutIdentity, RecoverUnit, RecoverGroup, Blocker,
               Resolve
          <6>6. SecondWrite => UNCHANGED status
            BY DEF SecondWrite
          <6>7. ASSUME NEW o \in Runs, CleanWorkspace(o) PROVE UNCHANGED status
            BY <6>7 DEF CleanWorkspace
          <6> QED BY <3>3, <6>1, <6>2, <6>3, <6>4, <6>5, <6>6, <6>7,
                     DurableFrame
        <5> QED BY <1>0, <3>3, <5>1 DEF Terminal
      <4>3. ~(Up' /\ admission')
        <5>1. ASSUME Inventory PROVE ~admission'
          <6>1. admission' # TRUE
            BY <1>1, <5>1, OpeningIsClean
          <6> QED BY <1>0, <6>1, Zenon
        <5>2. Crash \/ BeginRecovery => phase' # "up"
          BY DEF Crash, BeginRecovery
        <5>3. ASSUME NEW o \in Runs, RecoverSteps(o)
              PROVE  UNCHANGED <<phase, admission>>
          BY <5>3 DEF RecoverSteps, RecoverUnreadable, RecoverResolved,
             RecoverWithoutIdentity, RecoverUnit, RecoverGroup,
             UnchangedByRecovery
        <5>4. SecondWrite => UNCHANGED <<phase, admission>>
          BY DEF SecondWrite, UnchangedByRecovery
        <5> QED BY <3>3, <5>1, <5>2, <5>3, <5>4, ProcessFrame DEF Up
      <4> QED BY <4>1, <4>2, <4>3
    <3> QED BY <1>0, <3>1, <3>2, <3>3 DEF IdentityOK
  <2> QED BY <2>2, <2>3, <2>4, <2>5, UnitFate DEF UnitChanges
<1>2. \A w \in Workers : RecordsOK(w)'
  BY RecordsStep
<1> QED BY <1>1, <1>2 DEF IdentityOK, RecordsOK, Present, UnitOf, Up

(* When startup resolves a Run from its identity, nothing of it is left.   *)
LEMMA ResolvedIsGone ==
    ASSUME ConstantsAssumption, IInv, NEW r \in Runs, HasIdentity(r),
           \/ /\ ident[r].backend = "systemd_cgroup"
              /\ unit' = [unit EXCEPT ![ident[r].unit] = Nothing]
           \/ ident[r].backend = "process_group" /\ UNCHANGED unit,
           NEW u \in Units, unit'[u].run = r
    PROVE  ~Present(u)'
<1>0. unit \in [Units -> UnitShape] /\ NoRun \notin Runs
  BY DEF IInv, StateIsSound, TypeOK, HostOK, UnitShape, ConstantsAssumption
<1>1. ident[r] # NoIdentity
  BY DEF HasIdentity
<1>2. Present(u) /\ unit[u].run = r => UnitOf(r, u)
  BY <1>1 DEF IInv, IdentityOK
<1>3. CASE UNCHANGED unit /\ ident[r].backend = "process_group"
  BY <1>2, <1>3 DEF UnitOf, Present
<1>4. CASE unit' = [unit EXCEPT ![ident[r].unit] = Nothing]
  <2>1. CASE u = ident[r].unit
    BY <1>0, <1>4, <2>1 DEF Present, Nothing
  <2>2. CASE u # ident[r].unit
    <3>1. unit'[u] = unit[u]
      BY <1>0, <1>4, <2>2
    <3> QED BY <1>2, <2>2, <3>1 DEF UnitOf, Present
  <2> QED BY <2>1, <2>2
<1> QED BY <1>3, <1>4

(* Between the two writes of a recovery only the host moves.               *)
LEMMA PendingIsStill ==
    ASSUME ConstantsAssumption, IInv, Next, pending # NoPending,
           UNCHANGED pending
    PROVE  UNCHANGED <<ident, phase>> /\ phase = "recovering"
<1>0. phase = "recovering" /\ \A t \in Threads : pc[t] = "idle"
  BY DEF IInv, RecoveryOK, ThreadsOK, Up
<1>1. ~SecondWrite /\ ~Inventory /\ ~Crash /\ ~BeginRecovery
  BY <1>0 DEF SecondWrite, Inventory, Crash, BeginRecovery
<1>2. ASSUME NEW r \in Runs, RecoverSteps(r) PROVE FALSE
  BY <1>2 DEF RecoverSteps, RecoverUnreadable, RecoverResolved,
     RecoverWithoutIdentity, RecoverUnit, RecoverGroup, HasIdentity,
     Recovering
<1>3. UNCHANGED phase
  BY <1>1, <1>2, ProcessFrame
<1>4. UNCHANGED ident
  <2>1. ~AdmitEnqueue
    BY <1>0 DEF AdmitEnqueue, Up
  <2>2. ASSUME NEW r \in Runs, TakeBuild(r) \/ CleanWorkspace(r) PROVE FALSE
    BY <1>0, <2>2 DEF TakeBuild, TakeRun, CleanWorkspace, Up
  <2>3. ASSUME NEW w \in Workers, GiveBack(w) \/ RecordSteps(w) PROVE FALSE
    BY <1>0, <2>3, Settling DEF GiveBack, RecordSteps, SettleSteps,
       RecordIntent, NoConnection, Activate, PersistStopping, RecordGroup,
       EndGroup, Up
  <2> QED BY <1>1, <1>2, <2>1, <2>2, <2>3, DurableFrame
<1> QED BY <1>0, <1>3, <1>4

(* Between its two writes a recovery stays true.                           *)
LEMMA RecoveryStep ==
    ASSUME ConstantsAssumption, IInv, Next
    PROVE  RecoveryOK'
<1>0. /\ RecoveryOK /\ ThreadsOK /\ IdentityOK /\ UnitsOK'
      /\ ident \in [Runs -> Identities]
      /\ NoRun \notin Runs /\ NoUnit \notin Units
  BY HostOKStep DEF IInv, StateIsSound, TypeOK, DurableOK, ConstantsAssumption
<1>1. ASSUME pending' # NoPending
      PROVE  /\ phase' = "recovering" /\ pending'.run \in Runs
             /\ \A u \in Units : unit'[u].run = pending'.run => ~Present(u)'
             /\ pending'.write = "resolve" => ident'[pending'.run] = NoIdentity
  <2>1. CASE UNCHANGED pending
    <3>1. UNCHANGED <<ident, phase>> /\ phase = "recovering"
      BY <1>1, <2>1, PendingIsStill
    <3>2. ASSUME NEW u \in Units, unit'[u].run = pending.run, Present(u)'
          PROVE  FALSE
      <4>1. unit'[u].state \in {"loaded", "exited", "cgroup"}
        BY <3>2 DEF Present
      <4>2. pending.run \in Runs /\ (unit[u].run = pending.run => ~Present(u))
        BY <1>0, <1>1, <2>1 DEF RecoveryOK
      <4>3. ~(unit'[u] = unit[u]) /\ ~Decayed(u)
        BY <3>2, <4>1, <4>2 DEF Present, Decayed
      <4>4. unit'[u] # Nothing
        BY <4>1 DEF Nothing
      <4>5. ~Probed(u)
        BY <1>0, <3>2, <4>2 DEF Probed
      <4>6. ~Started(u) /\ ~Spawned(u)
        BY <3>1 DEF Started, Spawned, StartUnit, Popen, Up
      <4> QED BY <4>3, <4>4, <4>5, <4>6, UnitFate DEF UnitChanges
    <3> QED BY <1>0, <1>1, <2>1, <3>1, <3>2 DEF RecoveryOK
  <2>2. CASE ~UNCHANGED pending
    <3>1. PICK r \in Runs : RecoverSteps(r)
      <4>1. Crash \/ SecondWrite => pending' = NoPending
        BY DEF Crash, SecondWrite
      <4>2. BeginRecovery \/ Inventory => UNCHANGED pending
        BY DEF BeginRecovery, Inventory
      <4> QED BY <1>1, <2>2, <4>1, <4>2, ProcessFrame
    <3>2. /\ HasIdentity(r) /\ Resolve(r) /\ UnchangedByRecovery
          /\ \/ /\ ident[r].backend = "systemd_cgroup"
                /\ unit' = [unit EXCEPT ![ident[r].unit] = Nothing]
             \/ ident[r].backend = "process_group" /\ UNCHANGED unit
      BY <2>2, <3>1 DEF RecoverSteps, RecoverUnreadable, RecoverResolved,
         RecoverWithoutIdentity, RecoverUnit, RecoverGroup, Blocker
    <3>3. \A u \in Units : unit'[u].run = r => ~Present(u)'
      BY <3>2, ResolvedIsGone
    <3>4. /\ pending'.run = r
          /\ pending'.write = "resolve" => ident' = Cleared(r)
      BY <1>1, <3>2 DEF Resolve
    <3>5. phase' = "recovering"
      BY <3>2 DEF HasIdentity, Recovering, UnchangedByRecovery
    <3> QED BY <1>0, <3>3, <3>4, <3>5 DEF Cleared
  <2> QED BY <2>1, <2>2
<1>2. ASSUME NEW r \in Runs, NEW u \in Units, unit'[u].state = "group",
             ident'[r].unit = u
      PROVE  ident'[r].boot = boot'
  <2>0. ~Reboot
    BY <1>2 DEF Reboot, Nothing
  <2>1. UNCHANGED boot
    BY <2>0, Boots DEF IInv, StateIsSound, TypeOK
  <2>2. ~Dropped(r)
    BY <1>0, <1>2 DEF Dropped, NoIdentity
  <2>3. Made(r) => ident'[r].boot = boot'
    BY DEF Made
  <2>4. CASE Kept(r)
    <3>1. ident[r].unit = u /\ ident'[r].boot = ident[r].boot
      BY <1>2, <2>4 DEF Kept
    <3>2. ~Spawned(u)
      BY <3>1, FreshNames DEF Spawned
    <3>3. unit[u].state = "group"
      <4>1. unit'[u] # Nothing /\ ~Decayed(u)
        BY <1>2 DEF Nothing, Decayed
      <4>2. ~Probed(u) /\ ~Started(u)
        <5>1. Probed(u) => unit'[u].state = "loaded"
          BY DEF Probed
        <5>2. Started(u) => unit'[u].state = "loaded"
          <6>1. ASSUME NEW j, unit'[u] = [state |-> "loaded", run |-> j]
                PROVE  unit'[u].state = "loaded"
            BY <6>1
          <6> QED BY <6>1 DEF Started
        <5> QED BY <1>2, <5>1, <5>2
      <4> QED BY <1>2, <3>2, <4>1, <4>2, UnitFate DEF UnitChanges
    <3> QED BY <1>0, <2>1, <3>1, <3>3 DEF RecoveryOK
  <2> QED BY <2>2, <2>3, <2>4, IdentityFate
<1> QED BY <1>0, <1>1, <1>2 DEF RecoveryOK, UnitsOK, Present

-----------------------------------------------------------------------------
(* The theorems.                                                           *)

(* Every step preserves the invariant ...                                  *)
LEMMA Inductive ==
    ASSUME ConstantsAssumption, IInv, [Next]_vars
    PROVE  IInv'
<1>1. CASE Next
  <2>1. StateIsSound'
    <3>1. HostOK' /\ FiniteIsContained'
      BY <1>1, HostOKStep, Boots
         DEF UnitsOK, UnitShape, HostOK, IInv, StateIsSound, TypeOK
    <3> QED BY <1>1, <3>1, DurableStep, RegistryStep, ThreadsStep,
               StartupStep, BoundsStep
            DEF StateIsSound, TypeOK
  <2> QED BY <1>1, <2>1, ThreadsStep, NamesStep, StrayStep, IdentityStep,
             RecoveryStep DEF IInv
<1>2. CASE UNCHANGED vars
  <2> USE <1>2 DEF vars, runVars, registryVars, threadVars, admitVars,
                   processVars, startVars
  <2>1. StateIsSound'
    BY DEF IInv, StateIsSound, TypeOK, DurableOK, HostOK, RegistryOK,
       ThreadOK, StartupOK, BoundsOK, Identities, FiniteIsContained
  <2>2. ThreadsOK' /\ NamesOK'
    BY DEF IInv, ThreadsOK, NamesOK, Up, Present
  <2>3. StrayOK'
    BY DEF IInv, StrayOK, Up, Present
  <2>4. IdentityOK'
    BY DEF IInv, IdentityOK, UnitOf, Present, Up
  <2>5. RecoveryOK'
    BY DEF IInv, RecoveryOK, Present
  <2> QED BY <2>1, <2>2, <2>3, <2>4, <2>5 DEF IInv
<1> QED BY <1>1, <1>2

(* ... and it holds at first ...                                           *)
LEMMA Initial ==
    ASSUME ConstantsAssumption, Init
    PROVE  IInv
<1> USE DEF Init, NoIdentity, Nothing, NoPending
<1>1. DurableOK /\ HostOK
  BY DEF DurableOK, HostOK, Identities, Terminal, ConstantsAssumption
<1>2. RegistryOK
  <2>1. Cardinality({}) = 0
    BY FS_EmptySet
  <2>2. Cardinality(blockers) <= MaxBlockers
    BY <2>1 DEF ConstantsAssumption
  <2> QED BY <2>2 DEF RegistryOK
<1>3. ThreadOK /\ BoundsOK
  <2>1. pc \in [Threads -> Pcs]
    BY DEF Pcs
  <2>2. /\ job \in [Threads -> Runs \cup {NoRun}]
        /\ cur \in [Threads -> Units \cup {NoUnit}]
        /\ backend \in [Threads -> Backends \cup {"unknown", "unresolved"}]
    OBVIOUS
  <2>3. tried = FALSE /\ proven = {}
    OBVIOUS
  <2>4. BoundsOK
    BY DEF BoundsOK, ConstantsAssumption
  <2> QED BY <2>1, <2>2, <2>3, <2>4 DEF ThreadOK
<1>startup. StartupOK
  <2>1. /\ phase = "down" /\ admission = FALSE /\ scan = {} /\ bound = {}
        /\ blocked = {} /\ trusted = TRUE /\ found = FALSE
    OBVIOUS
  <2>2. pending \in [run : Runs \cup {NoRun},
                     write : {"none", "clear", "resolve"}]
    OBVIOUS
  <2> QED BY <2>1, <2>2 DEF StartupOK
<1>4. FiniteIsContained
  BY DEF FiniteIsContained
<1>5. ThreadsOK /\ NamesOK
  BY DEF ThreadsOK, NamesOK, Threads, Workers, AdmitPcs, NamingPcs, ProbePcs,
     RecordedPcs
<1>6. StrayOK /\ RecoveryOK
  BY DEF StrayOK, RecoveryOK, Up
<1>7. IdentityOK
  BY DEF IdentityOK, Present, Threads, Workers, RecordedPcs
<1> QED BY <1>1, <1>2, <1>3, <1>startup, <1>4, <1>5, <1>6, <1>7
        DEF IInv, StateIsSound, TypeOK

(* ... so it holds throughout.                                             *)
LEMMA Invariant == Spec => []IInv
<1>1. Init => IInv
  BY ConstantsAssumption, Initial
<1>2. IInv /\ [Next]_vars => IInv'
  BY ConstantsAssumption, Inductive
<1> QED BY <1>1, <1>2, PTL DEF Spec

(* The state of the process and of the host is well formed in every        *)
(* behaviour, and no process group is ever started for a Run with a finite *)
(* resource policy (run_command refuses the fallback).                     *)
THEOREM Sound == Spec => []StateIsSound
<1>1. IInv => StateIsSound
  BY DEF IInv
<1> QED BY <1>1, Invariant, PTL

(* While admission is open and no cleanup is unresolved, every unit and    *)
(* every cgroup in the command namespace belongs to a command that a       *)
(* thread still answers for, whatever failed, died or was reconciled.      *)
THEOREM NoStray == Spec => []NoStrayBehindAdmission
<1>1. IInv => NoStrayBehindAdmission
  BY DEF IInv, StrayOK, NoStrayBehindAdmission, CleanupBlocked
<1> QED BY <1>1, Invariant, PTL

(* A startup that marks an interrupted Run resolved leaves no unit of the  *)
(* Run, and no group that the Run's identity names.                        *)
THEOREM ResolvedIsSafe == Spec => ResolvedMeansGone
<1> DEFINE Safe ==
      \A r \in Runs :
          (recovery[r] # "resolved" /\ recovery'[r] = "resolved") =>
              \A u \in Units :
                  /\ unit'[u].run = r => ~Present(u)'
                  /\ ident[r].unit = u => unit'[u].state # "group"
<1>1. ASSUME IInv, Next PROVE Safe
  <2>1. SUFFICES ASSUME NEW r \in Runs, recovery[r] # "resolved",
                        recovery'[r] = "resolved", NEW u \in Units
                 PROVE  /\ unit'[u].run = r => ~Present(u)'
                        /\ ident[r].unit = u => unit'[u].state # "group"
    OBVIOUS
  <2>0. /\ recovery \in [Runs -> {"none", "blocked", "resolved"}]
        /\ ident \in [Runs -> Identities] /\ unit \in [Units -> UnitShape]
        /\ NoUnit \notin Units
    BY <1>1, ConstantsAssumption DEF IInv, StateIsSound, TypeOK, DurableOK,
       HostOK, UnitShape, ConstantsAssumption
  <2>2. \/ \E o \in Runs : RecoverSteps(o)
        \/ SecondWrite
    <3>1. ~AdmitEnqueue
      BY <2>1 DEF AdmitEnqueue
    <3>2. ASSUME NEW o \in Runs, TakeBuild(o) \/ CleanWorkspace(o)
          PROVE  FALSE
      BY <2>1, <3>2 DEF TakeBuild, TakeRun, CleanWorkspace
    <3>3. ASSUME NEW w \in Workers, GiveBack(w) \/ RecordSteps(w)
          PROVE  FALSE
      BY <2>1, <3>3, Settling DEF GiveBack, RecordSteps, SettleSteps,
         UnchangedBySettle, RecordIntent, NoConnection, Activate,
         PersistStopping, RecordGroup, EndGroup
    <3> QED BY <1>1, <2>1, <3>1, <3>2, <3>3, DurableFrame
  <2>3. CASE SecondWrite
    <3>1. /\ pending # NoPending /\ r = pending.run /\ UNCHANGED unit
          /\ pending.write = "resolve"
      BY <2>0, <2>1, <2>3 DEF SecondWrite
    <3>2. ident[r] = NoIdentity /\ (unit[u].run = r => ~Present(u))
      BY <1>1, <3>1 DEF IInv, RecoveryOK
    <3> QED BY <2>0, <3>1, <3>2 DEF Present, NoIdentity
  <2>4. ASSUME NEW o \in Runs, RecoverSteps(o)
        PROVE  /\ unit'[u].run = r => ~Present(u)'
               /\ ident[r].unit = u => unit'[u].state # "group"
    <3>1. o = r
      BY <2>0, <2>1, <2>4 DEF RecoverSteps, RecoverUnreadable,
         RecoverResolved, RecoverWithoutIdentity, RecoverUnit, RecoverGroup,
         Blocker, Resolve
    <3>2. CASE RecoverUnreadable(r) \/ RecoverResolved(r)
      BY <2>0, <2>1, <3>2 DEF RecoverUnreadable, RecoverResolved
    <3>3. CASE RecoverWithoutIdentity(r)
      <4>1. /\ ident[r] = NoIdentity /\ status[r] = "queued"
            /\ UNCHANGED unit
        BY <2>0, <2>1, <3>3 DEF RecoverWithoutIdentity, NeverBegan, Blocker
      <4>2. ident[r].unit = NoUnit
        BY <4>1 DEF NoIdentity
      <4>3. ~(Present(u) /\ unit[u].run = r)
        BY <1>1, <2>0, <4>1, <4>2 DEF IInv, IdentityOK, UnitOf, Terminal
      <4> QED BY <2>0, <4>1, <4>2, <4>3 DEF Present
    <3>4. CASE RecoverUnit(r)
      <4>1. /\ HasIdentity(r) /\ ident[r].backend = "systemd_cgroup"
            /\ unit' = [unit EXCEPT ![ident[r].unit] = Nothing]
        BY <2>0, <2>1, <3>4 DEF RecoverUnit, Blocker
      <4>2. unit'[u].run = r => ~Present(u)'
        BY <1>1, <4>1, ConstantsAssumption, ResolvedIsGone
      <4>3. ident[r].unit = u => unit'[u].state # "group"
        BY <2>0, <4>1 DEF Nothing
      <4> QED BY <4>2, <4>3
    <3>5. CASE RecoverGroup(r)
      <4>1. /\ HasIdentity(r) /\ ident[r].backend = "process_group"
            /\ ident[r].boot # boot /\ UNCHANGED unit
        BY <2>0, <2>1, <3>5 DEF RecoverGroup, Blocker
      <4>2. unit'[u].run = r => ~Present(u)'
        BY <1>1, <4>1, ConstantsAssumption, ResolvedIsGone
      <4>3. ident[r].unit = u => unit[u].state # "group"
        BY <1>1, <4>1 DEF IInv, RecoveryOK
      <4> QED BY <4>1, <4>2, <4>3
    <3> QED BY <2>4, <3>1, <3>2, <3>3, <3>4, <3>5 DEF RecoverSteps
  <2> QED BY <2>2, <2>3, <2>4
<1>2. IInv /\ [Next]_vars => [Safe]_vars
  BY <1>1
<1> QED BY <1>2, Invariant, PTL DEF Spec, ResolvedMeansGone

(* Workspace data is never removed under a unit of that Run.  The only     *)
(* step that removes it holds the namespace lease and has looked.          *)
THEOREM CleanupIsSafe == Spec => CleanupSparesWorkloads
<1> DEFINE Spares ==
      \A r \in Runs : (data[r] /\ ~data'[r]) =>
          \A u \in Units : unit[u].run = r => ~Present(u)
<1>1. ASSUME IInv, Next PROVE Spares
  <2>1. SUFFICES ASSUME NEW r \in Runs, data[r], ~data'[r]
                 PROVE  \A u \in Units : unit[u].run = r => ~Present(u)
    OBVIOUS
  <2>0. data \in [Runs -> BOOLEAN]
    BY <1>1 DEF IInv, StateIsSound, TypeOK, DurableOK
  <2>2. ~UNCHANGED data
    BY <2>1
  <2>3. ~AdmitEnqueue
    BY <2>0, <2>1 DEF AdmitEnqueue
  <2>4. ASSUME NEW o \in Runs, TakeBuild(o) PROVE FALSE
    BY <2>2, <2>4 DEF TakeBuild, TakeRun
  <2>5. ASSUME NEW w \in Workers, GiveBack(w) \/ RecordSteps(w) PROVE FALSE
    BY <2>2, <2>5, Settling DEF GiveBack, RecordSteps, SettleSteps,
       UnchangedBySettle, RecordIntent, NoConnection, Activate,
       PersistStopping, RecordGroup, EndGroup
  <2>6. ASSUME SecondWrite \/ \E o \in Runs : RecoverSteps(o) PROVE FALSE
    BY <2>2, <2>6 DEF SecondWrite, RecoverSteps, RecoverUnreadable,
       RecoverResolved, RecoverWithoutIdentity, RecoverUnit, RecoverGroup,
       UnchangedByRecovery
  <2>7. PICK o \in Runs : CleanWorkspace(o)
    BY <1>1, <2>2, <2>3, <2>4, <2>5, <2>6, DurableFrame
  <2>8. o = r
    BY <2>0, <2>1, <2>7 DEF CleanWorkspace
  <2> QED BY <2>7, <2>8 DEF CleanWorkspace
<1>2. IInv /\ [Next]_vars => [Spares]_vars
  BY <1>1
<1> QED BY <1>2, Invariant, PTL DEF Spec, CleanupSparesWorkloads
=============================================================================
