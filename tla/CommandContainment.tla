------------------------- MODULE CommandContainment -------------------------
(***************************************************************************)
(* Containment of the commands that Runs execute: the transient systemd    *)
(* units and the process-group fallback, the durable identity of the       *)
(* active command of a Run, the cleanup blockers that close admission, the *)
(* startup recovery that reconciles what a dead process left behind, and   *)
(* the destructive cleanup that relies on all of it.                       *)
(*                                                                         *)
(* Two threads execute commands, both with the Run's workspace lock: the   *)
(* Build worker and the validation worker (on a successful Run).  A third  *)
(* admits Runs.  A command is named by its unit; names are fresh.          *)
(***************************************************************************)
EXTENDS Integers, FiniteSets

CONSTANTS Runs, Units,
          Finite,       \* Runs with a finite resource policy
          MaxBlockers,  \* MAX_CLEANUP_BLOCKERS
          Capabilities, \* backends a behavioural probe may find
          Faults,       \* kinds of failure that may happen
          MaxFaults,    \* bound: failures in one behaviour
          MaxCrashes,   \* bound: deaths of the process
          MaxBoots,     \* bound: reboots of the host
          NoRun, NoUnit

FaultKinds == {"start", "verify", "stop", "record", "read"}
Backends == {"systemd_cgroup", "process_group"}

ASSUME ConstantsAssumption ==
    /\ IsFiniteSet(Units) /\ IsFiniteSet(Runs)
    /\ NoRun \notin Runs /\ NoUnit \notin Units
    /\ Finite \subseteq Runs /\ MaxBlockers \in Nat \ {0}
    /\ Capabilities \subseteq Backends /\ Capabilities # {}
    /\ Faults \subseteq FaultKinds
    /\ MaxFaults \in Nat /\ MaxCrashes \in Nat /\ MaxBoots \in Nat

VARIABLES
    \* durable: run.json, active_command.json and the workspace
    status, recovery, ident, data,
    \* the host
    unit,           \* systemd unit, cgroup or process group of a command
    boot,           \* the boot identifier
    \* the registry of cleanup blockers and the probed capability
    blockers, saturated, capability,
    \* threads: where, on which Run, with which unit, with which backend
    pc, job, cur, backend,
    tried, proven,  \* the reconciliation of one admission
    \* the process and its startup
    phase, admission,
    scan, pending, bound, blocked, trusted, found,
    \* bounds
    faults, crashes

runVars == <<status, recovery, ident, data>>
registryVars == <<blockers, saturated, capability>>
threadVars == <<pc, job, cur, backend>>
admitVars == <<tried, proven>>
startVars == <<scan, pending, bound, blocked, trusted, found>>
processVars == <<phase, admission, startVars>>
vars == <<runVars, unit, boot, registryVars, threadVars, admitVars,
          processVars, faults, crashes>>

Workers == {"build", "validate"}
Threads == Workers \cup {"admit"}
\* "failed" stands for every terminal status other than success.
Terminal == {"success", "failed"}
NoIdentity == [unit |-> NoUnit, backend |-> "none", state |-> "none",
               boot |-> 0]
NoPending == [run |-> NoRun, write |-> "none"]
Nothing == [state |-> "free", run |-> NoRun]

\* Where a thread holds the shared lease on the command namespace.
LeasePcs == {"probing", "limiting", "intent", "created", "running", "stopping",
             "abort"}
\* Where a thread answers for the unit it has started.
OwningPcs == LeasePcs \cup {"latch"}
Pcs == OwningPcs \cup
       {"idle", "ready", "failed", "check", "capable", "limits", "decided",
        "launch", "spawned", "grouped", "check1", "apply1", "check2", "apply2",
        "enqueue"}

Identities == {NoIdentity} \cup
    [unit : Units, backend : Backends,
     state : {"starting", "active", "stopping"}, boot : 0 .. boot]

DurableOK ==
    /\ status \in [Runs -> {"absent", "queued", "running"} \cup Terminal]
    /\ recovery \in [Runs -> {"none", "blocked", "resolved"}]
    /\ ident \in [Runs -> Identities]
    /\ data \in [Runs -> BOOLEAN]

HostOK ==
    /\ unit \in [Units ->
          [state : {"free", "loaded", "exited", "cgroup", "group", "escaped"},
           run : Runs \cup {NoRun}]]
    /\ boot \in 0 .. MaxBoots

RegistryOK ==
    /\ blockers \subseteq Units /\ Cardinality(blockers) <= MaxBlockers
    /\ saturated \in BOOLEAN
    /\ capability \in Backends \cup {"unknown", "unresolved"}

ThreadOK ==
    /\ pc \in [Threads -> Pcs] /\ job \in [Threads -> Runs \cup {NoRun}]
    /\ cur \in [Threads -> Units \cup {NoUnit}]
    /\ backend \in [Threads -> Backends \cup {"unknown", "unresolved"}]
    /\ tried \in BOOLEAN /\ proven \subseteq Units

StartupOK ==
    /\ phase \in {"down", "recovering", "up"} /\ admission \in BOOLEAN
    /\ scan \subseteq Runs /\ bound \subseteq Units /\ blocked \subseteq Runs
    /\ pending \in [run : Runs \cup {NoRun},
                    write : {"none", "clear", "resolve"}]
    /\ trusted \in BOOLEAN /\ found \in BOOLEAN

BoundsOK == faults \in 0 .. MaxFaults /\ crashes \in 0 .. MaxCrashes

TypeOK == /\ DurableOK /\ HostOK /\ RegistryOK /\ ThreadOK /\ StartupOK
          /\ BoundsOK

-----------------------------------------------------------------------------
(* Shared vocabulary                                                       *)

Fault(kind) ==
    /\ kind \in Faults /\ faults < MaxFaults
    /\ faults' = faults + 1

NoFault == UNCHANGED faults

Up == phase = "up"

\* containment_cleanup_blocker: any unresolved object, or a full registry.
CleanupBlocked == saturated \/ blockers # {}

\* An exclusive lease on the namespace is refused while anyone shares it.
LeaseShared == \E t \in Threads : pc[t] \in LeasePcs

\* A unit that systemd has loaded, or whose cgroup is still there.
Present(u) == unit[u].state \in {"loaded", "exited", "cgroup"}

\* command_unit_name over a random command id: never a name still in use.
Fresh == {u \in Units :
            /\ unit[u].state = "free" /\ u \notin blockers
            /\ \A r \in Runs : ident[r].unit # u
            /\ \A t \in Threads : cur[t] # u}

Identity(u, kind, state) ==
    [unit |-> u, backend |-> kind, state |-> state, boot |-> boot]

UnitIdentity(u) == Identity(u, "systemd_cgroup", "starting")
GroupIdentity(u) == Identity(u, "process_group", "active")

\* persist_identity refuses a Run that has an active command; clear_identity
\* and update_identity act on the exact record only.
Recordable(r) == ident[r] = NoIdentity
Recorded(r, value) == [ident EXCEPT ![r] = value]
Cleared(r) == [ident EXCEPT ![r] = NoIdentity]
Updated(r, state) == [ident EXCEPT ![r].state = state]

\* verify_unit answers MATCH: the unit is loaded and is the recorded one.
Authentic(u) == unit[u].state \in {"loaded", "exited"}

\* StartTransientUnit
Loaded(u, r) == [unit EXCEPT ![u] = [state |-> "loaded", run |-> r]]

\* What _wait_for_unit_disappearance may leave behind when it proves nothing:
\* the unit, or the cgroup without its unit.
Unstopped(u) == {unit} \cup
    (IF unit[u].state = "loaded"
     THEN {[unit EXCEPT ![u].state = "cgroup"]} ELSE {})

Goto(t, label) == pc' = [pc EXCEPT ![t] = label]

\* The backend a thread decided on is local to one command or admission.
Forget(t) == backend' = [backend EXCEPT ![t] = "unknown"]

\* _publish_cleanup_blocker: an object is never evicted; beyond the capacity
\* the registry stays saturated.
Publish(u) ==
    IF u \notin blockers /\ Cardinality(blockers) >= MaxBlockers
    THEN saturated' = TRUE /\ UNCHANGED blockers
    ELSE blockers' = blockers \cup {u} /\ UNCHANGED saturated

\* prove_containment_absent under the exclusive lease: both the unit and its
\* cgroup are absent.
ProvenGone(u) == ~LeaseShared /\ ~Present(u)

Init ==
    /\ status = [r \in Runs |-> "absent"]
    /\ recovery = [r \in Runs |-> "none"]
    /\ ident = [r \in Runs |-> NoIdentity]
    /\ data = [r \in Runs |-> FALSE]
    /\ unit = [u \in Units |-> Nothing] /\ boot = 0
    /\ blockers = {} /\ saturated = FALSE /\ capability = "unknown"
    /\ pc = [t \in Threads |-> "idle"] /\ job = [t \in Threads |-> NoRun]
    /\ cur = [t \in Threads |-> NoUnit]
    /\ backend = [t \in Threads |-> "unknown"]
    /\ tried = FALSE /\ proven = {}
    /\ phase = "down" /\ admission = FALSE
    /\ scan = {} /\ pending = NoPending /\ bound = {} /\ blocked = {}
    /\ trusted = TRUE /\ found = FALSE
    /\ faults = 0 /\ crashes = 0

-----------------------------------------------------------------------------
(* Capability: behavioural probes with a disposable unit.  The plain probe *)
(* is cached under a lock; a finite policy always probes twice, the second *)
(* time with the requested limits.                                         *)

AfterProbe(t) == IF t = "admit" THEN "check2" ELSE "decided"

Cached == capability \in Backends

\* containment_capability from the cache, or refused by a blocker.
UseCapability(t) ==
    /\ Up /\ pc[t] = "capable"
    /\ \/ CleanupBlocked /\ backend' = [backend EXCEPT ![t] = "unresolved"]
       \/ /\ ~CleanupBlocked /\ Cached /\ job[t] \notin Finite
          /\ backend' = [backend EXCEPT ![t] = capability]
    /\ Goto(t, AfterProbe(t))
    /\ UNCHANGED <<runVars, unit, boot, registryVars, job, cur, admitVars,
                   processVars, faults, crashes>>

\* _probe_capability before a unit exists: the host has no usable systemd,
\* or StartTransientUnit failed and left nothing.
ProbeUnavailable(t) ==
    /\ Up
    /\ \/ /\ pc[t] = "capable" /\ ~CleanupBlocked
          /\ ~Cached \/ job[t] \in Finite
          /\ \A other \in Threads : pc[other] # "probing"
          /\ \/ "process_group" \in Capabilities /\ NoFault
             \/ Fault("start")
          /\ capability' = "process_group"
       \/ pc[t] = "limits" /\ Fault("start") /\ UNCHANGED capability
    /\ backend' = [backend EXCEPT ![t] = "process_group"]
    /\ Goto(t, AfterProbe(t))
    /\ UNCHANGED <<runVars, unit, boot, blockers, saturated, job, cur,
                   admitVars, processVars, crashes>>

StartProbe(t, label) ==
    /\ "systemd_cgroup" \in Capabilities /\ Goto(t, label)
    /\ \E u \in Fresh : /\ unit' = Loaded(u, NoRun)
                        /\ cur' = [cur EXCEPT ![t] = u]
    /\ UNCHANGED <<runVars, boot, registryVars, job, backend, admitVars,
                   processVars, faults, crashes>>

\* The unit of _probe_capability, and the one of resource_limit_capability.
ProbeStart(t) ==
    /\ Up /\ pc[t] = "capable" /\ ~CleanupBlocked
    /\ ~Cached \/ job[t] \in Finite
    /\ \A other \in Threads : pc[other] # "probing"
    /\ StartProbe(t, "probing")

LimitProbeStart(t) == Up /\ pc[t] = "limits" /\ StartProbe(t, "limiting")

\* The probe is stopped and its disappearance proved (_reconcile_owned_probe).
ProbeGone(t, result) ==
    /\ unit[cur[t]].state # "cgroup"
    /\ unit' = [unit EXCEPT ![cur[t]] = Nothing]
    /\ \/ NoFault /\ result = "systemd_cgroup"
       \/ Fault("verify") /\ result = "process_group"
    /\ backend' = [backend EXCEPT ![t] = result]
    /\ cur' = [cur EXCEPT ![t] = NoUnit]
    /\ UNCHANGED <<runVars, boot, blockers, saturated, job, admitVars,
                   processVars, crashes>>

ProbeEnd(t) ==
    /\ Up /\ pc[t] = "probing"
    /\ \E result \in Backends :
          /\ ProbeGone(t, result) /\ capability' = result
          /\ Goto(t, IF job[t] \in Finite /\ result = "systemd_cgroup"
                     THEN "limits" ELSE AfterProbe(t))

LimitProbeEnd(t) ==
    /\ Up /\ pc[t] = "limiting" /\ UNCHANGED capability
    /\ \E result \in Backends : ProbeGone(t, result)
    /\ Goto(t, AfterProbe(t))

\* Its disappearance cannot be proved: the blocker is published before the
\* lease is released.
ProbeUnresolved(t) ==
    /\ Up /\ pc[t] \in {"probing", "limiting"}
    /\ \/ unit[cur[t]].state = "cgroup" /\ NoFault /\ UNCHANGED unit
       \/ Authentic(cur[t]) /\ Fault("stop") /\ unit' \in Unstopped(cur[t])
    /\ Publish(cur[t])
    /\ capability' = IF pc[t] = "probing" THEN "unresolved" ELSE capability
    /\ backend' = [backend EXCEPT ![t] = "unresolved"]
    /\ cur' = [cur EXCEPT ![t] = NoUnit]
    /\ Goto(t, AfterProbe(t))
    /\ UNCHANGED <<runVars, boot, job, admitVars, processVars, crashes>>

-----------------------------------------------------------------------------
(* Admission of a Run (_prepare_run_admission and the enqueue that follows)*)

EndAdmission ==
    /\ Goto("admit", "idle") /\ Forget("admit")
    /\ job' = [job EXCEPT !["admit"] = NoRun]

\* _reconcile_cleanup_for_admission: one attempt per admission.
Reconcile(passed, apply) ==
    \/ /\ ~CleanupBlocked /\ Goto("admit", passed)
       /\ UNCHANGED <<job, backend, admitVars>>
    \/ /\ CleanupBlocked /\ ~tried /\ tried' = TRUE
       /\ proven' = {u \in blockers : ProvenGone(u)}
       /\ Goto("admit", apply) /\ UNCHANGED <<job, backend>>
    \/ /\ CleanupBlocked /\ tried /\ tried' = FALSE
       /\ EndAdmission /\ UNCHANGED proven

AdmitBegin(r) ==
    /\ Up /\ admission /\ pc["admit"] = "idle" /\ status[r] = "absent"
    /\ job' = [job EXCEPT !["admit"] = r]
    /\ Goto("admit", "check1")
    /\ UNCHANGED <<runVars, unit, boot, registryVars, cur, backend, admitVars,
                   processVars, faults, crashes>>

AdmitCheck ==
    /\ Up
    /\ \/ pc["admit"] = "check1" /\ Reconcile("capable", "apply1")
       \/ pc["admit"] = "check2" /\ Reconcile("enqueue", "apply2")
    /\ UNCHANGED <<runVars, unit, boot, registryVars, cur, processVars,
                   faults, crashes>>

\* reconcile_cleanup_blockers, the second half: what was proved is removed.
AdmitApply ==
    /\ Up /\ pc["admit"] \in {"apply1", "apply2"}
    /\ blockers' = blockers \ proven /\ proven' = {}
    /\ Goto("admit", IF pc["admit"] = "apply1" THEN "check1" ELSE "check2")
    /\ UNCHANGED <<runVars, unit, boot, saturated, capability, job, cur,
                   backend, tried, processVars, faults, crashes>>

\* The last check and the creation of the Run, with the safety gate held.
AdmitEnqueue ==
    /\ Up /\ pc["admit"] = "enqueue" /\ EndAdmission /\ tried' = FALSE
    /\ IF CleanupBlocked \/ (job["admit"] \in Finite
                             /\ backend["admit"] # "systemd_cgroup")
       THEN UNCHANGED <<status, data>>
       ELSE /\ status' = [status EXCEPT ![job["admit"]] = "queued"]
            /\ data' = [data EXCEPT ![job["admit"]] = TRUE]
    /\ UNCHANGED <<recovery, ident, unit, boot, registryVars, cur, proven,
                   processVars, faults, crashes>>

-----------------------------------------------------------------------------
(* A worker takes a Run with its workspace lock, executes commands and     *)
(* gives it back.                                                          *)

Unlocked(r) == \A w \in Workers : job[w] # r

TakeRun(w, r) ==
    /\ Up /\ admission /\ pc[w] = "idle" /\ Unlocked(r)
    /\ job' = [job EXCEPT ![w] = r] /\ Goto(w, "ready")
    /\ UNCHANGED <<recovery, ident, data, unit, boot, registryVars, cur,
                   backend, admitVars, processVars, faults, crashes>>

\* execute_pipeline_run
TakeBuild(r) ==
    /\ status[r] = "queued" /\ status' = [status EXCEPT ![r] = "running"]
    /\ TakeRun("build", r)

\* validate_artifact, on a Run that succeeded
TakeValidation(r) ==
    status[r] = "success" /\ UNCHANGED status /\ TakeRun("validate", r)

GiveBack(w) ==
    /\ Up /\ pc[w] \in {"ready", "failed"}
    /\ status' = IF w = "build"
                 THEN [status EXCEPT ![job[w]] =
                         IF pc[w] = "ready" THEN "success" ELSE "failed"]
                 ELSE status
    /\ job' = [job EXCEPT ![w] = NoRun] /\ Goto(w, "idle")
    /\ UNCHANGED <<recovery, ident, data, unit, boot, registryVars, cur,
                   backend, admitVars, processVars, faults, crashes>>

\* Faulty variant: a finite policy falls back to the process group.
CommandCheckWithFallback(w) ==
    /\ Up
    /\ \/ /\ pc[w] = "ready" /\ UNCHANGED backend
          /\ Goto(w, IF CleanupBlocked THEN "failed" ELSE "capable")
       \/ /\ pc[w] = "decided"
          /\ IF CleanupBlocked THEN Goto(w, "failed") /\ Forget(w)
                               ELSE Goto(w, "launch") /\ UNCHANGED backend
    /\ UNCHANGED <<runVars, unit, boot, registryVars, job, cur, admitVars,
                   processVars, faults, crashes>>

\* run_command: refused while a cleanup is unresolved, before and after the
\* capability is known; a finite policy needs the strong backend.
CommandCheck(w) ==
    /\ Up
    /\ \/ /\ pc[w] = "ready" /\ UNCHANGED backend
          /\ Goto(w, IF CleanupBlocked THEN "failed" ELSE "capable")
       \/ /\ pc[w] = "decided"
          /\ IF \/ CleanupBlocked
                \/ job[w] \in Finite /\ backend[w] # "systemd_cgroup"
             THEN Goto(w, "failed") /\ Forget(w)
             ELSE Goto(w, "launch") /\ UNCHANGED backend
    /\ UNCHANGED <<runVars, unit, boot, registryVars, job, cur, admitVars,
                   processVars, faults, crashes>>

-----------------------------------------------------------------------------
(* The systemd backend                                                     *)

\* SystemdCommandContainment.start: the intent is durable before the unit is
\* asked for; persist_identity refuses a Run that has an active command.
RecordIntent(w) ==
    /\ Up /\ pc[w] = "launch" /\ backend[w] = "systemd_cgroup" /\ Forget(w)
    /\ \/ /\ Recordable(job[w]) /\ NoFault /\ Goto(w, "intent")
          /\ \E u \in Fresh : /\ ident' = Recorded(job[w], UnitIdentity(u))
                              /\ cur' = [cur EXCEPT ![w] = u]
       \/ /\ ~Recordable(job[w])
          /\ Goto(w, "failed") /\ NoFault /\ UNCHANGED <<ident, cur>>
       \/ /\ Recordable(job[w]) /\ Fault("record") /\ Goto(w, "failed")
          /\ \/ UNCHANGED ident
             \/ \E u \in Fresh : ident' = Recorded(job[w], UnitIdentity(u))
          /\ UNCHANGED cur
    /\ UNCHANGED <<status, recovery, data, unit, boot, registryVars, job,
                   admitVars, processVars, crashes>>

\* Without a connection nothing was asked for, and the intent is cleared.
NoConnection(w) ==
    /\ Up /\ pc[w] = "intent" /\ Fault("start")
    /\ ident' \in {ident, Cleared(job[w])}
    /\ cur' = [cur EXCEPT ![w] = NoUnit] /\ Goto(w, "failed")
    /\ UNCHANGED <<status, recovery, data, unit, boot, registryVars, job,
                   backend, admitVars, processVars, crashes>>

\* StartTransientUnit; an error says nothing about the unit.
StartUnit(w) ==
    /\ Up /\ pc[w] = "intent"
    /\ \/ /\ unit' = Loaded(cur[w], job[w]) /\ Goto(w, "created") /\ NoFault
       \/ /\ Fault("start") /\ Goto(w, "abort")
          /\ unit' \in {unit, Loaded(cur[w], job[w])}
    /\ UNCHANGED <<runVars, boot, registryVars, job, cur, backend, admitVars,
                   processVars, crashes>>

\* The unit is authenticated and the record becomes active; a failed update
\* may have been committed.
Activate(w) ==
    LET active == Updated(job[w], "active")
    IN  /\ Up /\ pc[w] = "created"
        /\ \/ /\ Authentic(cur[w]) /\ NoFault
              /\ ident' = active /\ Goto(w, "running")
           \/ /\ Authentic(cur[w]) /\ Fault("record")
              /\ ident' \in {active, ident} /\ Goto(w, "abort")
           \/ /\ \/ ~Authentic(cur[w]) /\ NoFault
                 \/ Fault("verify")
              /\ UNCHANGED ident /\ Goto(w, "abort")
        /\ UNCHANGED <<status, recovery, data, unit, boot, registryVars, job,
                       cur, backend, admitVars, processVars, crashes>>

\* _terminate_record without a stop intent, then the exact clear.  Only a
\* unit proved gone whose record is cleared ends without a blocker; the lease
\* is released before the blocker is latched.
Settle(w, next) ==
    LET u == cur[w]
    IN  \/ /\ unit[u].state # "cgroup" /\ NoFault
           /\ unit' = [unit EXCEPT ![u] = Nothing] /\ ident' = Cleared(job[w])
           /\ cur' = [cur EXCEPT ![w] = NoUnit] /\ Goto(w, next)
        \/ /\ unit[u].state # "cgroup" /\ Fault("record")
           /\ unit' = [unit EXCEPT ![u] = Nothing]
           /\ ident' \in {ident, Cleared(job[w])}
           /\ Goto(w, "latch") /\ UNCHANGED cur
        \/ /\ unit[u].state = "cgroup" /\ NoFault
           /\ Goto(w, "latch") /\ UNCHANGED <<unit, ident, cur>>
        \/ /\ Authentic(u) /\ Fault("stop") /\ unit' \in Unstopped(u)
           /\ Goto(w, "latch") /\ UNCHANGED <<ident, cur>>

UnchangedBySettle == UNCHANGED <<status, recovery, data, boot, registryVars,
                                 job, backend, admitVars, processVars,
                                 crashes>>

Abort(w) == Up /\ pc[w] = "abort" /\ Settle(w, "failed") /\ UnchangedBySettle

\* poll saw the retained unit complete: finish.
FinishCommand(w) ==
    /\ Up /\ pc[w] = "running" /\ unit[cur[w]].state = "exited"
    /\ \E next \in {"ready", "failed"} : Settle(w, next)
    /\ UnchangedBySettle

\* A unit that disappeared by itself ends the command through terminate, or
\* through finish when poll had still seen it complete.
LostUnit(w) ==
    /\ Up /\ pc[w] = "running" /\ ~Authentic(cur[w])
    /\ \/ Settle(w, "failed")
       \/ Goto(w, "latch") /\ NoFault /\ UNCHANGED <<unit, ident, cur>>
    /\ UnchangedBySettle

\* Cancellation, a timeout or a failed poll: the stop intent is persisted
\* first.  An exception is ambiguous and does not prevent the stop; a refused
\* update does.
PersistStopping(w) ==
    LET stopping == Updated(job[w], "stopping")
    IN  /\ Up /\ pc[w] = "running" /\ Authentic(cur[w])
        /\ \/ NoFault /\ ident' = stopping /\ Goto(w, "stopping")
           \/ /\ Fault("record")
              /\ \/ ident' \in {stopping, ident} /\ Goto(w, "stopping")
                 \/ UNCHANGED ident /\ Goto(w, "latch")
        /\ UNCHANGED <<status, recovery, data, unit, boot, registryVars, job,
                       cur, backend, admitVars, processVars, crashes>>

\* StopUnit after the identity was verified again; a unit that disappeared in
\* between is an unresolved cleanup, not an absence.
StopCommand(w) ==
    /\ Up /\ pc[w] = "stopping"
    /\ \/ Authentic(cur[w]) /\ Settle(w, "failed")
       \/ /\ ~Authentic(cur[w]) /\ NoFault
          /\ Goto(w, "latch") /\ UNCHANGED <<unit, ident, cur>>
    /\ UnchangedBySettle

\* SystemdCommandContainment.start and _stream_systemd_cgroup
StartContained(w) ==
    \/ RecordIntent(w) \/ NoConnection(w) \/ StartUnit(w)
    \/ Activate(w) \/ Abort(w)
StreamContained(w) ==
    FinishCommand(w) \/ LostUnit(w) \/ PersistStopping(w) \/ StopCommand(w)

\* Faulty variant: the failed cleanup is reported but not latched.
LatchNothing(w) ==
    /\ Up /\ pc[w] = "latch"
    /\ cur' = [cur EXCEPT ![w] = NoUnit] /\ Goto(w, "failed")
    /\ UNCHANGED <<runVars, unit, boot, registryVars, job, backend, admitVars,
                   processVars, faults, crashes>>

\* latch_runtime_cleanup_blocker
Latch(w) ==
    /\ Up /\ pc[w] = "latch" /\ Publish(cur[w])
    /\ cur' = [cur EXCEPT ![w] = NoUnit] /\ Goto(w, "failed")
    /\ UNCHANGED <<runVars, unit, boot, capability, job, backend, admitVars,
                   processVars, faults, crashes>>

-----------------------------------------------------------------------------
(* The process-group fallback: spawned first, recorded afterwards, and no  *)
(* blocker is latched for it.                                              *)

Popen(w) ==
    /\ Up /\ pc[w] = "launch" /\ backend[w] = "process_group" /\ Forget(w)
    /\ \E u \in Fresh :
          /\ unit' = [unit EXCEPT ![u] = [state |-> "group", run |-> job[w]]]
          /\ cur' = [cur EXCEPT ![w] = u]
    /\ Goto(w, "spawned")
    /\ UNCHANGED <<runVars, boot, registryVars, job, admitVars, processVars,
                   faults, crashes>>

\* The group may be signalled; what became of it is the host's answer.
Signalled(u) ==
    \/ UNCHANGED unit
    \/ unit[u].state = "group" /\ unit' = [unit EXCEPT ![u] = Nothing]

RecordGroup(w) ==
    LET recorded == Recorded(job[w], GroupIdentity(cur[w]))
    IN  /\ Up /\ pc[w] = "spawned"
        /\ \/ /\ Recordable(job[w]) /\ NoFault /\ ident' = recorded
              /\ Goto(w, "grouped") /\ UNCHANGED <<unit, cur>>
           \/ /\ \/ ~Recordable(job[w]) /\ NoFault /\ UNCHANGED ident
                 \/ /\ Recordable(job[w]) /\ Fault("record")
                    /\ ident' \in {ident, recorded}
              /\ Signalled(cur[w])
              /\ cur' = [cur EXCEPT ![w] = NoUnit] /\ Goto(w, "failed")
        /\ UNCHANGED <<status, recovery, data, boot, registryVars, job,
                       backend, admitVars, processVars, crashes>>

\* The group ended, or is terminated after a cancellation or a timeout.  The
\* record is cleared only when the group is gone.
EndGroup(w) ==
    /\ Up /\ pc[w] = "grouped"
    /\ \/ unit[cur[w]].state \in {"free", "escaped"} /\ UNCHANGED unit
       \/ unit[cur[w]].state = "group" /\ Signalled(cur[w])
    /\ IF unit'[cur[w]].state = "group"
       THEN Goto(w, "failed") /\ NoFault /\ UNCHANGED ident
       ELSE \/ /\ ident' = Cleared(job[w]) /\ NoFault
               /\ \E next \in {"ready", "failed"} : Goto(w, next)
            \/ Fault("record") /\ Goto(w, "failed") /\ UNCHANGED ident
    /\ cur' = [cur EXCEPT ![w] = NoUnit]
    /\ UNCHANGED <<status, recovery, data, boot, registryVars, job, backend,
                   admitVars, processVars, crashes>>

\* _stream_process_group
StreamGroup(w) == Popen(w) \/ RecordGroup(w) \/ EndGroup(w)

-----------------------------------------------------------------------------
(* The host                                                                *)

Probing(u) == \E t \in Threads : cur[t] = u /\ pc[t] \in {"probing", "limiting"}

\* Processes end; a stopped unit may disappear later than anyone waited for;
\* a descendant may leave the process group of the fallback.
HostStep(u) ==
    /\ ~Probing(u)
    /\ \E next \in {<<"loaded", "exited">>, <<"loaded", "free">>,
                    <<"exited", "free">>, <<"cgroup", "free">>,
                    <<"group", "free">>, <<"group", "escaped">>,
                    <<"escaped", "free">>} :
          /\ unit[u].state = next[1]
          /\ unit' = [unit EXCEPT ![u] =
                        IF next[2] = "free" THEN Nothing
                        ELSE [unit[u] EXCEPT !.state = next[2]]]
    /\ UNCHANGED <<runVars, boot, registryVars, threadVars, admitVars,
                   processVars, faults, crashes>>

\* The process dies: threads, registry and cache are lost, the namespace
\* lease is released, units and groups go on.
Crash ==
    /\ phase # "down" /\ crashes < MaxCrashes /\ crashes' = crashes + 1
    /\ phase' = "down" /\ admission' = FALSE
    /\ pc' = [t \in Threads |-> "idle"] /\ job' = [t \in Threads |-> NoRun]
    /\ cur' = [t \in Threads |-> NoUnit]
    /\ backend' = [t \in Threads |-> "unknown"]
    /\ tried' = FALSE /\ proven' = {}
    /\ blockers' = {} /\ saturated' = FALSE /\ capability' = "unknown"
    /\ scan' = {} /\ pending' = NoPending /\ bound' = {} /\ blocked' = {}
    /\ trusted' = TRUE /\ found' = FALSE
    /\ UNCHANGED <<runVars, unit, boot, faults>>

Reboot ==
    /\ phase = "down" /\ crashes > 0 /\ boot < MaxBoots /\ boot' = boot + 1
    /\ unit' = [u \in Units |-> Nothing]
    /\ UNCHANGED <<runVars, registryVars, threadVars, admitVars, processVars,
                   faults, crashes>>

-----------------------------------------------------------------------------
(* recover_startup                                                         *)

BeginRecovery ==
    /\ phase = "down" /\ phase' = "recovering"
    /\ scan' = {r \in Runs : status[r] # "absent"}
    /\ UNCHANGED <<runVars, unit, boot, registryVars, threadVars, admitVars,
                   admission, pending, bound, blocked, trusted, found, faults,
                   crashes>>

Recovering(r) ==
    /\ phase = "recovering" /\ pending = NoPending /\ r \in scan
    /\ scan' = scan \ {r}

UnchangedByRecovery == UNCHANGED <<data, boot, registryVars, threadVars,
                                   admitVars, phase, admission, crashes>>

\* The Run or its identity cannot be read: nothing is known about ownership.
RecoverUnreadable(r) ==
    /\ Recovering(r) /\ Fault("read")
    /\ trusted' = FALSE /\ found' = TRUE /\ blocked' = blocked \cup {r}
    /\ recovery' \in {recovery, [recovery EXCEPT ![r] = "blocked"]}
    /\ UNCHANGED <<status, ident, unit, pending, bound>>
    /\ UnchangedByRecovery

Bind(r) == bound' = IF ident[r].backend = "systemd_cgroup"
                    THEN bound \cup {ident[r].unit} ELSE bound

\* _record_blocker
Blocker(r) ==
    /\ recovery' = [recovery EXCEPT ![r] = "blocked"]
    /\ blocked' = blocked \cup {r} /\ found' = TRUE
    /\ UNCHANGED <<status, pending>>

\* A terminal Run that recovery resolved earlier: what is left of its
\* identity is cleared; a failure to do so is ignored.
RecoverResolved(r) ==
    /\ Recovering(r) /\ status[r] \in Terminal /\ recovery[r] = "resolved"
    /\ Bind(r)
    /\ \/ ident' = Cleared(r) /\ NoFault
       \/ ident[r] # NoIdentity /\ Fault("record") /\ UNCHANGED ident
    /\ UNCHANGED <<status, recovery, unit, pending, blocked, trusted, found>>
    /\ UnchangedByRecovery

\* _no_command_could_have_started: the Build worker marks a Run running
\* before its first command.
NeverBegan(r) == status[r] = "queued"

\* No identity: a Run that never began is terminalized, a terminal one only
\* stays blocked if it was, and any other cannot be resolved.
RecoverWithoutIdentity(r) ==
    /\ Recovering(r) /\ ident[r] = NoIdentity
    /\ ~(status[r] \in Terminal /\ recovery[r] = "resolved")
    /\ \/ /\ NeverBegan(r) /\ status' = [status EXCEPT ![r] = "failed"]
          /\ recovery' = [recovery EXCEPT ![r] = "resolved"]
          /\ UNCHANGED <<pending, blocked, found>>
       \/ /\ \/ status[r] = "running"
             \/ status[r] \in Terminal /\ recovery[r] = "blocked"
          /\ Blocker(r)
       \/ /\ status[r] \in Terminal /\ recovery[r] = "none"
          /\ UNCHANGED <<status, recovery, pending, blocked, found>>
    /\ NoFault /\ UNCHANGED <<ident, unit, bound, trusted>>
    /\ UnchangedByRecovery

\* The workload is gone for certain.  An interrupted Run is terminalized and
\* its identity cleared; a terminal Run's identity is cleared and a recorded
\* blocker resolved.  Two writes, with a crash possible in between.
Resolve(r) ==
    /\ IF status[r] \in Terminal
       THEN /\ ident' = Cleared(r)
            /\ pending' = IF recovery[r] = "blocked"
                          THEN [run |-> r, write |-> "resolve"] ELSE NoPending
            /\ UNCHANGED <<status, recovery>>
       ELSE /\ status' = [status EXCEPT ![r] = "failed"]
            /\ recovery' = [recovery EXCEPT ![r] = "resolved"]
            /\ pending' = [run |-> r, write |-> "clear"]
            /\ UNCHANGED ident
    /\ UNCHANGED <<blocked, found>>

SecondWrite ==
    /\ pending # NoPending /\ pending' = NoPending
    /\ LET r == pending.run
       IN  \/ /\ pending.write = "clear" /\ UNCHANGED recovery
              /\ \/ ident' = Cleared(r) /\ NoFault
                 \/ Fault("record") /\ UNCHANGED ident
           \/ /\ pending.write = "resolve" /\ NoFault /\ UNCHANGED ident
              /\ recovery' = [recovery EXCEPT ![r] = "resolved"]
    /\ UNCHANGED <<status, unit, scan, bound, blocked, trusted, found>>
    /\ UnchangedByRecovery

HasIdentity(r) ==
    /\ Recovering(r) /\ ident[r] # NoIdentity
    /\ ~(status[r] \in Terminal /\ recovery[r] = "resolved")

\* Faulty variant: an accepted StopUnit counts as the absence of the unit.
RecoverUnitUnproved(r) ==
    LET u == ident[r].unit
    IN  /\ HasIdentity(r) /\ ident[r].backend = "systemd_cgroup" /\ Bind(r)
        /\ \/ NoFault /\ unit' = [unit EXCEPT ![u] = Nothing]
           \/ Fault("stop") /\ UNCHANGED unit
        /\ Resolve(r) /\ UNCHANGED trusted
        /\ UnchangedByRecovery

\* recover_systemd_containment: the unit is stopped and proved gone, or the
\* Run stays blocked.
RecoverUnit(r) ==
    LET u == ident[r].unit
    IN  /\ HasIdentity(r) /\ ident[r].backend = "systemd_cgroup" /\ Bind(r)
        /\ \/ /\ unit[u].state # "cgroup" /\ NoFault
              /\ unit' = [unit EXCEPT ![u] = Nothing] /\ Resolve(r)
           \/ /\ \/ unit[u].state = "cgroup" /\ NoFault
                 \/ Authentic(u) /\ Fault("stop")
              /\ ident' = IF ident[r].state = "active"
                          THEN Updated(r, "stopping") ELSE ident
              /\ Blocker(r) /\ UNCHANGED unit
        /\ UNCHANGED trusted
        /\ UnchangedByRecovery

\* A process group: only a reboot proves that it is gone.
RecoverGroup(r) ==
    /\ HasIdentity(r) /\ ident[r].backend = "process_group" /\ NoFault
    /\ \/ ident[r].boot # boot /\ Resolve(r) /\ UNCHANGED unit
       \/ /\ ident[r].boot = boot /\ Blocker(r) /\ UNCHANGED ident
          /\ Signalled(ident[r].unit)
    /\ UNCHANGED <<bound, trusted>>
    /\ UnchangedByRecovery

\* recover_orphan_systemd_containment: stopped from its provenance alone, when
\* ownership could be read everywhere; a cgroup without a unit has none.
Orphans == {u \in Units : Present(u) /\ u \notin bound}
Stoppable == {u \in Orphans : trusted /\ Authentic(u)}

\* The inventory of the namespace closes the startup: a unit bound to a
\* blocked Run is accounted for, any other bound unit blocks.
Inventory ==
    LET accounted == {u \in bound : Present(u) /\ unit[u].run \in blocked}
    IN  /\ phase = "recovering" /\ scan = {} /\ pending = NoPending
        /\ \/ /\ Fault("read") /\ admission' = FALSE /\ UNCHANGED unit
           \/ \E left \in SUBSET Stoppable :
                 /\ IF left = {} THEN NoFault ELSE Fault("stop")
                 /\ unit' = [u \in Units |-> IF u \in Stoppable \ left
                                             THEN Nothing ELSE unit[u]]
                 /\ admission' = (/\ ~found
                                  /\ \A u \in Units : Present(u) =>
                                       u \in accounted \cup (Stoppable \ left))
        /\ phase' = "up"
        /\ bound' = {} /\ blocked' = {} /\ trusted' = TRUE /\ found' = FALSE
        /\ UNCHANGED <<runVars, boot, registryVars, threadVars, admitVars,
                       scan, pending, crashes>>

-----------------------------------------------------------------------------
(* Destructive cleanup of a Run's workspace, with the safety gate and the  *)
(* Run's lock held (require_destructive_run_safe, _clean_locked).          *)

\* Faulty variant: the lifecycle alone authorizes the removal.
CleanFinishedWorkspace(r) ==
    /\ Up /\ admission /\ Unlocked(r) /\ data[r] /\ status[r] \in Terminal
    /\ data' = [data EXCEPT ![r] = FALSE]
    /\ UNCHANGED <<status, recovery, ident, unit, boot, registryVars,
                   threadVars, admitVars, processVars, faults, crashes>>

\* Processes that no longer refer to the workspace escape the /proc scan.
CleanWorkspace(r) ==
    /\ Up /\ admission /\ Unlocked(r) /\ data[r]
    /\ ~CleanupBlocked /\ recovery[r] # "blocked"
    /\ status[r] \in Terminal /\ ident[r] = NoIdentity
    /\ ~LeaseShared
    /\ \A u \in Units : unit[u].run = r => ~Present(u)
    /\ data' = [data EXCEPT ![r] = FALSE]
    /\ UNCHANGED <<status, recovery, ident, unit, boot, registryVars,
                   threadVars, admitVars, processVars, faults, crashes>>

-----------------------------------------------------------------------------
Next ==
    \/ \E t \in Threads : \/ UseCapability(t) \/ ProbeUnavailable(t)
                          \/ ProbeStart(t) \/ ProbeEnd(t)
                          \/ LimitProbeStart(t) \/ LimitProbeEnd(t)
                          \/ ProbeUnresolved(t)
    \/ \E r \in Runs : AdmitBegin(r)
    \/ AdmitCheck \/ AdmitApply \/ AdmitEnqueue
    \/ \E r \in Runs : TakeBuild(r) \/ TakeValidation(r)
    \/ \E w \in Workers :
          \/ GiveBack(w) \/ CommandCheck(w) \/ Latch(w)
          \/ StartContained(w) \/ StreamContained(w) \/ StreamGroup(w)
    \/ \E u \in Units : HostStep(u)
    \/ Crash \/ Reboot \/ BeginRecovery
    \/ \E r \in Runs : \/ RecoverUnreadable(r) \/ RecoverResolved(r)
                       \/ RecoverWithoutIdentity(r) \/ RecoverUnit(r)
                       \/ RecoverGroup(r)
    \/ SecondWrite \/ Inventory
    \/ \E r \in Runs : CleanWorkspace(r)

Spec == Init /\ [][Next]_vars

-----------------------------------------------------------------------------
(* Properties                                                              *)

\* While Build/Test admission is open, every unit and every cgroup in the
\* command namespace belongs to a command that a thread of this process still
\* answers for: one whose cleanup failed is behind a blocker, and one that a
\* dead process left was reconciled or blocks startup.
NoStrayBehindAdmission ==
    (Up /\ admission /\ ~CleanupBlocked) =>
        \A u \in Units : Present(u) =>
            \E t \in Threads : cur[t] = u /\ pc[t] \in OwningPcs

\* A startup that marks an interrupted Run resolved leaves no unit of the Run
\* and no group named by the Run's identity.
ResolvedMeansGone ==
    [][\A r \in Runs :
          (recovery[r] # "resolved" /\ recovery'[r] = "resolved") =>
              \A u \in Units :
                  /\ unit'[u].run = r => ~Present(u)'
                  /\ ident[r].unit = u => unit'[u].state # "group"]_vars

\* Workspace data is never removed under a unit of that Run, whatever faults
\* and crashes came before.
CleanupSparesWorkloads ==
    [][\A r \in Runs : (data[r] /\ ~data'[r]) =>
          \A u \in Units : unit[u].run = r => ~Present(u)]_vars

\* A Run with a finite resource policy never runs without enforcement.
FiniteIsContained ==
    \A u \in Units : unit[u].state \in {"group", "escaped"} =>
                        unit[u].run \notin Finite

\* The fields of this process and of the host are well formed, and finite
\* policies are enforced.
StateIsSound == TypeOK /\ FiniteIsContained
=============================================================================
