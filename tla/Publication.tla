---------------------------- MODULE Publication -----------------------------
(***************************************************************************)
(* The APT repository and those who use it: publication and reconciliation *)
(* of a Run's artifact, removal of the package, and pruning of a published *)
(* artifact's local copy, under the Run lock and the repository lease;     *)
(* with crashes and the recovery of interrupted publications at startup.   *)
(*                                                                         *)
(* All Runs built the same package.  reprepro is a child process that      *)
(* inherits the lease, may fail half way, and may outlive its parent.      *)
(***************************************************************************)
EXTENDS Integers, Sequences, FiniteSets, SequencesExt

CONSTANTS Runs,          \* successful Builds of the package
          Foreign,       \* packages an administrator may have added before
          VersionOf,     \* their Debian versions, in dpkg's order
          Architectures, \* target architectures of the distribution
          Projected,     \* the one whose index the package list shows
          Clients,       \* threads that publish or reconcile
          MaxAttempts,   \* bound: publication attempts of a Run
          MaxValidations,\* bound: validations of a Run
          Faults,        \* kinds of failure that may happen
          MaxFaults,     \* bound: failures in one behaviour
          MaxCrashes,    \* bound: crashes in one behaviour
          Nobody

Packages == Runs \cup Foreign
Versions == {VersionOf[p] : p \in Packages}

(* "command": a query or file read fails; "save": a JSON document is not   *)
(* written; "child": reprepro fails or is killed; "orphan": the kill fails;*)
(* "tamper": the local artifact is altered; "stop": should_stop holds.     *)
FaultKinds == {"command", "save", "child", "orphan", "tamper", "stop"}

ASSUME ConstantsAssumption ==
    /\ IsFiniteSet(Runs) /\ IsFiniteSet(Foreign) /\ Runs \cap Foreign = {}
    /\ VersionOf \in [Packages -> Nat] /\ Nobody \notin Packages
    /\ IsFiniteSet(Architectures) /\ Projected \in Architectures
    /\ {"maintenance", "remover", Nobody} \cap Clients = {}
    /\ Nobody \notin {"maintenance", "remover"}
    /\ MaxAttempts \in Nat /\ MaxValidations \in Nat
    /\ Faults \subseteq FaultKinds /\ MaxFaults \in Nat /\ MaxCrashes \in Nat

VARIABLES
    \* durable, per Run
    attempts,       \* statuses of run.json's publications
    artifact,       \* the file in the workspace
    intent,         \* attempt named by the pruning intent, or 0
    pruning,        \* attempt named by artifact.pruning in run.json, or 0
    validation,     \* what the durable validation attempts say
    \* the repository
    db, index, pool,
    \* durable, of the package
    meta,
    removing,       \* history: reprepro was told to remove it, and the
                    \* removal has not been completed
    \* the process
    up, pc, job, runLock, holder, previous,
    child,          \* reprepro started by an actor
    faults, crashes

pkgVars == <<meta, removing>>
runVars == <<attempts, artifact, intent, pruning>>
repoVars == <<db, index, pool>>
lockVars == <<runLock, holder>>
boundVars == <<faults, crashes>>
vars == <<runVars, validation, repoVars, pkgVars, up, pc, job, lockVars,
          previous, child, boundVars>>

Maintenance == "maintenance"
Remover == "remover"
Actors == Clients \cup {Maintenance, Remover}

(* A package file: whose it is, and whether its bytes are what was built.  *)
None == [of |-> Nobody, intact |-> TRUE]
Exact(p) == [of |-> p, intact |-> TRUE]
Files == [of : Packages, intact : BOOLEAN]
HasVersion(f, v) == f.of # Nobody /\ VersionOf[f.of] = v
Newer(f, v) == f.of # Nobody /\ VersionOf[f.of] > v

NoChild == [op |-> "none", run |-> Nobody, stage |-> "none", todo |-> {}]
Working == {"pool", "db", "export", "sweep"}
Alive(a) == child[a].stage \in Working

Job(run, kind) == [run |-> run, kind |-> kind]
NoJob == Job(Nobody, "none")

Fail(kind) == /\ kind \in Faults /\ faults < MaxFaults
              /\ faults' = faults + 1

Init ==
    /\ attempts = [r \in Runs |-> << >>]
    /\ artifact = [r \in Runs |-> "present"]
    /\ intent = [r \in Runs |-> 0] /\ pruning = [r \in Runs |-> 0]
    /\ validation = [r \in Runs |-> [proven |-> FALSE, active |-> FALSE,
                                     left |-> MaxValidations]]
    /\ \E f \in {None} \cup {Exact(p) : p \in Foreign} :
         /\ db = [x \in Architectures |-> f]
         /\ index = [x \in Architectures |-> f]
         /\ pool = [v \in Versions |-> IF HasVersion(f, v) THEN f ELSE None]
    /\ meta = [deleted |-> FALSE, removal |-> "none"] /\ removing = FALSE
    /\ up = "up" /\ pc = [a \in Actors |-> "idle"]
    /\ job = [a \in Actors |-> NoJob]
    /\ runLock = [r \in Runs |-> Nobody] /\ holder = Nobody
    /\ previous = meta
    /\ child = [a \in Actors |-> NoChild]
    /\ faults = 0 /\ crashes = 0

-----------------------------------------------------------------------------
(* Locks.  Both are flock: the Run lock dies with its process; the lease   *)
(* lives while the holder or an inheriting child has the descriptor open.  *)

RunFree(r) == runLock[r] = Nobody

(* Faulty variant: the child does not inherit the lock descriptor.         *)
LeaseFreeUninherited == holder = Nobody

LeaseFree == holder = Nobody /\ \A a \in Actors : ~ Alive(a)

Goto(a, place) == pc' = [pc EXCEPT ![a] = place]

(* repository_lease with blocking=False: RepositoryMutationBusy otherwise. *)
TakeLease(a, leased, busy) ==
    IF LeaseFree THEN holder' = a /\ Goto(a, leased)
                 ELSE UNCHANGED holder /\ Goto(a, busy)

LeaseReleased(a) == IF holder = a THEN Nobody ELSE holder

-----------------------------------------------------------------------------
(* reprepro, one step at a time.                                           *)

Start(a, op, r) ==
    child' = [child EXCEPT ![a] =
        [op |-> op, run |-> r,
         stage |-> IF op = "include" THEN "pool" ELSE "db",
         todo |-> Architectures]]

(* After the last architecture a stage is over.                            *)
Advance(a, x, next) ==
    LET left == child[a].todo \ {x} IN
    child' = [child EXCEPT
        ![a].todo = IF left = {} THEN Architectures ELSE left,
        ![a].stage = IF left = {} THEN next ELSE @]

(* An orphan's exit status is seen by nobody.                              *)
Exit(a, stage) ==
    child' = [child EXCEPT ![a] = IF pc[a] = "waiting"
                                  THEN [@ EXCEPT !.stage = stage, !.todo = {}]
                                  ELSE NoChild]

(* The file that source_fd gives reprepro.  The pool names it after its    *)
(* version, and never replaces a file by one with other bytes.             *)
Included(a) == [of |-> child[a].run,
                intact |-> artifact[child[a].run] # "tampered"]
PoolConflict(a) == /\ child[a].stage = "pool"
                   /\ pool[VersionOf[child[a].run]] \notin {None, Included(a)}

ChildCopies(a) ==
    /\ child[a].stage = "pool" /\ ~ PoolConflict(a)
    /\ pool' = [pool EXCEPT ![VersionOf[child[a].run]] = Included(a)]
    /\ child' = [child EXCEPT ![a].stage = "db"]
    /\ UNCHANGED <<runVars, validation, db, index, pkgVars, up, pc, job,
                   lockVars, previous, boundVars>>

(* A distribution holds one version of a package per architecture.         *)
ChildRegisters(a, x) ==
    /\ child[a].stage = "db" /\ x \in child[a].todo
    /\ db' = [db EXCEPT ![x] = IF child[a].op = "include"
                               THEN pool[VersionOf[child[a].run]] ELSE None]
    /\ Advance(a, x, "export")
    /\ UNCHANGED <<runVars, validation, index, pool, pkgVars, up, pc, job,
                   lockVars, previous, boundVars>>

ChildExports(a, x) ==
    /\ child[a].stage = "export" /\ x \in child[a].todo
    /\ index' = [index EXCEPT ![x] = db[x]]
    /\ Advance(a, x, "sweep")
    /\ UNCHANGED <<runVars, validation, db, pool, pkgVars, up, pc, job,
                   lockVars, previous, boundVars>>

(* Pool files that no distribution refers to are deleted.                  *)
ChildSweeps(a) ==
    /\ child[a].stage = "sweep"
    /\ pool' = [v \in Versions |->
                  IF \E x \in Architectures : db[x] = pool[v]
                  THEN pool[v] ELSE None]
    /\ Exit(a, "ok")
    /\ UNCHANGED <<runVars, validation, db, index, pkgVars, up, pc, job,
                   lockVars, previous, boundVars>>

ChildFails(a) ==
    /\ Alive(a)
    /\ Fail("child") \/ (PoolConflict(a) /\ UNCHANGED faults)
    /\ Exit(a, "failed")
    /\ UNCHANGED <<runVars, validation, repoVars, pkgVars, up, pc, job,
                   lockVars, previous, crashes>>

-----------------------------------------------------------------------------
(* publish_artifact and reconcile_publication.  An exception leaves the    *)
(* with-blocks, which releases the lease, before the attempt is failed.    *)

Status(r) == Last(attempts[r])
SetLast(r, status) ==
    attempts' = [attempts EXCEPT ![r][Len(attempts[r])] = status]

Unwind(a) == /\ holder' = LeaseReleased(a)
             /\ Goto(a, "failing")

(* _attempt, saved as running.  A publication needs an exact confirmation. *)
(* A save that raises after the replacement leaves the attempt behind.     *)
PublishCall(c, r, kind, confirmed) ==
    /\ up = "up" /\ pc[c] = "idle" /\ RunFree(r)
    /\ Len(attempts[r]) < MaxAttempts
    /\ attempts' = [attempts EXCEPT ![r] = Append(@, "running")]
    /\ \/ /\ runLock' = [runLock EXCEPT ![r] = c]
          /\ job' = [job EXCEPT ![c] = Job(r, kind)]
          /\ Goto(c, IF kind = "publish" /\ ~ confirmed THEN "failing"
                                                       ELSE "lease")
          /\ UNCHANGED faults
       \/ Fail("save") /\ UNCHANGED <<runLock, job, pc>>
    /\ UNCHANGED <<artifact, intent, pruning, validation, repoVars, pkgVars,
                   up, holder, previous, child, crashes>>

PublishLease(c) ==
    /\ pc[c] = "lease"
    /\ TakeLease(c, "source", "failing")
    /\ UNCHANGED <<runVars, validation, repoVars, pkgVars, up, job, runLock,
                   previous, child, boundVars>>

(* _source_artifact: the file is there and has the recorded SHA-256.       *)
SourceOpens(r) == pruning[r] = 0 /\ artifact[r] = "present"

PublishSource(c) ==
    /\ pc[c] = "source"
    /\ IF SourceOpens(job[c].run)
       THEN Goto(c, "classify") /\ UNCHANGED holder
       ELSE Unwind(c)
    /\ UNCHANGED <<runVars, validation, repoVars, pkgVars, up, job, runLock,
                   previous, child, boundVars>>

(* reprepro list shows versions; the index shows size and SHA-256 too.     *)
Registered(r) == {x \in Architectures : HasVersion(db[x], VersionOf[r])}
Indexed(r) == {x \in Architectures : HasVersion(index[x], VersionOf[r])}
Downgrade(r) == \E x \in Architectures : \/ Newer(db[x], VersionOf[r])
                                          \/ Newer(index[x], VersionOf[r])

(* publication_insertion_eligibility.                                      *)
Eligible(r) == validation[r].proven /\ ~ validation[r].active

(* Faulty variants: versions, or the validation, are not looked at.        *)
InsertableDowngrade(r) == /\ Registered(r) = {} /\ Indexed(r) = {}
                          /\ Eligible(r)
InsertableUnvalidated(r) == /\ Registered(r) = {} /\ Indexed(r) = {}
                            /\ ~ Downgrade(r)

Insertable(r) == /\ Registered(r) = {} /\ Indexed(r) = {}
                 /\ ~ Downgrade(r) /\ Eligible(r)

(* What is already registered is proved, what is absent may be inserted.   *)
PublishClassify(c) ==
    LET r == job[c].run IN
    /\ pc[c] = "classify"
    /\ \/ /\ job[c].kind = "reconcile" \/ Registered(r) = Architectures
          /\ Goto(c, "prove") /\ UNCHANGED <<holder, child>>
       \/ /\ job[c].kind = "publish" /\ Insertable(r)
          /\ Start(c, "include", r)
          /\ Goto(c, "waiting") /\ UNCHANGED holder
       \/ /\ job[c].kind = "publish" /\ ~ Insertable(r)
          /\ Registered(r) # Architectures
          /\ Unwind(c) /\ UNCHANGED child
    /\ UNCHANGED <<runVars, validation, repoVars, pkgVars, up, job, runLock,
                   previous, boundVars>>

PublishResult(c) ==
    /\ pc[c] = "waiting" /\ child[c].stage \in {"ok", "failed"}
    /\ IF child[c].stage = "ok" THEN Goto(c, "prove") /\ UNCHANGED holder
                                ELSE Unwind(c)
    /\ child' = [child EXCEPT ![c] = NoChild]
    /\ UNCHANGED <<runVars, validation, repoVars, pkgVars, up, job, runLock,
                   previous, boundVars>>

(* The command timed out and its process group remained alive.             *)
PublishAbandons(c) ==
    /\ pc[c] = "waiting" /\ Alive(c) /\ Fail("orphan")
    /\ Unwind(c)
    /\ UNCHANGED <<runVars, validation, repoVars, pkgVars, up, job, runLock,
                   previous, child, crashes>>

(* Faulty variant: the bytes in the pool are not compared.                 *)
ProvesIndexOnly(r) ==
    /\ Registered(r) = Architectures /\ Indexed(r) = Architectures
    /\ artifact[r] = "present"

(* _proof: database, exported index, pool and source agree.                *)
Proves(r) ==
    /\ Registered(r) = Architectures
    /\ \A x \in Architectures : index[x] = Exact(r)
    /\ pool[VersionOf[r]] = Exact(r)
    /\ artifact[r] = "present"

PublishProve(c) ==
    /\ pc[c] = "prove"
    /\ IF Proves(job[c].run) THEN Goto(c, "finish") /\ UNCHANGED holder
                             ELSE Unwind(c)
    /\ UNCHANGED <<runVars, validation, repoVars, pkgVars, up, job, runLock,
                   previous, child, boundVars>>

PublishFinish(c) ==
    LET r == job[c].run IN
    /\ pc[c] = "finish"
    /\ SetLast(r, "success")
    /\ runLock' = [runLock EXCEPT ![r] = Nobody] /\ holder' = Nobody
    /\ job' = [job EXCEPT ![c] = NoJob] /\ Goto(c, "idle")
    /\ UNCHANGED <<artifact, intent, pruning, validation, repoVars, pkgVars,
                   up, previous, child, boundVars>>

(* _fail and _finish; when this save fails too, the caller sees its error. *)
PublishFail(c) ==
    LET r == job[c].run IN
    /\ pc[c] = "failing"
    /\ \/ SetLast(r, "failed") /\ UNCHANGED faults
       \/ Fail("save") /\ UNCHANGED attempts
    /\ runLock' = [runLock EXCEPT ![r] = Nobody]
    /\ job' = [job EXCEPT ![c] = NoJob] /\ Goto(c, "idle")
    /\ UNCHANGED <<artifact, intent, pruning, validation, repoVars, pkgVars,
                   up, holder, previous, child, crashes>>

(* Any other exception: configuration, query, index, comparison, or the    *)
(* save of a success, which may have replaced run.json before it raised.   *)
PublishFault(c) ==
    /\ \/ /\ pc[c] \in {"source", "classify", "prove"} /\ Fail("command")
          /\ UNCHANGED attempts
       \/ /\ pc[c] = "finish" /\ Fail("save")
          /\ SetLast(job[c].run, "success") \/ UNCHANGED attempts
    /\ Unwind(c)
    /\ UNCHANGED <<artifact, intent, pruning, validation, repoVars, pkgVars,
                   up, job, runLock, previous, child, crashes>>

PublishStep(c) == \/ PublishLease(c) \/ PublishSource(c) \/ PublishClassify(c)
                  \/ PublishResult(c) \/ PublishProve(c) \/ PublishFinish(c)
                  \/ PublishFail(c)

-----------------------------------------------------------------------------
(* Pruning: _prune_locked, by the maintenance worker.                      *)

(* _latest_proof: the number of the latest attempt that succeeded, or 0.   *)
LatestProof(r) ==
    SelectLastInSubSeq(attempts[r], 1, Len(attempts[r]),
                       LAMBDA s : s = "success")

(* require_finished looks at all publications, not only at the last one.   *)
Interrupted(r) == \E i \in DOMAIN attempts[r] : attempts[r][i] = "running"

(* require_destructive_run_safe: no publication or validation is active    *)
(* and no process has a file of the workspace open.                        *)
DestructionSafe(r) ==
    /\ ~ Interrupted(r) /\ ~ validation[r].active
    /\ \A a \in Actors : Alive(a) => child[a].run # r

(* The pruning record and the intent, if any, name the latest proof.       *)
PruningReadable(r) == /\ LatestProof(r) # 0
                      /\ pruning[r] \in {0, LatestProof(r)}
                      /\ intent[r] \in {0, LatestProof(r)}

(* A pass over r goes on when there is something to do; all other results  *)
(* (skipped, already_pruned, error) change nothing.                        *)
PruneBegin(r, enabled) ==
    /\ up = "up" /\ pc[Maintenance] = "idle" /\ RunFree(r)
    /\ DestructionSafe(r) /\ PruningReadable(r)
    /\ CASE pruning[r] # 0 ->
              /\ artifact[r] = "absent" /\ intent[r] # 0
              /\ Goto(Maintenance, "clean")
         [] pruning[r] = 0 /\ artifact[r] = "absent" ->
              intent[r] # 0 /\ Goto(Maintenance, "meta")
         [] OTHER ->
              (intent[r] # 0 \/ enabled) /\ Goto(Maintenance, "lease")
    /\ runLock' = [runLock EXCEPT ![r] = Maintenance]
    /\ job' = [job EXCEPT ![Maintenance] = Job(r, "prune")]
    /\ UNCHANGED <<runVars, validation, repoVars, pkgVars, up, holder,
                   previous, child, boundVars>>

PruneEnds ==
    /\ runLock' = [runLock EXCEPT ![job[Maintenance].run] = Nobody]
    /\ holder' = LeaseReleased(Maintenance)
    /\ job' = [job EXCEPT ![Maintenance] = NoJob]
    /\ Goto(Maintenance, "idle")

PruneLease ==
    /\ pc[Maintenance] = "lease"
    /\ IF LeaseFree
       THEN /\ TakeLease(Maintenance, "verify", "idle")
            /\ UNCHANGED <<runLock, job>>
       ELSE PruneEnds
    /\ UNCHANGED <<runVars, validation, repoVars, pkgVars, up, previous, child,
                   boundVars>>

(* Faulty variant: the repository is not looked at again.                  *)
PruneTrusts ==
    LET r == job[Maintenance].run IN
    /\ pc[Maintenance] = "verify"
    /\ Goto(Maintenance, IF intent[r] = 0 THEN "intent" ELSE "check")
    /\ UNCHANGED <<runVars, validation, repoVars, pkgVars, up, previous, child,
                   lockVars, job, boundVars>>

(* verified_published_run_artifact: a fresh proof, as good as the saved    *)
(* one.                                                                    *)
PruneVerify ==
    LET r == job[Maintenance].run IN
    /\ pc[Maintenance] = "verify"
    /\ IF SourceOpens(r) /\ Proves(r)
       THEN /\ Goto(Maintenance, IF intent[r] = 0 THEN "intent" ELSE "check")
            /\ UNCHANGED <<lockVars, job>>
       ELSE PruneEnds
    /\ UNCHANGED <<runVars, validation, repoVars, pkgVars, up, previous, child,
                   boundVars>>

(* Faulty variant: the file is unlinked without a durable intent.          *)
PruneIntentLater ==
    /\ pc[Maintenance] = "intent"
    /\ Goto(Maintenance, "check")
    /\ UNCHANGED <<runVars, validation, repoVars, pkgVars, up, job, lockVars,
                   previous, child, boundVars>>

PruneIntent ==
    LET r == job[Maintenance].run IN
    /\ pc[Maintenance] = "intent"
    /\ intent' = [intent EXCEPT ![r] = LatestProof(r)]
    /\ Goto(Maintenance, "check")
    /\ UNCHANGED <<attempts, artifact, pruning, validation, repoVars, pkgVars,
                   up, job, lockVars, previous, child, boundVars>>

(* verify_source_artifact_fd, before the destructive step.                 *)
PruneCheck ==
    /\ pc[Maintenance] = "check"
    /\ IF artifact[job[Maintenance].run] = "present"
       THEN Goto(Maintenance, "unlink") /\ UNCHANGED <<lockVars, job>>
       ELSE PruneEnds
    /\ UNCHANGED <<runVars, validation, repoVars, pkgVars, up, previous, child,
                   boundVars>>

PruneUnlink ==
    /\ pc[Maintenance] = "unlink"
    /\ artifact' = [artifact EXCEPT ![job[Maintenance].run] = "absent"]
    /\ Goto(Maintenance, "meta")
    /\ UNCHANGED <<attempts, intent, pruning, validation, repoVars, pkgVars,
                   up, job, lockVars, previous, child, boundVars>>

(* Faulty variant: the intent is removed before run.json is written.       *)
PruneForgets ==
    LET r == job[Maintenance].run IN
    /\ pc[Maintenance] = "meta"
    /\ intent' = [intent EXCEPT ![r] = 0]
    /\ Goto(Maintenance, "clean")
    /\ UNCHANGED <<attempts, artifact, pruning, validation, repoVars, pkgVars,
                   up, job, lockVars, previous, child, boundVars>>

(* _finish_metadata: run.json first, then the intent is removed.           *)
PruneMetadata ==
    LET r == job[Maintenance].run IN
    /\ pc[Maintenance] = "meta"
    /\ pruning' = [pruning EXCEPT ![r] = intent[r]]
    /\ Goto(Maintenance, "clean")
    /\ UNCHANGED <<attempts, artifact, intent, validation, repoVars, pkgVars,
                   up, job, lockVars, previous, child, boundVars>>

PruneClean ==
    /\ pc[Maintenance] = "clean"
    /\ intent' = [intent EXCEPT ![job[Maintenance].run] = 0]
    /\ PruneEnds
    /\ UNCHANGED <<attempts, artifact, pruning, validation, repoVars, pkgVars,
                   up, previous, child, boundVars>>

(* PruningStopped, or an exception; with the file gone, the intent stays.  *)
PruneFault ==
    /\ \/ pc[Maintenance] \in {"lease", "intent", "check", "unlink"}
          /\ Fail("stop")
       \/ pc[Maintenance] = "verify" /\ Fail("command")
       \/ pc[Maintenance] \in {"intent", "meta", "clean"} /\ Fail("save")
    /\ PruneEnds
    /\ UNCHANGED <<runVars, validation, repoVars, pkgVars, up, previous, child,
                   crashes>>

PruneStep == \/ PruneLease \/ PruneVerify \/ PruneIntent \/ PruneCheck
             \/ PruneUnlink \/ PruneMetadata \/ PruneClean

-----------------------------------------------------------------------------
(* Removal of the package: delete_package and remove_published_package.    *)

(* No Run has an active publication or validation.  The index is read      *)
(* without the lease.  A retired package that is not live is not found.    *)
Published == index[Projected].of # Nobody

RemoveCall ==
    /\ up = "up" /\ pc[Remover] = "idle"
    /\ \A r \in Runs : /\ attempts[r] # << >> => Status(r) # "running"
                       /\ ~ validation[r].active
    /\ meta.deleted => Published
    /\ job' = [job EXCEPT ![Remover] =
                  Job(Nobody, IF Published THEN "remove" ELSE "retire")]
    /\ Goto(Remover, "begin")
    /\ UNCHANGED <<runVars, validation, repoVars, pkgVars, up, lockVars,
                   previous, child, boundVars>>

(* begin_removal persists the pending marker.                              *)
RemoveIntent ==
    /\ pc[Remover] = "begin"
    /\ previous' = meta
    /\ meta' = [meta EXCEPT !.removal = "pending"] /\ UNCHANGED removing
    /\ Goto(Remover, IF job[Remover].kind = "remove" THEN "lease" ELSE "mark")
    /\ UNCHANGED <<runVars, validation, repoVars, up, job, lockVars, child,
                   boundVars>>

RemoveLease ==
    /\ pc[Remover] = "lease"
    /\ TakeLease(Remover, "query", "restore")
    /\ UNCHANGED <<runVars, validation, repoVars, pkgVars, up, job, runLock,
                   previous, child, boundVars>>

DatabaseEmpty == \A x \in Architectures : db[x] = None
IndexEmpty == \A x \in Architectures : index[x] = None

(* A package that reprepro does not own cannot be removed.                 *)
RemoveQuery ==
    /\ pc[Remover] = "query"
    /\ IF DatabaseEmpty
       THEN /\ holder' = Nobody /\ Goto(Remover, "restore")
            /\ UNCHANGED <<child, removing>>
       ELSE /\ Start(Remover, "remove", Nobody) /\ removing' = TRUE
            /\ Goto(Remover, "waiting") /\ UNCHANGED holder
    /\ UNCHANGED <<runVars, validation, repoVars, meta, up, job, runLock,
                   previous, boundVars>>

RemoveEnds == job' = [job EXCEPT ![Remover] = NoJob]

(* Faulty variant: a removal that failed restores the old metadata.        *)
RemoveUnproved == Goto(Remover, "restore") /\ UNCHANGED job

(* Without proof of absence the pending marker stays for a retry.          *)
RemoveRecoveryRequired == Goto(Remover, "idle") /\ RemoveEnds

(* The command's result, and the absence of the package in the database    *)
(* and in every exported index.                                            *)
RemoveResult ==
    /\ pc[Remover] = "waiting" /\ child[Remover].stage \in {"ok", "failed"}
    /\ IF child[Remover].stage = "ok" /\ DatabaseEmpty /\ IndexEmpty
       THEN Goto(Remover, "mark") /\ UNCHANGED job
       ELSE RemoveRecoveryRequired
    /\ holder' = Nobody
    /\ child' = [child EXCEPT ![Remover] = NoChild]
    /\ UNCHANGED <<runVars, validation, repoVars, pkgVars, up, runLock,
                   previous, boundVars>>

RemoveAbandons ==
    /\ pc[Remover] = "waiting" /\ Alive(Remover) /\ Fail("orphan")
    /\ holder' = Nobody
    /\ RemoveRecoveryRequired
    /\ UNCHANGED <<runVars, validation, repoVars, pkgVars, up, runLock,
                   previous, child, crashes>>

(* mark_deleted, after the lease was released.                             *)
RemoveMark ==
    /\ pc[Remover] = "mark"
    /\ meta' = [deleted |-> TRUE, removal |-> "success"]
    /\ removing' = FALSE
    /\ Goto(Remover, "idle") /\ RemoveEnds
    /\ UNCHANGED <<runVars, validation, repoVars, up, lockVars, previous,
                   child, boundVars>>

(* restore_after_failed_removal.                                           *)
RemoveRestore ==
    /\ pc[Remover] = "restore"
    /\ meta' = previous /\ UNCHANGED removing
    /\ Goto(Remover, "idle") /\ RemoveEnds
    /\ UNCHANGED <<runVars, validation, repoVars, up, lockVars, previous,
                   child, boundVars>>

(* A failed query before the command restores, an OSError there does not.  *)
(* A save that raises may have replaced the document.                      *)
RemoveFault ==
    /\ \/ /\ pc[Remover] = "query" /\ Fail("command")
          /\ holder' = Nobody /\ UNCHANGED pkgVars
          /\ \/ RemoveRecoveryRequired
             \/ Goto(Remover, "restore") /\ UNCHANGED job
       \/ /\ pc[Remover] \in {"begin", "mark", "restore"} /\ Fail("save")
          /\ RemoveRecoveryRequired /\ UNCHANGED holder
          /\ \/ UNCHANGED pkgVars
             \/ /\ pc[Remover] = "begin"
                /\ meta' = [meta EXCEPT !.removal = "pending"]
                /\ UNCHANGED removing
             \/ /\ pc[Remover] = "mark"
                /\ meta' = [deleted |-> TRUE, removal |-> "success"]
                /\ removing' = FALSE
    /\ UNCHANGED <<runVars, validation, repoVars, up, runLock, previous, child,
                   crashes>>

RemoveStep == \/ RemoveIntent \/ RemoveLease \/ RemoveQuery \/ RemoveResult
              \/ RemoveMark \/ RemoveRestore

-----------------------------------------------------------------------------
(* The process, the validation of artifacts, and the world.                *)

ValidationStarts(r) ==
    /\ up = "up" /\ RunFree(r) /\ artifact[r] # "absent"
    /\ ~ validation[r].active /\ validation[r].left > 0
    /\ validation' = [validation EXCEPT ![r].active = TRUE, ![r].left = @ - 1]
    /\ UNCHANGED <<runVars, repoVars, pkgVars, up, pc, job, lockVars, previous,
                   child, boundVars>>

ValidationEnds(r, success) ==
    /\ RunFree(r) /\ validation[r].active
    /\ validation' = [validation EXCEPT ![r].active = FALSE,
                                        ![r].proven = @ \/ success]
    /\ UNCHANGED <<runVars, repoVars, pkgVars, up, pc, job, lockVars, previous,
                   child, boundVars>>

Tamper(r) ==
    /\ artifact[r] = "present" /\ Fail("tamper")
    /\ artifact' = [artifact EXCEPT ![r] = "tampered"]
    /\ UNCHANGED <<attempts, intent, pruning, validation, repoVars, pkgVars,
                   up, pc, job, lockVars, previous, child, crashes>>

(* A crash leaves a child that still works.                                *)
Crash ==
    /\ crashes < MaxCrashes /\ crashes' = crashes + 1
    /\ up' = "recovering"
    /\ pc' = [a \in Actors |-> "idle"] /\ job' = [a \in Actors |-> NoJob]
    /\ runLock' = [r \in Runs |-> Nobody] /\ holder' = Nobody
    /\ child' = [a \in Actors |-> IF Alive(a) THEN child[a] ELSE NoChild]
    /\ UNCHANGED <<runVars, validation, repoVars, pkgVars, previous, faults>>

(* _recover_interrupted_publications, before requests are served.          *)
Recover(r) ==
    /\ up = "recovering" /\ Interrupted(r)
    /\ attempts' = [attempts EXCEPT ![r] =
                      [i \in DOMAIN @ |->
                         IF @[i] = "running" THEN "failed" ELSE @[i]]]
    /\ UNCHANGED <<artifact, intent, pruning, validation, repoVars, pkgVars,
                   up, pc, job, lockVars, previous, child, boundVars>>

Open ==
    /\ up = "recovering" /\ \A r \in Runs : ~ Interrupted(r)
    /\ up' = "up"
    /\ UNCHANGED <<runVars, validation, repoVars, pkgVars, pc, job, lockVars,
                   previous, child, boundVars>>

ChildStep(a) ==
    \/ ChildCopies(a) \/ ChildSweeps(a) \/ ChildFails(a)
    \/ \E x \in Architectures : ChildRegisters(a, x) \/ ChildExports(a, x)

Next ==
    \/ \E c \in Clients :
         \/ \E r \in Runs, kind \in {"publish", "reconcile"},
              confirmed \in BOOLEAN : PublishCall(c, r, kind, confirmed)
         \/ PublishStep(c) \/ PublishAbandons(c) \/ PublishFault(c)
    \/ \E r \in Runs, enabled \in BOOLEAN : PruneBegin(r, enabled)
    \/ PruneStep \/ PruneFault
    \/ RemoveCall \/ RemoveStep \/ RemoveAbandons \/ RemoveFault
    \/ \E a \in Actors : ChildStep(a)
    \/ \E r \in Runs : \/ ValidationStarts(r) \/ Tamper(r) \/ Recover(r)
                       \/ \E success \in BOOLEAN : ValidationEnds(r, success)
    \/ Crash \/ Open

Spec == Init /\ [][Next]_vars

(* Threads go on, reprepro ends, a pass of the maintenance worker visits   *)
(* every Run, and a started process finishes its recovery.                 *)
Fairness ==
    /\ \A c \in Clients : WF_vars(PublishStep(c))
    /\ \A a \in Actors : WF_vars(ChildStep(a))
    /\ \A r \in Runs : /\ SF_vars(\E enabled \in BOOLEAN :
                                    PruneBegin(r, enabled))
                       /\ WF_vars(Recover(r))
                       /\ WF_vars(\E success \in BOOLEAN :
                                    ValidationEnds(r, success))
    /\ WF_vars(PruneStep) /\ WF_vars(RemoveStep) /\ WF_vars(Open)

LiveSpec == Spec /\ Fairness

-----------------------------------------------------------------------------
(* Properties.                                                             *)

(* Every variable has the values its part of the program can give it.      *)
TypeOK ==
    /\ attempts \in [Runs -> Seq({"running", "success", "failed"})]
    /\ \A r \in Runs : Len(attempts[r]) <= MaxAttempts
    /\ artifact \in [Runs -> {"present", "tampered", "absent"}]
    /\ intent \in [Runs -> 0..MaxAttempts]
    /\ pruning \in [Runs -> 0..MaxAttempts]
    /\ validation \in [Runs -> [proven : BOOLEAN, active : BOOLEAN,
                                left : 0..MaxValidations]]
    /\ db \in [Architectures -> Files \cup {None}]
    /\ index \in [Architectures -> Files \cup {None}]
    /\ pool \in [Versions -> Files \cup {None}]
    /\ meta \in [deleted : BOOLEAN, removal : {"none", "pending", "success"}]
    /\ previous \in [deleted : BOOLEAN,
                     removal : {"none", "pending", "success"}]
    /\ removing \in BOOLEAN /\ up \in {"up", "recovering"}
    /\ pc \in [Actors -> {"idle", "lease", "source", "classify", "waiting",
                          "prove", "finish", "failing", "verify", "intent",
                          "check", "unlink", "meta", "clean", "begin",
                          "query", "mark", "restore"}]
    /\ job \in [Actors -> [run : Runs \cup {Nobody},
                           kind : {"none", "publish", "reconcile", "prune",
                                   "remove", "retire"}]]
    /\ runLock \in [Runs -> Actors \cup {Nobody}]
    /\ holder \in Actors \cup {Nobody}
    /\ child \in [Actors -> [op : {"none", "include", "remove"},
                             run : Runs \cup {Nobody},
                             stage : Working \cup {"none", "ok", "failed"},
                             todo : SUBSET Architectures]]
    /\ faults \in 0..MaxFaults /\ crashes \in 0..MaxCrashes

(* repository_lock: two reprepro processes never work on one repository,   *)
(* and while one works nobody but its parent holds the lease, even when    *)
(* that parent has died or has given up waiting.                           *)
OneMutator ==
    \A a, b \in Actors : Alive(a) => /\ Alive(b) => a = b
                                     /\ holder \in {a, Nobody}

InRepository(r) ==
    /\ \A x \in Architectures : db[x] = Exact(r) /\ index[x] = Exact(r)
    /\ pool[VersionOf[r]] = Exact(r)

(* publish_artifact, reconcile_publication: in the step that records a     *)
(* success, the database, every index and the pool hold exactly the bytes  *)
(* the Run built, although the proof was made steps before.                *)
SuccessIsProven ==
    [][\A r \in Runs :
         (\E i \in DOMAIN attempts[r] : /\ attempts'[r][i] = "success"
                                        /\ attempts[r][i] # "success")
         => InRepository(r)]_vars

(* _prune_locked: the local file of a Run disappears only while the        *)
(* repository holds exactly its bytes and no publication of it is open.    *)
LastCopyKept ==
    [][\A r \in Runs : (artifact[r] # "absent" /\ artifact'[r] = "absent")
                       => InRepository(r) /\ ~ Interrupted(r)]_vars

(* _prune_locked: a missing file is always accounted for, by the record or *)
(* by an intent, that names the latest proof of the Run: whatever happens  *)
(* after the unlink, the next pass can finish and never reports an error.  *)
AbsenceAccounted ==
    \A r \in Runs : artifact[r] = "absent" =>
        /\ LatestProof(r) # 0
        /\ LatestProof(r) \in {intent[r], pruning[r]}
        /\ {intent[r], pruning[r]} \subseteq {0, LatestProof(r)}

(* publish_artifact: an insertion never replaces a registered version by   *)
(* an older one, on any architecture, also after insertions and removals   *)
(* that stopped half way.                                                  *)
NoDowngrade ==
    [][\A x \in Architectures :
         db'[x].of # Nobody => ~ Newer(db[x], VersionOf[db'[x].of])]_vars

(* publish_artifact: the repository holds a Run's package only when a      *)
(* validation of that Run succeeded before.                                *)
OnlyValidated ==
    \A x \in Architectures : db[x].of \in Runs => validation[db[x].of].proven

(* The state of publications and repository: well formed, and nothing in   *)
(* the repository that was not validated.                                  *)
StateIsSound == TypeOK /\ OnlyValidated

(* delete_package: once reprepro was told to remove the package, the       *)
(* pending marker stays until a removal is completed: through failures,    *)
(* crashes and retries that find the repository busy.                      *)
RemovalRecorded == removing => meta.removal = "pending"

(* publish_artifact: every attempt comes to an end, through the thread or  *)
(* through the recovery of the next process.                               *)
AttemptEnds ==
    \A r \in Runs : Interrupted(r) ~> ~ Interrupted(r)

(* _prune_locked: after the unlink, the record is completed and the intent *)
(* removed, whatever crash or stop came in between.                        *)
PruningCompleted ==
    \A r \in Runs : artifact[r] = "absent"
                    ~> (pruning[r] # 0 /\ intent[r] = 0)

(* repository_lease: the repository becomes free again, also after its     *)
(* holder crashed or left a child behind.                                  *)
LeaseReturns == ~ LeaseFree ~> LeaseFree

(* Whatever was begun ends: attempts, prunings and leases.                 *)
WorkEnds == AttemptEnds /\ PruningCompleted /\ LeaseReturns
=============================================================================
