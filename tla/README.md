# DebBuilder: a TLA+ model of its control

DebBuilder turns upstream releases into Debian packages.  One Python process
serves an HTTP interface, runs builds one at a time, validates the produced
artifacts in containers, publishes them to an APT repository, follows upstream
releases, and cleans up after itself.  Everything it promises rests on small
JSON documents that several threads read and write while the process may be
stopped, may crash, or may find its disk full.  This directory models that
control: who owns a piece of work at each moment, what is durable when, and
what a failure in between leaves behind.

## Inventory

| Component (source) | State | Operations | What makes it correct |
|---|---|---|---|
| Execution manager (`execution_manager.py`, `execution_cancellation.py`) | FIFO, reservations, leases, submissions, active context with its CancellationControl, unresolved sets, shutdown state | reserve, submit, cancel, worker loop, stop, begin_shutdown, shutdown | a Run has one owner until it is durably terminal; capacity; a cancellation that was accepted is never a result; shutdown resolves everything |
| Admission and callback (`app.py`) | none of its own | enqueue_recipe_run, enqueue_preallocated_recipe_run, cancel_execution, execute_queued_recipe_run, serve_application | a failed admission leaves no Run without owner |
| Run store (`build_store.py`, `storage.py`) | one `run.json` per workspace | create, save, transition_status, discard_incomplete_creation | terminal statuses are final; an error of save proves nothing about the file |
| Build pipeline (`build_pipeline.py` and the stages it calls) | the Run it executes, under its workspace lock | begin, checkpoints, finalize | exactly one of cancellation and completion decides |
| Containment and identity (`command_containment.py`, `command_identity.py`, `command_runner.py`) | durable identity record, systemd unit or process group, probed capability, cleanup blockers | probe, record, start, terminate, prove absent, clear | an unproven workload blocks every new one |
| Startup recovery (`execution_recovery.py`) | durable Runs of a previous process | classify, contain, terminalize | nothing is declared finished while its processes may live |
| Validation manager (`validation_service.py`, `validation_contracts.py`) | attempts, queue, active attempt, recovery blocks | request, cancel, worker, recover, stop | one active attempt per Run; publication intent is not lost |
| OCI validation (`artifact_validation.py`, `validation_oci.py`, `dependency_preparation.py`) | container ownership records | create, supervise, remove, recover | a container exists only with a durable owner |
| Publication (`artifact_publication.py`, `repository_lock.py`, `apt_repo.py`) | publication records, repository lease, repository | publish, reconcile, remove | a crash leads to a proof, never to a second insertion |
| Automation ledger, orchestrator, operator retry (`automation_ledger.py`, `automation_orchestrator.py`, `automation_status.py`) | one row per generation of an upstream identity | claim, preallocate, link, advance, finish, retry | one Run per upstream identity; a verdict stands; every claim ends |
| Automation scheduler (`automation_scheduler.py`, `upstream_observation.py`) | pass, pending targets, follow-up, flights | request, pass, submit, collect, refresh | a targeted request is answered by a result handed over later, possibly of a check already queued or under way |
| Cleanup and pruning (`workspace_cleanup.py`, `storage_pruning.py`) | scan, candidates, durable intents | scan, rank, recheck, remove; intent, unlink, record | nothing in use or retained is removed; an interrupted removal is finished |
| Inventory and maintenance (`storage_inventory.py`, `maintenance.py`) | request flags, revisions, snapshot | request, worker round, collect | what is shown as current misses no announced change |
| Recipes (`recipe_store.py`, `builtin_recipe.py`) | documents with revisions, the packaged definition | save with expected revision, import, rename, delete, reconcile | no edit is replaced unknowingly |
| Settings (`settings_store.py`, `settings_service.py`) | two files | update, repair, startup checks | the two files fit together at every start |
| Repository bootstrap (`local_repository_bootstrap.py`) | key, configuration, record, public key, export, assets | one idempotent sequence | it ends whatever stopped it before, and the signing identity never changes |
| Mutation gate (`lifecycle.py`) | open flag, count | enter, close, wait | no mutation starts after close |
| Notifications, HTTP, authentication, inspection of archives and ELF files | projections, or no shared state | | outside what a model checker adds to tests |

Interactions.  HTTP threads, the automation thread and the maintenance thread
call the execution manager; the manager's single worker calls the pipeline,
which holds the workspace lock of its Run from begin to end; admission holds
the process-wide containment gate; after a build, the callback hands the Run
to automation, validation and publication; cleanup takes the gate and one Run
lock at a time, and only tries Run locks; `serve_application` stops the
services one after the other.

Hard behaviours.  Admission is five separate critical sections with durable
writes between them; a cancellation request races with completion; a save may
commit and still raise; a command may outlive the process that started it;
shutdown runs with a deadline while admissions and the worker continue; a Run
can lose its in-memory owner in each of these gaps.  `PROJECT.json` lists the
hazards with their lines and the properties about each.

## Modules

| Module | Models | State and actions |
|---|---|---|
| `RunLifecycle` | what readers of `run.json` may rely on (abstract) | `status`, `accepted`; one action per kind of change |
| `ExecutionManager` | manager, admission, cancellation, worker, callback, shutdown | the manager's fields by their names; `adm[r]`, `cpc[r]`, `wpc`, `spc` are where each thread is; one action per `with self._condition` block or per read-check-save under `locked_run` |
| `CommandContainment` | contained commands, their identity, cleanup blockers, admission, startup recovery, destructive cleanup | `ident[r]` is `active_command.json`, `unit[u]` what systemd or the kernel knows of a command, `pc[t]` where each thread is; `scan`, `pending`, `blocked` are the startup |
| `ValidationManager` | validation manager, preparation supervisor, attempts, containers, startup recovery | the manager's and supervisor's fields; `adm[a]`, `cpc[a]`, `wpc`, `spc` are where each thread is; `attempt`, `result`, `intent`, `identities`, `containers` survive a crash |
| `Publication` | publication, reconciliation, package removal, pruning of published artifacts, repository lease, reprepro, recovery of interrupted publications | `attempts`, `intent`, `pruning`, `meta` and the repository survive a crash; `pc[a]`, `job[a]` are where each thread is, `child[a]` the reprepro it started |
| `Automation` | ledger, orchestrator, operator retry, recovery of claims | `rows` is the ledger, `runs` what Run directories hold, `adv[t]` what each thread does with which row |
| `AutomationScheduler` | scheduler thread, its workers, single-flight observation | the scheduler's fields; `thread`, `worker[r]`, `operator[r]` are where each thread is |
| `WorkspaceCleanup` | one sweep of `maintain_run_storage` and those who use Runs meanwhile | `run` is what a Run directory holds, `sweep` where the sweep is, `rows` its candidates |
| `RecipeStore` | Recipe files and their writers | `file`, `lockOf`, `editor[e]` |
| `Settings` | the two settings files and their writers | `settings`, `secrets`, `plan[a]` |
| `RepositoryBootstrap` | `bootstrap_repository` | `keys`, `config`, `record`, `public`, `repo`, `assets`; `step`, `chosen` |
| `StorageMaintenance` | `MaintenanceService` and `StorageInventory` | request flags, worker round, revisions, snapshot; `disk` counts changes of stored data and `announced` what a request has told about |
| `MCServices` | composition of the last six | `focus`: which service moves |
| `MCExecutionManager`, `MCCommandContainment`, `MCValidationManager`, `MCPublication`, `MCAutomation` | model values for TLC | |
| `ExecutionManagerProofs`, `ValidationManagerProofs`, `CommandContainmentProofs`, `AutomationProofs`, `PublicationProofs`, `StorageMaintenanceProofs`, `RecipeStoreProofs`, `SettingsProofs` | theorems | |

Definitions named "Faulty variant" in a module are the code with one plausible
bug.  No specification uses them; substituted for the definition that follows
them, each makes TLC report the property it is meant for, which shows that the
property says something about the code.

`AutomationScheduler`, `WorkspaceCleanup`, `RecipeStore`, `Settings`,
`RepositoryBootstrap` and `StorageMaintenance` share no state: what one means
to another (a check that follows an edit, a measurement that follows a
cleanup, a bootstrap before settings are saved) is an action of the module
that receives it, taken at any time.  A behaviour of all is therefore one of
each, and `MCServices` lets one service move in a behaviour.

### ExecutionManager

* A reservation token is named by the Run it will allocate: identifiers are
  fresh, so a token never meets another Run.
* `Preallocated` Runs come from automation: they are created and submitted
  without a lease, and admitted again after a refusal.
* `Save` fails in the two ways `atomic_write_text` and `BuildStore.save` can:
  before the rename (`lost`) or after it, in the directory sync or the chmod
  (`committed`).  `ReadTerminal` fails as an unreadable Run.  Each fault kind
  can be switched on per run, and `MaxFaults` bounds their number.
* Statuses `absent` and `partial` stand for no workspace and for a workspace
  without `run.json`.
* The durable cancellation keeps its reason and phase because
  `_persist_queued_cancellation` compares them; the rest of a Run document is
  left out, as are logs, events and diagnostics: nothing modelled reads them.
* One process: a crash and the recovery after it are not in this module, nor in
  what `RunLifecycle` is shown for.  `CommandContainment` models startup
  recovery.
* The manager is modelled at its own interface.  `serve_application` closes
  the mutation gate and waits for HTTP mutations before it calls `shutdown`;
  the model does not use that barrier, so it has strictly more interleavings
  than the assembled application.
* `accepted` is history: the Runs for which a caller got the answer
  "cancelling" or "cancelled", or which shutdown asked to stop.

### CommandContainment

* A command is a unit: a transient systemd unit with its cgroup, or the
  process group of a plain child.  A unit is `loaded`, `exited`, left as a
  `cgroup`, or a `group` or `escaped` process; `HostStep` ends workloads at
  any time.
* The order that matters: the identity is recorded as `starting` before the
  unit exists, becomes `active` after its facts are verified, `stopping`
  before it is stopped, and is cleared only with a proof that the unit and its
  cgroup are gone.  Whatever cannot be proved becomes a cleanup blocker;
  beyond `MaxBlockers` the registry stays saturated.
* A probe of the capability is itself a unit that can be left behind.
* `Crash` ends the process anywhere and `Reboot` the host; both leave
  `run.json` and `active_command.json`.  Startup goes over the Runs, binds
  recorded units, resolves what it can prove, and then takes the inventory of
  units that no Run names.
* Process groups latch no blocker, so `NoStrayBehindAdmission` is about units;
  `StateIsSound` says that a Run with a finite resource policy never falls
  back to one.

### ValidationManager

* A request is named by the attempt it would create.  It looks for an active
  attempt of its Run twice (`Select`, `Confirm`): first without and then with
  the Run lease, `runLock`.  `PathFree` is the lock of `attempt.json`.
* The worker runs two containers, told apart by `stage`.  Before each, the
  identity is recorded; `Cleanup` clears it only with a proof of absence.  The
  dependency solution and the package checks are one step each that succeeds,
  fails, or is interrupted by the event.
* `Crash` may happen anywhere; documents, identities and containers survive
  it.  `Startup` recovers containers, then attempts one by one, and then opens
  admission or blocks it.
* `deferred` marks attempts that nobody in this process will end: a write of
  their documents failed, or the startup was blocked.  Without it
  `NoAttemptLost` would claim more than the code does.
* `NoContainerBehindAdmission` excepts the attempts in `deferred`.  When a
  cleanup is unproved and then `attempt.json` cannot be written,
  `prepare_runtime_dependencies` leaves before `SUPERVISOR.block`
  (`dependency_preparation.py:1098-1127` writes first;
  `complete_lifecycle_attempt` blocks first).  Admission then stays open; the
  identity registry still refuses the next container, and the next startup
  finds this one.

### Publication

* All Runs are successful Builds of one package, in one distribution and
  component; what differs is their version and their bytes.  A file is the Run
  it comes from and whether its bytes are what was built.  `Foreign` packages
  have been added to the repository by its administrator before.
* `publish_artifact` and `reconcile_publication` are one sequence of steps
  with a `kind`: save the attempt as running, take the lease, open the source,
  read database and index, insert or not, prove, save.  `Unwind` is an
  exception that leaves the with-blocks: the lease is free before the attempt
  is saved as failed.
* reprepro is external.  It copies the file to the pool, registers it for one
  architecture after the other, exports the indexes, and deletes unreferenced
  pool files; it may fail after each step.  It replaces whatever version is
  registered, so `NoDowngrade` rests on DebBuilder's own check.  A child
  inherits the descriptors of the lease and of the source: it keeps the lease
  when its parent crashes or gives it up after a timeout.
* A save may fail before or after the replacement of the document.  After it,
  an attempt may be left running without a thread, a success on disk may be
  replaced by a failure before the Run is unlocked, and a removal may be
  durable although its caller got an error.
* A pass that stopped after its intent can be tried again only while that
  intent names the latest proof: when the Run is published or reconciled again
  in between, `_valid_intent` refuses the intent in every later pass.  The
  artifact then stays; `AbsenceAccounted` shows that this never happens once
  the file is gone.
* The staging manifest, which `apply_pruning` also prunes, has its own intent
  and is not modelled.  A publication proof is compared as the exact bytes.
* An attempt to validate is two steps (`ValidationStarts`, `ValidationEnds`);
  `ValidationManager` has the detail.
* Recovery of publications does not fail in the model.  In the code a failure
  there blocks the admission of new work.

### Automation

* One Recipe: the ledger orders the generations of a Recipe and never relates
  two.  A document stands for its hash, its policy and its two switches.
* `Advance` takes the row's lock and looks at the row; each later step of the
  thread is one ledger transaction or one call of a manager.  What the
  managers answer is a choice among what their modules allow.
* A crash may come between any two steps; `Restart` takes up every row that is
  not terminal.  `Retry` is the operator's request with the conditions of
  `automation_status.py`.
* Retry delays end at any time, and the counters of admission retries are
  left out; those of Validation and Publication decide verdicts and are kept.
* The scan of `_admit_run` lets the Run of a `test` policy pass when a Build of
  the same identity is admitted (`automation_orchestrator.py:416`), and not the
  other way round.  `OneRunPerIdentity` says exactly that: of two live Runs for
  one identity the older is a dry run and the newer a Build.
* `Sane` rows, `TurnsOK` and the other parts of the inductive invariant are in
  `AutomationProofs`, together with what each thread knows at each step
  (`PcFits`).

### AutomationScheduler

* One thread takes passes; a worker checks a Recipe, and shares one flight
  with an operator's refresh for the same document.  A request during a pass
  is served by it only if the pass will still hand over that Recipe;
  otherwise a follow-up pass serves it.
* A save of a Recipe (`EditRecipe`) and its author's request for an observation
  (`AnnounceEdit`) are two steps; `saved` counts the saves in between.  The
  second has no fairness: what runs between the two may raise.
* `unanswered` is history: Recipes asked for and not handed over since.

### WorkspaceCleanup

* A sweep scans every Run without locks, ranks what it found, and then treats
  one Run at a time under the gate and the Run's lock, where it reads the Run
  again.  Others build, validate, publish, cancel and delete meanwhile.
* Whether commands of the Run are gone is `CommandContainment`; here that
  check may refuse any removal.

### RecipeStore, Settings, RepositoryBootstrap

* A Recipe file is its edit and the packaged definition it was made from; its
  revision is its content.  Deletion and the end of a rename take no lock, as
  in the code.
* A write of a file is saved, lost, or effective and reported as failed.
* The bootstrap may stop after every write or command; a key generation or an
  export that outlives it ends later (`OrphanEnds`).

### StorageMaintenance

* Callers first change stored data (`Change`), then `Request`.  A request
  during a follow-up pass only advances the revision and leaves the flags: the
  periodic sweep (`BecomeDue`, `Wake`) picks it up.
* Only a round with a cleanup moves the periodic deadline, but the worker looks
  at the deadline only while no request waits and no pass runs.  An endless
  stream of refresh requests could therefore postpone a periodic cleanup for
  ever; the run bounds the requests (`MaxRequests`), so its liveness results
  are about bursts.

## Runs

| Run | Instance | Shows |
|---|---|---|
| `execution_safety` | one HTTP and one preallocated Run, admissions not serialized, capacity 1, one fault of any kind | `StateIsSound` (types, one place per Run), `QueueIsSound` (capacity; shutdown freezes the queue), `NoRunLost`, `AnswersAreTrue` ("complete" means resolved, an accepted cancellation never becomes a result); `ImplementsLifecycle` |
| `execution_liveness` | one Run, three lost writes or unreadable Runs | shutdown ends; `WorkIsSettled`: queued work is served, accepted cancellations are settled |
| `shutdown_after_cancel_fault` | one Run, one committed failure | violation, see Findings |
| `containment_recovery` | two Runs, one with a finite policy, two units, one failure of any kind, two crashes, one reboot | no unit behind an open admission, a resolved Run has no workload, cleanup never removes data under one |
| `validation_one_run` | two requests for one Build Run, capacity 1, one failure, one restart | one active attempt per Run, no lost attempt or publication intent, containers are recorded and never behind an open admission, cancellations stand |
| `validation_liveness` | two Runs, one cleanup that proves nothing | attempts end, also those queued behind the unresolved one; shutdown ends |
| `validation_recovery` | one attempt, one crash, one failed cleanup | violation, see Findings |
| `publication_safety` | one client, the remover and the pruner, an older and a newer Run, two architectures, one failure of any kind, one crash | types and nothing unvalidated; one reprepro at a time; a success is true in the step that records it; no downgrade, no removal forgotten |
| `publication_liveness` | one Run with two attempts, two architectures, one failure except of a save, one crash | the last copy is kept, absence is accounted for; `WorkEnds`: attempts end, pruning is completed, the lease comes back |
| `automation` | two identities, two threads, four rows, a Recipe edited between three policies and off, any two of a fault, a crash, an edit and a manual Run | the ledger accepts every row; one Run per identity; rows and Runs stay bound; a verdict stands; every claim ends |
| `automation_retry` | one thread, one failed Validation, an operator's retry | violation, see Findings |
| `services` | three requests and two changes; two Recipes and one worker; two Runs, one retained; two editors, two saves, one upgrade; two administrators, two updates, two crashes; three stops of the bootstrap | freshness and honoured requests; every targeted check is answered; no lost edit; the settings files fit; active and retained workspaces are untouched; the bootstrap completes with one identity |

Why the bounds are enough to be interesting: capacity 1 with two Runs makes
the queue full while an admission is in flight, and lets one Run be active
while the other is reserved, submitted, queued or captured (that capacity and
single ownership hold for any number of Runs is proved); one fault is
enough for each error path, because every error path starts with the first
failing save; three faults in the liveness run let a save, its retry and the
later proof fail in one behaviour.  Two crashes let recovery itself be
interrupted, and a reboot between them makes recorded units meaningless.  One
blocker of capacity with two units saturates the registry.  Three requests let
one arrive before, during and after a pass.  Two architectures let an
insertion or a removal stop between them; two attempts of one Run let a second
publication meet the pruning of the first; a foreign build of the same version
is what an exact proof has to tell apart.  Two disturbances of an update let a
crash meet the retry of a fault, or an edit the crash.  Two generations reach
the bound of retries, three rows let an old row hold up a new one, and four
reach a Build that follows the Test of the same identity.

Fairness.  `FairSpec` assumes that a started thread keeps running: each
admission and cancellation, the worker (every build command has a time limit),
the shutdown sequence, the maintenance worker.  Nothing forces a request, a
fault, a stop or a shutdown to happen, nor a graceful deadline to expire.
`LiveSpec` of `Publication` assumes the same of publication, removal and
pruning, that reprepro ends, and that recovery runs after a crash.  Pruning of
a Run is assumed strongly fair: a pass of the maintenance worker visits every
Run, and while a Run is busy now and then it is not busy at every visit.  The
run leaves out failing saves, after which an attempt is open until the next
restart.  In `Automation` the scheduler visits every row that is not done, its
threads go on, and Runs and Validations end.  In `MCServices` the maintenance
worker, the scheduler's thread and its workers go on and periodic deadlines
pass; starting a worker is strongly fair because the executor's queue is first
in, first out, so a Recipe that waits is not overtaken for ever; systemd
starts a bootstrap that failed again.

## Findings

* `execution_manager.py:785` promises that `shutdown(None)` "retains ownership
  until all admitted work is resolved and the worker has stopped".  A user
  cancellation of a queued Run whose save replaces `run.json` and then fails
  leaves the Run in the queue although it is durably cancelled for
  `user_requested`.  Shutdown captures it and cancels it for
  `server_shutdown`; `_persist_queued_cancellation` accepts a cancelled Run only
  with the same reason, so every retry fails and `shutdown(None)` does not
  return although no work is left.
* `dependency_preparation.py:203` says that recovery will "terminalize only
  after OCI absence is proved".  It asks only whether the inventory of all
  containers was readable (`inventory_trustworthy`); when that holds and the
  cleanup of one container failed, its attempt becomes failed or cancelled
  while the container may still run.  Admission is blocked, so no second
  container starts.
* `docs/ARCHITECTURE.md:18` says that `build_validate` "continues through
  Validation" and `full` "through Publication".  When an operator retries an
  update whose Validation or Publication failed, the new generation has no
  preallocated Run; `_admit_run` finds the successful Run of the generation
  before and finishes the retry as a success
  (`existing_run_owns_identity`).  Nothing is validated or published, and no
  further retry is offered.

## Observations

What the modules show about the code without contradicting anything it says.

* Containment.  A Run that is `running` without an identity record stays
  blocked by design.  A crash between the start of a process group and its
  record on a Run that is already terminal is not noticed at startup.  A crash
  between the clearing of a resolved identity and the terminal record leaves a
  terminal Run blocked at later startups.  A Run directory without `run.json`
  closes admission.  A Run that an earlier startup resolved loses the record
  of a process group started later in the same boot
  (`execution_recovery.py:408`), although for such records
  `docs/OPERATIONS.md:375` names a reboot as the boundary.
* Automation.  A crash between the end of a row and its notification loses
  the notification.  A crash in the creation of a preallocated Run leaves a
  directory without `run.json`, for which startup recovery closes admission;
  the branch of `reconcile_preallocated_run` that would discard it
  (`automation_ledger.py:606`) is then not reached in the next process.
* Scheduler.  A request that arrives during a follow-up pass, or after it took
  its inventory, can wait for the next periodic deadline.  An operator's check
  may be answered by an advisory check that has ended and is not collected
  yet.  While a Recipe is in backoff, a check that is asked for only observes.
* Recipes.  Deletion and rename take no lease: a save that races a deletion
  creates the Recipe again; an edit of the old name between the two halves of
  a rename is lost with the file; a rename onto an existing name replaces it
  like a save without a revision.
* Cleanup.  A queued attempt that is cancelled between the scan and the
  recheck changes only manifests, so the order of candidates may be that of
  the scan.
* Bootstrap.  A key generation that outlives a killed bootstrap can leave a
  second key.  Until one is configured every later bootstrap refuses the
  ambiguity; from then on the second key does no harm.  A publication that was
  interrupted between database and index makes the next bootstrap refuse until
  an operator exports.

## Proofs

TLAPS checks these for every value of the constants, from the named
assumptions of each module (`ConstantsAssumption`: Runs is finite, capacity and
`MaxGenerations` are positive, fault kinds are the known ones, the value for
"nobody" is no client and no package; `BoundsAssumption`).

* `ExecutionManagerProofs!TypeCorrect`: `TypeOK` alone is not inductive.  When
  the worker gives up the active Run it adds `active` to a set of Runs, and a
  cancellation that is saved takes its reason from the control; both need to
  know that the worker is busy exactly when there is an active Run and which
  side owns its outcome at each control point.  `ControlOK` says that, and the
  conjunction is inductive.  The proof has one lemma per part of the state and
  one step per group of actions that change it.
* `ExecutionManagerProofs!OneOwner` (`StateIsSound`): `SingleOwner` alone does
  not say why a submitted Run is nowhere else.  `FreshOK` adds that a Run
  requested over HTTP enters the FIFO at the end of its only admission and
  that shutdown captures nothing before it has begun; `PlacesOK` and
  `QueueFrozen` below give the rest.
* `ExecutionManagerProofs!Bounded`: capacity is checked when an admission
  starts and the place then moves from reservation to submission to queue.
  `PlacesOK` states that whoever is about to move a place still holds it, also
  across `stop()`, which revokes leases that have no Run yet.
* `ExecutionManagerProofs!Frozen`: `QueueFrozen` is inductive by itself.
  `QueueSound` states both, which is `QueueIsSound` of the runs.
* `ExecutionManagerProofs!Implements`: every step of the manager within one
  process is a step of `RunLifecycle` or a stutter, and therefore terminal
  statuses are final and an accepted cancellation never becomes a result.
  Crashes are no steps of this module, so the theorem says nothing of them.  What a write of a status may do depends on who makes it, so
  `LifeInv` says which statuses a Run may have where: the pipeline keeps what it
  wrote under the workspace lock (`PipelineOK`), the owner of the cancellation
  control decides between result and cancellation (`ControlledOK`), and a Run
  that waits has neither (`WaitingOK`).  The helpers that write (`Save` and the
  admission's and the shutdown's uses of it) have a lemma each.
* `ExecutionManagerProofs!NothingLost` (`NoRunLost`) and `!Answers`
  (`AnswersAreTrue`): an owner may only let go of a Run that is terminal or
  that the next owner already holds.  `HandOK` states who holds a Run at each
  step of an admission, `RecordOK` that a shutdown task reported as resolved
  has seen its Run end, `CompleteOK` that after "complete" nobody is left who
  could own a Run again.
* `ValidationManagerProofs!Sound` (`StateIsSound`): one active attempt for each
  Run rests on the Run lease and on what a request has seen under it
  (`LeaseInv`), one container on the registry being empty before each creation
  (`ContainerInv`); `WorkerInv` relates the worker's step to its lease, stage
  and outcome, `Quiet` says that a process which is down has no threads, and
  `PlacesInv` counts the reservations.
* `ValidationManagerProofs!Contained`, `!CancellationsStand`,
  `!IntentsAreKept`, `!NothingLost`: the same invariant with `GateInv` (an
  unproved removal closes admission before the worker lets go), `CancelInv`
  (a result on disk whose attempt is not yet written agrees with an accepted
  cancellation), `IntentInv`, `DrainInv` and `OwnInv` (who ends an attempt,
  by its status).  `NoContainerBehindAdmission` was first stated without its
  exception; the proof failed at exactly the double fault described above.
* `CommandContainmentProofs!Sound`, `!NoStray`, `!ResolvedIsSafe` and
  `!CleanupIsSafe`: `ThreadsOK` (a thread works only while admission is open and
  two workers never on one Run), `NamesOK` (a unit name is given once, and what
  was proved absent stays absent), `StrayOK` (a unit is answered for or in the
  registry unless that is saturated), `IdentityOK` (the durable identity names
  every unit that may still run for its Run) and `RecoveryOK` (between the two
  writes of a recovery the workload is already gone).  The proof first shows
  which group of actions writes which part of the state, then what may become
  of a unit, a name, an identity and a registry entry in one step (`UnitFate`,
  `NameFate`, `IntentFate`, `RegistryFate`, `OwnerFate`, `IdentityFate`).
* `AutomationProofs!Accepts` (`LedgerAccepts`), `!BuiltOnce`
  (`OneRunPerIdentity`), `!Bound` (`RunIsBound`) and `!VerdictsStand`
  (`VerdictStands`): one invariant for all four.  `RowsOK` says of each row what
  the ledger demands and that the Run and attempts it names were made for it;
  `RunsOK` the converse, that a Run of Automation is the one its row reserved;
  `ThreadsOK` what a thread knows of its row at each step, that one thread holds
  a row, and that it is the oldest that has not stopped.  One Run for each
  identity is not inductive over Runs that exist: the scan of `_admit_run` counts
  only these, while a Run that was reserved and not yet created will count
  later.  `OneUnderWay` therefore speaks of every Run whose row has not stopped,
  and `TurnsOK` (a Run is reserved when all older rows have stopped) shows that
  the scan has then seen every rival.  The proof reduces a step of a thread to
  `Works` (it writes its row, its place and its Run, and no other) and shows
  once that such a step keeps the invariant; reserving a Run, taking a row and
  marking a verdict as notified are separate.
* `StorageMaintenanceProofs!TypeCorrect` and `!Freshness`: freshness needs
  what the scan in progress has seen to be at least what was announced when
  its revision was captured (`ScanIsFresh`, `CompletedIsFresh`).
* `PublicationProofs!MutualExclusion`: `OneMutator` alone does not say why a
  thread may start reprepro.  `LeaseOK` adds that a thread inside its
  `with repository_lease` is the holder and that only a thread which waits for
  its child has one.  A step of a thread is then one of five moves of the
  lease (go on, leave, take, start a child, the child goes on), each a lemma.
* `PublicationProofs!RemovalStaysRecorded`: `RemovalInv` adds that the marker
  is written before reprepro starts, and that what a failed removal would
  restore is itself pending when an earlier removal is unresolved.
* `PublicationProofs!NothingUnvalidated` (`StateIsSound`),
  `!MissingIsAccounted` (`AbsenceAccounted`), `!RecordedIsProven`
  (`SuccessIsProven`), `!UnlinkedIsKept` (`LastCopyKept`) and `!NeverDowngraded`
  (`NoDowngrade`): two invariants on top of `LeaseInv`.  `RepoInv` is about the
  repository: the pool files a package under its version, the database refers
  to the pool (`PoolSound`), and what a working reprepro was started on still
  holds (`ChildSound`), because nobody else changes the repository while it
  works, not even when its parent is gone.  `WorkInv` is about the threads:
  what each knows at its step of its Run's lock, attempts, file and of the
  repository (`JobSound`, `PruneSound`), and that a missing file is accounted
  for.  A proof made earlier is still true when it is used since the lease is
  held without a child in between (`QuietRepository`); a second publication
  cannot invalidate an intent whose file is gone, because it ends as a failure
  and the latest proof depends on the successes alone (`Appended`, `Ended`,
  `RecoveredKeeps`).  `OwnStep` is shared by all threads: a step that changes
  its own Run, under that Run's lock, leaves what the others know intact.
  That a non-empty set of attempt numbers has a largest member (`LargestWin`)
  follows from the well-foundedness of strict inclusion on finite sets.

* `RecipeStoreProofs!EditsAreKept` (`NoLostEdit`, an action property): between
  the check of a save and its write the file may only disappear (`WriteOK`),
  because every writer holds the lock of the name and only deletions do not.
* `SettingsProofs!DocumentsFit` (`StartupAccepts`): when `settings.json` is
  written, nothing looks at `secrets.json` again.  `PlanOK` says that the plan
  was made from documents that fit, that its secrets only add to the stored
  ones, and that they are stored by then; `LockOK` that nobody else changed
  them.

Only model-checked: the properties of the services that are not listed here
(`ActiveIsUntouched`, `NewestFailedKept`, `IdentityStands`), and all liveness,
which is out of the prover's reach.

## Not modelled

* The content of build stages, archives, packages and ELF files, Recipe and
  settings validation, version detection: pure functions of large data.
* HTTP routing, sessions, read-only projections, formatting, logs: no decision
  that is modelled reads them.  Notifications are sent at most once, after
  their key is recorded, and nothing reads the result.
* The mutation gate's count and the order in which `serve_application` stops
  the services: each module lets its shutdown begin at any moment, which
  includes that order.
* A composed model of all locks.  Each module has the locks its own component
  takes and shows, where it has liveness properties, that waiting for them
  ends; cleanup, which takes the containment gate and then a Run lock, only
  tries the latter.
* Late answers of D-Bus, resource samples and watchers of contained commands;
  pruning of staging manifests; migration of the ledger file.

## Plan

1. Proofs: `ActiveIsUntouched` and `NewestFailedKept` of WorkspaceCleanup,
   `IdentityStands` of RepositoryBootstrap.
2. Pruning of staging manifests, and the order of shutdown with the mutation
   gate as a composition.
