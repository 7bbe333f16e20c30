----------------------------- MODULE Automation -----------------------------
(***************************************************************************)
(* The durable life of an automatic update: upstream_detection.py claims a  *)
(* detected upstream identity in the ledger (automation_ledger.py), and     *)
(* automation_orchestrator.py takes the claim through a Build Run, its      *)
(* Validation and its Publication, asking the manager that owns each stage. *)
(* The ledger, the Runs and their attempts are files: they survive a crash. *)
(* The threads that advance a claim, and the locks they hold, do not.       *)
(*                                                                         *)
(* One Recipe is modelled: the ledger orders the generations of a Recipe    *)
(* and never relates two Recipes.  A Recipe document stands for its         *)
(* canonical SHA-256, which covers its policy and its two switches.  A row  *)
(* is one generation of one attempt; its index is the order of its          *)
(* created_at.  A retry delay may end at any time.  The outcomes of Runs,   *)
(* Validations and Publications come from the managers, which have modules  *)
(* of their own.                                                            *)
(***************************************************************************)
EXTENDS Integers, Sequences, FiniteSets

CONSTANTS
    Threads,        \* the scheduler's thread and the managers' callbacks
    Documents,      \* the contents the Recipe may have
    Identities,     \* exact upstream identities
    PolicyOf,       \* the automation policy of a document
    Enabled,        \* the documents with active and automation.enabled set
    Initially,      \* the documents the Recipe may have at first
    Faults,         \* subset of FaultKinds
    MaxFaults, MaxCrashes, MaxEdits, MaxMoves, MaxManual,
    MaxDisturbances,    \* faults, crashes, edits and manual Runs together
    MaxRows,        \* MAX_ATTEMPTS_PER_RECIPE
    MaxGenerations, \* MAX_GENERATIONS
    MaxValidationRetries, MaxPublicationRetries

Policies == {"manual", "detect", "test", "build", "build_validate", "full"}

(* "delayed": an admission is refused with a transient code; "refused":    *)
(* with any other; "transient", "failed": a Validation or a Publication    *)
(* ends so; "cancelled": someone cancels the Run or the Validation.        *)
FaultKinds == {"delayed", "refused", "transient", "failed", "cancelled"}

ASSUME ConstantsAssumption ==
    /\ PolicyOf \in [Documents -> Policies]
    /\ Enabled \subseteq Documents /\ Initially \subseteq Documents
    /\ Faults \subseteq FaultKinds
    /\ {MaxFaults, MaxCrashes, MaxEdits, MaxMoves, MaxManual,
        MaxDisturbances, MaxRows, MaxGenerations,
        MaxValidationRetries, MaxPublicationRetries}
          \subseteq Nat
    /\ MaxGenerations > 0

VARIABLES
    phase,      \* "up", "closing", "down", or "blocked" after a recovery
    recipe,     \* the Recipe document on disk
    upstream,   \* what the upstream repository would answer now
    probe,      \* a check that has its answer and has not claimed it
    rows,       \* the ledger: generations in the order of created_at
    runs,       \* every Run id ever allocated, and what its directory holds
    adv,        \* what every thread is doing with which row
    faults, crashes, edits, moves, manual

vars == <<phase, recipe, upstream, probe, rows, runs, adv,
          faults, crashes, edits, moves, manual>>
counters == <<faults, crashes, edits, moves, manual>>

Stopped == {"terminal", "blocked"}
LiveRun == {"pending", "queued", "running", "success"}
TerminalRun == {"success", "failed", "cancelled"}

NoProbe == [doc |-> "none", id |-> "none"]
Idle == [row |-> 0, pc |-> "idle", existing |-> FALSE, cls |-> "none",
         code |-> "none", out |-> 0]

(***************************************************************************)
(* The ledger: rows, and what each method makes of one                     *)
(***************************************************************************)
(* _generation(): a claim that nothing has happened to yet.                *)
Generation(id, doc, gen) ==
    [id |-> id, doc |-> doc, gen |-> gen, state |-> "claimed",
     stage |-> "detection", cls |-> "none", code |-> "none",
     pre |-> 0, run |-> 0, val |-> 0, pub |-> 0,
     vretry |-> 0, pretry |-> 0, notified |-> FALSE]

(* _validate_generation(): what the ledger refuses to store.               *)
ValidGeneration(row) ==
    LET stopped == row.state \in Stopped
    IN  /\ PolicyOf[row.doc] # "manual"
        /\ row.run # 0 => row.run = row.pre
        /\ row.state \in {"run_preallocated", "admitted"} => row.pre # 0
        /\ PolicyOf[row.doc] = "detect" => row.pre = 0
        /\ row.state = "admitted" => row.run # 0
        /\ (row.cls # "none") <=> row.state \in Stopped \cup {"retry_delayed"}
        /\ (row.state = "retry_delayed") <=> (row.cls = "transient_retryable")
        /\ (row.state = "blocked") <=> (row.cls = "blocked_manual")
        /\ stopped <=> (row.stage = "terminal")
        /\ row.pub # 0 => row.val # 0
        /\ row.stage = "detection" =>
              row.pre = 0 /\ row.run = 0 /\ row.val = 0 /\ row.pub = 0
        /\ row.stage = "run_admission" =>
              row.pre # 0 /\ row.run = 0 /\ row.val = 0 /\ row.pub = 0
        /\ row.stage = "run" => row.run # 0 /\ row.val = 0 /\ row.pub = 0
        /\ row.stage = "validation_admission" => row.run # 0 /\ row.pub = 0
        /\ row.stage = "validation" =>
              row.run # 0 /\ row.val # 0 /\ row.pub = 0
        /\ row.stage = "publication" => row.run # 0 /\ row.val # 0
        /\ row.notified => stopped

Key(row) == <<row.id, row.doc>>
RowsOf(key) == {k \in DOMAIN rows : Key(rows[k]) = key}

(* _validate(): one entry per key, contiguous generations, and the bounds. *)
ValidLedger ==
    /\ Len(rows) <= MaxRows
    /\ \A k \in DOMAIN rows :
          LET same == {j \in RowsOf(Key(rows[k])) : j < k}
          IN  rows[k].gen = Cardinality(same)
    /\ \A k \in DOMAIN rows :
          rows[k].gen < MaxGenerations /\ ValidGeneration(rows[k])

(* preallocate_run(): the same Run id however often it is asked for.       *)
PreallocateRun(row, candidate) ==
    IF row.pre # 0 THEN row
    ELSE [row EXCEPT !.pre = candidate, !.state = "run_preallocated",
                     !.stage = "run_admission"]

(* link_run(): the Run that was preallocated now exists.                   *)
LinkRun(row) ==
    IF row.run # 0 THEN row
    ELSE [row EXCEPT !.run = row.pre, !.state = "admitted", !.stage = "run",
                     !.cls = "none", !.code = "none"]

(* Faulty variant of the operator below: the stage of a stopped row stays. *)
FinishKeepsStage(row, cls, code) ==
    [row EXCEPT !.cls = cls, !.code = code,
                !.state = CASE cls = "transient_retryable" -> "retry_delayed"
                            [] cls = "blocked_manual" -> "blocked"
                            [] OTHER -> "terminal"]

(* finish(): the state follows from the classification; the state the row  *)
(* had is not looked at.                                                   *)
LedgerFinish(row, cls, code) ==
    LET state == CASE cls = "transient_retryable" -> "retry_delayed"
                   [] cls = "blocked_manual" -> "blocked"
                   [] OTHER -> "terminal"
    IN  [row EXCEPT !.state = state, !.cls = cls, !.code = code,
                    !.stage = IF state \in Stopped THEN "terminal" ELSE @]

(* _schedule_retry(): finish() with the retry counted for its stage.       *)
ScheduleRetry(row) ==
    LET delayed == LedgerFinish(row, "transient_retryable", "none")
    IN  [delayed EXCEPT
           !.vretry = IF row.stage \in {"validation_admission", "validation"}
                      THEN @ + 1 ELSE @,
           !.pretry = IF row.stage = "publication" THEN @ + 1 ELSE @]

(* advance_lifecycle(): a stopped row is left alone; 0 is "not given".     *)
AdvanceLifecycle(row, stage, val, pub) ==
    IF row.state \in Stopped THEN row
    ELSE [row EXCEPT !.state = "admitted", !.stage = stage, !.cls = "none",
                     !.code = "none",
                     !.val = IF val # 0 THEN val ELSE @,
                     !.pub = IF pub # 0 THEN pub ELSE @]

(* mark_completion_notified().                                             *)
MarkNotified(row) == [row EXCEPT !.notified = TRUE]

(***************************************************************************)
(* What the orchestrator asks before it acts                               *)
(***************************************************************************)
Open == phase = "up"                                   \* admission_open()

Rank == [p \in Policies |->
           CASE p = "manual" -> 0 [] p = "detect" -> 1 [] p = "test" -> 2
             [] p = "build" -> 3 [] p = "build_validate" -> 4 [] OTHER -> 5]

(* Faulty variant of the operator below: the digest is not compared.       *)
EnabledIsEnough(row) == recipe \in Enabled

(* _initial_authorized(): the Recipe is exactly the one that was claimed.  *)
InitialAuthorized(row) == recipe \in Enabled /\ recipe = row.doc

(* _downstream_authorized(): a policy at least as far as the next stage.   *)
DownstreamAuthorized(policy) ==
    recipe \in Enabled /\ Rank[PolicyOf[recipe]] >= Rank[policy]

(* _is_recipe_turn(): the oldest generation that is not stopped.           *)
IsRecipeTurn(k) ==
    \A j \in DOMAIN rows : rows[j].state \notin Stopped => k <= j

(* Faulty variant of the operator below: finished Runs are forgotten.      *)
OwnedWhileActive(row) ==
    /\ row.pre = 0
    /\ \E n \in DOMAIN runs :
          /\ runs[n].id = row.id
          /\ runs[n].status \in {"pending", "queued", "running"}

(* The scan of _admit_run() for a Run that has this identity already.      *)
OwnedIdentity(row) ==
    /\ row.pre = 0
    /\ \E n \in DOMAIN runs :
          /\ runs[n].id = row.id
          /\ runs[n].mode = "build" \/ PolicyOf[row.doc] = "test"
          /\ runs[n].status \in LiveRun

(* _reconcile_validation_link(): the newest attempt made for this row.     *)
NewestValidation(k) ==
    LET vals == runs[rows[k].run].vals
        mine == {v \in DOMAIN vals : vals[v].row = k}
    IN  IF mine = {} THEN rows[k].val
        ELSE CHOOSE v \in mine : \A w \in mine : w <= v

(***************************************************************************)
(* Threads                                                                 *)
(***************************************************************************)
Alive == phase \in {"up", "closing", "blocked"}

(* Faulty variant of the operator below: no lock.                          *)
NeverLocked(k) == FALSE

(* The lock of a (key, generation), taken without waiting.                 *)
Locked(k) == \E t \in Threads : adv[t].row = k

At(t, pc) == Alive /\ adv[t].pc = pc
Row(t) == rows[adv[t].row]
RunOf(t) == runs[Row(t).run]
Go(t, pc) == adv' = [adv EXCEPT ![t].pc = pc]
Return(t) == adv' = [adv EXCEPT ![t] = Idle]
Store(t, row) == rows' = [rows EXCEPT ![adv[t].row] = row]
Spare == faults + crashes + edits + manual < MaxDisturbances
Fault(kind) ==
    /\ kind \in Faults /\ Spare /\ faults < MaxFaults
    /\ faults' = faults + 1

(* The call of _finish() that an advance ends with.                        *)
Conclude(t, cls, code) ==
    adv' = [adv EXCEPT ![t].pc = "finish", ![t].cls = cls, ![t].code = code]

world == <<phase, recipe, upstream, probe>>
others == <<crashes, edits, moves, manual>>

(* Where advance() goes with the row it read.                              *)
Dispatch(row) ==
    CASE row.run = 0 -> "authorize"
      [] row.stage = "validation_admission" -> "vadmit"
      [] row.stage = "validation" ->
            IF row.state = "retry_delayed" THEN "vadmit" ELSE "validation"
      [] row.stage = "publication" -> "validation"
      [] OTHER -> "run"

(* advance(): called by a pass of the scheduler for every row, and by the  *)
(* callbacks of a finished Run, Validation or detection.                   *)
Advance(t, k) ==
    /\ At(t, "idle") /\ k \in DOMAIN rows
    /\ ~Locked(k)
    /\ rows[k].state \notin Stopped /\ IsRecipeTurn(k)
    /\ adv' = [adv EXCEPT ![t] = [Idle EXCEPT !.row = k,
                                              !.pc = Dispatch(rows[k])]]
    /\ UNCHANGED <<world, rows, runs, counters>>

(***************************************************************************)
(* _admit_run(): reserve, create, link and submit one Run                  *)
(***************************************************************************)
(* The first look at the Recipe, before the mutation lease is taken.       *)
Authorize(t) ==
    /\ At(t, "authorize")
    /\ CASE ~Open -> Return(t)
         [] Open /\ ~adv[t].existing /\ ~InitialAuthorized(Row(t)) ->
               Conclude(t, "disabled", "final")
         [] Open /\ adv[t].existing
                 /\ ~DownstreamAuthorized(PolicyOf[Row(t).doc]) ->
               Conclude(t, "disabled", "final")
         [] OTHER -> Go(t, "reserve")
    /\ UNCHANGED <<world, rows, runs, counters>>

(* Under the lease: a Run that has the identity ends the row, otherwise an *)
(* id is preallocated, or what became of the preallocated Run is looked up.*)
Reserve(t) ==
    /\ At(t, "reserve")
    /\ \/ /\ ~Open /\ Return(t)
          /\ UNCHANGED <<rows, runs>>
       \/ /\ Open /\ OwnedIdentity(Row(t))
          /\ Conclude(t, "success", "owned")
          /\ UNCHANGED <<rows, runs>>
       \/ /\ Open /\ ~OwnedIdentity(Row(t)) /\ Row(t).pre = 0
          /\ Store(t, PreallocateRun(Row(t), Len(runs) + 1))
          /\ runs' = Append(runs,
                [row |-> adv[t].row, id |-> Row(t).id, doc |-> Row(t).doc,
                 mode |-> IF PolicyOf[Row(t).doc] = "test" THEN "dry_run"
                          ELSE "build",
                 status |-> "absent", vals |-> <<>>, pubs |-> <<>>])
          /\ Go(t, "recheck")
       \/ /\ Open /\ Row(t).pre # 0
          /\ Store(t, IF runs[Row(t).pre].status = "absent" THEN Row(t)
                      ELSE LinkRun(Row(t)))
          /\ Go(t, "recheck")
          /\ UNCHANGED runs
    /\ UNCHANGED <<world, counters>>

(* The second look at the Recipe, under the lease: it is this answer that  *)
(* a new Run is made from.                                                 *)
Recheck(t) ==
    /\ At(t, "recheck")
    /\ LET pre == Row(t).pre
       IN  IF IF adv[t].existing
              THEN DownstreamAuthorized(PolicyOf[Row(t).doc])
              ELSE InitialAuthorized(Row(t))
           THEN /\ runs' = IF runs[pre].status = "absent"
                           THEN [runs EXCEPT ![pre].doc = recipe] ELSE runs
                /\ Go(t, "create")
           ELSE Conclude(t, "disabled", "final") /\ UNCHANGED runs
    /\ UNCHANGED <<world, rows, counters>>

SetRun(n, status) == runs' = [runs EXCEPT ![n].status = status]

(* An admission that fails: a transient code delays the row, any other     *)
(* ends it, and a shutdown leaves it as it is.                             *)
AdmissionFails(t) ==
    \/ /\ ~Open /\ Return(t) /\ UNCHANGED <<rows, faults>>
    \/ /\ Open /\ Fault("delayed") /\ Store(t, ScheduleRetry(Row(t)))
       /\ Return(t)
    \/ /\ Open /\ Fault("refused") /\ UNCHANGED rows
       /\ Conclude(t, "terminal_failure", "none")

(* enqueue_preallocated_recipe_run() up to the first file of the workspace.*)
CreateRun(t) ==
    /\ At(t, "create")
    /\ \/ /\ runs[Row(t).pre].status = "absent"
          /\ SetRun(Row(t).pre, "partial") /\ Go(t, "commit")
          /\ UNCHANGED <<rows, faults>>
       \/ /\ runs[Row(t).pre].status # "absent"
          /\ Go(t, "link") /\ UNCHANGED <<rows, runs, faults>>
       \/ /\ runs[Row(t).pre].status \in {"absent", "pending"}
          /\ AdmissionFails(t) /\ UNCHANGED runs
    /\ UNCHANGED <<world, others>>

(* BuildStore.create() saves run.json last.                                *)
CommitRun(t) ==
    /\ At(t, "commit")
    /\ SetRun(Row(t).pre, "pending") /\ Go(t, "link")
    /\ UNCHANGED <<world, rows, counters>>

(* The callback link_run(), before the Run is submitted.                   *)
CreatedCallback(t) ==
    /\ At(t, "link")
    /\ Store(t, LinkRun(Row(t)))
    /\ Go(t, IF runs[Row(t).pre].status = "pending" THEN "submit"
             ELSE "linked")
    /\ UNCHANGED <<world, runs, counters>>

(* manager.submit(): a full queue leaves the pending Run for a retry.      *)
SubmitRun(t) ==
    /\ At(t, "submit")
    /\ \/ /\ Open /\ SetRun(Row(t).run, "queued") /\ Go(t, "linked")
          /\ UNCHANGED <<rows, faults>>
       \/ /\ AdmissionFails(t) /\ UNCHANGED runs
    /\ UNCHANGED <<world, others>>

(* The Run may have ended before its row says that it was admitted.        *)
RunAdmitted(t) ==
    /\ At(t, "linked")
    /\ Store(t, AdvanceLifecycle(Row(t), "run", 0, 0))
    /\ IF RunOf(t).status \in TerminalRun THEN Go(t, "run") ELSE Return(t)
    /\ UNCHANGED <<world, runs, counters>>

(* Faulty variant of the action below: a Run that was never submitted is   *)
(* taken for one that is under way.                                        *)
PendingIsUnderWay(t) ==
    /\ At(t, "run")
    /\ CASE RunOf(t).status \in {"pending", "queued", "running"} -> Return(t)
         [] RunOf(t).status \in {"cancelled", "failed"} ->
               Conclude(t, "terminal_failure", "none")
         [] RunOf(t).status = "success" -> Go(t, "vadmit")
    /\ UNCHANGED <<world, rows, runs, counters>>

(* _handle_run(): what the Run's status means for the row.                 *)
HandleRun(t) ==
    /\ At(t, "run")
    /\ LET status == RunOf(t).status
           policy == PolicyOf[Row(t).doc]
       IN  CASE status = "pending" ->
                  adv' = [adv EXCEPT ![t].pc = "authorize",
                                     ![t].existing = TRUE]
             [] status \in {"queued", "running"} -> Return(t)
             [] status = "cancelled" -> Conclude(t, "cancelled", "none")
             [] status = "failed" -> Conclude(t, "terminal_failure", "none")
             [] status = "success" ->
                  IF policy \in {"test", "build"}
                  THEN Conclude(t, "success", "none") ELSE Go(t, "vadmit")
    /\ UNCHANGED <<world, rows, runs, counters>>

(***************************************************************************)
(* _admit_validation(), _handle_validation()                               *)
(***************************************************************************)
(* An attempt that was admitted and not linked is linked; otherwise a new  *)
(* one is admitted, if the Recipe still allows it.                         *)
AdmitValidation(t) ==
    /\ At(t, "vadmit")
    /\ LET newest == NewestValidation(adv[t].row)
           required == IF PolicyOf[Row(t).doc] = "full" THEN "full"
                       ELSE "build_validate"
       IN  \/ /\ ~Open /\ Return(t) /\ UNCHANGED rows
           \/ /\ Open /\ newest # Row(t).val
              /\ Store(t, AdvanceLifecycle(Row(t), "validation", newest, 0))
              /\ Go(t, "validation")
           \/ /\ Open /\ newest = Row(t).val
              /\ ~DownstreamAuthorized(required)
              /\ Conclude(t, "disabled", "final") /\ UNCHANGED rows
           \/ /\ Open /\ newest = Row(t).val /\ DownstreamAuthorized(required)
              /\ Store(t, AdvanceLifecycle(Row(t), "validation_admission",
                                           0, 0))
              /\ Go(t, "vcall")
    /\ UNCHANGED <<world, runs, counters>>

(* manager.admit() with the row named in the attempt's metadata.           *)
CallAdmit(t) ==
    /\ At(t, "vcall")
    /\ \/ /\ Open
          /\ runs' = [runs EXCEPT ![Row(t).run].vals =
                        Append(@, [row |-> adv[t].row, status |-> "active"])]
          /\ adv' = [adv EXCEPT ![t].pc = "vlink",
                                ![t].out = Len(RunOf(t).vals) + 1]
          /\ UNCHANGED <<rows, faults>>
       \/ /\ AdmissionFails(t) /\ UNCHANGED runs
    /\ UNCHANGED <<world, others>>

LinkValidation(t) ==
    /\ At(t, "vlink")
    /\ Store(t, AdvanceLifecycle(Row(t), "validation", adv[t].out, 0))
    /\ IF RunOf(t).vals[adv[t].out].status = "active" THEN Return(t)
       ELSE Go(t, "validation")
    /\ UNCHANGED <<world, runs, counters>>

(* The status of the attempt decides; a lost link is found again first.    *)
HandleValidation(t) ==
    /\ At(t, "validation")
    /\ LET newest == NewestValidation(adv[t].row)
           row == IF newest = Row(t).val THEN Row(t)
                  ELSE AdvanceLifecycle(Row(t), "validation", newest, 0)
           status == RunOf(t).vals[newest].status
       IN  CASE status = "active" -> Store(t, row) /\ Return(t)
             [] status = "cancelled" ->
                  Store(t, row) /\ Conclude(t, "cancelled", "none")
             [] status = "transient" /\ row.vretry < MaxValidationRetries ->
                  Store(t, ScheduleRetry(row)) /\ Return(t)
             [] status = "failed" \/ (status = "transient"
                                        /\ row.vretry >= MaxValidationRetries) ->
                  Store(t, row) /\ Conclude(t, "terminal_failure", "none")
             [] status = "success" ->
                  /\ Store(t, row)
                  /\ IF PolicyOf[row.doc] = "build_validate"
                     THEN Conclude(t, "success", "none")
                     ELSE Go(t, "publish")
    /\ UNCHANGED <<world, runs, counters>>

(***************************************************************************)
(* _publish()                                                              *)
(***************************************************************************)
(* A failed attempt delays the row while its retries last, or ends it.     *)
PublicationFailed(t, row, outcome) ==
    IF outcome = "transient" /\ row.pretry < MaxPublicationRetries
    THEN Store(t, ScheduleRetry(row)) /\ Return(t)
    ELSE /\ Store(t, row)
         /\ IF outcome = "blocked"
            THEN Conclude(t, "blocked_manual", "final")
            ELSE Conclude(t, "terminal_failure", "none")

Publish(t) ==
    /\ At(t, "publish")
    /\ LET pubs == RunOf(t).pubs
           last == Len(pubs)
           failed == last # 0 /\ pubs[last] # "success"
                        /\ Row(t).state # "retry_delayed"
       IN  \/ /\ ~Open /\ Return(t) /\ UNCHANGED rows
           \/ /\ Open /\ ~DownstreamAuthorized("full")
              /\ Conclude(t, "disabled", "final") /\ UNCHANGED rows
           \/ /\ Open /\ DownstreamAuthorized("full") /\ failed
              /\ PublicationFailed(t,
                    AdvanceLifecycle(Row(t), "publication", 0, last),
                    pubs[last])
           \/ /\ Open /\ DownstreamAuthorized("full") /\ ~failed
              /\ Store(t, AdvanceLifecycle(Row(t), "publication", 0, 0))
              /\ Go(t, "pubcall")
    /\ UNCHANGED <<world, runs, counters>>

(* publish() records an attempt on the Run and returns it, or raises       *)
(* without one.                                                            *)
CallPublish(t) ==
    /\ At(t, "pubcall")
    /\ \E outcome \in {"success", "transient", "blocked"} :
          /\ CASE outcome = "success" -> UNCHANGED faults
               [] outcome = "transient" -> Fault("transient")
               [] outcome = "blocked" -> Fault("failed")
          /\ \/ /\ runs' = [runs EXCEPT ![Row(t).run].pubs = Append(@, outcome)]
                /\ adv' = [adv EXCEPT ![t].pc = "publink",
                                      ![t].out = Len(RunOf(t).pubs) + 1]
                /\ UNCHANGED rows
             \/ /\ outcome # "success" /\ UNCHANGED runs
                /\ IF Open THEN PublicationFailed(t, Row(t), outcome)
                   ELSE Return(t) /\ UNCHANGED rows
    /\ UNCHANGED <<world, others>>

LinkPublication(t) ==
    /\ At(t, "publink")
    /\ LET row == AdvanceLifecycle(Row(t), "publication", 0, adv[t].out)
           outcome == RunOf(t).pubs[adv[t].out]
       IN  IF outcome = "success"
           THEN Store(t, row) /\ Conclude(t, "success", "none")
           ELSE PublicationFailed(t, row, outcome)
    /\ UNCHANGED <<world, runs, counters>>

(***************************************************************************)
(* _finish()                                                               *)
(***************************************************************************)
Finish(t) ==
    /\ At(t, "finish")
    /\ Store(t, LedgerFinish(Row(t), adv[t].cls, adv[t].code))
    /\ Go(t, "notify")
    /\ UNCHANGED <<world, runs, counters>>

(* The notification is sent, then remembered.                              *)
Notify(t) ==
    /\ At(t, "notify")
    /\ Store(t, MarkNotified(Row(t))) /\ Return(t)
    /\ UNCHANGED <<world, runs, counters>>

Step(t) ==
    \/ Authorize(t) \/ Reserve(t) \/ Recheck(t) \/ CreateRun(t)
    \/ CommitRun(t) \/ CreatedCallback(t) \/ SubmitRun(t) \/ RunAdmitted(t)
    \/ HandleRun(t) \/ AdmitValidation(t) \/ CallAdmit(t)
    \/ LinkValidation(t) \/ HandleValidation(t) \/ Publish(t)
    \/ CallPublish(t) \/ LinkPublication(t) \/ Finish(t) \/ Notify(t)

(***************************************************************************)
(* Detection, and the operator                                             *)
(***************************************************************************)
Eligible(d) == d \in Enabled /\ PolicyOf[d] # "manual"

(* check() reads the Recipe and asks upstream, holding no lock.            *)
Detect ==
    /\ Open /\ probe = NoProbe /\ Eligible(recipe)
    /\ probe' = [doc |-> recipe, id |-> upstream]
    /\ UNCHANGED <<phase, recipe, upstream, rows, runs, adv, counters>>

(* claim_current_recipe(): the answer counts if the Recipe is still the    *)
(* one that was read and the key is new.  The first identity of a document *)
(* is its baseline.                                                        *)
Claim ==
    /\ Open /\ probe # NoProbe
    /\ LET new == Generation(probe.id, probe.doc, 0)
           baseline == \A k \in DOMAIN rows : rows[k].doc # probe.doc
           handled == baseline \/ PolicyOf[probe.doc] = "detect"
       IN  rows' = IF /\ recipe = probe.doc /\ recipe \in Enabled
                      /\ RowsOf(Key(new)) = {}
                      /\ Len(rows) < MaxRows
                   THEN Append(rows, IF handled
                                     THEN LedgerFinish(new, "success", "baseline")
                                     ELSE new)
                   ELSE rows
    /\ probe' = NoProbe
    /\ UNCHANGED <<phase, recipe, upstream, runs, adv, counters>>

(* can_retry of the status the operator acts on.                           *)
CanRetry(k) ==
    /\ rows[k].cls \in {"terminal_failure", "cancelled", "blocked_manual"}
    /\ rows[k].code # "final" /\ rows[k].doc = recipe /\ Eligible(recipe)
    /\ rows[k].gen + 1 < MaxGenerations

(* The newest attempt, by its first generation.                            *)
NewestAttempt(k) ==
    \A j \in DOMAIN rows : rows[j].gen = 0 =>
        \E i \in RowsOf(Key(rows[k])) : rows[i].gen = 0 /\ j <= i

(* retry() and explicit_retry_current_recipe(): one more generation, for a *)
(* status that is still current; a repeated request finds the generation   *)
(* it asked for.                                                           *)
Retry(k) ==
    /\ Open /\ k \in DOMAIN rows /\ Len(rows) < MaxRows
    /\ CanRetry(k) /\ NewestAttempt(k)
    /\ \A j \in RowsOf(Key(rows[k])) : j <= k
    /\ rows' = Append(rows, Generation(rows[k].id, rows[k].doc,
                                       rows[k].gen + 1))
    /\ UNCHANGED <<world, runs, adv, counters>>

(* A save of the Recipe.                                                   *)
EditRecipe(d) ==
    /\ Open /\ Spare /\ edits < MaxEdits /\ d # recipe
    /\ recipe' = d /\ edits' = edits + 1
    /\ UNCHANGED <<phase, upstream, probe, rows, runs, adv,
                   faults, crashes, moves, manual>>

UpstreamMoves(i) ==
    /\ moves < MaxMoves /\ i # upstream
    /\ upstream' = i /\ moves' = moves + 1
    /\ UNCHANGED <<phase, recipe, probe, rows, runs, adv,
                   faults, crashes, edits, manual>>

(* A Run that an operator starts for what upstream has now.  Only the scan *)
(* of _admit_run() looks at it, and a manual Run that has failed is to that *)
(* scan as one never started: it is left running until a restart ends it.  *)
ManualRun ==
    /\ Open /\ Spare /\ manual < MaxManual
    /\ runs' = Append(runs, [row |-> 0, id |-> upstream, doc |-> recipe,
                             mode |-> "build", status |-> "running",
                             vals |-> <<>>, pubs |-> <<>>])
    /\ manual' = manual + 1
    /\ UNCHANGED <<world, rows, adv, faults, crashes, edits, moves>>

(***************************************************************************)
(* The managers, and the process                                           *)
(***************************************************************************)
RunProceeds(n) ==
    /\ Alive /\ n \in DOMAIN runs /\ runs[n].row # 0
    /\ runs[n].status \in {"queued", "running"}
    /\ \/ /\ runs[n].status = "queued" /\ SetRun(n, "running")
          /\ UNCHANGED faults
       \/ /\ runs[n].status = "running" /\ SetRun(n, "success")
          /\ UNCHANGED faults
       \/ /\ runs[n].status = "running" /\ SetRun(n, "failed")
          /\ Fault("failed")
       \/ SetRun(n, "cancelled") /\ Fault("cancelled")
    /\ UNCHANGED <<world, rows, adv, others>>

ValidationEnds(n, v) ==
    /\ Alive /\ n \in DOMAIN runs /\ v \in DOMAIN runs[n].vals
    /\ runs[n].vals[v].status = "active"
    /\ \E outcome \in {"success", "transient", "failed", "cancelled"} :
          /\ IF outcome = "success" THEN UNCHANGED faults ELSE Fault(outcome)
          /\ runs' = [runs EXCEPT ![n].vals[v].status = outcome]
    /\ UNCHANGED <<world, rows, adv, others>>

(* Shutdown closes the mutation gate; the process ends when no thread is   *)
(* in the middle of an advance.                                            *)
Close ==
    /\ phase = "up" /\ Spare /\ crashes < MaxCrashes
    /\ phase' = "closing"
    /\ UNCHANGED <<recipe, upstream, probe, rows, runs, adv, counters>>

Exit ==
    /\ phase = "closing" /\ \A t \in Threads : adv[t] = Idle
    /\ phase' = "down" /\ probe' = NoProbe /\ crashes' = crashes + 1
    /\ UNCHANGED <<recipe, upstream, rows, runs, adv,
                   faults, edits, moves, manual>>

Crash ==
    /\ Alive /\ Spare /\ crashes < MaxCrashes
    /\ phase' = "down" /\ probe' = NoProbe /\ crashes' = crashes + 1
    /\ adv' = [t \in Threads |-> Idle]
    /\ UNCHANGED <<recipe, upstream, rows, runs,
                   faults, edits, moves, manual>>

(* recover_startup() ends every Run that had not ended.  A directory       *)
(* without run.json closes the admission.  An interrupted Validation is    *)
(* resumed from the queue, or fails.                                       *)
Restart ==
    /\ phase = "down"
    /\ phase' = IF \E n \in DOMAIN runs : runs[n].status = "partial"
                THEN "blocked" ELSE "up"
    /\ \E outcome \in {"active", "transient", "failed"} :
          runs' = [n \in DOMAIN runs |->
                     [runs[n] EXCEPT
                        !.status = IF @ \in {"pending", "queued", "running"}
                                   THEN "failed" ELSE @,
                        !.vals = [v \in DOMAIN @ |->
                           IF @[v].status = "active"
                           THEN [@[v] EXCEPT !.status = outcome] ELSE @[v]]]]
    /\ UNCHANGED <<recipe, upstream, probe, rows, adv, counters>>

Init ==
    /\ phase = "up" /\ recipe \in Initially /\ upstream \in Identities
    /\ probe = NoProbe /\ rows = <<>> /\ runs = <<>>
    /\ adv = [t \in Threads |-> Idle]
    /\ faults = 0 /\ crashes = 0 /\ edits = 0 /\ moves = 0 /\ manual = 0

Next ==
    \/ \E t \in Threads : Step(t) \/ \E k \in DOMAIN rows : Advance(t, k)
    \/ Detect \/ Claim
    \/ \E k \in DOMAIN rows : Retry(k)
    \/ \E d \in Documents : EditRecipe(d)
    \/ \E i \in Identities : UpstreamMoves(i)
    \/ ManualRun
    \/ \E n \in DOMAIN runs :
          RunProceeds(n) \/ \E v \in DOMAIN runs[n].vals : ValidationEnds(n, v)
    \/ Close \/ Exit \/ Crash \/ Restart

Spec == Init /\ [][Next]_vars

(* A pass of the scheduler visits every row, a thread goes on with what it *)
(* began, and the managers end what they admitted; nothing else must happen.*)
FairSpec ==
    /\ Spec
    /\ \A k \in 1..MaxRows : WF_vars(\E t \in Threads : Advance(t, k))
    /\ \A t \in Threads : WF_vars(Step(t))
    /\ WF_vars(\E n \in DOMAIN runs :
                 \/ RunProceeds(n)
                 \/ \E v \in DOMAIN runs[n].vals : ValidationEnds(n, v))

(***************************************************************************)
(* Properties                                                              *)
(***************************************************************************)
States == {"claimed", "run_preallocated", "admitted", "retry_delayed"} \cup Stopped
Stages == {"detection", "run_admission", "run", "validation_admission",
           "validation", "publication", "terminal"}
Verdicts == {"success", "cancelled", "terminal_failure", "disabled",
             "blocked_manual"}
Codes == {"none", "final", "owned", "baseline"}

GenerationType ==
    [id : Identities, doc : Documents, gen : Nat, state : States,
     stage : Stages, cls : Verdicts \cup {"none", "transient_retryable"},
     code : Codes, pre : Nat, run : Nat, val : Nat, pub : Nat,
     vretry : Nat, pretry : Nat, notified : BOOLEAN]
AttemptType ==
    [row : Nat, status : {"active", "success", "transient", "failed", "cancelled"}]
RunType ==
    [row : Nat, id : Identities, doc : Documents, mode : {"dry_run", "build"},
     status : {"absent", "partial"} \cup LiveRun \cup TerminalRun,
     vals : Seq(AttemptType), pubs : Seq({"success", "transient", "blocked"})]
Pcs == {"idle", "authorize", "reserve", "recheck", "create", "commit", "link",
        "submit", "linked", "run", "vadmit", "vcall", "vlink", "validation",
        "publish", "pubcall", "publink", "finish", "notify"}
AdvanceType ==
    [row : Nat, pc : Pcs, existing : BOOLEAN, cls : Verdicts \cup {"none"},
     code : Codes, out : Nat]

TypeOK ==
    /\ phase \in {"up", "closing", "down", "blocked"}
    /\ recipe \in Documents /\ upstream \in Identities
    /\ probe \in [doc : Documents, id : Identities] \cup {NoProbe}
    /\ rows \in Seq(GenerationType) /\ runs \in Seq(RunType)
    /\ adv \in [Threads -> AdvanceType]

(* What a row names exists.                                                *)
LinksExist ==
    \A k \in DOMAIN rows :
        /\ rows[k].pre \in 0..Len(runs) /\ rows[k].run \in 0..Len(runs)
        /\ rows[k].run # 0 =>
              /\ rows[k].val \in 0..Len(runs[rows[k].run].vals)
              /\ rows[k].pub \in 0..Len(runs[rows[k].run].pubs)

(* Every document the orchestrator builds is one that _save_unlocked()     *)
(* accepts, and names Runs and attempts that exist: no step of a claim is  *)
(* ever refused by the ledger, which would leave the claim where it is and *)
(* repeat the step at every pass.                                          *)
LedgerAccepts == TypeOK /\ LinksExist /\ ValidLedger

(* Automation builds an upstream identity once: two Runs of its own for    *)
(* one identity are never both under way or successful, whatever crashes,  *)
(* retries and late callbacks came between reserving and linking them.     *)
(* Only a Build may follow a Test, which the scan of _admit_run() allows.  *)
OneRunPerIdentity ==
    \A m, n \in DOMAIN runs :
        /\ m < n
        /\ runs[m].row # 0 /\ runs[n].row # 0 /\ runs[m].id = runs[n].id
        /\ runs[m].status \in LiveRun /\ runs[n].status \in LiveRun
        => runs[m].mode = "dry_run" /\ runs[n].mode = "build"

(* A stopped generation keeps its classification and its links: finish()   *)
(* does not look at the state of the row, so only the locks and the order  *)
(* of the generations keep a late continuation from overwriting it.        *)
VerdictStands ==
    [][\A k \in DOMAIN rows :
          rows[k].state \in Stopped =>
             rows'[k] = rows[k] \/ rows'[k] = MarkNotified(rows[k])]_vars

(* The Run of a row exists, was made for that row, and was built from the  *)
(* very document that was claimed: an edit between the claim and the Run,  *)
(* or a crash between the Run and its link, never joins what does not      *)
(* belong together.                                                        *)
RunIsBound ==
    \A k \in DOMAIN rows :
        rows[k].run # 0 =>
            /\ runs[rows[k].run].row = k
            /\ runs[rows[k].run].doc = rows[k].doc
            /\ runs[rows[k].run].status \notin {"absent", "partial"}

(* Every claim reaches a verdict, unless the process keeps going down or   *)
(* stays closed: again and again no claim of the ledger is waiting.        *)
(* Neither a lost callback nor a delayed retry nor an older claim of the   *)
(* same Recipe leaves one waiting for ever.                                *)
ClaimEnds ==
    <>[](phase = "up") =>
        []<>(\A k \in DOMAIN rows : rows[k].state \in Stopped)

(* "`build_validate` continues through Validation; and `full` continues    *)
(* through Publication": a generation is successful when its policy has    *)
(* been carried out for its identity.                                      *)
SuccessIsCarriedOut ==
    \A k \in DOMAIN rows :
        /\ rows[k].cls = "success" /\ rows[k].code # "baseline"
        /\ PolicyOf[rows[k].doc] \in {"build_validate", "full"}
        => \E n \in DOMAIN runs :
              /\ runs[n].id = rows[k].id
              /\ \E v \in DOMAIN runs[n].vals :
                    runs[n].vals[v].status = "success"
=============================================================================
