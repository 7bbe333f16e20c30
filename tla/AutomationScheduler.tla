------------------------ MODULE AutomationScheduler ------------------------
(***************************************************************************)
(* The one thread that checks upstream (automation_scheduler.py), the pool  *)
(* of workers it submits Recipes to, and the single flight that a worker    *)
(* shares with an operator's refresh (upstream_observation.py).  Requests   *)
(* are coalesced with the pass under way; a pass that is asked for more      *)
(* than it can still serve is followed by one other.                        *)
(*                                                                         *)
(* What a claim and the orchestrator do with an answer is Automation.tla.   *)
(* A Recipe document is the number of its edits; a retry row is the         *)
(* document it delays.  Deadlines, the periodic one and those of retry      *)
(* rows, may pass at any time.                                              *)
(***************************************************************************)
EXTENDS Integers, FiniteSets

CONSTANTS Recipes,
          Concurrency,      \* workers of the pool
          MaxEvents         \* bound: requests, edits, refreshes, deletions,
                            \* failed answers and failed passes together

ASSUME SchedulerAssumption == Concurrency \in Nat \ {0} /\ MaxEvents \in Nat

VARIABLES
    \* AutomationScheduler, guarded by its Condition
    wake, halted, passOn, ready, accept, passRecipes, inflight,
    observationOnly, requested, observations,
    \* its thread
    thread,         \* where the thread is
    followup,       \* this pass is the one that follows another
    listed,         \* Recipes that _eligible() returned and are not submitted
    mine,           \* futures of this pass
    \* the workers, and the operators who refresh: how far each is with a
    \* Recipe, what kind of check it is, for which document, how it ended
    worker, operator,
    \* files
    inventory, document, retryRow,
    saved,          \* saves of a Recipe that have not asked for a check yet
    \* history
    unanswered,     \* Recipes asked for and not handed over since
    events

controlVars == <<wake, halted, passOn, ready, accept, passRecipes, inflight,
                 observationOnly, requested, observations>>
threadVars == <<thread, followup, listed, mine>>
fileVars == <<inventory, document, retryRow, saved>>
schedulerVars == <<controlVars, threadVars, worker, operator, fileVars,
                   unanswered, events>>

(* One more of the events that MaxEvents bounds.                           *)
Event == events < MaxEvents /\ events' = events + 1

NoDocument == 0 - 1
Resting == [at |-> "idle", advisory |-> FALSE, key |-> NoDocument,
            answer |-> "none"]

SchedulerInit ==
    /\ wake = TRUE /\ halted = FALSE
    /\ passOn = FALSE /\ ready = FALSE /\ accept = FALSE
    /\ passRecipes = {} /\ inflight = {} /\ observationOnly = {}
    /\ requested = {} /\ observations = {}
    /\ thread = "wait" /\ followup = FALSE /\ listed = {} /\ mine = {}
    /\ worker = [r \in Recipes |-> Resting]
    /\ operator = [r \in Recipes |-> Resting]
    /\ inventory = Recipes
    /\ document = [r \in Recipes |-> 0]
    /\ retryRow = [r \in Recipes |-> NoDocument]
    /\ saved = [r \in Recipes |-> 0]
    /\ unanswered = {} /\ events = 0

-----------------------------------------------------------------------------
(* Requests                                                                *)

Accepting == ~halted /\ thread # "gone"

(* The pass under way has its inventory and has not handed r over yet.     *)
PassWillServe(r) == passOn /\ ready /\ r \in passRecipes

(* request_recipe(): joined with what will serve it, or queued; refused    *)
(* during a follow-up.  An advisory check in flight does not serve it.     *)
RequestRecipe(r) ==
    LET advisory == r \in inflight /\ r \in observationOnly
        existing == /\ ~advisory
                    /\ r \in inflight \/ r \in requested \/ PassWillServe(r)
        refused == ~existing /\ passOn /\ ~accept
    IN  /\ Accepting /\ Event
        /\ requested' = IF existing \/ refused THEN requested
                        ELSE requested \cup {r}
        /\ wake' = (wake \/ (~existing /\ ~passOn))
        /\ observations' = IF refused THEN observations ELSE observations \ {r}
        /\ observationOnly' = IF refused THEN observationOnly
                              ELSE observationOnly \ {r}
        /\ unanswered' = IF refused THEN unanswered ELSE unanswered \cup {r}
        /\ UNCHANGED <<halted, passOn, ready, accept, passRecipes, inflight,
                       threadVars, worker, operator, fileVars>>

(* request_observation(): never refused for a follow-up.                   *)
Observation(r) ==
    LET existing == r \in inflight \/ r \in requested \/ PassWillServe(r)
    IN  /\ requested' = requested \cup (IF existing THEN {} ELSE {r})
        /\ observations' = observations \cup (IF existing THEN {} ELSE {r})
        /\ wake' = (wake \/ (~existing /\ ~passOn))
        /\ unanswered' = unanswered \cup {r}

(* A save of a Recipe.                                                     *)
EditRecipe(r) ==
    /\ r \in inventory /\ Event
    /\ document' = [document EXCEPT ![r] = @ + 1]
    /\ saved' = [saved EXCEPT ![r] = @ + 1]
    /\ UNCHANGED <<controlVars, threadVars, worker, operator, inventory,
                   retryRow, unanswered>>

(* Its author then asks for an observation, in a step of its own: the      *)
(* Recipe may be checked, or be gone, by then.                             *)
AnnounceEdit(r) ==
    /\ saved[r] > 0
    /\ saved' = [saved EXCEPT ![r] = @ - 1]
    /\ IF Accepting THEN Observation(r)
       ELSE UNCHANGED <<requested, observations, wake, unanswered>>
    /\ UNCHANGED <<halted, passOn, ready, accept, passRecipes, inflight,
                   observationOnly, threadVars, worker, operator,
                   inventory, document, retryRow, events>>

RemoveRecipe(r) ==
    /\ r \in inventory /\ Event
    /\ inventory' = inventory \ {r}
    /\ UNCHANGED <<controlVars, threadVars, worker, operator, document,
                   retryRow, saved, unanswered>>

(* request() and request_orchestration(): a pass, for no Recipe in         *)
(* particular.                                                             *)
RequestPass ==
    /\ Accepting /\ ~(passOn /\ ~accept) /\ Event
    /\ wake' = TRUE
    /\ UNCHANGED <<halted, passOn, ready, accept, passRecipes, inflight,
                   observationOnly, requested, observations, threadVars,
                   worker, operator, fileVars, unanswered>>

(* stop(): what is queued is dropped, what is being fetched goes on.       *)
Halt ==
    /\ ~halted
    /\ halted' = TRUE /\ wake' = FALSE
    /\ requested' = {} /\ observations' = {} /\ unanswered' = {}
    /\ LET cancelled == {r \in Recipes : worker[r].at = "queued"}
       IN  /\ worker' = [r \in Recipes |-> IF r \in cancelled THEN Resting
                                           ELSE worker[r]]
           /\ inflight' = inflight \ cancelled
           /\ mine' = mine \ cancelled
    /\ UNCHANGED <<passOn, ready, accept, passRecipes, observationOnly,
                   thread, followup, listed, operator, fileVars, events>>

-----------------------------------------------------------------------------
(* run_pass() and _run(): the thread                                       *)

Untouched == <<worker, operator, fileVars, events>>

Gone ==
    /\ halted /\ thread \in {"wait", "decide"}
    /\ thread' = "gone"
    /\ UNCHANGED <<controlVars, followup, listed, mine, Untouched,
                   unanswered>>

(* A wake-up or a deadline.                                                *)
BeginPass ==
    /\ thread = "wait" /\ ~halted
    /\ wake' = FALSE
    /\ passOn' = TRUE /\ ready' = FALSE /\ accept' = ~followup
    /\ passRecipes' = {} /\ observationOnly' = {}
    /\ thread' = "listing"
    /\ UNCHANGED <<halted, inflight, requested, observations, followup,
                   listed, mine, Untouched, unanswered>>

(* _eligible(): outside the Condition; a Recipe whose retry is delayed,    *)
(* and whose deadline has not passed, is only observed.                    *)
ListRecipes ==
    /\ thread = "listing"
    /\ listed' = inventory
    /\ \E delayed \in SUBSET {r \in inventory : retryRow[r] = document[r]} :
          observationOnly' = observationOnly \cup delayed
    /\ thread' = "listed"
    /\ UNCHANGED <<wake, halted, passOn, ready, accept, passRecipes, inflight,
                   requested, observations, followup, mine, Untouched,
                   unanswered>>

(* The requests this pass serves; a follow-up forgets the others too.      *)
TakeInventory ==
    /\ thread = "listed"
    /\ passRecipes' = listed /\ ready' = TRUE
    /\ observationOnly' = observationOnly \cup (observations \cap listed)
    /\ LET taken == IF accept THEN requested \cap listed ELSE requested
       IN  /\ requested' = requested \ taken
           /\ observations' = observations \ taken
           /\ unanswered' = unanswered \ (taken \ listed)
    /\ thread' = "submit"
    /\ UNCHANGED <<wake, halted, passOn, accept, inflight, followup, listed,
                   mine, Untouched>>

(* A Recipe that a worker still has from an earlier pass is passed over.   *)
Submit(r) ==
    /\ thread = "submit" /\ r \in listed
    /\ listed' = listed \ {r}
    /\ IF halted \/ r \in inflight
       THEN UNCHANGED <<inflight, worker, mine>>
       ELSE /\ inflight' = inflight \cup {r}
            /\ worker' = [worker EXCEPT ![r] = [Resting EXCEPT !.at = "queued"]]
            /\ mine' = mine \cup {r}
    /\ thread' = IF listed = {r} THEN "collect" ELSE thread
    /\ UNCHANGED <<wake, halted, passOn, ready, accept, passRecipes,
                   observationOnly, requested, observations, followup,
                   operator, fileVars, unanswered, events>>

(* The retry store after an answer: a detected identity clears the row, a  *)
(* failure records one for the document that was checked, an advisory      *)
(* check leaves it.                                                        *)
RetryRowAfter(r, answered) ==
    CASE answered.advisory -> retryRow[r]
      [] ~answered.advisory /\ answered.answer = "observed" -> NoDocument
      [] OTHER -> answered.key

(* _record_outcome() and on_detection(): the answer is handed over.        *)
Collect(r) ==
    /\ thread = "collect" /\ ~halted
    /\ r \in mine /\ worker[r].at = "done"
    /\ mine' = mine \ {r} /\ passRecipes' = passRecipes \ {r}
    /\ worker' = [worker EXCEPT ![r] = Resting]
    /\ retryRow' = [retryRow EXCEPT ![r] = RetryRowAfter(r, worker[r])]
    /\ unanswered' = unanswered \ {r}
    /\ UNCHANGED <<wake, halted, passOn, ready, accept, inflight,
                   observationOnly, requested, observations, thread, followup,
                   listed, operator, inventory, document, saved,
                   events>>

(* The finally of run_pass(); workers that were not waited for go on, and  *)
(* nobody takes their answer.                                              *)
FinishPass(left) ==
    /\ passOn' = FALSE /\ ready' = FALSE
    /\ passRecipes' = {} /\ observationOnly' = {}
    /\ listed' = {} /\ mine' = {}
    /\ worker' = [r \in Recipes |->
          IF r \in left /\ worker[r].at = "done" THEN Resting ELSE worker[r]]
    /\ thread' = "decide"
    /\ UNCHANGED <<wake, halted, accept, inflight, requested, observations,
                   followup, operator, fileVars, unanswered>>

PassEnds ==
    /\ \/ thread = "collect" /\ (mine = {} \/ halted)
       \/ thread = "submit" /\ listed = {}
    /\ FinishPass(mine) /\ UNCHANGED events

(* An exception that run_pass() logs.                                      *)
PassFails ==
    /\ thread \in {"listing", "listed", "submit", "collect"}
    /\ Event /\ FinishPass(mine)

(* One pass may follow a pass; then the requests wait for the next wake-up.*)
Decide ==
    /\ thread = "decide" /\ ~halted
    /\ LET more == ~followup /\ (wake \/ requested # {})
       IN  followup' = more /\ wake' = more
    /\ accept' = FALSE
    /\ thread' = "wait"
    /\ UNCHANGED <<halted, passOn, ready, passRecipes, inflight,
                   observationOnly, requested, observations, listed, mine,
                   Untouched, unanswered>>

-----------------------------------------------------------------------------
(* observe(): a leader asks upstream, whoever comes meanwhile waits for it *)

Leaders(r) == {p \in {worker[r], operator[r]} : p.at \in {"lead", "resolved"}}

(* The place of one who asks for the document the Recipe has now; a        *)
(* missing Recipe is no automation failure.                                *)
Enter(r, advisory) ==
    [at |-> IF r \notin inventory THEN "answered"
            ELSE IF \E p \in Leaders(r) : p.key = document[r] THEN "follow"
            ELSE "lead",
     advisory |-> advisory \/ r \notin inventory, key |-> document[r],
     answer |-> IF r \in inventory THEN "none" ELSE "failed"]

Busy == {r \in Recipes : worker[r].at \notin {"idle", "queued", "done"}}

(* _worker(): the kind of the check is read when the worker starts.        *)
StartWorker(r) ==
    /\ worker[r].at = "queued" /\ Cardinality(Busy) < Concurrency
    /\ worker' = [worker EXCEPT ![r] = Enter(r, r \in observationOnly)]
    /\ UNCHANGED <<controlVars, threadVars, operator, fileVars, unanswered,
                   events>>

(* refresh_upstream_observation().                                         *)
StartRefresh(r) ==
    /\ operator[r].at = "idle" /\ r \in inventory /\ Event
    /\ operator' = [operator EXCEPT ![r] = Enter(r, TRUE)]
    /\ UNCHANGED <<controlVars, threadVars, worker, fileVars, unanswered>>

(* Upstream answers.                                                       *)
Resolve(r) ==
    \E answer \in {"observed", "failed"} :
        /\ IF answer = "failed" THEN Event ELSE UNCHANGED events
        /\ \/ /\ worker[r].at = "lead"
              /\ worker' = [worker EXCEPT ![r].at = "resolved",
                                          ![r].answer = answer]
              /\ UNCHANGED operator
           \/ /\ operator[r].at = "lead"
              /\ operator' = [operator EXCEPT ![r].at = "resolved",
                                              ![r].answer = answer]
              /\ UNCHANGED worker
        /\ UNCHANGED <<controlVars, threadVars, fileVars, unanswered>>

(* What the end of a flight makes of one who leads or follows it.          *)
Land(p, key, answer) ==
    IF p.at \in {"resolved", "follow"} /\ p.key = key
    THEN [p EXCEPT !.at = "answered", !.answer = answer] ELSE p

(* The answer is stored under the Recipe's lease if the document is still  *)
(* the one that was asked for; the flight ends either way.                 *)
Record(r) ==
    \E p \in Leaders(r) :
        /\ p.at = "resolved"
        /\ LET answer == IF r \in inventory /\ p.key = document[r]
                         THEN p.answer ELSE "failed"
           IN  /\ worker' = [worker EXCEPT ![r] = Land(@, p.key, answer)]
               /\ operator' = [operator EXCEPT ![r] = Land(@, p.key, answer)]
        /\ UNCHANGED <<controlVars, threadVars, fileVars, unanswered, events>>

(* Faulty variant of the action below: a failed check keeps its place.     *)
KeepsPlace(r) ==
    /\ worker[r].at = "answered"
    /\ inflight' = IF worker[r].answer = "failed" THEN inflight
                   ELSE inflight \ {r}
    /\ worker' = [worker EXCEPT ![r] =
                    IF r \in mine THEN [@ EXCEPT !.at = "done"] ELSE Resting]
    /\ UNCHANGED <<wake, halted, passOn, ready, accept, passRecipes,
                   observationOnly, requested, observations, threadVars,
                   operator, fileVars, unanswered, events>>

(* The finally of _worker().                                               *)
FinishWorker(r) ==
    /\ worker[r].at = "answered"
    /\ inflight' = inflight \ {r}
    /\ worker' = [worker EXCEPT ![r] =
                    IF r \in mine THEN [@ EXCEPT !.at = "done"] ELSE Resting]
    /\ UNCHANGED <<wake, halted, passOn, ready, accept, passRecipes,
                   observationOnly, requested, observations, threadVars,
                   operator, fileVars, unanswered, events>>

FinishRefresh(r) ==
    /\ operator[r].at = "answered"
    /\ operator' = [operator EXCEPT ![r] = Resting]
    /\ UNCHANGED <<controlVars, threadVars, worker, fileVars, unanswered,
                   events>>

ThreadStep ==
    \/ Gone \/ BeginPass \/ ListRecipes \/ TakeInventory
    \/ \E r \in Recipes : Submit(r) \/ Collect(r)
    \/ PassEnds \/ Decide

WorkerStep(r) ==
    StartWorker(r) \/ Resolve(r) \/ Record(r) \/ FinishWorker(r)
        \/ FinishRefresh(r)

SchedulerNext ==
    \/ ThreadStep \/ PassFails \/ RequestPass \/ Halt
    \/ \E r \in Recipes :
          \/ WorkerStep(r) \/ RequestRecipe(r) \/ EditRecipe(r)
          \/ AnnounceEdit(r) \/ RemoveRecipe(r) \/ StartRefresh(r)

-----------------------------------------------------------------------------
(* Whoever asked for a Recipe gets an answer that was handed over later,   *)
(* unless the scheduler stops or the Recipe is deleted: no pass that fails,*)
(* no flight shared with an operator and no request in the gap between two *)
(* passes leaves it unanswered for ever.                                   *)
RequestIsAnswered ==
    \A r \in Recipes :
        r \in unanswered ~> r \notin unanswered \/ r \notin inventory
=============================================================================
