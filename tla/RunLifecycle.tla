---------------------------- MODULE RunLifecycle ----------------------------
(***************************************************************************)
(* What the durable run.json of every Build Run promises to its readers    *)
(* (HTTP projections, startup recovery, cleanup, automation), whichever    *)
(* thread writes it: the statuses a Run goes through, that a terminal      *)
(* status is final, and that a Run whose cancellation was accepted never   *)
(* becomes a result.  ExecutionManager is shown to implement it.           *)
(***************************************************************************)
CONSTANT Runs

VARIABLES status,    \* status[r]: the durable state of r's workspace
          accepted   \* Runs a caller was told are being cancelled

vars == <<status, accepted>>

(* "absent": no workspace; "partial": a workspace with no run.json yet.    *)
Results == {"prepared", "success"}
Terminal == Results \cup {"failed", "cancelled"}
Live == {"pending", "queued", "running", "cancelling"}
Statuses == {"absent", "partial"} \cup Live \cup Terminal

TypeOK ==
    /\ status \in [Runs -> Statuses]
    /\ accepted \subseteq Runs

Init ==
    /\ status = [r \in Runs |-> "absent"]
    /\ accepted = {}

Becomes(r, s) == status' = [status EXCEPT ![r] = s]

(* BuildStore.create, whole or interrupted.                                *)
Create(r) ==
    /\ status[r] = "absent"
    /\ Becomes(r, "partial") \/ Becomes(r, "pending")
    /\ UNCHANGED accepted

(* An interrupted creation is removed only while it has no run.json.       *)
Discard(r) ==
    /\ status[r] = "partial"
    /\ Becomes(r, "absent")
    /\ UNCHANGED accepted

Queue(r) ==
    /\ status[r] = "pending"
    /\ Becomes(r, "queued")
    /\ UNCHANGED accepted

Begin(r) ==
    /\ status[r] = "queued"
    /\ Becomes(r, "running")
    /\ UNCHANGED accepted

(* A request is accepted unless the Run already produced a result.         *)
AcceptCancel(r) ==
    /\ status[r] \notin Results
    /\ accepted' = accepted \cup {r}
    /\ UNCHANGED status

ObserveCancel(r) ==
    /\ status[r] = "running"
    /\ r \in accepted
    /\ Becomes(r, "cancelling")
    /\ UNCHANGED accepted

(* Work still in the queue may be cancelled by its owner in one step.      *)
CancelQueued(r) ==
    /\ status[r] = "queued"
    /\ Becomes(r, "cancelled")
    /\ accepted' \in {accepted, accepted \cup {r}}

CancelRunning(r) ==
    /\ status[r] \in {"running", "cancelling"}
    /\ r \in accepted
    /\ Becomes(r, "cancelled")
    /\ UNCHANGED accepted

Fail(r) ==
    /\ status[r] \in Live
    /\ Becomes(r, "failed")
    /\ UNCHANGED accepted

Succeed(r) ==
    /\ status[r] = "running"
    /\ r \notin accepted
    /\ Becomes(r, "prepared") \/ Becomes(r, "success")
    /\ UNCHANGED accepted

Next ==
    \E r \in Runs :
        \/ Create(r) \/ Discard(r) \/ Queue(r) \/ Begin(r) \/ AcceptCancel(r)
        \/ ObserveCancel(r) \/ CancelQueued(r) \/ CancelRunning(r)
        \/ Fail(r) \/ Succeed(r)

Spec == Init /\ [][Next]_vars

(* Once an outcome is durable no later write of any thread changes it      *)
(* (BuildStore.save is only reached after a status check under the lock).  *)
TerminalIsFinal ==
    [][\A r \in Runs : status[r] \in Terminal => status'[r] = status[r]]_vars

(* A caller told "cancelling" or "cancelled" never finds a result later    *)
(* (CancellationControl settles cancellation against terminalization).     *)
CancelledIsNoResult == \A r \in accepted : status[r] \notin Results
=============================================================================
