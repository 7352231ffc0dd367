---------------------------- MODULE JobLifecycle ----------------------------
(***************************************************************************)
(* What the persistent queue promises about its jobs, without instances,   *)
(* contexts, versions or time.  A job is enqueued as Pending, started at   *)
(* most MaxAttempts times, and settled once: Completed by the execution    *)
(* that ran it, Failed when no attempt is left, or Cancelled while it is   *)
(* Pending.  One step may move several jobs, as a recovery does, each of   *)
(* them legally.                                                           *)
(***************************************************************************)
EXTENDS Naturals

CONSTANTS Job, MaxAttempts

VARIABLES
    status,    \* status[j]: a JobStatus, or "None" before j is enqueued
    attempts   \* attempts[j]: how often j was started

State == {"None", "Pending", "Running", "Completed", "Failed", "Cancelled"}

\* Job j moves from state s to state t, leaving its attempts alone.
Moves(j, s, t) ==
    status[j] = s /\ status'[j] = t /\ attempts'[j] = attempts[j]

Stays(j) == status'[j] = status[j] /\ attempts'[j] = attempts[j]
Enqueue(j) == Moves(j, "None", "Pending")
Cancel(j) == Moves(j, "Pending", "Cancelled")
Complete(j) == Moves(j, "Running", "Completed")
Retry(j) == Moves(j, "Running", "Pending") /\ attempts[j] < MaxAttempts
Fail(j) == Moves(j, "Running", "Failed") /\ attempts[j] = MaxAttempts

Start(j) ==
    /\ status[j] = "Pending" /\ status'[j] = "Running"
    /\ attempts[j] < MaxAttempts /\ attempts'[j] = attempts[j] + 1

Init == status = [j \in Job |-> "None"] /\ attempts = [j \in Job |-> 0]

Next ==
    /\ status' \in [Job -> State] /\ attempts' \in [Job -> Nat]
    /\ \A j \in Job : \/ Stays(j) \/ Enqueue(j) \/ Start(j) \/ Complete(j)
                      \/ Retry(j) \/ Fail(j) \/ Cancel(j)

Spec == Init /\ [][Next]_<<status, attempts>>
=============================================================================
