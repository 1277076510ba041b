---------------------------- MODULE JobLifecycle ----------------------------
(***************************************************************************)
(* What the queue promises about one job, whatever backend keeps it and     *)
(* whatever workers do: which state may follow which, when an attempt is    *)
(* charged, when it is given back, and what ends a job.  Both backends and  *)
(* the executor implement this module.                                     *)
(***************************************************************************)
EXTENDS KeziahTypes

CONSTANT Jobs
VARIABLE life   \* life[j]: the state, attempts and cancel flag of job j

Same(a, b, fields) == \A f \in fields : a[f] = b[f]
Costs   == {"attempt_count", "max_attempts"}
Keeps(a, b) == Same(a, b, Costs \cup {"cancel_requested"})

Created(a, b)   == /\ a.state = "absent" /\ b.state \in {"queued", "staged"}
                   /\ b.attempt_count = 0 /\ b.max_attempts >= 1 /\ ~b.cancel_requested
Removed(a, b)   == /\ a.state \in TerminalStates \cup {"staged"} /\ b.state = "deleted"
Activated(a, b) == a.state = "staged" /\ b.state = "queued" /\ Keeps(a, b)

\* A claim charges one attempt, within the budget, and never takes a job
\* whose cancellation was requested.
Claimed(a, b)   == /\ a.state = "queued" /\ b.state = "leased"
                   /\ ~a.cancel_requested /\ ~b.cancel_requested
                   /\ b.attempt_count = a.attempt_count + 1
                   /\ b.attempt_count <= a.max_attempts
                   /\ b.max_attempts = a.max_attempts
Started(a, b)   == a.state = "leased" /\ b.state = "running" /\ Keeps(a, b)
Succeeded(a, b) == a.state = "running" /\ b.state = "succeeded" /\ Keeps(a, b)
Failed(a, b)    == /\ a.state \in {"running", "queued", "retry_wait", "leased"}
                   /\ b.state \in {"failed", "dead_letter"} /\ Keeps(a, b)
\* A retry is scheduled only while attempts are left.
Retried(a, b)   == /\ a.state = "running" /\ b.state = "retry_wait" /\ Keeps(a, b)
                   /\ a.attempt_count < a.max_attempts
Promoted(a, b)  == a.state = "retry_wait" /\ b.state = "queued" /\ Keeps(a, b)
\* A voluntary return gives the attempt back; an expired lease does not.
Released(a, b)  == /\ a.state \in HeldStates /\ b.state = "queued"
                   /\ a.attempt_count = b.attempt_count + 1
                   /\ Same(a, b, {"max_attempts", "cancel_requested"})
Expired(a, b)   == /\ a.state \in HeldStates /\ b.state = "queued" /\ Keeps(a, b)
                   /\ a.attempt_count < a.max_attempts /\ ~a.cancel_requested
Cancelled(a, b) == /\ a.state \in IncompleteStates /\ b.state = "cancelled"
                   /\ Same(a, b, Costs) /\ b.cancel_requested
Flagged(a, b)   == a.state = "running" /\ b.state = "running" /\ Same(a, b, Costs) /\ b.cancel_requested
Requeued(a, b)  == /\ a.state \in {"failed", "dead_letter"} /\ b.state = "queued"
                   /\ b.attempt_count = 0 /\ ~b.cancel_requested /\ Same(a, b, {"max_attempts"})

Arrow(a, b) == \/ Created(a, b)   \/ Removed(a, b)  \/ Activated(a, b) \/ Claimed(a, b)
               \/ Started(a, b)   \/ Succeeded(a, b) \/ Failed(a, b)   \/ Retried(a, b)
               \/ Promoted(a, b)  \/ Released(a, b) \/ Expired(a, b)   \/ Cancelled(a, b)
               \/ Flagged(a, b)   \/ Requeued(a, b)

Init == \A j \in Jobs : life[j].state = "absent"

\* Jobs move independently; a batch operation or a sweep moves several at once.
Next == \A j \in Jobs : life[j] = life'[j] \/ Arrow(life[j], life'[j])

Spec == Init /\ [][Next]_life
=============================================================================
