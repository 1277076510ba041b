----------------------------- MODULE QueueRows -----------------------------
(***************************************************************************)
(* One row of the SQLite table "jobs" and what each statement of            *)
(* keziah/queue/sqlite.py does to it.  Every operator is a function from    *)
(* the row before to the row after: its IF is the WHERE clause, its EXCEPT  *)
(* the SET clause, so a statement that matches no row is the identity.      *)
(*                                                                         *)
(* Instants are kept as the time left until them: 0 means "at or before     *)
(* now".  The code only ever compares an instant with the current one.      *)
(***************************************************************************)
EXTENDS KeziahTypes

CONSTANTS Models,      \* concrete model ids
          Owners,      \* lease tokens "worker:nonce"
          Null,        \* SQL NULL
          LeaseTicks   \* lease_seconds, in clock ticks

ASSUME NullAssumption  == Null \notin Nat /\ Null \notin Owners
ASSUME LeaseAssumption == LeaseTicks \in Nat \ {0}

Instant == Nat \cup {Null}

\* finished_at is kept only as "IS NOT NULL".
Row == [state            : JobStates,
        attempt_count    : Nat,
        max_attempts     : Nat \ {0},
        lease_owner      : Owners \cup {Null},
        lease_expires_at : Instant,
        not_before       : Instant,
        deadline_at      : Instant,
        cancel_requested : BOOLEAN,
        finished_at      : BOOLEAN,
        resolved_model   : Models]

HasRow(r)     == r.state \notin NoRowStates
IsTerminal(r) == r.state \in TerminalStates

\* x IS NULL OR x <= now
Due(x) == x = Null \/ x = 0

(***************************************************************************)
(* Claim and lease.                                                        *)
(***************************************************************************)
\* The WHERE clause of _claim_sql; active is the batch clause.
Claimable(r, active) ==
    /\ r.state = "queued"
    /\ Due(r.not_before)
    /\ r.deadline_at # 0
    /\ ~r.cancel_requested
    /\ active

ClaimSql(r, o, active) ==
    IF Claimable(r, active)
    THEN [r EXCEPT !.state = "leased", !.lease_owner = o,
                   !.lease_expires_at = LeaseTicks, !.attempt_count = @ + 1]
    ELSE r

Holds(r, o)        == r.lease_owner = o /\ r.state \in HeldStates
OwnedRunning(r, o) == r.lease_owner = o /\ r.state = "running"

ExtendLease(r, o) ==
    IF Holds(r, o) THEN [r EXCEPT !.lease_expires_at = LeaseTicks] ELSE r

CanMarkRunning(r, o) == r.lease_owner = o /\ r.state = "leased"
MarkRunning(r, o) ==
    IF CanMarkRunning(r, o)
    THEN [r EXCEPT !.state = "running", !.lease_expires_at = LeaseTicks]
    ELSE r

(***************************************************************************)
(* Settlement by the lease owner.                                          *)
(***************************************************************************)
Unleased(r, s) == [r EXCEPT !.state = s, !.lease_owner = Null, !.lease_expires_at = Null]
Ended(r, s)    == [Unleased(r, s) EXCEPT !.finished_at = TRUE]

\* Mutant of Complete: it forgets to check who holds the lease.
CompleteAnyones(r, o) == IF r.state = "running" THEN Ended(r, "succeeded") ELSE r

Complete(r, o) == IF OwnedRunning(r, o) THEN Ended(r, "succeeded") ELSE r

Failure(dead) == IF dead THEN "dead_letter" ELSE "failed"

\* _fail_sql with require_owner.
Fail(r, o, dead) == IF OwnedRunning(r, o) THEN Ended(r, Failure(dead)) ELSE r

\* _fail_sql without an owner, as the maintenance sweep calls it.
FailFrom(r, from, dead) == IF r.state = from THEN Ended(r, Failure(dead)) ELSE r

Retry(r, o, delay, m) ==
    IF OwnedRunning(r, o)
    THEN [Unleased(r, "retry_wait") EXCEPT !.not_before = delay, !.resolved_model = m]
    ELSE r

MarkCancelledSql(r) == [Ended(r, "cancelled") EXCEPT !.cancel_requested = TRUE]

FinishCancel(r, o) == IF Holds(r, o) THEN MarkCancelledSql(r) ELSE r

\* Mutants of ReleaseSql: the lease stays on the row; only the model changes.
ReleaseKeepsLease(r, o, m) ==
    IF Holds(r, o) THEN [r EXCEPT !.state = "queued", !.resolved_model = m] ELSE r
ReleaseOnlyRetargets(r, o, m) ==
    IF Holds(r, o) THEN [r EXCEPT !.resolved_model = m] ELSE r

\* _release_sql; every caller decrements the attempt the claim charged.
ReleaseSql(r, o, m) ==
    IF Holds(r, o)
    THEN [Unleased(r, "queued") EXCEPT
             !.attempt_count = IF @ = 0 THEN 0 ELSE @ - 1,
             !.resolved_model = m]
    ELSE r

(***************************************************************************)
(* Requests of the callers.                                                *)
(***************************************************************************)
\* Mutant of Cancel: it flags a leased job as it does a running one.
CancelFlagsLeased(r) ==
    IF r.state \in {"queued", "retry_wait", "staged"} THEN MarkCancelledSql(r)
    ELSE IF r.state \in HeldStates THEN [r EXCEPT !.cancel_requested = TRUE]
    ELSE r

Cancel(r) ==
    IF r.state \in {"queued", "retry_wait", "staged", "leased"} THEN MarkCancelledSql(r)
    ELSE IF r.state = "running" THEN [r EXCEPT !.cancel_requested = TRUE]
    ELSE r

Requeueable(r) == r.state \in {"failed", "dead_letter"}

\* Mutant of Requeue: finished_at is left as the ended job had it.
RequeueKeepsEnd(r) ==
    IF Requeueable(r)
    THEN [Unleased(r, "queued") EXCEPT !.attempt_count = 0, !.not_before = Null,
                                       !.cancel_requested = FALSE]
    ELSE r

Requeue(r) ==
    IF Requeueable(r)
    THEN [Unleased(r, "queued") EXCEPT
             !.attempt_count = 0, !.finished_at = FALSE,
             !.not_before = Null, !.cancel_requested = FALSE]
    ELSE r

\* The DELETE of cleanup, for a row older than its retention window.
Expungeable(r) == r.finished_at /\ r.state \notin IncompleteStates /\ HasRow(r)

(***************************************************************************)
(* The maintenance transaction: four sweeps, in this order, over all rows.  *)
(* A row can move through several of them in one pass.                      *)
(***************************************************************************)
\* Mutant of ExpireSql: an expired lease always returns the job to the queue.
ExpireToQueue(r) ==
    IF r.state \in HeldStates /\ r.lease_expires_at = 0
    THEN IF r.cancel_requested THEN MarkCancelledSql(r) ELSE Unleased(r, "queued")
    ELSE r

ExpireSql(r) ==
    IF r.state \in HeldStates /\ r.lease_expires_at = 0
    THEN IF r.cancel_requested THEN MarkCancelledSql(r)
         ELSE IF r.attempt_count >= r.max_attempts THEN FailFrom(r, r.state, TRUE)
         ELSE Unleased(r, "queued")
    ELSE r

PromoteDue(r) ==
    IF r.state = "retry_wait" /\ Due(r.not_before) THEN [r EXCEPT !.state = "queued"] ELSE r

FailLate(r) == IF r.deadline_at = 0 THEN FailFrom(r, "queued", FALSE) ELSE r

CancelFlagged(r) ==
    IF r.cancel_requested /\ r.state \in {"queued", "retry_wait", "staged"}
    THEN MarkCancelledSql(r) ELSE r

\* Mutant of Maintenance: the sweep of expired leases is missing.
MaintenanceKeepsLeases(r) == CancelFlagged(FailLate(PromoteDue(r)))

Maintenance(r) == CancelFlagged(FailLate(PromoteDue(ExpireSql(r))))

(***************************************************************************)
(* One tick of the clock.                                                  *)
(***************************************************************************)
Sooner(x) == IF x = Null \/ x = 0 THEN x ELSE x - 1
Elapse(r) == [r EXCEPT !.lease_expires_at = Sooner(@),
                       !.not_before = Sooner(@), !.deadline_at = Sooner(@)]
=============================================================================
