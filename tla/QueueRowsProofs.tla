-------------------------- MODULE QueueRowsProofs --------------------------
(***************************************************************************)
(* What the statements of sqlite.py keep true of one row, whatever the row, *)
(* the owner and the time, and which step of the lifecycle each of them is. *)
(* The proofs about the executor, the hybrid queue and the in-memory queue  *)
(* rest on these lemmas.                                                   *)
(***************************************************************************)
EXTENDS QueueRows, FiniteSetTheorems, TLAPS

\* The arrows of the lifecycle; they mention no job and no state.
Life == INSTANCE JobLifecycle WITH Jobs <- {}, life <- <<>>

\* What is always true of one row of the jobs table: the conjunction of the
\* per-row invariants the runs check.
RowOK(r) ==
    /\ r \in Row
    /\ (r.state \in HeldStates) <=> (r.lease_owner # Null)
    /\ (r.state \in HeldStates) <=> (r.lease_expires_at # Null)
    /\ r.finished_at <=> (r.state \in TerminalStates)
    /\ r.attempt_count <= r.max_attempts
    /\ r.state \in {"queued", "retry_wait", "staged"} => r.attempt_count < r.max_attempts
    /\ r.state \in HeldStates => r.attempt_count >= 1
    /\ r.state = "leased" => ~r.cancel_requested

\* A statement other than a claim never puts a lease on a row, and while the
\* lease stays the charged attempt stays.
KeepsLease(a, b) ==
    \/ b.lease_owner = Null
    \/ b.lease_owner = a.lease_owner /\ b.attempt_count = a.attempt_count

USE DEF TerminalStates, IncompleteStates, NoRowStates, JobStates, HeldStates

\* The fields of a row whose lease has been cleared.
LEMMA UnleasedFields ==
    ASSUME NEW r \in Row, NEW s \in JobStates
    PROVE  LET u == Unleased(r, s) IN
           /\ u \in Row /\ u.state = s /\ u.lease_owner = Null /\ u.lease_expires_at = Null
           /\ u.attempt_count = r.attempt_count /\ u.max_attempts = r.max_attempts
           /\ u.cancel_requested = r.cancel_requested /\ u.finished_at = r.finished_at
BY DEF Unleased, Row, Instant

\* Ending a row (terminal state, no lease, finished_at set) keeps it well formed.
LEMMA EndedOK ==
    ASSUME NEW r, RowOK(r), NEW s \in TerminalStates
    PROVE  RowOK(Ended(r, s)) /\ Ended(r, s).lease_owner = Null
BY NullAssumption DEF RowOK, Row, Instant, Ended, Unleased

\* So does a cancellation.
LEMMA MarkCancelledOK ==
    ASSUME NEW r, RowOK(r)
    PROVE  RowOK(MarkCancelledSql(r)) /\ MarkCancelledSql(r).lease_owner = Null
<1> DEFINE e == Ended(r, "cancelled")
<1>1. RowOK(e) /\ e.lease_owner = Null
  BY EndedOK
<1>2. e.state = "cancelled"
  BY DEF Ended, Unleased, RowOK, Row
<1> QED BY <1>1, <1>2 DEF RowOK, Row, MarkCancelledSql

\* A claim charges an attempt and puts the claimer's token on the row.
LEMMA ClaimOK ==
    ASSUME NEW r, RowOK(r), NEW o \in Owners, Claimable(r, TRUE)
    PROVE  /\ RowOK(ClaimSql(r, o, TRUE))
           /\ ClaimSql(r, o, TRUE).lease_owner = o
<1> DEFINE c == [r EXCEPT !.state = "leased", !.lease_owner = o,
                          !.lease_expires_at = LeaseTicks, !.attempt_count = @ + 1]
<1>1. c = ClaimSql(r, o, TRUE)
  BY DEF ClaimSql
<1>2. r \in Row /\ r.state = "queued" /\ r.cancel_requested = FALSE
  BY DEF RowOK, Row, Claimable
<1>3. /\ c \in Row /\ c.state = "leased" /\ c.lease_owner = o
      /\ c.lease_expires_at = LeaseTicks /\ c.attempt_count = r.attempt_count + 1
      /\ c.max_attempts = r.max_attempts /\ c.finished_at = r.finished_at
      /\ c.cancel_requested = r.cancel_requested
  <2>1. r.attempt_count + 1 \in Nat /\ LeaseTicks \in Instant
    BY <1>2, LeaseAssumption DEF Row, Instant
  <2> QED BY <1>2, <2>1 DEF Row
<1>4. r.attempt_count \in Nat /\ r.max_attempts \in Nat
      /\ r.attempt_count < r.max_attempts /\ ~r.finished_at
  BY <1>2 DEF RowOK, Row
<1> HIDE DEF c
<1>5. c.attempt_count <= c.max_attempts /\ c.attempt_count >= 1
  BY <1>3, <1>4
<1>6. c.lease_owner # Null /\ c.lease_expires_at # Null
  BY <1>3, NullAssumption, LeaseAssumption
<1>7. RowOK(c)
  BY <1>2, <1>3, <1>4, <1>5, <1>6 DEF RowOK
<1> QED BY <1>1, <1>3, <1>7

\* extend_lease and mark_running keep the owner and the attempt.
LEMMA HoldOK ==
    ASSUME NEW r, RowOK(r), NEW o
    PROVE  /\ RowOK(ExtendLease(r, o)) /\ KeepsLease(r, ExtendLease(r, o))
           /\ RowOK(MarkRunning(r, o)) /\ KeepsLease(r, MarkRunning(r, o))
BY NullAssumption, LeaseAssumption
   DEF RowOK, Row, Instant, ExtendLease, MarkRunning, CanMarkRunning, Holds, KeepsLease

\* complete, fail and finish_cancel end the row or leave it alone.
LEMMA SettleOK ==
    ASSUME NEW r, RowOK(r), NEW o, NEW dead \in BOOLEAN
    PROVE  /\ RowOK(Complete(r, o)) /\ KeepsLease(r, Complete(r, o))
           /\ RowOK(Fail(r, o, dead)) /\ KeepsLease(r, Fail(r, o, dead))
           /\ RowOK(FinishCancel(r, o)) /\ KeepsLease(r, FinishCancel(r, o))
<1>1. Failure(dead) \in TerminalStates
  BY DEF Failure
<1> QED BY <1>1, EndedOK, MarkCancelledOK DEF Complete, Fail, FinishCancel, KeepsLease

\* A retry needs an attempt left on the row it finds.
LEMMA RetryOK ==
    ASSUME NEW r, RowOK(r), NEW o, NEW delay \in Nat, NEW m \in Models,
           OwnedRunning(r, o) => r.attempt_count < r.max_attempts
    PROVE  RowOK(Retry(r, o, delay, m)) /\ KeepsLease(r, Retry(r, o, delay, m))
BY NullAssumption DEF RowOK, Row, Instant, Retry, Unleased, OwnedRunning, KeepsLease

\* A voluntary release gives back the attempt the claim charged.
LEMMA ReleaseOK ==
    ASSUME NEW r, RowOK(r), NEW o, NEW m \in Models
    PROVE  RowOK(ReleaseSql(r, o, m)) /\ KeepsLease(r, ReleaseSql(r, o, m))
<1>1. CASE ~Holds(r, o)
  BY <1>1 DEF ReleaseSql, KeepsLease
<1>2. CASE Holds(r, o)
  <2> DEFINE u == Unleased(r, "queued")
             n == IF r.attempt_count = 0 THEN 0 ELSE r.attempt_count - 1
             v == [u EXCEPT !.attempt_count = n, !.resolved_model = m]
  <2>1. /\ u \in Row /\ u.state = "queued" /\ u.lease_owner = Null
        /\ u.lease_expires_at = Null /\ u.attempt_count = r.attempt_count
        /\ u.max_attempts = r.max_attempts /\ u.finished_at = r.finished_at
    BY UnleasedFields DEF RowOK
  <2>2. ReleaseSql(r, o, m) = v
    BY <1>2, <2>1 DEF ReleaseSql
  <2>3. n \in Nat /\ n < r.max_attempts /\ r.finished_at = FALSE
    BY <1>2 DEF RowOK, Row, Holds
  <2> HIDE DEF u, n
  <2>4. /\ v \in Row /\ v.state = "queued" /\ v.lease_owner = Null
        /\ v.lease_expires_at = Null /\ v.attempt_count = n
        /\ v.max_attempts = r.max_attempts /\ v.finished_at = FALSE
    BY <2>1, <2>3 DEF Row
  <2> HIDE DEF v
  <2>5. RowOK(v) /\ KeepsLease(r, v)
    BY <2>3, <2>4 DEF RowOK, Row, KeepsLease
  <2> QED BY <2>2, <2>5
<1> QED BY <1>1, <1>2

\* The callers' requests.
LEMMA CancelOK ==
    ASSUME NEW r, RowOK(r)
    PROVE  RowOK(Cancel(r)) /\ KeepsLease(r, Cancel(r))
<1>1. CASE r.state \in {"queued", "retry_wait", "staged", "leased"}
  BY <1>1, MarkCancelledOK DEF Cancel, KeepsLease
<1>2. CASE r.state \notin {"queued", "retry_wait", "staged", "leased"}
  BY <1>2 DEF RowOK, Row, Cancel, KeepsLease
<1> QED BY <1>1, <1>2

LEMMA RequeueOK ==
    ASSUME NEW r, RowOK(r)
    PROVE  RowOK(Requeue(r)) /\ KeepsLease(r, Requeue(r))
<1>1. CASE ~Requeueable(r)
  BY <1>1 DEF Requeue, KeepsLease
<1>2. CASE Requeueable(r)
  <2> DEFINE u == Unleased(r, "queued")
             v == [u EXCEPT !.attempt_count = 0, !.finished_at = FALSE,
                            !.not_before = Null, !.cancel_requested = FALSE]
  <2>1. /\ u \in Row /\ u.state = "queued" /\ u.lease_owner = Null
        /\ u.lease_expires_at = Null
    BY UnleasedFields DEF RowOK
  <2>2. Requeue(r) = v
    BY <1>2 DEF Requeue
  <2> HIDE DEF u
  <2>3. /\ v \in Row /\ v.state = "queued" /\ v.lease_owner = Null
        /\ v.lease_expires_at = Null /\ v.attempt_count = 0 /\ v.finished_at = FALSE
    BY <2>1 DEF Row, Instant
  <2> HIDE DEF v
  <2>4. RowOK(v) /\ KeepsLease(r, v)
    BY <2>3 DEF RowOK, Row, KeepsLease
  <2> QED BY <2>2, <2>4
<1> QED BY <1>1, <1>2

\* The maintenance transaction, sweep by sweep and then whole.
LEMMA ExpireOK ==
    ASSUME NEW r, RowOK(r)
    PROVE  RowOK(ExpireSql(r)) /\ KeepsLease(r, ExpireSql(r))
<1>1. CASE ~(r.state \in HeldStates /\ r.lease_expires_at = 0)
  BY <1>1 DEF ExpireSql, KeepsLease
<1>2. CASE r.state \in HeldStates /\ r.lease_expires_at = 0
  <2>1. CASE r.cancel_requested
    BY <1>2, <2>1, MarkCancelledOK DEF ExpireSql, KeepsLease
  <2>2. CASE ~r.cancel_requested /\ r.attempt_count >= r.max_attempts
    <3>1. ExpireSql(r) = Ended(r, "dead_letter")
      BY <1>2, <2>2 DEF ExpireSql, FailFrom, Failure
    <3> QED BY <3>1, EndedOK DEF KeepsLease
  <2>3. CASE ~r.cancel_requested /\ ~(r.attempt_count >= r.max_attempts)
    <3> DEFINE u == Unleased(r, "queued")
    <3>1. /\ u \in Row /\ u.state = "queued" /\ u.lease_owner = Null
          /\ u.lease_expires_at = Null /\ u.attempt_count = r.attempt_count
          /\ u.max_attempts = r.max_attempts /\ u.finished_at = r.finished_at
      BY UnleasedFields DEF RowOK
    <3>2. ExpireSql(r) = u
      BY <1>2, <2>3 DEF ExpireSql
    <3>3. r.finished_at = FALSE /\ r.attempt_count < r.max_attempts
      BY <1>2, <2>3 DEF RowOK, Row
    <3> HIDE DEF u
    <3>4. RowOK(u) /\ KeepsLease(r, u)
      BY <3>1, <3>3 DEF RowOK, Row, KeepsLease
    <3> QED BY <3>2, <3>4
  <2> QED BY <2>1, <2>2, <2>3
<1> QED BY <1>1, <1>2

LEMMA PromoteOK ==
    ASSUME NEW r, RowOK(r)
    PROVE  RowOK(PromoteDue(r)) /\ KeepsLease(r, PromoteDue(r))
BY DEF RowOK, Row, PromoteDue, KeepsLease

LEMMA FailLateOK ==
    ASSUME NEW r, RowOK(r)
    PROVE  RowOK(FailLate(r)) /\ KeepsLease(r, FailLate(r))
<1>1. FailLate(r) = r \/ FailLate(r) = Ended(r, "failed")
  BY DEF FailLate, FailFrom, Failure
<1> QED BY <1>1, EndedOK DEF KeepsLease

LEMMA CancelFlaggedOK ==
    ASSUME NEW r, RowOK(r)
    PROVE  RowOK(CancelFlagged(r)) /\ KeepsLease(r, CancelFlagged(r))
BY MarkCancelledOK DEF CancelFlagged, KeepsLease

\* Maintenance keeps every row well formed and gives no row a new lease.
THEOREM MaintenanceOK ==
    ASSUME NEW r, RowOK(r)
    PROVE  RowOK(Maintenance(r)) /\ KeepsLease(r, Maintenance(r))
<1> DEFINE a == ExpireSql(r)
           b == PromoteDue(a)
           c == FailLate(b)
<1>1. RowOK(a) /\ KeepsLease(r, a)
  BY ExpireOK
<1>2. RowOK(b) /\ KeepsLease(a, b)
  <2> HIDE DEF a
  <2> QED BY <1>1, PromoteOK
<1>3. RowOK(c) /\ KeepsLease(b, c)
  <2> HIDE DEF b
  <2> QED BY <1>2, FailLateOK
<1>4. RowOK(CancelFlagged(c)) /\ KeepsLease(c, CancelFlagged(c))
  <2> HIDE DEF c
  <2> QED BY <1>3, CancelFlaggedOK
<1>5. KeepsLease(r, CancelFlagged(c))
  <2> HIDE DEF a, b, c
  <2> QED BY <1>1, <1>2, <1>3, <1>4 DEF KeepsLease
<1> QED BY <1>4, <1>5 DEF Maintenance

\* The clock.
LEMMA ElapseOK ==
    ASSUME NEW r, RowOK(r)
    PROVE  RowOK(Elapse(r)) /\ KeepsLease(r, Elapse(r))
<1>1. \A x \in Instant : Sooner(x) \in Instant /\ (Sooner(x) = Null <=> x = Null)
  BY NullAssumption DEF Instant, Sooner
<1> QED BY <1>1 DEF RowOK, Row, Elapse, KeepsLease

(***************************************************************************)
(* One row: every statement is a step of the lifecycle or leaves the job    *)
(* alone.                                                                  *)
(***************************************************************************)
View(r) == [state |-> r.state, attempt_count |-> r.attempt_count,
            max_attempts |-> r.max_attempts, cancel_requested |-> r.cancel_requested]

Goes(a, b) == View(a) = View(b) \/ Life!Arrow(View(a), View(b))

\* While the lease stays, the model stays.
KeepsModel(a, b) ==
    b.lease_owner = Null \/ (b.lease_owner = a.lease_owner /\ b.resolved_model = a.resolved_model)

Settles(a, b) == a.state = "running" /\ b.state \in {"succeeded", "retry_wait"}

\* A row neither appears nor vanishes, and the deadline is as far away as before.
SameDeadline(a, b) == /\ b.deadline_at = a.deadline_at
                      /\ IF HasRow(a) THEN HasRow(b) ELSE b.state = a.state

Moves(a, b) == Goes(a, b) /\ KeepsModel(a, b) /\ SameDeadline(a, b)
Quiet(a, b) == Moves(a, b) /\ ~Settles(a, b)

LEMMA SameFields ==
    ASSUME NEW a, NEW b
    PROVE  /\ Life!Same(a, b, Life!Costs)
                 <=> a.attempt_count = b.attempt_count /\ a.max_attempts = b.max_attempts
           /\ Life!Keeps(a, b)
                 <=> /\ a.attempt_count = b.attempt_count /\ a.max_attempts = b.max_attempts
                     /\ a.cancel_requested = b.cancel_requested
           /\ Life!Same(a, b, {"max_attempts"}) <=> a.max_attempts = b.max_attempts
           /\ Life!Same(a, b, {"max_attempts", "cancel_requested"})
                 <=> a.max_attempts = b.max_attempts /\ a.cancel_requested = b.cancel_requested
BY DEF Life!Same, Life!Costs, Life!Keeps

LEMMA ViewFields ==
    ASSUME NEW r
    PROVE  /\ View(r).state = r.state /\ View(r).attempt_count = r.attempt_count
           /\ View(r).max_attempts = r.max_attempts
           /\ View(r).cancel_requested = r.cancel_requested
BY DEF View

\* The arrows that the statements take.
LEMMA Arrows ==
    ASSUME NEW a \in Row, NEW b \in Row
    PROVE  /\ /\ a.state = b.state /\ a.attempt_count = b.attempt_count
              /\ a.max_attempts = b.max_attempts /\ a.cancel_requested = b.cancel_requested
              => Goes(a, b)
           /\ /\ a.attempt_count = b.attempt_count /\ a.max_attempts = b.max_attempts
              /\ a.cancel_requested = b.cancel_requested
              /\ \/ a.state = "leased" /\ b.state = "running"
                 \/ a.state = "running" /\ b.state = "succeeded"
                 \/ /\ a.state \in {"running", "queued", "retry_wait", "leased"}
                    /\ b.state \in {"failed", "dead_letter"}
                 \/ a.state = "running" /\ b.state = "retry_wait" /\ a.attempt_count < a.max_attempts
                 \/ a.state = "retry_wait" /\ b.state = "queued"
                 \/ /\ a.state \in HeldStates /\ b.state = "queued"
                    /\ a.attempt_count < a.max_attempts /\ ~a.cancel_requested
              => Goes(a, b)
           /\ /\ a.attempt_count = b.attempt_count /\ a.max_attempts = b.max_attempts
              /\ b.cancel_requested
              /\ \/ a.state \in IncompleteStates /\ b.state = "cancelled"
                 \/ a.state = "running" /\ b.state = "running"
              => Goes(a, b)
           /\ /\ a.state \in HeldStates /\ b.state = "queued"
              /\ a.attempt_count = b.attempt_count + 1
              /\ a.max_attempts = b.max_attempts /\ a.cancel_requested = b.cancel_requested
              => Goes(a, b)
           /\ /\ a.state \in {"failed", "dead_letter"} /\ b.state = "queued"
              /\ b.attempt_count = 0 /\ ~b.cancel_requested /\ a.max_attempts = b.max_attempts
              => Goes(a, b)
           /\ /\ a.state = "queued" /\ b.state = "leased"
              /\ ~a.cancel_requested /\ ~b.cancel_requested
              /\ b.attempt_count = a.attempt_count + 1 /\ b.attempt_count <= a.max_attempts
              /\ b.max_attempts = a.max_attempts
              => Goes(a, b)
<1>1. ASSUME a.state = b.state, a.attempt_count = b.attempt_count,
             a.max_attempts = b.max_attempts, a.cancel_requested = b.cancel_requested
      PROVE  Goes(a, b)
  BY <1>1 DEF Goes, View
<1> DEFINE x == View(a)
           y == View(b)
<1>2. /\ x.state = a.state /\ x.attempt_count = a.attempt_count
      /\ x.max_attempts = a.max_attempts /\ x.cancel_requested = a.cancel_requested
      /\ y.state = b.state /\ y.attempt_count = b.attempt_count
      /\ y.max_attempts = b.max_attempts /\ y.cancel_requested = b.cancel_requested
  BY ViewFields
<1>3. Goes(a, b) <=> x = y \/ Life!Arrow(x, y)
  BY DEF Goes
<1> HIDE DEF x, y
<1> QED BY <1>1, <1>2, <1>3, SameFields
        DEF Life!Arrow, Life!Started, Life!Succeeded, Life!Failed,
            Life!Retried, Life!Promoted, Life!Expired, Life!Cancelled,
            Life!Flagged, Life!Released, Life!Requeued, Life!Claimed,
            Life!HeldStates, Life!IncompleteStates

\* A row whose lease is cleared, or that has ended.
LEMMA EndedFields ==
    ASSUME NEW r \in Row, NEW s \in TerminalStates
    PROVE  LET e == Ended(r, s) IN
           /\ e \in Row /\ e.state = s /\ e.lease_owner = Null
           /\ e.attempt_count = r.attempt_count /\ e.max_attempts = r.max_attempts
           /\ e.cancel_requested = r.cancel_requested /\ e.deadline_at = r.deadline_at
BY DEF Ended, Unleased, Row, Instant

LEMMA CancelledFields ==
    ASSUME NEW r \in Row
    PROVE  LET e == MarkCancelledSql(r) IN
           /\ e \in Row /\ e.state = "cancelled" /\ e.lease_owner = Null
           /\ e.attempt_count = r.attempt_count /\ e.max_attempts = r.max_attempts
           /\ e.cancel_requested /\ e.deadline_at = r.deadline_at
BY DEF MarkCancelledSql, Ended, Unleased, Row, Instant

LEMMA SameQuiet == ASSUME NEW r \in Row PROVE Quiet(r, r)
BY DEF Quiet, Moves, Goes, KeepsModel, SameDeadline, HasRow, Settles

\* A failure.
LEMMA EndedQuiet ==
    ASSUME NEW r \in Row, NEW s \in {"failed", "dead_letter"},
           r.state \in {"running", "queued", "retry_wait", "leased"}
    PROVE  Quiet(r, Ended(r, s))
BY EndedFields, Arrows DEF Quiet, Moves, KeepsModel, SameDeadline, HasRow, Settles

\* A cancellation.
LEMMA CancelledQuiet ==
    ASSUME NEW r \in Row, r.state \in IncompleteStates
    PROVE  Quiet(r, MarkCancelledSql(r))
BY CancelledFields, Arrows DEF Quiet, Moves, KeepsModel, SameDeadline, HasRow, Settles

LEMMA HoldQuiet ==
    ASSUME NEW r \in Row, NEW o
    PROVE  Quiet(r, ExtendLease(r, o)) /\ Quiet(r, MarkRunning(r, o))
<1>0. LeaseTicks \in Instant
  BY LeaseAssumption DEF Instant
<1>1. Quiet(r, ExtendLease(r, o))
  <2>1. CASE Holds(r, o)
    <3> DEFINE e == [r EXCEPT !.lease_expires_at = LeaseTicks]
    <3>1. /\ e \in Row /\ e.state = r.state /\ e.lease_owner = r.lease_owner
          /\ e.resolved_model = r.resolved_model
          /\ e.attempt_count = r.attempt_count /\ e.max_attempts = r.max_attempts
          /\ e.cancel_requested = r.cancel_requested /\ e.deadline_at = r.deadline_at
      BY <1>0 DEF Row
    <3>2. ExtendLease(r, o) = e
      BY <2>1 DEF ExtendLease
    <3> HIDE DEF e
    <3> QED BY <3>1, <3>2, Arrows DEF Quiet, Moves, KeepsModel, SameDeadline, HasRow, Settles
  <2> QED BY <2>1, SameQuiet DEF ExtendLease
<1>2. Quiet(r, MarkRunning(r, o))
  <2>1. CASE CanMarkRunning(r, o)
    <3> DEFINE e == [r EXCEPT !.state = "running", !.lease_expires_at = LeaseTicks]
    <3>1. /\ e \in Row /\ e.state = "running" /\ e.lease_owner = r.lease_owner
          /\ e.resolved_model = r.resolved_model
          /\ e.attempt_count = r.attempt_count /\ e.max_attempts = r.max_attempts
          /\ e.cancel_requested = r.cancel_requested /\ e.deadline_at = r.deadline_at
      BY <1>0 DEF Row
    <3>2. MarkRunning(r, o) = e /\ r.state = "leased"
      BY <2>1 DEF MarkRunning, CanMarkRunning
    <3> HIDE DEF e
    <3> QED BY <3>1, <3>2, Arrows DEF Quiet, Moves, KeepsModel, SameDeadline, HasRow, Settles
  <2> QED BY <2>1, SameQuiet DEF MarkRunning
<1> QED BY <1>1, <1>2

\* Only the owner's complete and retry settle a job.
LEMMA CompleteMoves ==
    ASSUME NEW r \in Row, NEW o
    PROVE  LET e == Complete(r, o) IN Moves(r, e) /\ (Settles(r, e) => r.lease_owner = o)
<1>1. CASE OwnedRunning(r, o)
  <2>1. Complete(r, o) = Ended(r, "succeeded") /\ r.state = "running" /\ r.lease_owner = o
    BY <1>1 DEF Complete, OwnedRunning
  <2> QED BY <2>1, EndedFields, Arrows DEF Moves, KeepsModel, SameDeadline, HasRow
<1>2. CASE ~OwnedRunning(r, o)
  BY <1>2, SameQuiet DEF Complete, Quiet
<1> QED BY <1>1, <1>2

LEMMA RetryMoves ==
    ASSUME NEW r \in Row, NEW o, NEW delay \in Nat, NEW m \in Models,
           OwnedRunning(r, o) => r.attempt_count < r.max_attempts
    PROVE  LET e == Retry(r, o, delay, m) IN Moves(r, e) /\ (Settles(r, e) => r.lease_owner = o)
<1>1. CASE OwnedRunning(r, o)
  <2> DEFINE e == [Unleased(r, "retry_wait") EXCEPT !.not_before = delay, !.resolved_model = m]
  <2>1. /\ e \in Row /\ e.state = "retry_wait" /\ e.lease_owner = Null
        /\ e.attempt_count = r.attempt_count /\ e.max_attempts = r.max_attempts
        /\ e.cancel_requested = r.cancel_requested /\ e.deadline_at = r.deadline_at
    BY DEF Unleased, Row, Instant
  <2>2. /\ Retry(r, o, delay, m) = e /\ r.state = "running" /\ r.lease_owner = o
        /\ r.attempt_count < r.max_attempts
    BY <1>1 DEF Retry, OwnedRunning
  <2> HIDE DEF e
  <2> QED BY <2>1, <2>2, Arrows DEF Moves, KeepsModel, SameDeadline, HasRow
<1>2. CASE ~OwnedRunning(r, o)
  BY <1>2, SameQuiet DEF Retry, Quiet
<1> QED BY <1>1, <1>2

LEMMA FailQuiet ==
    ASSUME NEW r \in Row, NEW o, NEW dead \in BOOLEAN
    PROVE  Quiet(r, Fail(r, o, dead)) /\ Quiet(r, FinishCancel(r, o))
<1>1. Quiet(r, Fail(r, o, dead))
  BY EndedQuiet, SameQuiet DEF Fail, OwnedRunning, Failure
<1>2. Quiet(r, FinishCancel(r, o))
  BY CancelledQuiet, SameQuiet DEF FinishCancel, Holds
<1> QED BY <1>1, <1>2

LEMMA ReleaseQuiet ==
    ASSUME NEW r, RowOK(r), NEW o, NEW m \in Models
    PROVE  Quiet(r, ReleaseSql(r, o, m))
<1>0. r \in Row
  BY DEF RowOK
<1>1. CASE ~Holds(r, o)
  BY <1>0, <1>1, SameQuiet DEF ReleaseSql
<1>2. CASE Holds(r, o)
  <2> DEFINE u == Unleased(r, "queued")
             n == IF r.attempt_count = 0 THEN 0 ELSE r.attempt_count - 1
             e == [u EXCEPT !.attempt_count = n, !.resolved_model = m]
  <2>1. /\ u \in Row /\ u.state = "queued" /\ u.lease_owner = Null
        /\ u.attempt_count = r.attempt_count /\ u.max_attempts = r.max_attempts
        /\ u.cancel_requested = r.cancel_requested /\ u.deadline_at = r.deadline_at
    BY <1>0 DEF Unleased, Row, Instant
  <2>2. ReleaseSql(r, o, m) = e /\ r.state \in HeldStates
    BY <1>2, <2>1 DEF ReleaseSql, Holds
  <2>3. n \in Nat /\ r.attempt_count = n + 1
    BY <2>2 DEF RowOK, Row
  <2> HIDE DEF u, n
  <2>4. /\ e \in Row /\ e.state = "queued" /\ e.lease_owner = Null
        /\ e.attempt_count = n /\ e.max_attempts = r.max_attempts
        /\ e.cancel_requested = r.cancel_requested /\ e.deadline_at = r.deadline_at
    BY <2>1, <2>3 DEF Row
  <2> HIDE DEF e
  <2> QED BY <1>0, <2>2, <2>3, <2>4, Arrows DEF Quiet, Moves, KeepsModel, SameDeadline, HasRow, Settles
<1> QED BY <1>1, <1>2

LEMMA CancelQuiet ==
    ASSUME NEW r \in Row
    PROVE  Quiet(r, Cancel(r))
<1>1. CASE r.state \in {"queued", "retry_wait", "staged", "leased"}
  BY <1>1, CancelledQuiet DEF Cancel
<1>2. CASE r.state = "running"
  <2> DEFINE e == [r EXCEPT !.cancel_requested = TRUE]
  <2>1. /\ e \in Row /\ e.state = "running" /\ e.lease_owner = r.lease_owner
        /\ e.resolved_model = r.resolved_model
        /\ e.attempt_count = r.attempt_count /\ e.max_attempts = r.max_attempts
        /\ e.cancel_requested /\ e.deadline_at = r.deadline_at
    BY <1>2 DEF Row
  <2>2. Cancel(r) = e
    BY <1>2 DEF Cancel
  <2> HIDE DEF e
  <2> QED BY <1>2, <2>1, <2>2, Arrows DEF Quiet, Moves, KeepsModel, SameDeadline, HasRow, Settles
<1> QED BY <1>1, <1>2, SameQuiet DEF Cancel

LEMMA RequeueQuiet ==
    ASSUME NEW r \in Row
    PROVE  Quiet(r, Requeue(r))
<1>1. CASE Requeueable(r)
  <2> DEFINE u == Unleased(r, "queued")
             e == [u EXCEPT !.attempt_count = 0, !.finished_at = FALSE,
                            !.not_before = Null, !.cancel_requested = FALSE]
  <2>1. /\ u \in Row /\ u.state = "queued" /\ u.lease_owner = Null
        /\ u.max_attempts = r.max_attempts /\ u.deadline_at = r.deadline_at
    BY DEF Unleased, Row, Instant
  <2>2. Requeue(r) = e
    BY <1>1 DEF Requeue
  <2> HIDE DEF u
  <2>3. /\ e \in Row /\ e.state = "queued" /\ e.lease_owner = Null
        /\ e.attempt_count = 0 /\ e.max_attempts = r.max_attempts
        /\ e.cancel_requested = FALSE /\ e.deadline_at = r.deadline_at
    BY <2>1 DEF Row, Instant
  <2> HIDE DEF e
  <2> QED BY <1>1, <2>2, <2>3, Arrows DEF Requeueable, Quiet, Moves, KeepsModel, SameDeadline, HasRow, Settles
<1> QED BY <1>1, SameQuiet DEF Requeue

\* The sweeps do not compose arrow by arrow: an expired job that is also late
\* goes from running to failed in one transaction.  After each sweep a row is
\* as it was, back in the queue with nothing else changed, or has ended.
Back(a, b) ==
    /\ b \in Row /\ b.state = "queued" /\ b.lease_owner = Null
    /\ b.attempt_count = a.attempt_count /\ b.max_attempts = a.max_attempts
    /\ b.cancel_requested = a.cancel_requested /\ b.deadline_at = a.deadline_at
    /\ \/ a.state \in HeldStates /\ a.attempt_count < a.max_attempts /\ ~a.cancel_requested
       \/ a.state = "retry_wait"

Swept(a, b) == b = a \/ Back(a, b) \/ (b.state \in TerminalStates /\ Quiet(a, b))

LEMMA BackQuiet == ASSUME NEW a \in Row, NEW b, Back(a, b) PROVE Quiet(a, b)
BY Arrows DEF Back, Quiet, Moves, KeepsModel, SameDeadline, HasRow, Settles

LEMMA ExpireSwept ==
    ASSUME NEW r, RowOK(r)
    PROVE  Swept(r, ExpireSql(r))
<1>0. r \in Row
  BY DEF RowOK
<1>1. CASE ~(r.state \in HeldStates /\ r.lease_expires_at = 0)
  BY <1>1 DEF ExpireSql, Swept
<1>2. CASE r.state \in HeldStates /\ r.lease_expires_at = 0 /\ r.cancel_requested
  <2>1. ExpireSql(r) = MarkCancelledSql(r)
    BY <1>2 DEF ExpireSql
  <2> QED BY <1>0, <1>2, <2>1, CancelledQuiet, CancelledFields DEF Swept
<1>3. CASE /\ r.state \in HeldStates /\ r.lease_expires_at = 0
           /\ ~r.cancel_requested /\ r.attempt_count >= r.max_attempts
  <2>1. ExpireSql(r) = Ended(r, "dead_letter")
    BY <1>3 DEF ExpireSql, FailFrom, Failure
  <2> QED BY <1>0, <1>3, <2>1, EndedQuiet, EndedFields DEF Swept
<1>4. CASE /\ r.state \in HeldStates /\ r.lease_expires_at = 0
           /\ ~r.cancel_requested /\ ~(r.attempt_count >= r.max_attempts)
  <2>1. ExpireSql(r) = Unleased(r, "queued")
    BY <1>4 DEF ExpireSql
  <2>2. r.attempt_count < r.max_attempts
    BY <1>0, <1>4 DEF Row
  <2>3. Back(r, Unleased(r, "queued"))
    BY <1>0, <1>4, <2>2 DEF Back, Unleased, Row, Instant
  <2> QED BY <2>1, <2>3 DEF Swept
<1> QED BY <1>1, <1>2, <1>3, <1>4

LEMMA PromoteSwept ==
    ASSUME NEW r, RowOK(r), NEW b, Swept(r, b)
    PROVE  Swept(r, PromoteDue(b))
<1>1. CASE b.state # "retry_wait"
  BY <1>1 DEF PromoteDue
<1>2. CASE b.state = "retry_wait"
  <2>1. b = r
    BY <1>2 DEF Swept, Back
  <2> DEFINE e == [r EXCEPT !.state = "queued"]
  <2>2. Back(r, e)
    BY <1>2, <2>1 DEF Back, RowOK, Row
  <2>3. PromoteDue(b) = r \/ PromoteDue(b) = e
    BY <2>1 DEF PromoteDue
  <2> HIDE DEF e
  <2> QED BY <2>2, <2>3 DEF Swept
<1> QED BY <1>1, <1>2

LEMMA FailLateSwept ==
    ASSUME NEW r \in Row, NEW b, Swept(r, b)
    PROVE  Swept(r, FailLate(b))
<1>1. CASE ~(b.deadline_at = 0 /\ b.state = "queued")
  BY <1>1 DEF FailLate, FailFrom
<1>2. CASE b.state = "queued" /\ FailLate(b) = Ended(b, "failed")
  <2>1. CASE b = r
    BY <1>2, <2>1, EndedQuiet, EndedFields DEF Swept
  <2>2. CASE Back(r, b)
    <3>1. b \in Row
      BY <2>2 DEF Back
    <3>2. Quiet(r, Ended(b, "failed"))
      BY <2>2, <3>1, EndedFields, Arrows
         DEF Back, Quiet, Moves, KeepsModel, SameDeadline, HasRow, Settles
    <3> QED BY <1>2, <3>1, <3>2, EndedFields DEF Swept
  <2> QED BY <1>2, <2>1, <2>2 DEF Swept
<1> QED BY <1>1, <1>2 DEF FailLate, FailFrom, Failure

LEMMA CancelFlaggedSwept ==
    ASSUME NEW r \in Row, NEW b, Swept(r, b)
    PROVE  Swept(r, CancelFlagged(b))
<1>1. CASE ~(b.cancel_requested /\ b.state \in {"queued", "retry_wait", "staged"})
  BY <1>1 DEF CancelFlagged
<1>2. CASE /\ b.cancel_requested /\ b.state \in {"queued", "retry_wait", "staged"}
           /\ CancelFlagged(b) = MarkCancelledSql(b)
  <2>1. CASE b = r
    BY <1>2, <2>1, CancelledQuiet, CancelledFields DEF Swept
  <2>2. CASE Back(r, b)
    <3>1. b \in Row
      BY <2>2 DEF Back
    <3>2. Quiet(r, MarkCancelledSql(b))
      BY <2>2, <3>1, CancelledFields, Arrows
         DEF Back, Quiet, Moves, KeepsModel, SameDeadline, HasRow, Settles
    <3> QED BY <1>2, <3>1, <3>2, CancelledFields DEF Swept
  <2> QED BY <1>2, <2>1, <2>2 DEF Swept
<1> QED BY <1>1, <1>2 DEF CancelFlagged

LEMMA MaintenanceQuiet ==
    ASSUME NEW r, RowOK(r)
    PROVE  Quiet(r, Maintenance(r))
<1>0. r \in Row
  BY DEF RowOK
<1>1. Swept(r, ExpireSql(r))
  BY ExpireSwept
<1>2. Swept(r, PromoteDue(ExpireSql(r)))
  BY <1>1, PromoteSwept
<1>3. Swept(r, Maintenance(r))
  BY <1>0, <1>2, FailLateSwept, CancelFlaggedSwept DEF Maintenance
<1> QED BY <1>0, <1>3, SameQuiet, BackQuiet DEF Swept

\* A claim charges one attempt and changes the lease.
LEMMA ClaimGoes ==
    ASSUME NEW r, RowOK(r), NEW o \in Owners, Claimable(r, TRUE)
    PROVE  LET c == ClaimSql(r, o, TRUE) IN
           /\ Goes(r, c) /\ ~Settles(r, c) /\ SameDeadline(r, c)
           /\ c.resolved_model = r.resolved_model
<1> DEFINE c == [r EXCEPT !.state = "leased", !.lease_owner = o,
                          !.lease_expires_at = LeaseTicks, !.attempt_count = @ + 1]
<1>1. c = ClaimSql(r, o, TRUE)
  BY DEF ClaimSql
<1>2. /\ r \in Row /\ r.state = "queued" /\ r.cancel_requested = FALSE
      /\ r.attempt_count \in Nat /\ r.max_attempts \in Nat /\ r.attempt_count < r.max_attempts
  BY DEF RowOK, Row, Claimable
<1>3. /\ c \in Row /\ c.state = "leased" /\ c.attempt_count = r.attempt_count + 1
      /\ c.max_attempts = r.max_attempts /\ c.cancel_requested = FALSE
      /\ c.deadline_at = r.deadline_at /\ c.resolved_model = r.resolved_model
  <2>1. r.attempt_count + 1 \in Nat /\ LeaseTicks \in Instant
    BY <1>2, LeaseAssumption DEF Instant
  <2> QED BY <1>2, <2>1 DEF Row
<1> HIDE DEF c
<1>4. Goes(r, c)
  BY <1>2, <1>3, Arrows
<1> QED BY <1>1, <1>2, <1>3, <1>4 DEF Settles, SameDeadline, HasRow

\* Every non-empty set of naturals has a least element.  The prover has no
\* induction over naturals, so this rests on the well-foundedness of strict
\* inclusion: the least x is the one whose 0 .. x is smallest.
LEMMA LeastNat ==
    ASSUME NEW T \in SUBSET Nat, T # {}
    PROVE  \E x \in T : \A y \in T : x <= y
<1>1. PICK b \in T : TRUE
  OBVIOUS
<1>. DEFINE S == 0 .. b
            I == {s \in SUBSET S : \E x \in T : x <= b /\ s = 0 .. x}
<1>2. IsWellFoundedOn(StrictSubsetOrdering(S), SUBSET S)
  <2>1. IsFiniteSet(S)
    BY <1>1, FS_Interval
  <2>. HIDE DEF S
  <2>2. FiniteSubsetsOf(S) = SUBSET S
    BY <2>1, FS_FiniteSubsetsOfFinite
  <2>3. IsWellFoundedOn(StrictSubsetOrdering(S), FiniteSubsetsOf(S))
    BY FS_StrictSubsetOrderingWellFounded
  <2>. QED BY <2>2, <2>3
<1>3. I \subseteq SUBSET S /\ I # {}
  <2>1. 0 .. b \in I
    BY <1>1
  <2>. QED BY <2>1
<1>4. PICK s \in I : \A t \in I : ~ (<<t, s>> \in StrictSubsetOrdering(S))
  <2>. HIDE DEF I, S
  <2>. QED BY <1>2, <1>3, WFMin
<1>5. PICK x \in T : x <= b /\ s = 0 .. x
  OBVIOUS
<1>6. ASSUME NEW y \in T, y < x PROVE FALSE
  <2>1. 0 .. y \in I
    BY <1>1, <1>5, <1>6
  <2>2. <<0 .. y, s>> \in (SUBSET S) \X (SUBSET S)
    BY <2>1
  <2>3. 0 .. y \subseteq s /\ 0 .. y # s
    <3>1. x \in s /\ x \notin 0 .. y
      BY <1>5, <1>6
    <3>. QED BY <3>1, <1>5, <1>6
  <2>. QED BY <2>1, <2>2, <2>3, <1>4 DEF StrictSubsetOrdering
<1>. QED BY <1>6
=============================================================================
