---------------------------- MODULE MemoryProofs ----------------------------
(***************************************************************************)
(* The in-memory backend, for every number of jobs, keys, models and tokens *)
(* and every order of calls: its ready index offers exactly what can be     *)
(* claimed, its keys name exactly the jobs that carry them, its sweep ends  *)
(* a job as SQLite's does, and it implements the job lifecycle.             *)
(*                                                                         *)
(* ReadyIsIndexed is not inductive: a claim drops the entries of jobs that  *)
(* are not claimable now, so the proof needs that none of those becomes     *)
(* claimable later without passing by a step that indexes it.  That holds   *)
(* because whatever is queued is due already (DueOK) and its batch, if it   *)
(* has one, is active (MembersWait).                                       *)
(***************************************************************************)
EXTENDS MemoryQueue, QueueRowsProofs

\* A job that is staged, queued or held has waited out its backoff.
DueOK(r) == r.state \in {"staged", "queued", "leased", "running"} => Due(r.not_before)

\* Queued, and neither late nor cancelled.
Live(r) == r.state = "queued" /\ r.deadline_at # 0 /\ ~r.cancel_requested

\* The states a member of a batch reaches only once the batch is active.
Launched == {"queued", "leased", "running", "retry_wait", "failed", "dead_letter", "succeeded"}

QueuedIsOffered == \A j \in Jobs : Live(jobs[j]) => index[j] = jobs[j].resolved_model
MembersWait     == \A j \in members : /\ jobs[j].state # "absent"
                                      /\ jobs[j].state \in Launched => batch = "active"

RowsOK  == jobs \in [Jobs -> Row] /\ \A j \in Jobs : RowOK(jobs[j]) /\ DueOK(jobs[j])
TypesOK == /\ index \in [Jobs -> Models \cup {Null}]
           /\ key \in [Jobs -> Keys \cup {Null}] /\ keys \in [Keys -> Jobs \cup {Null}]
           /\ members \subseteq Jobs

MInv == /\ RowsOK /\ TypesOK
        /\ OfferedIsQueued /\ QueuedIsOffered /\ KeysMatchJobs /\ MembersWait

USE DEF TerminalStates, IncompleteStates, NoRowStates, JobStates, HeldStates

(***************************************************************************)
(* One row.                                                                *)
(***************************************************************************)
\* What no call on an existing job may break, whatever it does to it.
Follows(a, b) ==
    /\ RowOK(b) /\ DueOK(b) /\ Goes(a, b)
    /\ IF HasRow(a) THEN HasRow(b) ELSE b.state = a.state
    /\ b.state \in Launched => a.state \in Launched

\* A call that may leave the index alone: the job is queued after it only if it
\* was before, and on the same model.
Calm(a, b) ==
    /\ (a.state = "queued") <=> (b.state = "queued")
    /\ b.state = "queued" => b.resolved_model = a.resolved_model /\ (Live(b) => Live(a))

LEMMA RowFields ==
    ASSUME NEW r, RowOK(r)
    PROVE  r \in Row /\ r.state \in JobStates
BY DEF RowOK, Row

LEMMA MovesFollow ==
    ASSUME NEW a, NEW b, RowOK(b), Moves(a, b), DueOK(b), b.state \in Launched => a.state \in Launched
    PROVE  Follows(a, b)
BY DEF Moves, SameDeadline, Follows

LEMMA SameFollows ==
    ASSUME NEW r, RowOK(r), DueOK(r)
    PROVE  Follows(r, r) /\ Calm(r, r)
BY DEF Follows, Calm, Goes

\* An end: of a failed or completed attempt, or by a cancellation.
LEMMA EndFollows ==
    ASSUME NEW r, RowOK(r), NEW s \in {"succeeded", "failed", "dead_letter"}, r.state \in Launched
    PROVE  LET e == Ended(r, s) IN
           /\ RowOK(e) /\ DueOK(e) /\ IsTerminal(e) /\ (e.state \in Launched => r.state \in Launched)
<1>1. RowOK(Ended(r, s)) /\ Ended(r, s).state = s
  BY EndedOK, EndedFields DEF RowOK
<1> QED BY <1>1 DEF DueOK, IsTerminal

LEMMA CancelledFollows ==
    ASSUME NEW r, RowOK(r), r.state \in IncompleteStates
    PROVE  Follows(r, MarkCancelledSql(r)) /\ IsTerminal(MarkCancelledSql(r))
<1>1. RowOK(MarkCancelledSql(r)) /\ MarkCancelledSql(r).state = "cancelled"
  BY MarkCancelledOK, CancelledFields DEF RowOK
<1>2. Moves(r, MarkCancelledSql(r))
  BY CancelledQuiet DEF RowOK, Quiet
<1> QED BY <1>1, <1>2, MovesFollow DEF DueOK, IsTerminal, Launched

LEMMA FailedFollows ==
    ASSUME NEW r, RowOK(r), NEW s \in {"failed", "dead_letter"},
           r.state \in {"running", "queued", "retry_wait", "leased"}
    PROVE  Follows(r, Ended(r, s)) /\ IsTerminal(Ended(r, s))
<1>1. Moves(r, Ended(r, s))
  BY EndedQuiet DEF RowOK, Quiet
<1> QED BY <1>1, EndFollows, MovesFollow DEF Launched

\* The calls of a worker that leave the index alone.
LEMMA UpdateFollows ==
    ASSUME NEW r, RowOK(r), DueOK(r), NEW o, NEW b,
           b \in {ExtendLease(r, o), MarkRunning(r, o), Complete(r, o)}
    PROVE  Follows(r, b) /\ Calm(r, b)
<1>1. RowOK(b) /\ Moves(r, b)
  <2>1. r \in Row /\ FALSE \in BOOLEAN
    BY RowFields
  <2>2. RowOK(ExtendLease(r, o)) /\ RowOK(MarkRunning(r, o))
    BY HoldOK
  <2>3. Moves(r, ExtendLease(r, o)) /\ Moves(r, MarkRunning(r, o))
    BY <2>1, HoldQuiet DEF Quiet
  <2>4. RowOK(Complete(r, o)) /\ Moves(r, Complete(r, o))
    BY <2>1, SettleOK, CompleteMoves
  <2> QED BY <2>2, <2>3, <2>4
<1>2. CASE b = r
  BY <1>2, SameFollows
<1>3. CASE b = ExtendLease(r, o) /\ Holds(r, o)
  <2>1. b.state = r.state /\ b.not_before = r.not_before
    BY <1>3 DEF ExtendLease, RowOK, Row
  <2>2. b.state \in HeldStates
    BY <1>3, <2>1 DEF Holds
  <2> QED BY <1>1, <2>1, <2>2, MovesFollow DEF DueOK, Calm
<1>4. CASE b = MarkRunning(r, o) /\ CanMarkRunning(r, o)
  <2>1. b.state = "running" /\ b.not_before = r.not_before /\ r.state = "leased"
    BY <1>4 DEF MarkRunning, CanMarkRunning, RowOK, Row
  <2> QED BY <1>1, <2>1, MovesFollow DEF DueOK, Calm, Launched
<1>5. CASE b = Complete(r, o) /\ OwnedRunning(r, o)
  <2>1. b = Ended(r, "succeeded") /\ r.state = "running"
    BY <1>5 DEF Complete, OwnedRunning
  <2>2. b.state = "succeeded"
    BY <2>1, EndedFields DEF RowOK
  <2> QED BY <1>1, <2>1, <2>2, MovesFollow DEF DueOK, Calm, Launched
<1> QED BY <1>2, <1>3, <1>4, <1>5 DEF ExtendLease, MarkRunning, Complete

\* The calls of a worker that take the job out of the index.
LEMMA GiveUpFollows ==
    ASSUME NEW r, RowOK(r), DueOK(r), NEW o, NEW dead \in BOOLEAN
    PROVE  /\ OwnedRunning(r, o) => Follows(r, Fail(r, o, dead)) /\ IsTerminal(Fail(r, o, dead))
           /\ Holds(r, o) => Follows(r, FinishCancel(r, o)) /\ IsTerminal(FinishCancel(r, o))
<1>1. ASSUME OwnedRunning(r, o)
      PROVE  Follows(r, Fail(r, o, dead)) /\ IsTerminal(Fail(r, o, dead))
  BY <1>1, FailedFollows DEF Fail, Failure, OwnedRunning
<1>2. ASSUME Holds(r, o)
      PROVE  Follows(r, FinishCancel(r, o)) /\ IsTerminal(FinishCancel(r, o))
  BY <1>2, CancelledFollows DEF FinishCancel, Holds
<1> QED BY <1>1, <1>2

LEMMA RetryFollows ==
    ASSUME NEW r, RowOK(r), NEW o, NEW delay \in Nat, NEW m \in Models,
           OwnedRunning(r, o), r.attempt_count < r.max_attempts
    PROVE  LET b == Retry(r, o, delay, m) IN Follows(r, b) /\ b.state = "retry_wait"
<1> DEFINE b == Retry(r, o, delay, m)
<1>1. RowOK(b) /\ Moves(r, b)
  BY RetryOK, RetryMoves DEF RowOK
<1>2. b.state = "retry_wait" /\ r.state = "running"
  BY DEF Retry, OwnedRunning, Unleased, RowOK, Row
<1> HIDE DEF b
<1>3. Follows(r, b)
  BY <1>1, <1>2, MovesFollow DEF DueOK, Launched
<1> QED BY <1>2, <1>3 DEF b

LEMMA ReleaseFollows ==
    ASSUME NEW r, RowOK(r), DueOK(r), NEW m \in Models, r.state \in HeldStates
    PROVE  LET b == ReleaseSql(r, r.lease_owner, m) IN
           Follows(r, b) /\ b.state = "queued" /\ b.resolved_model = m
<1> DEFINE b == ReleaseSql(r, r.lease_owner, m)
<1>1. RowOK(b) /\ Moves(r, b)
  BY ReleaseOK, ReleaseQuiet DEF Quiet
<1>2. b.state = "queued" /\ b.resolved_model = m /\ b.not_before = r.not_before
  BY DEF ReleaseSql, Holds, Unleased, RowOK, Row
<1> HIDE DEF b
<1>3. Follows(r, b)
  BY <1>1, <1>2, MovesFollow DEF DueOK, Launched
<1> QED BY <1>2, <1>3 DEF b

LEMMA CancelFollows ==
    ASSUME NEW r, RowOK(r), DueOK(r)
    PROVE  /\ Follows(r, Cancel(r))
           /\ r.state \in IncompleteStates \ {"running"} => IsTerminal(Cancel(r))
           /\ r.state \notin IncompleteStates \ {"running"} => Calm(r, Cancel(r))
<1>1. CASE r.state \in IncompleteStates \ {"running"}
  BY <1>1, CancelledFollows DEF Cancel
<1>2. CASE r.state = "running"
  <2>1. RowOK(Cancel(r)) /\ Moves(r, Cancel(r))
    BY CancelOK, CancelQuiet DEF RowOK, Quiet
  <2>2. Cancel(r).state = "running" /\ Cancel(r).not_before = r.not_before
    BY <1>2 DEF Cancel, RowOK, Row
  <2> QED BY <1>2, <2>1, <2>2, MovesFollow DEF DueOK, Calm, Launched
<1>3. CASE r.state \notin IncompleteStates
  <2>1. Cancel(r) = r
    BY <1>3 DEF Cancel
  <2> QED BY <1>3, <2>1, SameFollows
<1> QED BY <1>1, <1>2, <1>3

LEMMA RequeueFollows ==
    ASSUME NEW r, RowOK(r), Requeueable(r)
    PROVE  LET b == Requeue(r) IN
           Follows(r, b) /\ b.state = "queued" /\ b.resolved_model = r.resolved_model
<1> DEFINE b == Requeue(r)
<1>1. RowOK(b) /\ Moves(r, b)
  BY RequeueOK, RequeueQuiet DEF RowOK, Quiet
<1>2. b.state = "queued" /\ b.resolved_model = r.resolved_model /\ b.not_before = Null
  BY DEF Requeue, Unleased, RowOK, Row
<1> HIDE DEF b
<1>3. Follows(r, b)
  BY <1>1, <1>2, MovesFollow DEF DueOK, Due, Launched, Requeueable
<1> QED BY <1>2, <1>3 DEF b

LEMMA ClaimFollows ==
    ASSUME NEW r, RowOK(r), DueOK(r), NEW o \in Owners, Claimable(r, TRUE)
    PROVE  LET b == ClaimSql(r, o, TRUE) IN Follows(r, b) /\ b.state = "leased"
<1> DEFINE b == ClaimSql(r, o, TRUE)
<1>1. RowOK(b) /\ Goes(r, b)
  BY ClaimOK, ClaimGoes
<1>2. b.state = "leased" /\ b.not_before = r.not_before /\ r.state = "queued"
  BY DEF ClaimSql, Claimable, RowOK, Row
<1> HIDE DEF b
<1>3. Follows(r, b)
  BY <1>1, <1>2 DEF Follows, DueOK, Launched, HasRow
<1> QED BY <1>2, <1>3 DEF b

LEMMA ElapseFollows ==
    ASSUME NEW r, RowOK(r), DueOK(r)
    PROVE  Follows(r, Elapse(r)) /\ Calm(r, Elapse(r))
<1> DEFINE b == Elapse(r)
<1>1. RowOK(b)
  BY ElapseOK
<1>2. /\ b.state = r.state /\ b.attempt_count = r.attempt_count
      /\ b.max_attempts = r.max_attempts /\ b.cancel_requested = r.cancel_requested
      /\ b.not_before = Sooner(r.not_before) /\ b.deadline_at = Sooner(r.deadline_at)
      /\ b.resolved_model = r.resolved_model
  BY DEF Elapse, RowOK, Row
<1>3. r.deadline_at = 0 => b.deadline_at = 0
  BY <1>2 DEF Sooner
<1>4. Due(r.not_before) => Due(b.not_before)
  BY <1>2 DEF Sooner, Due
<1> HIDE DEF b
<1>5. Goes(r, b)
  BY <1>1, <1>2, RowFields, Arrows
<1>6. DueOK(b)
  BY <1>2, <1>4 DEF DueOK
<1>7. Follows(r, b)
  BY <1>1, <1>2, <1>5, <1>6 DEF Follows, HasRow
<1>8. Calm(r, b)
  BY <1>2, <1>3 DEF Calm, Live
<1> QED BY <1>7, <1>8 DEF b

\* One job in one sweep.
LEMMA SweepFollows ==
    ASSUME NEW r, RowOK(r), DueOK(r)
    PROVE  /\ Follows(r, SweepOne(r))
           /\ r.state = "queued" => SweepOne(r) = r \/ IsTerminal(SweepOne(r))
<1> DEFINE b == SweepOne(r)
<1>0. r \in Row
  BY RowFields
<1>1. CASE r.state \in HeldStates /\ r.lease_expires_at = 0
  <2>1. b = ExpireSql(r)
    BY <1>1 DEF SweepOne, ExpireLease
  <2>2. RowOK(b) /\ Moves(r, b)
    BY <1>0, <2>1, ExpireOK, ExpireSwept, SameQuiet, BackQuiet DEF Swept, Quiet
  <2>3. CASE b = Unleased(r, "queued")
    <3>1. b.state = "queued" /\ b.not_before = r.not_before
      BY <1>0, <2>3 DEF Unleased, Row
    <3> QED BY <1>1, <2>2, <3>1, MovesFollow DEF DueOK, Launched
  <2>4. CASE b.state \in TerminalStates
    BY <1>1, <2>2, <2>4, MovesFollow DEF DueOK, Launched
  <2>5. b = Unleased(r, "queued") \/ b.state \in TerminalStates
    <3>1. b \in {MarkCancelledSql(r), Ended(r, "dead_letter"), Unleased(r, "queued")}
      BY <1>1, <2>1 DEF ExpireSql, FailFrom, Failure
    <3> QED BY <1>0, <3>1, CancelledFields, EndedFields
  <2> QED BY <1>1, <2>3, <2>4, <2>5
<1>2. CASE r.state = "retry_wait" /\ Due(r.not_before)
  <2>1. b = PromoteDue(r)
    BY <1>2 DEF SweepOne
  <2>2. RowOK(b) /\ b.state = "queued" /\ b.not_before = r.not_before
    BY <1>0, <1>2, <2>1, PromoteOK DEF PromoteDue, Row
  <2>3. Moves(r, b)
    BY <1>0, <2>1, SameQuiet, BackQuiet, PromoteSwept DEF Swept, Quiet
  <2> QED BY <1>2, <2>2, <2>3, MovesFollow DEF DueOK, Launched
<1>3. CASE r.state = "queued" /\ r.deadline_at = 0
  <2>1. b = Ended(r, "failed")
    BY <1>3 DEF SweepOne, FailLate, FailFrom, Failure
  <2> QED BY <1>3, <2>1, FailedFollows
<1>4. CASE b = CancelFlagged(r)
  <2>1. b = r \/ (b = MarkCancelledSql(r) /\ r.state \in IncompleteStates)
    BY <1>4 DEF CancelFlagged
  <2> QED BY <2>1, SameFollows, CancelledFollows
<1> QED BY <1>1, <1>2, <1>3, <1>4 DEF SweepOne

\* Two sweeps of this backend do what one of SQLite's does.
LEMMA TwoSweeps ==
    ASSUME NEW r \in Row
    PROVE  SweepOne(SweepOne(r)) = Maintenance(r)
<1>1. ASSUME NEW e \in Row, e.state \in TerminalStates
      PROVE  /\ SweepOne(e) = e /\ Maintenance(e) = e /\ PromoteDue(e) = e
             /\ FailLate(e) = e /\ CancelFlagged(e) = e
  BY <1>1 DEF SweepOne, Maintenance, ExpireSql, PromoteDue, FailLate, FailFrom, CancelFlagged
<1>2. ASSUME NEW q \in Row, q.state = "queued"
      PROVE  SweepOne(q) = CancelFlagged(FailLate(q)) /\ PromoteDue(q) = q
  <2>1. CASE q.deadline_at = 0
    <3>1. FailLate(q) = Ended(q, "failed")
      BY <1>2, <2>1 DEF FailLate, FailFrom, Failure
    <3>2. Ended(q, "failed") \in Row /\ Ended(q, "failed").state = "failed"
      BY EndedFields
    <3> QED BY <1>2, <2>1, <3>1, <3>2, <1>1 DEF SweepOne, PromoteDue
  <2>2. CASE q.deadline_at # 0
    BY <1>2, <2>2 DEF SweepOne, PromoteDue, FailLate
  <2> QED BY <2>1, <2>2
<1>3. CASE r.state \in HeldStates /\ r.lease_expires_at = 0
  <2>1. SweepOne(r) = ExpireSql(r)
    BY <1>3 DEF SweepOne, ExpireLease
  <2>2. ExpireSql(r) \in {MarkCancelledSql(r), Ended(r, "dead_letter"), Unleased(r, "queued")}
    BY <1>3 DEF ExpireSql, FailFrom, Failure
  <2>3. /\ ExpireSql(r) \in Row
        /\ ExpireSql(r).state \in TerminalStates \/ ExpireSql(r).state = "queued"
    BY <2>2, CancelledFields, EndedFields, UnleasedFields
  <2> QED BY <2>1, <2>3, <1>1, <1>2 DEF Maintenance
<1>4. CASE r.state = "retry_wait" /\ Due(r.not_before)
  <2>1. SweepOne(r) = PromoteDue(r) /\ ExpireSql(r) = r
    BY <1>4 DEF SweepOne, ExpireSql
  <2>2. PromoteDue(r) \in Row /\ PromoteDue(r).state = "queued"
    BY <1>4 DEF PromoteDue, Row
  <2> QED BY <2>1, <2>2, <1>2 DEF Maintenance
<1>5. CASE r.state = "queued"
  <2>1. ExpireSql(r) = r /\ PromoteDue(r) = r /\ Maintenance(r) = SweepOne(r)
    BY <1>5, <1>2 DEF ExpireSql, Maintenance
  <2>2. SweepOne(r) = r \/ (SweepOne(r) \in Row /\ SweepOne(r).state \in TerminalStates)
    BY <1>5, EndedFields, CancelledFields
       DEF SweepOne, FailLate, FailFrom, Failure, CancelFlagged
  <2> QED BY <2>1, <2>2, <1>1
<1>6. CASE /\ ~(r.state \in HeldStates /\ r.lease_expires_at = 0)
           /\ ~(r.state = "retry_wait" /\ Due(r.not_before)) /\ r.state # "queued"
  <2>1. SweepOne(r) = CancelFlagged(r) /\ Maintenance(r) = CancelFlagged(r)
    BY <1>6 DEF SweepOne, Maintenance, ExpireSql, PromoteDue, FailLate, FailFrom
  <2>2. CancelFlagged(r) = r \/ CancelFlagged(r) = MarkCancelledSql(r)
    BY DEF CancelFlagged
  <2> QED BY <2>1, <2>2, <1>1, CancelledFields
<1> QED BY <1>3, <1>4, <1>5, <1>6

(***************************************************************************)
(* Steps on jobs that exist.                                               *)
(***************************************************************************)
\* How the index follows one job.
Tracks(j) ==
    \/ index'[j] = index[j] /\ Calm(jobs[j], jobs'[j])
    \/ index'[j] = Null /\ ~Live(jobs'[j])
    \/ index'[j] = jobs'[j].resolved_model /\ jobs'[j].state = "queued"

JobsGo == \A j \in Jobs : Goes(jobs[j], jobs'[j])

\* The index stays right when it follows every job.
LEMMA IndexStep ==
    ASSUME MInv, jobs' \in [Jobs -> Row], \A j \in Jobs : Tracks(j)
    PROVE  OfferedIsQueued' /\ QueuedIsOffered'
<1>1. ASSUME NEW j \in Jobs, index'[j] # Null
      PROVE  jobs'[j].state = "queued" /\ index'[j] = jobs'[j].resolved_model
  BY <1>1 DEF MInv, OfferedIsQueued, Tracks, Calm
<1>2. ASSUME NEW j \in Jobs, Live(jobs'[j])
      PROVE  index'[j] = jobs'[j].resolved_model
  <2>1. jobs'[j].state = "queued"
    BY <1>2 DEF Live
  <2> QED BY <1>2, <2>1 DEF MInv, QueuedIsOffered, Tracks, Calm
<1> QED BY <1>1, <1>2 DEF OfferedIsQueued, QueuedIsOffered

\* A step that leaves keys and batch alone.
LEMMA CallStep ==
    ASSUME MInv, SameBatch, jobs' \in [Jobs -> Row], index' \in [Jobs -> Models \cup {Null}],
           \A j \in Jobs : Follows(jobs[j], jobs'[j]) /\ Tracks(j)
    PROVE  MInv' /\ JobsGo
<1>1. OfferedIsQueued' /\ QueuedIsOffered'
  BY IndexStep
<1>2. RowsOK' /\ TypesOK' /\ JobsGo
  BY DEF MInv, RowsOK, TypesOK, Follows, SameBatch, JobsGo
<1>3. KeysMatchJobs'
  <2>1. key' = key /\ keys' = keys /\ keys \in [Keys -> Jobs \cup {Null}]
    BY DEF SameBatch, MInv, TypesOK
  <2>2. \A j \in Jobs : HasRow(jobs[j]) <=> HasRow(jobs'[j])
    BY DEF Follows, HasRow
  <2> QED BY <2>1, <2>2 DEF MInv, KeysMatchJobs
<1>4. MembersWait'
  <2>1. members' = members /\ batch' = batch /\ members \subseteq Jobs
    BY DEF SameBatch, MInv, TypesOK
  <2>2. \A j \in Jobs : /\ jobs[j].state # "absent" => jobs'[j].state # "absent"
                        /\ jobs'[j].state \in Launched => jobs[j].state \in Launched
    BY DEF Follows, HasRow
  <2> QED BY <2>1, <2>2 DEF MInv, MembersWait
<1> QED BY <1>1, <1>2, <1>3, <1>4 DEF MInv

LEMMA InvFacts ==
    ASSUME MInv
    PROVE  /\ jobs \in [Jobs -> Row] /\ index \in [Jobs -> Models \cup {Null}]
           /\ \A j \in Jobs : /\ RowOK(jobs[j]) /\ DueOK(jobs[j]) /\ jobs[j] \in Row
                              /\ Follows(jobs[j], jobs[j]) /\ Calm(jobs[j], jobs[j])
                              /\ jobs[j].resolved_model \in Models
<1>1. jobs \in [Jobs -> Row] /\ \A j \in Jobs : RowOK(jobs[j]) /\ DueOK(jobs[j])
  BY DEF MInv, RowsOK
<1>2. \A j \in Jobs : jobs[j].resolved_model \in Models
  BY <1>1 DEF Row
<1> QED BY <1>1, <1>2, SameFollows DEF MInv, TypesOK

\* One job changes.
LEMMA OneJob ==
    ASSUME MInv, SameBatch, NEW j \in Jobs, NEW b, Only(j, b), Follows(jobs[j], b),
           \/ UNCHANGED index /\ Calm(jobs[j], b)
           \/ index' = Unindexed({j}) /\ ~Live(b)
           \/ index' = [index EXCEPT ![j] = b.resolved_model] /\ b.state = "queued"
    PROVE  MInv' /\ JobsGo
<1>1. b \in Row /\ b.resolved_model \in Models
  BY DEF Follows, RowOK, Row
<1>2. /\ jobs' \in [Jobs -> Row]
      /\ \A k \in Jobs : jobs'[k] = IF k = j THEN b ELSE jobs[k]
  BY <1>1, InvFacts DEF Only
<1>3. index' \in [Jobs -> Models \cup {Null}]
  BY <1>1, InvFacts DEF Unindexed
<1>4. \A k \in Jobs \ {j} : index'[k] = index[k]
  BY InvFacts DEF Unindexed
<1>5. Tracks(j)
  BY <1>2, InvFacts DEF Tracks, Unindexed
<1>6. \A k \in Jobs : Follows(jobs[k], jobs'[k]) /\ Tracks(k)
  BY <1>2, <1>4, <1>5, InvFacts DEF Tracks
<1> QED BY <1>2, <1>3, <1>6, CallStep

\* Several jobs change, those of S, and T leaves the index.
LEMMA ManyJobs ==
    ASSUME MInv, SameBatch, jobs' \in [Jobs -> Row], NEW T,
           index' = Unindexed(T),
           \A j \in Jobs : /\ Follows(jobs[j], jobs'[j])
                           /\ IF j \in T THEN ~Live(jobs'[j]) ELSE Calm(jobs[j], jobs'[j])
    PROVE  MInv' /\ JobsGo
<1>1. index' \in [Jobs -> Models \cup {Null}]
  BY InvFacts DEF Unindexed
<1>2. \A j \in Jobs : Tracks(j)
  BY DEF Tracks, Unindexed
<1> QED BY <1>1, <1>2, CallStep

LEMMA UpdateStep ==
    ASSUME MInv, NEW j \in Jobs, NEW o \in Owners, WorkerUpdate(j, o)
    PROVE  MInv' /\ JobsGo
<1>1. PICK b \in {ExtendLease(jobs[j], o), MarkRunning(jobs[j], o), Complete(jobs[j], o)} :
         Only(j, b) /\ UNCHANGED index /\ SameBatch
  BY DEF WorkerUpdate
<1>2. Follows(jobs[j], b) /\ Calm(jobs[j], b)
  BY InvFacts, UpdateFollows
<1> QED BY <1>1, <1>2, OneJob

LEMMA EndedIsNotLive ==
    ASSUME NEW r, IsTerminal(r) \/ r.state \in {"retry_wait", "leased", "deleted"}
    PROVE  ~Live(r)
BY DEF IsTerminal, Live

LEMMA FailStep ==
    ASSUME MInv, NEW j \in Jobs, NEW o \in Owners, WorkerFail(j, o)
    PROVE  MInv' /\ JobsGo
<1>0. OwnedRunning(jobs[j], o) /\ index' = Unindexed({j}) /\ SameBatch
  BY DEF WorkerFail
<1>1. CASE \E dead \in BOOLEAN : Only(j, Fail(jobs[j], o, dead))
  <2>1. PICK dead \in BOOLEAN : Only(j, Fail(jobs[j], o, dead))
    BY <1>1
  <2>2. Follows(jobs[j], Fail(jobs[j], o, dead)) /\ ~Live(Fail(jobs[j], o, dead))
    BY <1>0, InvFacts, GiveUpFollows, EndedIsNotLive
  <2> QED BY <1>0, <2>1, <2>2, OneJob
<1>2. CASE /\ jobs[j].attempt_count < jobs[j].max_attempts
           /\ \E d \in Delays, m \in Models : Only(j, Retry(jobs[j], o, d, m))
  <2>1. PICK d \in Delays, m \in Models : Only(j, Retry(jobs[j], o, d, m))
    BY <1>2
  <2>2. d \in Nat
    BY MemoryAssumption
  <2>3. Follows(jobs[j], Retry(jobs[j], o, d, m)) /\ ~Live(Retry(jobs[j], o, d, m))
    BY <1>0, <1>2, <2>2, InvFacts, RetryFollows, EndedIsNotLive
  <2> QED BY <1>0, <2>1, <2>3, OneJob
<1> QED BY <1>1, <1>2 DEF WorkerFail

LEMMA CancelledStep ==
    ASSUME MInv, NEW j \in Jobs, NEW o \in Owners, WorkerCancel(j, o)
    PROVE  MInv' /\ JobsGo
<1> DEFINE b == FinishCancel(jobs[j], o)
<1>1. Follows(jobs[j], b) /\ ~Live(b)
  BY InvFacts, GiveUpFollows, EndedIsNotLive DEF WorkerCancel
<1>2. Only(j, b) /\ index' = Unindexed({j}) /\ SameBatch
  BY DEF WorkerCancel
<1> HIDE DEF b
<1> QED BY <1>1, <1>2, OneJob

\* Any set of held jobs goes back to the queue, each to a model of its own.
LEMMA ReleaseStep ==
    ASSUME MInv, SameBatch, NEW S, \A j \in Jobs \cap S : jobs[j].state \in HeldStates,
           NEW m, \A j \in Jobs : m[j] \in Models, Release(S, m)
    PROVE  MInv' /\ JobsGo
<1>1. \A j \in Jobs \cap S :
         LET b == ReleaseSql(jobs[j], jobs[j].lease_owner, m[j]) IN
         Follows(jobs[j], b) /\ b.state = "queued" /\ b.resolved_model = m[j]
  BY InvFacts, ReleaseFollows
<1>2. \A j \in Jobs : jobs'[j] = IF j \in S THEN ReleaseSql(jobs[j], jobs[j].lease_owner, m[j])
                                 ELSE jobs[j]
  BY DEF Release
<1>3. index' \in [Jobs -> Models \cup {Null}]
      /\ \A j \in Jobs : index'[j] = IF j \in S THEN m[j] ELSE index[j]
  BY InvFacts DEF Release
<1>4. \A j \in Jobs : Follows(jobs[j], jobs'[j]) /\ Tracks(j)
  BY <1>1, <1>2, <1>3, InvFacts DEF Tracks
<1>5. jobs' \in [Jobs -> Row]
  BY <1>4 DEF Release, Follows, RowOK
<1> QED BY <1>3, <1>4, <1>5, CallStep

LEMMA CancelStep ==
    ASSUME MInv, NEW S, CancelSet(S)
    PROVE  MInv' /\ JobsGo
<1> DEFINE T == {j \in S : jobs[j].state \in IncompleteStates \ {"running"}}
<1>1. \A j \in Jobs : jobs'[j] = IF j \in S THEN Cancel(jobs[j]) ELSE jobs[j]
  BY DEF CancelSet
<1>2. \A j \in Jobs : /\ Follows(jobs[j], jobs'[j])
                      /\ IF j \in T THEN ~Live(jobs'[j]) ELSE Calm(jobs[j], jobs'[j])
  BY <1>1, InvFacts, CancelFollows, EndedIsNotLive
<1>3. jobs' \in [Jobs -> Row]
  BY <1>2 DEF CancelSet, Follows, RowOK
<1>4. index' = Unindexed(T) /\ SameBatch
  BY DEF CancelSet
<1> HIDE DEF T
<1> QED BY <1>2, <1>3, <1>4, ManyJobs

LEMMA RequeueStep ==
    ASSUME MInv, NEW j \in Jobs, RequeueJob(j)
    PROVE  MInv' /\ JobsGo
<1> DEFINE b == Requeue(jobs[j])
<1>1. /\ Follows(jobs[j], b) /\ b.state = "queued"
      /\ b.resolved_model = jobs[j].resolved_model
  BY InvFacts, RequeueFollows DEF RequeueJob
<1>2. /\ Only(j, b) /\ SameBatch
      /\ index' = [index EXCEPT ![j] = jobs[j].resolved_model]
  BY DEF RequeueJob, Indexed
<1> HIDE DEF b
<1>3. index' = [index EXCEPT ![j] = b.resolved_model]
  BY <1>1, <1>2
<1> QED BY <1>1, <1>2, <1>3, OneJob

LEMMA MaintainStep ==
    ASSUME MInv, Maintain
    PROVE  MInv' /\ JobsGo
<1>1. \A j \in Jobs : jobs'[j] = SweepOne(jobs[j])
  BY DEF Maintain
<1>2. \A j \in Jobs : Follows(jobs[j], jobs'[j])
  BY <1>1, InvFacts, SweepFollows
<1>3. jobs' \in [Jobs -> Row]
  BY <1>2 DEF Maintain, Follows, RowOK
<1>4. ASSUME NEW j \in Jobs PROVE Tracks(j) /\ index'[j] \in Models \cup {Null}
  <2>1. index'[j] = IF jobs[j].state # "queued" /\ jobs'[j].state = "queued"
                    THEN jobs'[j].resolved_model
                    ELSE IF ~IsTerminal(jobs[j]) /\ IsTerminal(jobs'[j]) THEN Null ELSE index[j]
    BY DEF Maintain
  <2>2. jobs'[j].resolved_model \in Models /\ index[j] \in Models \cup {Null}
    BY <1>3, InvFacts DEF Row
  <2>3. jobs[j].state = "queued" => jobs'[j] = jobs[j] \/ IsTerminal(jobs'[j])
    BY <1>1, InvFacts, SweepFollows
  <2>4. CASE jobs'[j].state = "queued" /\ jobs[j].state # "queued"
    BY <2>1, <2>2, <2>4 DEF Tracks
  <2>5. CASE IsTerminal(jobs'[j]) /\ ~IsTerminal(jobs[j])
    <3>1. index'[j] = Null
      BY <2>1, <2>5 DEF IsTerminal
    <3> QED BY <2>5, <3>1, EndedIsNotLive DEF Tracks
  <2>6. CASE /\ ~(jobs'[j].state = "queued" /\ jobs[j].state # "queued")
             /\ ~(IsTerminal(jobs'[j]) /\ ~IsTerminal(jobs[j]))
    <3>1. index'[j] = index[j]
      BY <2>1, <2>6
    <3>2. jobs[j].state = "queued" => jobs'[j] = jobs[j]
      BY <2>3, <2>6 DEF IsTerminal
    <3>3. Calm(jobs[j], jobs'[j])
      BY <2>6, <3>2 DEF Calm
    <3> QED BY <2>2, <3>1, <3>3 DEF Tracks
  <2> QED BY <2>4, <2>5, <2>6
<1>5. index' \in [Jobs -> Models \cup {Null}]
  BY <1>4 DEF Maintain
<1>6. SameBatch
  BY DEF Maintain
<1> QED BY <1>2, <1>3, <1>4, <1>5, <1>6, CallStep

LEMMA TickStep ==
    ASSUME MInv, Tick
    PROVE  MInv' /\ JobsGo
<1>1. \A j \in Jobs : jobs'[j] = Elapse(jobs[j])
  BY DEF Tick
<1>2. \A j \in Jobs : Follows(jobs[j], jobs'[j]) /\ Calm(jobs[j], jobs'[j])
  BY <1>1, InvFacts, ElapseFollows
<1>3. jobs' \in [Jobs -> Row]
  BY <1>2 DEF Tick, Follows, RowOK
<1>4. \A j \in Jobs : Tracks(j)
  BY <1>2 DEF Tick, Tracks
<1>5. index' \in [Jobs -> Models \cup {Null}] /\ SameBatch
  BY InvFacts DEF Tick
<1> QED BY <1>2, <1>3, <1>4, <1>5, CallStep

(***************************************************************************)
(* Claims.                                                                 *)
(***************************************************************************)
\* What the index offers and a claim cannot take will never be claimable: it is
\* due and its batch is active, so it is late or cancelled.
LEMMA IdleIsDead ==
    ASSUME MInv, NEW j \in Jobs, index[j] # Null, ~CanClaim(j)
    PROVE  ~Live(jobs[j])
<1>1. jobs[j].state = "queued"
  BY DEF MInv, OfferedIsQueued
<1>2. Due(jobs[j].not_before) /\ Active(j)
  BY <1>1, InvFacts DEF DueOK, Active, MInv, MembersWait, Launched
<1>3. jobs[j].cancel_requested \in BOOLEAN
  BY InvFacts DEF Row
<1> QED BY <1>1, <1>2, <1>3 DEF CanClaim, Claimable, Live

\* The jobs of S are claimed, those of D leave the index with them.
LEMMA ClaimStep ==
    ASSUME MInv, SameBatch, NEW o \in Owners, NEW S, Claims(S, o),
           \A j \in Jobs \cap S : CanClaim(j),
           NEW D, \A j \in Jobs \cap D : ~Live(jobs[j]),
           index' = Unindexed(D \cup S)
    PROVE  MInv' /\ JobsGo
<1>1. ASSUME NEW j \in Jobs, j \in S
      PROVE  Follows(jobs[j], jobs'[j]) /\ ~Live(jobs'[j])
  <2>1. Active(j) /\ Claimable(jobs[j], TRUE)
    BY <1>1 DEF CanClaim, Claimable
  <2>2. jobs'[j] = ClaimSql(jobs[j], o, TRUE)
    BY <1>1, <2>1 DEF Claims, ClaimSql, CanClaim
  <2> QED BY <2>1, <2>2, InvFacts, ClaimFollows, EndedIsNotLive
<1>2. \A j \in Jobs : j \notin S => jobs'[j] = jobs[j]
  BY DEF Claims
<1> DEFINE T == D \cup S
<1>3. \A j \in Jobs : /\ Follows(jobs[j], jobs'[j])
                      /\ IF j \in T THEN ~Live(jobs'[j]) ELSE Calm(jobs[j], jobs'[j])
  BY <1>1, <1>2, InvFacts
<1>4. jobs' \in [Jobs -> Row]
  BY <1>3 DEF Claims, Follows, RowOK
<1> HIDE DEF T
<1>5. index' = Unindexed(T)
  BY DEF T
<1> QED BY <1>3, <1>4, <1>5, ManyJobs

LEMMA ClaimNextStep ==
    ASSUME MInv, NEW m \in Models, NEW o \in Owners, ClaimNext(m, o)
    PROVE  MInv' /\ JobsGo
<1> DEFINE Offered == {j \in Jobs : index[j] = m}
           Idle    == {j \in Offered : ~CanClaim(j)}
<1>1. SameBatch /\ m # Null
  BY MemoryAssumption DEF ClaimNext
<1>2. PICK D \in SUBSET Idle :
         \/ \E j \in Offered \ Idle : Claims({j}, o) /\ index' = Unindexed(D \cup {j})
         \/ index' = Unindexed(D) /\ UNCHANGED jobs
  BY DEF ClaimNext
<1>3. \A j \in D : ~Live(jobs[j])
  BY <1>1, <1>2, IdleIsDead
<1>4. CASE \E j \in Offered \ Idle : Claims({j}, o) /\ index' = Unindexed(D \cup {j})
  <2>1. PICK j \in Offered \ Idle : Claims({j}, o) /\ index' = Unindexed(D \cup {j})
    BY <1>4
  <2>2. CanClaim(j)
    OBVIOUS
  <2> HIDE DEF Offered, Idle
  <2> DEFINE S == {j}
  <2>3. Claims(S, o) /\ index' = Unindexed(D \cup S) /\ \A i \in S : CanClaim(i)
    BY <2>1, <2>2
  <2> HIDE DEF S
  <2> QED BY <1>1, <1>3, <2>3, ClaimStep
<1>5. CASE index' = Unindexed(D) /\ UNCHANGED jobs
  <2>1. \A j \in Jobs : /\ Follows(jobs[j], jobs'[j])
                        /\ IF j \in D THEN ~Live(jobs'[j]) ELSE Calm(jobs[j], jobs'[j])
    BY <1>3, <1>5, InvFacts
  <2>2. jobs' \in [Jobs -> Row]
    BY <1>5, InvFacts
  <2> HIDE DEF Offered, Idle
  <2> QED BY <1>1, <1>5, <2>1, <2>2, ManyJobs
<1> QED BY <1>2, <1>4, <1>5

LEMMA ClaimCompatibleStep ==
    ASSUME MInv, NEW m \in Models, NEW o \in Owners, ClaimCompatible(m, o)
    PROVE  MInv' /\ JobsGo
<1>1. PICK S \in SUBSET {j \in Jobs : jobs[j].resolved_model = m /\ CanClaim(j)} :
         Claims(S, o) /\ index' = Unindexed(S) /\ SameBatch
  BY DEF ClaimCompatible
<1> DEFINE D == {}
<1>2. D \cup S = S /\ \A j \in Jobs \cap S : CanClaim(j)
  BY <1>1
<1>3. \A j \in Jobs \cap D : ~Live(jobs[j])
  OBVIOUS
<1> HIDE DEF D
<1>4. index' = Unindexed(D \cup S)
  BY <1>1, <1>2
<1> QED BY <1>1, <1>2, <1>3, <1>4, ClaimStep

(***************************************************************************)
(* Submission: jobs that come and go.                                      *)
(***************************************************************************)
LEMMA NoJobOK ==
    ASSUME NEW s \in {"absent", "deleted", "queued", "staged"}
    PROVE  /\ RowOK(NoJob(s)) /\ DueOK(NoJob(s)) /\ NoJob(s).state = s
           /\ NoJob(s).attempt_count = 0 /\ ~NoJob(s).cancel_requested
<1> DEFINE m0 == CHOOSE m \in Models : TRUE
<1>1. m0 \in Models
  BY MemoryAssumption
<1>2. NoJob(s) = [state |-> s, attempt_count |-> 0, max_attempts |-> 1, lease_owner |-> Null,
                  lease_expires_at |-> Null, not_before |-> Null, deadline_at |-> Null,
                  cancel_requested |-> FALSE, finished_at |-> FALSE, resolved_model |-> m0]
  BY DEF NoJob
<1> HIDE DEF m0
<1>3. NoJob(s) \in Row
  BY <1>1, <1>2 DEF Row, Instant
<1> QED BY <1>2, <1>3 DEF RowOK, DueOK, Due

\* A new job.
LEMMA SubmittedOK ==
    ASSUME NEW s \in {"queued", "staged"}, NEW r \in Submissions(s),
           NEW a \in Row, a.state = "absent"
    PROVE  RowOK(r) /\ DueOK(r) /\ r.state = s /\ Goes(a, r)
<1>1. PICK n \in MaxAttemptsSet, d \in Deadlines, m \in Models :
         r = [NoJob(s) EXCEPT !.max_attempts = n, !.deadline_at = d, !.resolved_model = m]
  <2>1. PICK n \in MaxAttemptsSet, d \in Deadlines, m \in Models : r = Submitted(s, n, d, m)
    BY DEF Submissions
  <2> QED BY <2>1 DEF Submitted
<1>2. n \in Nat \ {0} /\ d \in Instant
  BY MemoryAssumption
<1> DEFINE q == NoJob(s)
<1>3. RowOK(q) /\ DueOK(q) /\ q.state = s /\ q.attempt_count = 0 /\ ~q.cancel_requested
  BY NoJobOK
<1>4. q \in Row /\ r = [q EXCEPT !.max_attempts = n, !.deadline_at = d, !.resolved_model = m]
  BY <1>1, <1>3 DEF RowOK
<1> HIDE DEF q
<1>5. /\ r \in Row /\ r.state = s /\ r.attempt_count = 0 /\ r.max_attempts = n
      /\ r.lease_owner = q.lease_owner /\ r.lease_expires_at = q.lease_expires_at
      /\ r.not_before = q.not_before /\ r.finished_at = q.finished_at
      /\ r.cancel_requested = q.cancel_requested
  BY <1>2, <1>3, <1>4 DEF Row
<1>6. RowOK(r) /\ DueOK(r)
  BY <1>2, <1>3, <1>5 DEF RowOK, DueOK
<1>7. Life!Arrow(View(a), View(r))
  <2> DEFINE x == View(a)
             y == View(r)
  <2>1. /\ x.state = "absent" /\ y.state = s /\ y.attempt_count = 0 /\ y.max_attempts = n
        /\ y.cancel_requested = r.cancel_requested
    BY <1>5, ViewFields
  <2> HIDE DEF x, y
  <2>2. Life!Arrow(x, y)
    BY <1>2, <1>3, <1>5, <2>1 DEF Life!Arrow, Life!Created
  <2> QED BY <2>2 DEF x, y
<1> QED BY <1>5, <1>6, <1>7 DEF Goes

\* New jobs S, with the keys that f gives them.
LEMMA RememberOK ==
    ASSUME MInv, NEW S \in SUBSET Jobs, NEW f \in [Jobs -> Keys \cup {Null}], Remember(S, f),
           \A j \in S : ~HasRow(jobs[j]) /\ HasRow(jobs'[j]) /\ ~Taken(f[j]),
           \A i, j \in S : f[i] # Null /\ f[i] = f[j] => i = j,
           \A j \in Jobs \ S : jobs'[j] = jobs[j]
    PROVE  /\ KeysMatchJobs'
           /\ key' \in [Jobs -> Keys \cup {Null}] /\ keys' \in [Keys -> Jobs \cup {Null}]
<1>0. /\ key \in [Jobs -> Keys \cup {Null}] /\ keys \in [Keys -> Jobs \cup {Null}]
      /\ Null \notin Keys \cup Jobs
  BY MemoryAssumption DEF MInv, TypesOK
<1>1. ASSUME NEW j \in Jobs PROVE key'[j] = IF j \in S THEN f[j] ELSE key[j]
  BY DEF Remember
<1>2. ASSUME NEW k \in Keys, NEW j \in S, f[j] = k
      PROVE  keys'[k] = j /\ keys[k] = Null
  <2>1. \A i \in S : f[i] = k => i = j
    BY <1>0, <1>2
  <2>2. keys'[k] = CHOOSE i \in S : f[i] = k
    BY <1>2 DEF Remember
  <2>3. keys[k] = Null
    BY <1>0, <1>2 DEF Taken
  <2> QED BY <1>2, <2>1, <2>2, <2>3
<1>3. ASSUME NEW k \in Keys, \A j \in S : f[j] # k
      PROVE  keys'[k] = keys[k]
  BY <1>3 DEF Remember
<1>4. key' \in [Jobs -> Keys \cup {Null}]
  BY <1>0, <1>1 DEF Remember
<1>5. keys' \in [Keys -> Jobs \cup {Null}]
  <2>1. \A k \in Keys : keys'[k] \in Jobs \cup {Null}
    BY <1>0, <1>2, <1>3
  <2> QED BY <2>1 DEF Remember
<1>6. ASSUME NEW k \in Keys, keys'[k] # Null
      PROVE  HasRow(jobs'[keys'[k]]) /\ key'[keys'[k]] = k
  <2>1. CASE \E j \in S : f[j] = k
    BY <1>1, <1>2, <2>1
  <2>2. CASE \A j \in S : f[j] # k
    <3>1. keys'[k] = keys[k] /\ keys[k] \in Jobs
      BY <1>0, <1>3, <1>6, <2>2
    <3>2. HasRow(jobs[keys[k]]) /\ key[keys[k]] = k
      BY <1>6, <3>1 DEF MInv, KeysMatchJobs
    <3>3. keys[k] \notin S
      BY <3>2
    <3> QED BY <1>1, <3>1, <3>2, <3>3
  <2> QED BY <2>1, <2>2
<1>7. ASSUME NEW j \in Jobs, HasRow(jobs'[j]), key'[j] # Null
      PROVE  keys'[key'[j]] = j
  <2>1. CASE j \in S
    <3>1. key'[j] = f[j] /\ f[j] \in Keys
      BY <1>1, <1>7, <2>1
    <3> QED BY <1>2, <2>1, <3>1
  <2>2. CASE j \notin S
    <3>1. key'[j] = key[j] /\ key[j] \in Keys /\ jobs'[j] = jobs[j]
      BY <1>0, <1>1, <1>7, <2>2
    <3>2. keys[key[j]] = j
      BY <1>7, <3>1 DEF MInv, KeysMatchJobs
    <3>3. \A i \in S : f[i] # key[j]
      BY <1>0, <1>2, <3>1, <3>2
    <3> QED BY <1>3, <3>1, <3>2, <3>3
  <2> QED BY <2>1, <2>2
<1> QED BY <1>4, <1>5, <1>6, <1>7 DEF KeysMatchJobs

LEMMA EnqueueStep ==
    ASSUME MInv, NEW j \in Jobs, NEW k \in Keys \cup {Null}, Enqueue(j, k)
    PROVE  MInv' /\ JobsGo
<1>1. PICK r \in Submissions("queued") : Only(j, r) /\ index' = Indexed(j, r)
  BY DEF Enqueue
<1>2. RowOK(r) /\ DueOK(r) /\ r.state = "queued" /\ Goes(jobs[j], r) /\ r \in Row
      /\ r.resolved_model \in Models
  <2>1. RowOK(r) /\ DueOK(r) /\ r.state = "queued" /\ Goes(jobs[j], r)
    BY InvFacts, SubmittedOK DEF Enqueue
  <2> QED BY <2>1 DEF RowOK, Row
<1>3. /\ jobs' \in [Jobs -> Row] /\ index' \in [Jobs -> Models \cup {Null}]
      /\ \A i \in Jobs : jobs'[i] = IF i = j THEN r ELSE jobs[i]
      /\ \A i \in Jobs : index'[i] = IF i = j THEN r.resolved_model ELSE index[i]
  BY <1>1, <1>2, InvFacts DEF Only, Indexed
<1>4. \A i \in Jobs : Tracks(i)
  BY <1>2, <1>3, InvFacts DEF Tracks
<1>5. OfferedIsQueued' /\ QueuedIsOffered'
  BY <1>3, <1>4, IndexStep
<1>6. /\ KeysMatchJobs'
      /\ key' \in [Jobs -> Keys \cup {Null}] /\ keys' \in [Keys -> Jobs \cup {Null}]
  <2> DEFINE S == {j}
             f == [i \in Jobs |-> k]
  <2>1. S \in SUBSET Jobs /\ f \in [Jobs -> Keys \cup {Null}] /\ Remember(S, f)
    BY DEF Enqueue
  <2>2. \A i \in S : ~HasRow(jobs[i]) /\ HasRow(jobs'[i]) /\ ~Taken(f[i])
    BY <1>2, <1>3 DEF Enqueue, HasRow
  <2>3. \A i, h \in S : i = h
    OBVIOUS
  <2>4. \A i \in Jobs \ S : jobs'[i] = jobs[i]
    BY <1>3
  <2> HIDE DEF S, f
  <2> QED BY <2>1, <2>2, <2>3, <2>4, RememberOK
<1>7. RowsOK' /\ TypesOK' /\ JobsGo
  BY <1>2, <1>3, <1>6, InvFacts DEF RowsOK, TypesOK, JobsGo, Follows, Enqueue, MInv
<1>8. MembersWait'
  <2>1. j \notin members /\ UNCHANGED <<members, batch>> /\ members \subseteq Jobs
    BY DEF Enqueue, MInv, MembersWait, TypesOK
  <2> QED BY <1>3, <2>1 DEF MInv, MembersWait
<1> QED BY <1>5, <1>6, <1>7, <1>8 DEF MInv

LEMMA StageStep ==
    ASSUME MInv, NEW chunk \in Chunks, NEW f \in [Jobs -> Keys \cup {Null}], StageJobs(chunk, f)
    PROVE  MInv' /\ JobsGo
<1> DEFINE Clash(i) == \/ Taken(f[chunk[i]])
                       \/ \E h \in 1 .. i - 1 : f[chunk[i]] # Null /\ f[chunk[h]] = f[chunk[i]]
           Done == {chunk[i] : i \in {n \in DOMAIN chunk : \A h \in 1 .. n : ~Clash(h)}}
<1>1. /\ batch = "staging" /\ \A i \in DOMAIN chunk : jobs[chunk[i]].state = "absent"
      /\ Remember(Done, f) /\ members' = members \cup Done /\ UNCHANGED index
      /\ batch' \in {"staging", "raised"}
  BY DEF StageJobs
<1>2. PICK r \in Submissions("staged") : jobs' = [j \in Jobs |-> IF j \in Done THEN r ELSE jobs[j]]
  BY DEF StageJobs
<1>3. /\ DOMAIN chunk \subseteq 1 .. 2 /\ \A i \in DOMAIN chunk : chunk[i] \in Jobs
  <2>1. CASE \E j \in Jobs : chunk = <<j>>
    BY <2>1
  <2>2. CASE \E i, j \in Jobs : chunk = <<i, j>>
    BY <2>2
  <2> QED BY <2>1, <2>2 DEF Chunks
<1>4. \A x \in Done : \E i \in DOMAIN chunk : x = chunk[i] /\ \A h \in 1 .. i : ~Clash(h)
  OBVIOUS
<1>5. Done \in SUBSET Jobs /\ \A x \in Done : jobs[x].state = "absent"
  BY <1>1, <1>3, <1>4
<1>6. \A x \in Done : ~Taken(f[x])
  <2>1. ASSUME NEW x \in Done PROVE ~Taken(f[x])
    <3>1. PICK i \in DOMAIN chunk : x = chunk[i] /\ \A h \in 1 .. i : ~Clash(h)
      BY <1>4
    <3>2. i \in 1 .. i
      BY <1>3
    <3> QED BY <3>1, <3>2
  <2> QED BY <2>1
<1>7. ASSUME NEW x \in Done, NEW y \in Done, f[x] # Null, f[x] = f[y] PROVE x = y
  <2>1. PICK i \in DOMAIN chunk : x = chunk[i] /\ \A h \in 1 .. i : ~Clash(h)
    BY <1>4
  <2>2. PICK n \in DOMAIN chunk : y = chunk[n] /\ \A h \in 1 .. n : ~Clash(h)
    BY <1>4
  <2>3. i \in 1 .. 2 /\ n \in 1 .. 2
    BY <1>3
  <2>4. ~(n < i)
    <3>1. SUFFICES ASSUME n < i PROVE FALSE
      OBVIOUS
    <3>2. n \in 1 .. i - 1 /\ i \in 1 .. i
      BY <2>3, <3>1
    <3> QED BY <1>7, <2>1, <2>2, <3>2
  <2>5. ~(i < n)
    <3>1. SUFFICES ASSUME i < n PROVE FALSE
      OBVIOUS
    <3>2. i \in 1 .. n - 1 /\ n \in 1 .. n
      BY <2>3, <3>1
    <3> QED BY <1>7, <2>1, <2>2, <3>2
  <2> QED BY <2>1, <2>2, <2>3, <2>4, <2>5
<1> HIDE DEF Done
<1>8. \A j \in Jobs : jobs'[j] = IF j \in Done THEN r ELSE jobs[j]
  BY <1>2
<1>9. \A j \in Done : RowOK(r) /\ DueOK(r) /\ r.state = "staged" /\ Goes(jobs[j], r) /\ r \in Row
  <2>1. \A j \in Done : RowOK(r) /\ DueOK(r) /\ r.state = "staged" /\ Goes(jobs[j], r)
    BY <1>5, InvFacts, SubmittedOK
  <2> QED BY <2>1 DEF RowOK
<1>10. jobs' \in [Jobs -> Row]
  BY <1>2, <1>9, InvFacts
<1>11. \A j \in Jobs : Tracks(j)
  BY <1>1, <1>5, <1>8, <1>9, InvFacts DEF Tracks, Calm
<1>12. OfferedIsQueued' /\ QueuedIsOffered'
  BY <1>10, <1>11, IndexStep
<1>13. /\ KeysMatchJobs'
       /\ key' \in [Jobs -> Keys \cup {Null}] /\ keys' \in [Keys -> Jobs \cup {Null}]
  <2>1. \A j \in Done : ~HasRow(jobs[j]) /\ HasRow(jobs'[j]) /\ ~Taken(f[j])
    BY <1>5, <1>6, <1>8, <1>9 DEF HasRow
  <2>2. \A j \in Jobs \ Done : jobs'[j] = jobs[j]
    BY <1>8
  <2> QED BY <1>1, <1>5, <1>7, <2>1, <2>2, RememberOK
<1>14. RowsOK' /\ TypesOK' /\ JobsGo
  BY <1>1, <1>5, <1>8, <1>9, <1>10, <1>13, InvFacts
     DEF RowsOK, TypesOK, JobsGo, Follows, MInv
<1>15. MembersWait'
  <2>1. \A j \in members : jobs[j].state # "absent" /\ jobs[j].state \notin Launched
    BY <1>1 DEF MInv, MembersWait
  <2>2. \A j \in members' : jobs'[j].state # "absent" /\ jobs'[j].state \notin Launched
    BY <1>1, <1>5, <1>8, <1>9, <2>1 DEF Launched, MInv, TypesOK
  <2> QED BY <2>2 DEF MembersWait
<1> QED BY <1>12, <1>13, <1>14, <1>15 DEF MInv

LEMMA ActivateStep ==
    ASSUME MInv, ActivateBatch
    PROVE  MInv' /\ JobsGo
<1> DEFINE Staged == {j \in members : jobs[j].state = "staged"}
           q(j)   == [jobs[j] EXCEPT !.state = "queued"]
<1>1. /\ batch' = "active" /\ UNCHANGED <<key, keys, members>>
      /\ jobs'  = [j \in Jobs |-> IF j \in Staged THEN q(j) ELSE jobs[j]]
      /\ index' = [j \in Jobs |-> IF j \in Staged THEN jobs[j].resolved_model ELSE index[j]]
  BY DEF ActivateBatch
<1>2. ASSUME NEW j \in Jobs, jobs[j].state = "staged"
      PROVE  /\ RowOK(q(j)) /\ DueOK(q(j)) /\ q(j) \in Row /\ q(j).state = "queued"
             /\ q(j).resolved_model = jobs[j].resolved_model /\ Goes(jobs[j], q(j))
  <2>1. /\ q(j) \in Row /\ q(j).state = "queued" /\ q(j).not_before = jobs[j].not_before
        /\ q(j).attempt_count = jobs[j].attempt_count /\ q(j).max_attempts = jobs[j].max_attempts
        /\ q(j).cancel_requested = jobs[j].cancel_requested
        /\ q(j).lease_owner = jobs[j].lease_owner /\ q(j).finished_at = jobs[j].finished_at
        /\ q(j).lease_expires_at = jobs[j].lease_expires_at
        /\ q(j).resolved_model = jobs[j].resolved_model
    BY InvFacts DEF Row
  <2>2. RowOK(jobs[j]) /\ DueOK(jobs[j])
    BY InvFacts
  <2> HIDE DEF q
  <2>3. RowOK(q(j)) /\ DueOK(q(j))
    BY <1>2, <2>1, <2>2 DEF RowOK, DueOK
  <2>4. Life!Arrow(View(jobs[j]), View(q(j)))
    <3> DEFINE x == View(jobs[j])
               y == View(q(j))
    <3>1. /\ x.state = "staged" /\ y.state = "queued"
          /\ x.attempt_count = y.attempt_count /\ x.max_attempts = y.max_attempts
          /\ x.cancel_requested = y.cancel_requested
      BY <1>2, <2>1, ViewFields
    <3> HIDE DEF x, y
    <3>2. Life!Arrow(x, y)
      BY <3>1, SameFields DEF Life!Arrow, Life!Activated
    <3> QED BY <3>2 DEF x, y
  <2> QED BY <2>1, <2>3, <2>4 DEF Goes
<1> HIDE DEF q
<1>3. members \subseteq Jobs /\ Staged \subseteq Jobs
  BY DEF MInv, TypesOK
<1>4. /\ \A j \in Jobs : jobs'[j] = IF j \in Staged THEN q(j) ELSE jobs[j]
      /\ \A j \in Jobs : index'[j] = IF j \in Staged THEN jobs[j].resolved_model ELSE index[j]
  BY <1>1
<1>5. jobs' \in [Jobs -> Row] /\ index' \in [Jobs -> Models \cup {Null}]
  BY <1>1, <1>2, InvFacts
<1>6. \A j \in Jobs : Tracks(j)
  BY <1>2, <1>4, InvFacts DEF Tracks
<1>7. OfferedIsQueued' /\ QueuedIsOffered'
  BY <1>5, <1>6, IndexStep
<1>8. RowsOK' /\ TypesOK' /\ JobsGo
  BY <1>1, <1>2, <1>4, <1>5, InvFacts DEF RowsOK, TypesOK, JobsGo, Follows, MInv
<1>9. KeysMatchJobs'
  <2>1. \A j \in Jobs : HasRow(jobs[j]) <=> HasRow(jobs'[j])
    BY <1>2, <1>4 DEF HasRow
  <2> QED BY <1>1, <2>1 DEF MInv, KeysMatchJobs, TypesOK
<1>10. MembersWait'
  <2>1. \A j \in members : jobs'[j].state # "absent"
    BY <1>2, <1>3, <1>4 DEF MInv, MembersWait
  <2> QED BY <1>1, <2>1 DEF MembersWait
<1> QED BY <1>7, <1>8, <1>9, <1>10 DEF MInv

\* The jobs of S are deleted, with their keys and entries.
LEMMA ForgetStep ==
    ASSUME MInv, NEW S \in SUBSET Jobs, Forget(S), members' = members,
           \A j \in S : HasRow(jobs[j]) /\ jobs[j].state \in TerminalStates \cup {"staged"},
           batch = "active" => batch' = "active"
    PROVE  MInv' /\ JobsGo
<1> DEFINE d == NoJob("deleted")
<1>1. RowOK(d) /\ DueOK(d) /\ d.state = "deleted" /\ d \in Row
  BY NoJobOK DEF RowOK
<1>2. /\ \A j \in Jobs : jobs'[j] = IF j \in S THEN d ELSE jobs[j]
      /\ jobs' = [j \in Jobs |-> IF j \in S THEN d ELSE jobs[j]]
      /\ index' = Unindexed(S) /\ key' = key
      /\ keys' = [k \in Keys |-> IF keys[k] \in S THEN Null ELSE keys[k]]
  BY DEF Forget
<1> HIDE DEF d
<1>3. jobs' \in [Jobs -> Row] /\ index' \in [Jobs -> Models \cup {Null}]
  BY <1>1, <1>2, InvFacts DEF Unindexed
<1>4. ASSUME NEW j \in S PROVE Goes(jobs[j], d)
  <2> DEFINE x == View(jobs[j])
             y == View(d)
  <2>1. x.state \in TerminalStates \cup {"staged"} /\ y.state = "deleted"
    BY <1>1, ViewFields
  <2> HIDE DEF x, y
  <2>2. Life!Arrow(x, y)
    BY <2>1 DEF Life!Arrow, Life!Removed, Life!TerminalStates
  <2> QED BY <2>2 DEF x, y, Goes
<1>5. \A j \in Jobs : Tracks(j)
  BY <1>1, <1>2, InvFacts, EndedIsNotLive DEF Tracks, Unindexed
<1>6. OfferedIsQueued' /\ QueuedIsOffered'
  BY <1>3, <1>5, IndexStep
<1>7. keys \in [Keys -> Jobs \cup {Null}] /\ key \in [Jobs -> Keys \cup {Null}]
      /\ Null \notin Jobs
  BY MemoryAssumption DEF MInv, TypesOK
<1>8. RowsOK' /\ TypesOK' /\ JobsGo
  BY <1>1, <1>2, <1>3, <1>4, <1>7, InvFacts DEF RowsOK, TypesOK, JobsGo, Follows, MInv
<1>9. KeysMatchJobs'
  <2>1. ASSUME NEW k \in Keys, keys'[k] # Null
        PROVE  HasRow(jobs'[keys'[k]]) /\ key'[keys'[k]] = k
    <3>1. keys'[k] = keys[k] /\ keys[k] \in Jobs \ S
      BY <1>2, <1>7, <2>1
    <3> QED BY <1>2, <2>1, <3>1 DEF MInv, KeysMatchJobs
  <2>2. ASSUME NEW j \in Jobs, HasRow(jobs'[j]), key'[j] # Null
        PROVE  keys'[key'[j]] = j
    <3>1. j \notin S /\ HasRow(jobs[j])
      BY <1>1, <1>2, <2>2 DEF HasRow
    <3>2. key'[j] = key[j] /\ key[j] \in Keys
      BY <1>2, <1>7, <2>2
    <3>3. keys[key[j]] = j
      BY <2>2, <3>1, <3>2 DEF MInv, KeysMatchJobs
    <3> QED BY <1>2, <3>1, <3>2, <3>3
  <2> QED BY <2>1, <2>2 DEF KeysMatchJobs
<1>10. MembersWait'
  <2>1. \A j \in members : /\ jobs'[j].state # "absent"
                           /\ jobs'[j].state \in Launched => jobs[j].state \in Launched
    BY <1>1, <1>2 DEF MInv, MembersWait, TypesOK, Launched
  <2> QED BY <2>1 DEF MInv, MembersWait
<1> QED BY <1>6, <1>8, <1>9, <1>10 DEF MInv

LEMMA AbortStep ==
    ASSUME MInv, AbortBatch
    PROVE  MInv' /\ JobsGo
<1> DEFINE S == {j \in members : HasRow(jobs[j])}
<1>1. /\ Forget(S) /\ members' = members /\ batch \in {"staging", "raised"}
      /\ members \subseteq Jobs
  BY DEF AbortBatch, MInv, TypesOK
<1>2. \A j \in S : HasRow(jobs[j]) /\ jobs[j].state \in TerminalStates \cup {"staged"}
  <2>1. ASSUME NEW j \in S PROVE jobs[j].state \in TerminalStates \cup {"staged"}
    <3>1. jobs[j].state \notin Launched /\ jobs[j].state \in JobStates
      BY <1>1, InvFacts, RowFields DEF MInv, MembersWait
    <3> QED BY <3>1 DEF HasRow, Launched
  <2> QED BY <2>1
<1>3. S \in SUBSET Jobs /\ batch # "active"
  BY <1>1
<1> HIDE DEF S
<1> QED BY <1>1, <1>2, <1>3, ForgetStep

LEMMA CleanupStep ==
    ASSUME MInv, Cleanup
    PROVE  MInv' /\ JobsGo
<1>1. PICK S \in SUBSET {j \in Jobs : Expungeable(jobs[j])} : Forget(S)
  BY DEF Cleanup
<1>2. ASSUME NEW j \in S
      PROVE  HasRow(jobs[j]) /\ jobs[j].state \in TerminalStates \cup {"staged"}
  BY InvFacts, RowFields DEF Expungeable, HasRow
<1>3. S \in SUBSET Jobs /\ members' = members /\ batch' = batch
  BY DEF Cleanup
<1> QED BY <1>1, <1>2, <1>3, ForgetStep

LEMMA BeginStep ==
    ASSUME MInv, BeginBatch
    PROVE  MInv' /\ JobsGo
<1>1. UNCHANGED <<jobs, index, key, keys, members>> /\ batch # "active"
  BY DEF BeginBatch
<1>2. JobsGo
  BY <1>1 DEF JobsGo, Goes
<1>3. RowsOK' /\ TypesOK' /\ OfferedIsQueued' /\ QueuedIsOffered' /\ KeysMatchJobs'
  BY <1>1 DEF MInv, RowsOK, TypesOK, OfferedIsQueued, QueuedIsOffered, KeysMatchJobs
<1>4. MembersWait'
  BY <1>1 DEF MInv, MembersWait
<1> QED BY <1>2, <1>3, <1>4 DEF MInv

(***************************************************************************)
(* The invariant and what follows from it.                                 *)
(***************************************************************************)
LEMMA InitOK == Init => MInv
<1> SUFFICES ASSUME Init PROVE MInv
  OBVIOUS
<1>1. RowOK(NoJob("absent")) /\ DueOK(NoJob("absent")) /\ NoJob("absent").state = "absent"
  BY NoJobOK
<1>2. \A j \in Jobs : jobs[j] = NoJob("absent")
  BY DEF Init
<1>3. RowsOK
  BY <1>1, <1>2 DEF Init, RowsOK, RowOK
<1>4. TypesOK /\ OfferedIsQueued /\ KeysMatchJobs /\ MembersWait
  BY DEF Init, TypesOK, OfferedIsQueued, KeysMatchJobs, MembersWait
<1>5. QueuedIsOffered
  BY <1>1, <1>2 DEF QueuedIsOffered, Live
<1> QED BY <1>3, <1>4, <1>5 DEF MInv

LEMMA SubmissionStep == ASSUME MInv, Submission PROVE MInv' /\ JobsGo
BY EnqueueStep, StageStep, BeginStep, ActivateStep, AbortStep DEF Submission

LEMMA WorkerStep == ASSUME MInv, WorkerCall PROVE MInv' /\ JobsGo
<1>1. PICK o \in Owners : \/ \E m \in Models : ClaimNext(m, o) \/ ClaimCompatible(m, o)
                          \/ \E j \in Jobs : \/ WorkerUpdate(j, o) \/ WorkerFail(j, o)
                                             \/ WorkerCancel(j, o) \/ ReleaseToQueue(j, o)
  BY DEF WorkerCall
<1>2. ASSUME NEW j \in Jobs, ReleaseToQueue(j, o) PROVE MInv' /\ JobsGo
  <2>1. PICK m \in Models : Release({j}, [k \in Jobs |-> m])
    BY <1>2 DEF ReleaseToQueue
  <2> DEFINE S == {j}
             f == [k \in Jobs |-> m]
  <2>2. /\ SameBatch /\ Release(S, f) /\ \A k \in Jobs : f[k] \in Models
        /\ \A k \in Jobs \cap S : jobs[k].state \in HeldStates
    BY <1>2, <2>1 DEF ReleaseToQueue, Holds
  <2> HIDE DEF S, f
  <2> QED BY <2>2, ReleaseStep
<1> QED BY <1>1, <1>2, ClaimNextStep, ClaimCompatibleStep, UpdateStep, FailStep, CancelledStep

LEMMA RequestStep == ASSUME MInv, Request PROVE MInv' /\ JobsGo
BY CancelStep, RequeueStep, CleanupStep DEF Request, CancelJob, CancelBatch

LEMMA ReleaseLeasesStep == ASSUME MInv, ReleaseLeases PROVE MInv' /\ JobsGo
<1> DEFINE S == {j \in Jobs : jobs[j].state \in HeldStates}
           f == [k \in Jobs |-> jobs[k].resolved_model]
<1>1. /\ SameBatch /\ Release(S, f) /\ \A k \in Jobs : f[k] \in Models
      /\ \A k \in Jobs \cap S : jobs[k].state \in HeldStates
  BY InvFacts DEF ReleaseLeases
<1> HIDE DEF S, f
<1> QED BY <1>1, ReleaseStep

LEMMA NextStep == ASSUME MInv, [Next]_vars PROVE MInv' /\ JobsGo
<1>1. CASE UNCHANGED vars
  BY <1>1 DEF vars, MInv, RowsOK, TypesOK, OfferedIsQueued, QueuedIsOffered, KeysMatchJobs,
              MembersWait, JobsGo, Goes
<1> QED BY <1>1, SubmissionStep, WorkerStep, RequestStep, ReleaseLeasesStep, MaintainStep,
           TickStep DEF Next

\* The inductive invariant: well-formed rows, the index of exactly the live
\* queued jobs, keys that match their jobs, and batches that hide their members.
THEOREM MemoryInvariance == Spec => []MInv
<1>1. MInv /\ [Next]_vars => MInv'
  BY NextStep
<1> QED BY <1>1, InitOK, PTL DEF Spec

\* What claim_next and claim_compatible may take is in the lanes of its model:
\* no path back to the queue forgets to index a job, and no claim drops the
\* entry of a job that can be claimed later.
THEOREM ReadyIsIndexedHolds == Spec => []ReadyIsIndexed
<1>1. MInv => ReadyIsIndexed
  BY InvFacts DEF MInv, QueuedIsOffered, ReadyIsIndexed, CanClaim, Claimable, Live
<1> QED BY <1>1, MemoryInvariance, PTL

\* The index offers only queued jobs, each to the model it is to run on now.
THEOREM OfferedIsQueuedHolds == Spec => []OfferedIsQueued
<1>1. MInv => OfferedIsQueued
  BY DEF MInv
<1> QED BY <1>1, MemoryInvariance, PTL

\* _idemp holds a key exactly while the job that carries it is there.
THEOREM KeysMatchJobsHolds == Spec => []KeysMatchJobs
<1>1. MInv => KeysMatchJobs
  BY DEF MInv
<1> QED BY <1>1, MemoryInvariance, PTL

\* The if-elif chain of this backend's sweep, run twice, ends where SQLite's
\* four updates end in one round.
THEOREM SweepsConvergeHolds == Spec => []SweepsConverge
<1>1. MInv => SweepsConverge
  BY InvFacts, TwoSweeps DEF SweepsConverge
<1> QED BY <1>1, MemoryInvariance, PTL

\* The arrows of a row are the arrows of the job whose row it is.
LEMMA SameArrow ==
    ASSUME NEW a, NEW b, Life!Arrow(a, b)
    PROVE  Lifecycle!Arrow(a, b)
BY DEF Lifecycle!Arrow, Lifecycle!Created, Lifecycle!Removed, Lifecycle!Activated,
       Lifecycle!Claimed, Lifecycle!Started, Lifecycle!Succeeded, Lifecycle!Failed,
       Lifecycle!Retried, Lifecycle!Promoted, Lifecycle!Released, Lifecycle!Expired,
       Lifecycle!Cancelled, Lifecycle!Flagged, Lifecycle!Requeued, Lifecycle!Keeps,
       Lifecycle!Same, Lifecycle!Costs, Lifecycle!TerminalStates, Lifecycle!HeldStates,
       Lifecycle!IncompleteStates,
       Life!Arrow, Life!Created, Life!Removed, Life!Activated, Life!Claimed, Life!Started,
       Life!Succeeded, Life!Failed, Life!Retried, Life!Promoted, Life!Released,
       Life!Expired, Life!Cancelled, Life!Flagged, Life!Requeued, Life!Keeps, Life!Same,
       Life!Costs, Life!TerminalStates, Life!HeldStates, Life!IncompleteStates

\* The in-memory backend implements the lifecycle the SQLite one implements:
\* every call takes each job along an arrow of it, or leaves it alone.
THEOREM MemoryImplementsLifecycle == Spec => ImplementsLifecycle
<1> DEFINE life == [j \in Jobs |-> [state |-> jobs[j].state, attempt_count |-> jobs[j].attempt_count,
                             max_attempts |-> jobs[j].max_attempts,
                             cancel_requested |-> jobs[j].cancel_requested]]
<1>1. Init => Lifecycle!Init
  <2> SUFFICES ASSUME Init, NEW j \in Jobs PROVE jobs[j].state = "absent"
    BY DEF Lifecycle!Init
  <2> QED BY NoJobOK DEF Init
<1>2. MInv /\ [Next]_vars => [Lifecycle!Next]_life
  <2> SUFFICES ASSUME MInv, [Next]_vars PROVE Lifecycle!Next
    OBVIOUS
  <2>1. \A j \in Jobs : Goes(jobs[j], jobs'[j])
    BY NextStep DEF JobsGo
  <2>2. \A j \in Jobs : life[j] = View(jobs[j]) /\ life'[j] = View(jobs'[j])
    BY DEF View
  <2>3. \A j \in Jobs : life[j] = life'[j] \/ Lifecycle!Arrow(life[j], life'[j])
    <3> HIDE DEF life
    <3> QED BY <2>1, <2>2, SameArrow DEF Goes
  <2> QED BY <2>3 DEF Lifecycle!Next
<1> QED BY <1>1, <1>2, MemoryInvariance, PTL DEF Spec, ImplementsLifecycle, Lifecycle!Spec
=============================================================================
