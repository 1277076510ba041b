---------------------------- MODULE HybridProofs ----------------------------
(***************************************************************************)
(* What is true of the hybrid index for every number of jobs, callers and   *)
(* models: lazy deletion loses no hint, and a job that became ready has its *)
(* hint or will be given it by a call in flight.                            *)
(***************************************************************************)
EXTENDS HybridQueue, QueueRowsProofs

(***************************************************************************)
(* The invariant.                                                          *)
(***************************************************************************)
Coming == {"absent", "staged"}

\* A row of the table, and what the index relies on: a job to come has used no
\* attempt, and a queued or held row is past its not_before for good.
RowInv(r) ==
    /\ RowOK(r)
    /\ r.state = "absent" => r.attempt_count = 0
    /\ r.state \in Coming \cup {"queued", "leased", "running"} => Due(r.not_before)

\* Only a requeue can make such a row ready again.
Gone(r)  == r.cancel_requested \/ IsTerminal(r)
\* Nothing but a requeue makes such a row ready while no task moves.
Spent(r) == r.state \notin Coming /\ (r.state # "queued" \/ r.deadline_at = 0 \/ r.cancel_requested)

Safe(j)    == Gone(rows[j]) \/ origin[j] = "requeued"
Useless(j) == Spent(rows[j]) \/ origin[j] = "requeued"

\* A job that must not be missing from the index.
Wanted(j) == Claimable(rows[j], TRUE) /\ origin[j] \in {"submitted", "returned"}

\* The index, the calls and the dispatcher know no job that has not come yet.
Known(j) == \/ live[j] # Null
            \/ \E c \in Callers : op[c].kind = "add" /\ op[c].job = j
            \/ loop.pc \in {"claim", "lost"} /\ loop.cand = j

RowsInv == \A j \in Jobs : /\ RowInv(rows[j])
                           /\ rows[j].state \in Coming => origin[j] = "none" /\ ~Known(j)

\* A hint is only ever taken away, lazily and late, from a job that has ended
\* or been cancelled, and a claim only fails on a row that is not ready.
RemovalsInv ==
    /\ \A c \in Callers : op[c].kind = "remove" => op[c].job \in Jobs /\ Safe(op[c].job)
    /\ loop.pc = "report" => \A j \in loop.fin : Safe(j)
    /\ loop.pc \in {"claim", "lost"} => loop.cand \in Jobs
    /\ loop.pc = "lost" => Useless(loop.cand)

IndexInv == TypeOK /\ RowsInv /\ LiveHasEntry /\ RemovalsInv /\ HintOrOnItsWay

(***************************************************************************)
(* The statements, row by row.                                             *)
(***************************************************************************)
\* What every statement but a requeue does: it keeps the row well formed, brings
\* no job back to its beginning, and brings no job back that is gone.
Tame(a, b) == RowInv(b) /\ (b.state \in Coming => b = a) /\ (Gone(a) => Gone(b))

\* Statements that make no row ready.
NotReadier(a, b) == Claimable(b, TRUE) => Claimable(a, TRUE)

\* The fields of a row in the invariant.
LEMMA RowTypes ==
    ASSUME NEW r, RowInv(r)
    PROVE  /\ r \in Row /\ r.state \in JobStates /\ r.attempt_count \in Nat
           /\ r.max_attempts \in Nat /\ r.resolved_model \in Models
           /\ r.cancel_requested \in BOOLEAN /\ r.finished_at \in BOOLEAN
BY DEF RowInv, RowOK, Row

\* A row that ends.
LEMMA EndTame ==
    ASSUME NEW r, RowInv(r), NEW s \in TerminalStates
    PROVE  Tame(r, Ended(r, s)) /\ NotReadier(r, Ended(r, s))
<1>1. RowOK(Ended(r, s))
  BY EndedOK DEF RowInv
<1>2. Ended(r, s).state = s /\ Ended(r, s).cancel_requested = r.cancel_requested
  BY RowTypes DEF Ended, Unleased, Row
<1> QED BY <1>1, <1>2
        DEF Tame, RowInv, Gone, NotReadier, Claimable, IsTerminal, Coming, TerminalStates

LEMMA CancelledTame ==
    ASSUME NEW r, RowInv(r)
    PROVE  Tame(r, MarkCancelledSql(r)) /\ NotReadier(r, MarkCancelledSql(r))
<1>1. RowOK(MarkCancelledSql(r))
  BY MarkCancelledOK DEF RowInv
<1>2. MarkCancelledSql(r).state = "cancelled"
  BY RowTypes DEF MarkCancelledSql, Ended, Unleased, Row
<1> QED BY <1>1, <1>2
        DEF Tame, RowInv, Gone, NotReadier, Claimable, IsTerminal, Coming, TerminalStates

\* A job that comes.
LEMMA ComeTame ==
    ASSUME NEW r, RowInv(r), r.state \in Coming, NEW s \in {"staged", "queued"}
    PROVE  /\ RowInv([r EXCEPT !.state = s]) /\ [r EXCEPT !.state = s].state = s
           /\ Gone(r) => Gone([r EXCEPT !.state = s])
<1> DEFINE q == [r EXCEPT !.state = s]
<1>1. /\ r \in Row /\ r.attempt_count < r.max_attempts /\ r.lease_owner = Null
      /\ r.lease_expires_at = Null /\ r.finished_at = FALSE /\ Due(r.not_before)
      /\ ~IsTerminal(r)
  BY DEF RowInv, RowOK, Row, Coming, HeldStates, TerminalStates, IsTerminal
<1>2. /\ q \in Row /\ q.state = s /\ q.attempt_count = r.attempt_count
      /\ q.max_attempts = r.max_attempts /\ q.lease_owner = r.lease_owner
      /\ q.lease_expires_at = r.lease_expires_at /\ q.finished_at = r.finished_at
      /\ q.not_before = r.not_before /\ q.cancel_requested = r.cancel_requested
  BY <1>1 DEF Row, JobStates, IncompleteStates
<1>3. q.attempt_count \in Nat /\ q.max_attempts \in Nat
  BY <1>2 DEF Row
<1> HIDE DEF q
<1>4. RowOK(q)
  BY <1>1, <1>2, <1>3 DEF RowOK, HeldStates, TerminalStates
<1>5. RowInv(q) /\ (Gone(r) => Gone(q))
  BY <1>1, <1>2, <1>4 DEF RowInv, Gone
<1> USE DEF q
<1> QED BY <1>2, <1>5

\* A row that does not change.
LEMMA SameTame ==
    ASSUME NEW r, RowInv(r)
    PROVE  Tame(r, r) /\ NotReadier(r, r)
BY DEF Tame, NotReadier

LEMMA ClaimTame ==
    ASSUME NEW r, RowInv(r), NEW o \in Owners
    PROVE  /\ Tame(r, ClaimSql(r, o, TRUE)) /\ NotReadier(r, ClaimSql(r, o, TRUE))
           /\ ~Claimable(ClaimSql(r, o, TRUE), TRUE)
<1>1. CASE ~Claimable(r, TRUE)
  BY <1>1, SameTame DEF ClaimSql
<1>2. CASE Claimable(r, TRUE)
  <2>1. RowOK(ClaimSql(r, o, TRUE))
    BY <1>2, ClaimOK DEF RowInv
  <2>2. /\ ClaimSql(r, o, TRUE).state = "leased"
        /\ ClaimSql(r, o, TRUE).not_before = r.not_before
        /\ ClaimSql(r, o, TRUE).cancel_requested = r.cancel_requested
    BY <1>2, RowTypes DEF ClaimSql, Row
  <2>3. r.state = "queued" /\ Due(r.not_before) /\ ~r.cancel_requested
    BY <1>2 DEF Claimable
  <2> QED BY <2>1, <2>2, <2>3
          DEF Tame, RowInv, Gone, NotReadier, Claimable, IsTerminal, Coming, TerminalStates
<1> QED BY <1>1, <1>2

LEMMA StartTame ==
    ASSUME NEW r, RowInv(r), NEW o
    PROVE  Tame(r, MarkRunning(r, o)) /\ NotReadier(r, MarkRunning(r, o))
<1>1. CASE ~CanMarkRunning(r, o)
  BY <1>1, SameTame DEF MarkRunning
<1>2. CASE CanMarkRunning(r, o)
  <2>1. RowOK(MarkRunning(r, o))
    BY HoldOK DEF RowInv
  <2>2. /\ MarkRunning(r, o).state = "running"
        /\ MarkRunning(r, o).not_before = r.not_before
        /\ MarkRunning(r, o).cancel_requested = r.cancel_requested
    BY <1>2, RowTypes DEF MarkRunning, Row
  <2>3. r.state = "leased"
    BY <1>2 DEF CanMarkRunning
  <2> QED BY <2>1, <2>2, <2>3
          DEF Tame, RowInv, Gone, NotReadier, Claimable, IsTerminal, Coming, TerminalStates
<1> QED BY <1>1, <1>2

LEMMA SettleTame ==
    ASSUME NEW r, RowInv(r), NEW o
    PROVE  /\ Tame(r, Complete(r, o)) /\ NotReadier(r, Complete(r, o))
           /\ Tame(r, Fail(r, o, FALSE)) /\ NotReadier(r, Fail(r, o, FALSE))
<1>1. Complete(r, o) = r \/ Complete(r, o) = Ended(r, "succeeded")
  BY DEF Complete
<1>2. Fail(r, o, FALSE) = r \/ Fail(r, o, FALSE) = Ended(r, "failed")
  BY DEF Fail, Failure
<1>3. {"succeeded", "failed"} \subseteq TerminalStates
  BY DEF TerminalStates
<1> QED BY <1>1, <1>2, <1>3, EndTame, SameTame

LEMMA RetryTame ==
    ASSUME NEW r, RowInv(r), NEW o, NEW delay \in Nat, NEW m \in Models,
           r.attempt_count < r.max_attempts
    PROVE  Tame(r, Retry(r, o, delay, m)) /\ NotReadier(r, Retry(r, o, delay, m))
<1>1. CASE ~OwnedRunning(r, o)
  BY <1>1, SameTame DEF Retry
<1>2. CASE OwnedRunning(r, o)
  <2>1. RowOK(Retry(r, o, delay, m))
    BY RetryOK DEF RowInv
  <2>2. /\ Retry(r, o, delay, m).state = "retry_wait"
        /\ Retry(r, o, delay, m).cancel_requested = r.cancel_requested
    BY <1>2, RowTypes DEF Retry, Unleased, Row
  <2>3. r.state = "running"
    BY <1>2 DEF OwnedRunning
  <2> QED BY <2>1, <2>2, <2>3
          DEF Tame, RowInv, Gone, NotReadier, Claimable, IsTerminal, Coming, TerminalStates
<1> QED BY <1>1, <1>2

LEMMA ReleaseTame ==
    ASSUME NEW r, RowInv(r), NEW o, NEW m \in Models
    PROVE  Tame(r, ReleaseSql(r, o, m))
<1>1. CASE ~Holds(r, o)
  BY <1>1, SameTame DEF ReleaseSql
<1>2. CASE Holds(r, o)
  <2>1. RowOK(ReleaseSql(r, o, m))
    BY ReleaseOK DEF RowInv
  <2>2. /\ ReleaseSql(r, o, m).state = "queued"
        /\ ReleaseSql(r, o, m).cancel_requested = r.cancel_requested
        /\ ReleaseSql(r, o, m).not_before = r.not_before
    BY <1>2, RowTypes DEF ReleaseSql, Unleased, Row
  <2>3. r.state \in {"leased", "running"}
    BY <1>2 DEF Holds, HeldStates
  <2> QED BY <2>1, <2>2, <2>3 DEF Tame, RowInv, Gone, IsTerminal, Coming, TerminalStates
<1> QED BY <1>1, <1>2

LEMMA CancelTame ==
    ASSUME NEW r, RowInv(r)
    PROVE  /\ Tame(r, Cancel(r)) /\ NotReadier(r, Cancel(r))
           /\ HasRow(r) => Gone(Cancel(r))
           /\ Spent(r) => Spent(Cancel(r))
<1>1. CASE r.state \in {"queued", "retry_wait", "staged", "leased"}
  <2>1. Cancel(r) = MarkCancelledSql(r)
    BY <1>1 DEF Cancel
  <2>2. MarkCancelledSql(r).state = "cancelled"
    BY RowTypes DEF MarkCancelledSql, Ended, Unleased, Row
  <2> QED BY <2>1, <2>2, CancelledTame DEF Gone, Spent, IsTerminal, Coming, TerminalStates
<1>2. CASE r.state = "running"
  <2>1. RowOK(Cancel(r))
    BY CancelOK DEF RowInv
  <2>2. /\ Cancel(r).state = "running" /\ Cancel(r).cancel_requested = TRUE
        /\ Cancel(r).not_before = r.not_before
    BY <1>2, RowTypes DEF Cancel, Row
  <2>3. Tame(r, Cancel(r)) /\ Gone(Cancel(r))
    BY <1>2, <2>1, <2>2 DEF Tame, RowInv, Gone, Coming
  <2>4. ~Claimable(Cancel(r), TRUE) /\ Spent(Cancel(r))
    BY <2>2 DEF Claimable, Spent, Coming
  <2> QED BY <2>3, <2>4 DEF NotReadier
<1>3. CASE r.state \notin {"queued", "retry_wait", "staged", "leased", "running"}
  <2>1. Cancel(r) = r
    BY <1>3 DEF Cancel
  <2>2. HasRow(r) => Gone(r)
    BY <1>3, RowTypes DEF Gone, IsTerminal, TerminalStates, IncompleteStates, JobStates,
       NoRowStates, HasRow
  <2> QED BY <2>1, <2>2, SameTame
<1> QED BY <1>1, <1>2, <1>3

\* A requeue, the one statement that brings a row back.
LEMMA RequeueRow ==
    ASSUME NEW r, RowInv(r), Requeueable(r)
    PROVE  RowInv(Requeue(r)) /\ Requeue(r).state \notin Coming
<1>1. RowOK(Requeue(r))
  BY RequeueOK DEF RowInv
<1>2. Requeue(r).state = "queued" /\ Requeue(r).not_before = Null
  BY RowTypes DEF Requeue, Unleased, Row
<1> QED BY <1>1, <1>2 DEF RowInv, Due, Coming

\* The clock, for a row of the table: what is due stays due.
LEMMA ElapseTame ==
    ASSUME NEW r, RowInv(r), HasRow(r)
    PROVE  /\ RowInv(Elapse(r)) /\ Elapse(r).state = r.state
           /\ Gone(r) => Gone(Elapse(r))
           /\ NotReadier(r, Elapse(r))
           /\ Spent(r) => Spent(Elapse(r))
<1>1. RowOK(Elapse(r))
  BY ElapseOK DEF RowInv
<1>2. /\ Elapse(r).state = r.state /\ Elapse(r).cancel_requested = r.cancel_requested
      /\ Elapse(r).attempt_count = r.attempt_count
      /\ Elapse(r).not_before = Sooner(r.not_before) /\ Elapse(r).deadline_at = Sooner(r.deadline_at)
  BY RowTypes DEF Elapse, Row
<1>3. Due(r.not_before) => Due(Elapse(r).not_before)
  BY <1>2 DEF Due, Sooner
<1>4. r.deadline_at = 0 => Elapse(r).deadline_at = 0
  BY <1>2 DEF Sooner
<1>5. RowInv(Elapse(r))
  BY <1>1, <1>2, <1>3 DEF RowInv
<1>6. NotReadier(r, Elapse(r))
  BY <1>2, <1>4 DEF NotReadier, Claimable, RowInv
<1> QED BY <1>2, <1>4, <1>5, <1>6 DEF Gone, Spent, IsTerminal

\* A row that maintenance brings back to the queue.
Returns(r) == \/ ExpireSql(r).state = "queued" /\ r.state # "queued"
              \/ r.state = "retry_wait" /\ Due(r.not_before)

\* Maintenance, sweep by sweep and then whole: a row it makes ready is one that returns.
LEMMA ExpireTame ==
    ASSUME NEW r, RowInv(r)
    PROVE  Tame(r, ExpireSql(r)) /\ (ExpireSql(r).state = r.state => ExpireSql(r) = r)
<1>1. CASE ExpireSql(r) = r
  BY <1>1, SameTame
<1>2. CASE ExpireSql(r) # r
  <2>1. r.state \in HeldStates /\ r.lease_expires_at = 0
    BY <1>2 DEF ExpireSql
  <2>2. CASE r.cancel_requested
    <3>1. ExpireSql(r) = MarkCancelledSql(r)
      BY <2>1, <2>2 DEF ExpireSql
    <3>2. ExpireSql(r).state = "cancelled"
      BY <3>1, RowTypes DEF MarkCancelledSql, Ended, Unleased, Row
    <3> QED BY <3>1, <3>2, <2>1, CancelledTame DEF HeldStates
  <2>3. CASE ~r.cancel_requested /\ r.attempt_count >= r.max_attempts
    <3>1. ExpireSql(r) = Ended(r, "dead_letter")
      BY <2>1, <2>3 DEF ExpireSql, FailFrom, Failure
    <3>2. ExpireSql(r).state = "dead_letter"
      BY <3>1, RowTypes DEF Ended, Unleased, Row
    <3>3. "dead_letter" \in TerminalStates
      BY DEF TerminalStates
    <3> QED BY <3>1, <3>2, <3>3, <2>1, EndTame DEF HeldStates
  <2>4. CASE ~r.cancel_requested /\ ~(r.attempt_count >= r.max_attempts)
    <3>1. ExpireSql(r) = Unleased(r, "queued")
      BY <2>1, <2>4 DEF ExpireSql
    <3>2. RowOK(ExpireSql(r))
      BY ExpireOK DEF RowInv
    <3>3. /\ ExpireSql(r).state = "queued" /\ ExpireSql(r).not_before = r.not_before
          /\ ExpireSql(r).cancel_requested = r.cancel_requested
      BY <3>1, RowTypes DEF Unleased, Row
    <3>4. Due(r.not_before) /\ r.state \in {"leased", "running"}
      BY <2>1 DEF RowInv, HeldStates
    <3> QED BY <3>2, <3>3, <3>4, <2>4
            DEF Tame, RowInv, Gone, Coming, IsTerminal, TerminalStates
  <2> QED BY <2>2, <2>3, <2>4
<1> QED BY <1>1, <1>2

LEMMA PromoteTame ==
    ASSUME NEW r, RowInv(r)
    PROVE  Tame(r, PromoteDue(r))
<1>1. CASE PromoteDue(r) = r
  BY <1>1, SameTame
<1>2. CASE PromoteDue(r) # r
  <2>1. /\ r.state = "retry_wait"
        /\ Due(r.not_before)
        /\ PromoteDue(r) = [r EXCEPT !.state = "queued"]
    BY <1>2 DEF PromoteDue
  <2>2. RowOK(PromoteDue(r))
    BY PromoteOK DEF RowInv
  <2>3. /\ PromoteDue(r).state = "queued" /\ PromoteDue(r).not_before = r.not_before
        /\ PromoteDue(r).cancel_requested = r.cancel_requested
    BY <2>1, RowTypes DEF Row
  <2> QED BY <2>1, <2>2, <2>3 DEF Tame, RowInv, Gone, Coming, IsTerminal, TerminalStates
<1> QED BY <1>1, <1>2

LEMMA FailLateTame ==
    ASSUME NEW r, RowInv(r)
    PROVE  /\ Tame(r, FailLate(r)) /\ NotReadier(r, FailLate(r))
           /\ FailLate(r) = r \/ IsTerminal(FailLate(r))
<1>1. FailLate(r) = r \/ FailLate(r) = Ended(r, "failed")
  BY DEF FailLate, FailFrom, Failure
<1>2. "failed" \in TerminalStates /\ Ended(r, "failed").state = "failed"
  BY RowTypes DEF TerminalStates, Ended, Unleased, Row
<1> QED BY <1>1, <1>2, EndTame, SameTame DEF IsTerminal

LEMMA CancelFlaggedTame ==
    ASSUME NEW r, RowInv(r)
    PROVE  /\ Tame(r, CancelFlagged(r)) /\ NotReadier(r, CancelFlagged(r))
           /\ CancelFlagged(r) = r \/ IsTerminal(CancelFlagged(r))
<1>1. CancelFlagged(r) = r \/ CancelFlagged(r) = MarkCancelledSql(r)
  BY DEF CancelFlagged
<1>2. MarkCancelledSql(r).state = "cancelled"
  BY RowTypes DEF MarkCancelledSql, Ended, Unleased, Row
<1> QED BY <1>1, <1>2, CancelledTame, SameTame DEF IsTerminal, TerminalStates

LEMMA MaintenanceTame ==
    ASSUME NEW r, RowInv(r)
    PROVE  /\ Tame(r, Maintenance(r))
           /\ Claimable(Maintenance(r), TRUE) => Claimable(r, TRUE) \/ Returns(r)
<1> DEFINE a == ExpireSql(r)
           b == PromoteDue(a)
           c == FailLate(b)
           d == CancelFlagged(c)
<1>1. Tame(r, a) /\ (a.state = r.state => a = r)
  BY ExpireTame
<1>2. RowInv(a)
  BY <1>1 DEF Tame
<1>3. Tame(a, b) /\ RowInv(b)
  <2> HIDE DEF a
  <2> QED BY <1>2, PromoteTame DEF Tame
<1>4. Tame(b, c) /\ NotReadier(b, c) /\ RowInv(c)
  <2> HIDE DEF b
  <2> QED BY <1>3, FailLateTame DEF Tame
<1>5. Tame(c, d) /\ NotReadier(c, d)
  <2> HIDE DEF c
  <2> QED BY <1>4, CancelFlaggedTame
<1>6. Tame(r, d)
  <2> HIDE DEF a, b, c, d
  <2> QED BY <1>1, <1>3, <1>4, <1>5 DEF Tame
<1>7. ASSUME Claimable(d, TRUE) PROVE Claimable(r, TRUE) \/ Returns(r)
  <2>1. Claimable(b, TRUE)
    BY <1>4, <1>5, <1>7 DEF NotReadier
  <2>2. CASE b = a
    <3>1. a.state = "queued"
      BY <2>1, <2>2 DEF Claimable
    <3> QED BY <1>1, <2>1, <2>2, <3>1 DEF Returns
  <2>3. CASE b # a
    <3>1. a.state = "retry_wait" /\ Due(a.not_before)
      BY <2>3 DEF PromoteDue
    <3>2. a = r
      <4>1. ASSUME a # r PROVE a.state \in {"cancelled", "dead_letter", "queued"}
        BY <4>1, RowTypes
        DEF ExpireSql, MarkCancelledSql, FailFrom, Failure, Ended, Unleased, Row
      <4> QED BY <3>1, <4>1
    <3> QED BY <3>1, <3>2 DEF Returns
  <2> QED BY <2>2, <2>3
<1> QED BY <1>6, <1>7 DEF Maintenance

(***************************************************************************)
(* What a step may do to the table.                                        *)
(***************************************************************************)
RowMoves ==
    /\ rows' \in [Jobs -> Row]
    /\ \A j \in Jobs :
          /\ RowInv(rows'[j])
          /\ rows'[j].state \in Coming => rows[j].state \in Coming /\ origin'[j] = origin[j]
          /\ Safe(j) => Safe(j)'
          /\ Wanted(j)' => Wanted(j) \/ OnItsWay(j)'
          /\ loop.pc = "lost" /\ Useless(j) => Useless(j)'

Origins == {"none", "submitted", "returned", "released", "requeued"}

LEMMA TableTypes ==
    ASSUME IndexInv
    PROVE  rows \in [Jobs -> Row] /\ origin \in [Jobs -> Origins]
BY DEF IndexInv, TypeOK, Origins

\* Every job has a row in the invariant.
LEMMA RowOf ==
    ASSUME IndexInv, NEW j \in Jobs
    PROVE  RowInv(rows[j]) /\ rows[j] \in Row /\ rows[j].resolved_model \in Models
           /\ (rows[j].state \in Coming => origin[j] = "none")
BY DEF IndexInv, TypeOK, RowsInv, Row

\* A row that is well formed is a row.
LEMMA RowInvRow ==
    ASSUME NEW r, RowInv(r)
    PROVE  r \in Row
BY DEF RowInv, RowOK

\* Steps that leave the table alone.
LEMMA StillRows ==
    ASSUME IndexInv, UNCHANGED <<rows, origin>>
    PROVE  RowMoves
BY RowOf, TableTypes DEF RowMoves, Safe, Wanted, Useless

\* Statements that bring no row back and make none ready.
LEMMA TameMoves ==
    ASSUME IndexInv, UNCHANGED origin,
           NEW f, rows' = [j \in Jobs |-> f[j]],
           \A j \in Jobs : /\ Tame(rows[j], f[j]) /\ NotReadier(rows[j], f[j])
                           /\ loop.pc = "lost" /\ Spent(rows[j]) => Spent(f[j])
    PROVE  RowMoves
<1>1. \A j \in Jobs : rows'[j] = f[j] /\ RowInv(f[j])
  BY DEF Tame
<1>2. rows' \in [Jobs -> Row]
  BY <1>1, RowInvRow
<1>3. ASSUME NEW j \in Jobs
      PROVE  /\ rows'[j].state \in Coming => rows[j].state \in Coming /\ origin'[j] = origin[j]
             /\ Safe(j) => Safe(j)'
             /\ Wanted(j)' => Wanted(j)
             /\ loop.pc = "lost" /\ Useless(j) => Useless(j)'
  <2>1. Tame(rows[j], rows'[j]) /\ NotReadier(rows[j], rows'[j])
        /\ (loop.pc = "lost" /\ Spent(rows[j]) => Spent(rows'[j]))
    BY <1>1
  <2> QED BY <2>1 DEF Tame, NotReadier, Safe, Wanted, Useless
<1> QED BY <1>1, <1>2, <1>3 DEF RowMoves

(***************************************************************************)
(* The table under each action.                                            *)
(***************************************************************************)
LEMMA EnqueueRows ==
    ASSUME IndexInv, NEW c \in Callers, NEW j \in Jobs, Enqueue(c, j)
    PROVE  RowMoves /\ rows'[j].state \notin Coming /\ origin' \in [Jobs -> Origins]
<1>1. CASE rows[j].state = "queued"
  <2>1. UNCHANGED <<rows, origin>>
    BY <1>1 DEF Enqueue
  <2> QED BY <1>1, <2>1, StillRows, TableTypes DEF Coming
<1>2. CASE rows[j].state # "queued"
  <2>1. /\ rows[j].state = "absent" /\ rows' = [rows EXCEPT ![j].state = "queued"]
        /\ origin' = [origin EXCEPT ![j] = "submitted"] /\ Later(c, "add", j)
    BY <1>2 DEF Enqueue
  <2>2. /\ rows \in [Jobs -> Row] /\ RowInv(rows[j]) /\ origin \in [Jobs -> Origins]
        /\ origin[j] = "none" /\ rows[j].state \in Coming
    BY <2>1, RowOf, TableTypes DEF Coming
  <2>3. /\ rows'[j] = [rows[j] EXCEPT !.state = "queued"]
        /\ \A i \in Jobs : i # j => rows'[i] = rows[i] /\ origin'[i] = origin[i]
        /\ origin' \in [Jobs -> Origins] /\ DOMAIN rows' = Jobs /\ rows' = [i \in Jobs |-> rows'[i]]
    BY <2>1, <2>2 DEF Origins
  <2>4. /\ RowInv(rows'[j]) /\ rows'[j].state = "queued"
        /\ Gone(rows[j]) => Gone(rows'[j])
    <3>1. "queued" \in {"staged", "queued"}
      OBVIOUS
    <3>2. /\ RowInv([rows[j] EXCEPT !.state = "queued"])
          /\ [rows[j] EXCEPT !.state = "queued"].state = "queued"
          /\ Gone(rows[j]) => Gone([rows[j] EXCEPT !.state = "queued"])
      BY <2>2, <3>1, ComeTame
    <3> QED BY <2>3, <3>2
  <2>5. \A i \in Jobs : RowInv(rows'[i])
    BY <2>3, <2>4, RowOf
  <2>6. rows' \in [Jobs -> Row]
    BY <2>3, <2>5, RowInvRow
  <2>7. OnItsWay(j)'
    <3>1. op'[c].kind = "add" /\ op'[c].job = j
      BY <2>1 DEF Later, IndexInv, TypeOK
    <3> QED BY <3>1 DEF OnItsWay
  <2>8. ~Useless(j) /\ (Safe(j) => Safe(j)')
    BY <2>2, <2>4 DEF Useless, Spent, Safe
  <2>9. ASSUME NEW i \in Jobs, i # j
        PROVE  /\ Safe(i) => Safe(i)'
               /\ Wanted(i)' => Wanted(i)
               /\ Useless(i) => Useless(i)'
    BY <2>3, <2>9 DEF Safe, Wanted, Useless
  <2>10. RowMoves
    BY <2>2, <2>3, <2>4, <2>5, <2>6, <2>7, <2>8, <2>9 DEF RowMoves, Coming
  <2> QED BY <2>3, <2>4, <2>10 DEF Coming
<1> QED BY <1>1, <1>2

LEMMA StageRows ==
    ASSUME IndexInv, Stage
    PROVE  RowMoves
<1> DEFINE f == [j \in Jobs |-> IF j \in BatchJobs THEN [rows[j] EXCEPT !.state = "staged"]
                                ELSE rows[j]]
<1>1. rows' = f /\ UNCHANGED origin /\ \A j \in BatchJobs : rows[j].state = "absent"
  BY DEF Stage
<1>2. ASSUME NEW j \in Jobs, j \in BatchJobs
      PROVE  /\ RowInv(rows'[j]) /\ rows'[j].state = "staged" /\ rows[j].state \in Coming
             /\ Gone(rows[j]) => Gone(rows'[j])
  BY <1>1, <1>2, RowOf, ComeTame DEF Coming
<1>3. ASSUME NEW j \in Jobs, j \notin BatchJobs
      PROVE  rows'[j] = rows[j] /\ RowInv(rows'[j])
  BY <1>1, <1>3, RowOf
<1>4. rows' \in [Jobs -> Row]
  BY <1>1, <1>2, <1>3, RowInvRow
<1>5. ASSUME NEW j \in Jobs
      PROVE  /\ RowInv(rows'[j])
             /\ rows'[j].state \in Coming => rows[j].state \in Coming /\ origin'[j] = origin[j]
             /\ Safe(j) => Safe(j)'
             /\ Wanted(j)' => Wanted(j)
             /\ Useless(j) => Useless(j)'
  <2>1. CASE j \in BatchJobs
    BY <1>1, <1>2, <2>1 DEF Safe, Wanted, Useless, Spent, Claimable
  <2>2. CASE j \notin BatchJobs
    BY <1>1, <1>3, <2>2 DEF Safe, Wanted, Useless
  <2> QED BY <2>1, <2>2
<1> QED BY <1>4, <1>5 DEF RowMoves

LEMMA ActivateRows ==
    ASSUME IndexInv, NEW c \in Callers, Activate(c)
    PROVE  /\ RowMoves /\ origin' \in [Jobs -> Origins]
           /\ \E j \in Jobs : Later(c, "rebuild", j)
<1> DEFINE staged == {j \in BatchJobs : rows[j].state = "staged"}
<1>1. /\ rows' = [j \in Jobs |-> IF j \in staged THEN [rows[j] EXCEPT !.state = "queued"] ELSE rows[j]]
      /\ origin' = [j \in Jobs |-> IF j \in staged THEN "submitted" ELSE origin[j]]
      /\ staged # {} /\ Later(c, "rebuild", CHOOSE j \in staged : TRUE)
  BY DEF Activate
<1>2. \E j \in Jobs : Later(c, "rebuild", j)
  <2>1. (CHOOSE j \in staged : TRUE) \in staged /\ staged \subseteq Jobs
    BY <1>1, HybridAssumption
  <2> HIDE DEF staged
  <2> QED BY <1>1, <2>1
<1>3. \A j \in Jobs : OnItsWay(j)'
  <2>1. op'[c].kind = "rebuild"
    BY <1>2 DEF Later, IndexInv, TypeOK
  <2> QED BY <2>1 DEF OnItsWay
<1>4. ASSUME NEW j \in Jobs, j \in staged
      PROVE  /\ RowInv(rows'[j]) /\ rows'[j].state = "queued" /\ rows[j].state \in Coming
             /\ (Gone(rows[j]) => Gone(rows'[j])) /\ origin[j] = "none" /\ origin'[j] = "submitted"
  <2>1. rows'[j] = [rows[j] EXCEPT !.state = "queued"] /\ rows[j].state \in Coming
    BY <1>1, <1>4 DEF Coming
  <2> QED BY <1>1, <1>4, <2>1, RowOf, ComeTame
<1>5. ASSUME NEW j \in Jobs, j \notin staged
      PROVE  rows'[j] = rows[j] /\ RowInv(rows'[j]) /\ origin'[j] = origin[j]
  BY <1>1, <1>5, RowOf
<1>6. origin' \in [Jobs -> Origins]
  BY <1>1, TableTypes DEF Origins
<1>7. rows' \in [Jobs -> Row]
  <2> HIDE DEF staged
  <2> QED BY <1>1, <1>4, <1>5, RowInvRow
<1>8. ASSUME NEW j \in Jobs
      PROVE  /\ RowInv(rows'[j])
             /\ rows'[j].state \in Coming => rows[j].state \in Coming /\ origin'[j] = origin[j]
             /\ Safe(j) => Safe(j)'
             /\ Useless(j) => Useless(j)'
  <2> HIDE DEF staged
  <2>1. CASE j \in staged
    BY <1>4, <2>1 DEF Safe, Useless, Spent, Coming
  <2>2. CASE j \notin staged
    BY <1>5, <2>2 DEF Safe, Useless
  <2> QED BY <2>1, <2>2
<1> QED BY <1>2, <1>3, <1>6, <1>7, <1>8 DEF RowMoves

LEMMA CancelJobRows ==
    ASSUME IndexInv, NEW c \in Callers, NEW j \in Jobs, CancelJob(c, j)
    PROVE  RowMoves /\ Safe(j)' /\ origin' \in [Jobs -> Origins]
<1> DEFINE f == [i \in Jobs |-> IF i = j THEN Cancel(rows[j]) ELSE rows[i]]
<1>1. rows' = [i \in Jobs |-> f[i]] /\ UNCHANGED origin /\ HasRow(rows[j])
  BY TableTypes DEF CancelJob
<1>2. \A i \in Jobs : /\ Tame(rows[i], f[i]) /\ NotReadier(rows[i], f[i])
                      /\ Spent(rows[i]) => Spent(f[i])
  BY RowOf, CancelTame, SameTame
<1>3. RowMoves
  <2> HIDE DEF f
  <2> QED BY <1>1, <1>2, TameMoves
<1>4. Gone(rows'[j])
  BY <1>1, RowOf, CancelTame
<1> QED BY <1>1, <1>3, <1>4, TableTypes DEF Safe

LEMMA CancelBatchRows ==
    ASSUME IndexInv, NEW c \in Callers, CancelBatch(c)
    PROVE  /\ RowMoves /\ origin' \in [Jobs -> Origins]
           /\ \E j \in Jobs : Later(c, "rebuild", j)
<1> DEFINE f == [i \in Jobs |-> IF i \in BatchJobs THEN Cancel(rows[i]) ELSE rows[i]]
<1>1. /\ rows' = [i \in Jobs |-> f[i]] /\ UNCHANGED origin
      /\ Later(c, "rebuild", CHOOSE j \in BatchJobs : TRUE) /\ BatchJobs # {}
  BY DEF CancelBatch
<1>2. \A i \in Jobs : /\ Tame(rows[i], f[i]) /\ NotReadier(rows[i], f[i])
                      /\ Spent(rows[i]) => Spent(f[i])
  BY RowOf, CancelTame, SameTame
<1>3. RowMoves
  <2> HIDE DEF f
  <2> QED BY <1>1, <1>2, TameMoves
<1>4. (CHOOSE j \in BatchJobs : TRUE) \in Jobs
  BY <1>1, HybridAssumption
<1> QED BY <1>1, <1>3, <1>4, TableTypes

LEMMA RequeueRows ==
    ASSUME IndexInv, NEW c \in Callers, NEW j \in Jobs, RequeueJob(c, j)
    PROVE  RowMoves /\ rows'[j].state \notin Coming /\ origin' \in [Jobs -> Origins]
<1>1. /\ rows' = [rows EXCEPT ![j] = Requeue(rows[j])] /\ Requeueable(rows[j])
      /\ origin' = [origin EXCEPT ![j] = "requeued"]
  BY DEF RequeueJob
<1>2. /\ rows'[j] = Requeue(rows[j]) /\ origin'[j] = "requeued"
      /\ \A i \in Jobs : i # j => rows'[i] = rows[i] /\ origin'[i] = origin[i]
      /\ origin' \in [Jobs -> Origins] /\ DOMAIN rows' = Jobs /\ rows' = [i \in Jobs |-> rows'[i]]
  BY <1>1, TableTypes DEF Origins
<1>3. RowInv(rows'[j]) /\ rows'[j].state \notin Coming
  BY <1>1, <1>2, RowOf, RequeueRow
<1>4. \A i \in Jobs : RowInv(rows'[i])
  BY <1>2, <1>3, RowOf
<1>5. rows' \in [Jobs -> Row]
  BY <1>2, <1>4, RowInvRow
<1>6. ASSUME NEW i \in Jobs
      PROVE  /\ rows'[i].state \in Coming => rows[i].state \in Coming /\ origin'[i] = origin[i]
             /\ Safe(i) => Safe(i)'
             /\ Wanted(i)' => Wanted(i)
             /\ Useless(i) => Useless(i)'
  <2>1. CASE i = j
    BY <1>2, <1>3, <2>1 DEF Safe, Wanted, Useless
  <2>2. CASE i # j
    BY <1>2, <2>2 DEF Safe, Wanted, Useless
  <2> QED BY <2>1, <2>2
<1> QED BY <1>2, <1>3, <1>4, <1>5, <1>6 DEF RowMoves

LEMMA MaintainRows ==
    ASSUME IndexInv, Maintain
    PROVE  /\ RowMoves /\ origin' \in [Jobs -> Origins]
           /\ \A j \in loop'.fin : Safe(j)'
           /\ loop' \in Loop /\ loop'.pc = "report"
<1> DEFINE back  == {j \in Jobs : \/ ExpireSql(rows[j]).state = "queued" /\ rows[j].state # "queued"
                                  \/ rows[j].state = "retry_wait" /\ Due(rows[j].not_before)}
           after == [j \in Jobs |-> Maintenance(rows[j])]
           ended == {j \in Jobs : IsTerminal(after[j]) /\ ~IsTerminal(rows[j])}
<1>1. /\ rows' = after
      /\ loop' = [IdleLoop EXCEPT !.pc = "report", !.left = Models, !.fin = ended, !.req = back]
      /\ origin' = [j \in Jobs |-> IF j \in back /\ origin[j] # "requeued" THEN "returned"
                                   ELSE origin[j]]
      /\ loop.pc = "idle"
  BY DEF Maintain
<1>2. \A j \in Jobs : /\ Tame(rows[j], rows'[j]) /\ RowInv(rows'[j])
                      /\ Claimable(rows'[j], TRUE) => Claimable(rows[j], TRUE) \/ j \in back
  BY <1>1, RowOf, MaintenanceTame DEF Tame, Returns
<1>3. \A j \in back : rows[j].state \notin Coming
  <2>1. ASSUME NEW j \in Jobs, rows[j].state \in Coming PROVE j \notin back
    BY <2>1 DEF Coming, ExpireSql, HeldStates
  <2> QED BY <2>1
<1>4. rows' \in [Jobs -> Row] /\ origin' \in [Jobs -> Origins]
  <2>1. rows' \in [Jobs -> Row]
    BY <1>1, <1>2, RowInvRow
  <2> HIDE DEF back
  <2>2. origin' \in [Jobs -> Origins]
    BY <1>1, TableTypes DEF Origins
  <2> QED BY <2>1, <2>2
<1>5. /\ loop'.pc = "report" /\ loop'.fin = ended /\ loop'.req = back /\ loop' \in Loop
  <2>1. ended \subseteq Jobs /\ back \subseteq Jobs
    OBVIOUS
  <2> HIDE DEF ended, back
  <2> QED BY <1>1, <2>1 DEF IdleLoop, Loop
<1>6. \A j \in ended : Safe(j)'
  BY <1>1 DEF Safe, Gone
<1>7. \A j \in back : OnItsWay(j)'
  <2> HIDE DEF back, ended
  <2> QED BY <1>5 DEF OnItsWay
<1>8. ASSUME NEW j \in Jobs
      PROVE  /\ rows'[j].state \in Coming => rows[j].state \in Coming /\ origin'[j] = origin[j]
             /\ Safe(j) => Safe(j)'
             /\ Wanted(j)' => Wanted(j) \/ OnItsWay(j)'
  <2> HIDE DEF back
  <2>1. Tame(rows[j], rows'[j]) /\ (Claimable(rows'[j], TRUE) => Claimable(rows[j], TRUE) \/ j \in back)
    BY <1>2
  <2>2. CASE j \in back
    BY <1>1, <1>3, <1>7, <2>1, <2>2 DEF Tame, Safe
  <2>3. CASE j \notin back
    BY <1>1, <2>1, <2>3 DEF Tame, Safe, Wanted
  <2> QED BY <2>2, <2>3
<1> QED BY <1>1, <1>2, <1>4, <1>5, <1>6, <1>8 DEF RowMoves

\* A statement of the dispatcher or of a task, on one row.
LEMMA OneTame ==
    ASSUME IndexInv, UNCHANGED origin, loop.pc # "lost", NEW j \in Jobs, NEW r,
           rows' = [rows EXCEPT ![j] = r], Tame(rows[j], r), NotReadier(rows[j], r)
    PROVE  RowMoves
<1> DEFINE f == [i \in Jobs |-> IF i = j THEN r ELSE rows[i]]
<1>1. rows' = [i \in Jobs |-> f[i]]
  BY TableTypes
<1>2. \A i \in Jobs : Tame(rows[i], f[i]) /\ NotReadier(rows[i], f[i])
  BY RowOf, SameTame
<1> HIDE DEF f
<1> QED BY <1>1, <1>2, TameMoves

\* The dispatcher's token.
LEMMA WorkerOwns == Worker \in Owners
BY HybridAssumption DEF Worker

LEMMA ClaimRows ==
    ASSUME IndexInv, ClaimById
    PROVE  RowMoves /\ loop.cand \in Jobs /\ ~Claimable(rows'[loop.cand], TRUE)
<1> DEFINE j == loop.cand
<1>1. /\ rows' = [rows EXCEPT ![j] = ClaimSql(rows[j], Worker, TRUE)] /\ UNCHANGED origin
      /\ loop.pc = "claim" /\ j \in Jobs
  BY DEF ClaimById, IndexInv, RemovalsInv
<1>2. /\ Tame(rows[j], ClaimSql(rows[j], Worker, TRUE))
      /\ NotReadier(rows[j], ClaimSql(rows[j], Worker, TRUE))
      /\ ~Claimable(ClaimSql(rows[j], Worker, TRUE), TRUE)
  BY <1>1, RowOf, ClaimTame, WorkerOwns
<1>3. rows'[j] = ClaimSql(rows[j], Worker, TRUE)
  BY <1>1, TableTypes
<1> QED BY <1>1, <1>2, <1>3, OneTame

LEMMA ClaimMoreRows ==
    ASSUME IndexInv, ClaimMore
    PROVE  /\ RowMoves
           /\ \E S \in SUBSET Jobs : RemoveHints(S) /\ \A j \in S : ~Claimable(rows'[j], TRUE)
<1>1. PICK S \in SUBSET Jobs :
         /\ rows' = [j \in Jobs |-> IF j \in S THEN ClaimSql(rows[j], Worker, TRUE) ELSE rows[j]]
         /\ RemoveHints(S)
  BY DEF ClaimMore
<1> DEFINE f == [j \in Jobs |-> IF j \in S THEN ClaimSql(rows[j], Worker, TRUE) ELSE rows[j]]
<1>2. \A j \in Jobs : /\ Tame(rows[j], f[j]) /\ NotReadier(rows[j], f[j])
                      /\ j \in S => ~Claimable(f[j], TRUE)
  BY RowOf, ClaimTame, SameTame, WorkerOwns
<1>3. rows' = [j \in Jobs |-> f[j]] /\ UNCHANGED origin /\ loop.pc = "more"
  BY <1>1 DEF ClaimMore
<1>4. RowMoves
  <2> HIDE DEF f
  <2> QED BY <1>2, <1>3, TameMoves
<1> QED BY <1>1, <1>2, <1>3, <1>4

LEMMA StartRows ==
    ASSUME IndexInv, NEW j \in Jobs, Start(j)
    PROVE  RowMoves
<1>1. /\ rows' = [rows EXCEPT ![j] = MarkRunning(rows[j], Worker)] /\ UNCHANGED origin
      /\ loop.pc # "lost"
  BY DEF Start, TaskCall
<1>2. /\ Tame(rows[j], MarkRunning(rows[j], Worker))
      /\ NotReadier(rows[j], MarkRunning(rows[j], Worker))
  BY RowOf, StartTame
<1> QED BY <1>1, <1>2, OneTame

LEMMA SettleRows ==
    ASSUME IndexInv, NEW j \in Jobs, Settle(j)
    PROVE  RowMoves
<1>1. UNCHANGED origin /\ loop.pc # "lost" /\ RowInv(rows[j])
  BY RowOf DEF Settle, TaskCall
<1>2. CASE rows' = [rows EXCEPT ![j] = Complete(@, Worker)]
  <2>1. /\ Tame(rows[j], Complete(rows[j], Worker))
        /\ NotReadier(rows[j], Complete(rows[j], Worker))
    BY <1>1, SettleTame
  <2> QED BY <1>1, <1>2, <2>1, OneTame
<1>3. CASE rows' = [rows EXCEPT ![j] = Fail(@, Worker, FALSE)]
  <2>1. /\ Tame(rows[j], Fail(rows[j], Worker, FALSE))
        /\ NotReadier(rows[j], Fail(rows[j], Worker, FALSE))
    BY <1>1, SettleTame
  <2> QED BY <1>1, <1>3, <2>1, OneTame
<1>4. ASSUME rows[j].attempt_count < rows[j].max_attempts, NEW d \in Delays, NEW m \in Models,
             rows' = [rows EXCEPT ![j] = Retry(@, Worker, d, m)]
      PROVE  RowMoves
  <2>1. d \in Nat
    BY HybridAssumption
  <2>2. /\ Tame(rows[j], Retry(rows[j], Worker, d, m))
        /\ NotReadier(rows[j], Retry(rows[j], Worker, d, m))
    BY <1>1, <1>4, <2>1, RetryTame
  <2> QED BY <1>1, <1>4, <2>2, OneTame
<1> QED BY <1>2, <1>3, <1>4 DEF Settle

LEMMA ReleaseRows ==
    ASSUME IndexInv, NEW j \in Jobs, NEW m \in Models, Release(j, m)
    PROVE  RowMoves /\ origin' \in [Jobs -> Origins]
<1> DEFINE r == ReleaseSql(rows[j], Worker, m)
<1>1. /\ rows' = [rows EXCEPT ![j] = r] /\ loop.pc = "idle" /\ rows[j].state = "running"
      /\ origin' = [origin EXCEPT ![j] = IF @ = "requeued" THEN @ ELSE "released"]
  BY DEF Release, TaskCall
<1>2. Tame(rows[j], r)
  BY RowOf, ReleaseTame
<1> HIDE DEF r
<1>3. /\ rows'[j] = r /\ origin'[j] \in {"requeued", "released"}
      /\ origin[j] = "requeued" => origin'[j] = "requeued"
      /\ \A i \in Jobs : i # j => rows'[i] = rows[i] /\ origin'[i] = origin[i]
      /\ origin' \in [Jobs -> Origins] /\ DOMAIN rows' = Jobs /\ rows' = [i \in Jobs |-> rows'[i]]
  BY <1>1, TableTypes DEF Origins
<1>4. \A i \in Jobs : RowInv(rows'[i])
  BY <1>2, <1>3, RowOf DEF Tame
<1>5. rows' \in [Jobs -> Row]
  BY <1>3, <1>4, RowInvRow
<1>6. ASSUME NEW i \in Jobs
      PROVE  /\ rows'[i].state \in Coming => rows[i].state \in Coming /\ origin'[i] = origin[i]
             /\ Safe(i) => Safe(i)'
             /\ Wanted(i)' => Wanted(i)
  <2>1. CASE i = j
    <3>1. r.state \notin Coming
      BY <1>1, <1>2 DEF Tame, Coming
    <3> QED BY <1>2, <1>3, <2>1, <3>1 DEF Safe, Wanted, Tame
  <2>2. CASE i # j
    BY <1>3, <2>2 DEF Safe, Wanted
  <2> QED BY <2>1, <2>2
<1> QED BY <1>1, <1>3, <1>4, <1>5, <1>6 DEF RowMoves

LEMMA TickRows ==
    ASSUME IndexInv, Tick
    PROVE  RowMoves
<1>1. /\ rows' = [j \in Jobs |-> IF HasRow(rows[j]) THEN Elapse(rows[j]) ELSE rows[j]]
      /\ UNCHANGED origin
  BY DEF Tick
<1>2. ASSUME NEW j \in Jobs
      PROVE  /\ RowInv(rows'[j]) /\ rows'[j].state = rows[j].state
             /\ Gone(rows[j]) => Gone(rows'[j])
             /\ NotReadier(rows[j], rows'[j])
             /\ Spent(rows[j]) => Spent(rows'[j])
  <2>1. CASE HasRow(rows[j])
    <3>1. rows'[j] = Elapse(rows[j])
      BY <1>1, <2>1
    <3> QED BY <2>1, <3>1, RowOf, ElapseTame
  <2>2. CASE ~HasRow(rows[j])
    <3>1. rows'[j] = rows[j]
      BY <1>1, <2>2
    <3> QED BY <3>1, RowOf, SameTame
  <2> QED BY <2>1, <2>2
<1>3. rows' \in [Jobs -> Row]
  <2>1. rows' = [j \in Jobs |-> rows'[j]]
    BY <1>1
  <2> QED BY <1>2, <2>1, RowInvRow
<1> QED BY <1>1, <1>2, <1>3 DEF RowMoves, Safe, Wanted, Useless, NotReadier

(***************************************************************************)
(* The index.                                                              *)
(***************************************************************************)
\* A lane of the index is not Null.
LEMMA LaneTypes ==
    ASSUME NEW j \in Jobs, NEW m \in Models
    PROVE  LaneIn(j, m) \in Lanes /\ LaneIn(j, m) # Null
BY HybridAssumption DEF LaneIn, Lanes

\* What is left to show of a step once the table is settled.
LEMMA Conclude ==
    ASSUME IndexInv, RowMoves, TypeOK', LiveHasEntry', RemovalsInv',
           \A j \in Jobs : Known(j)' => Known(j) \/ rows'[j].state \notin Coming,
           \A j \in Jobs : Wanted(j)' /\ (live[j] # Null \/ OnItsWay(j))
                           => live'[j] # Null \/ OnItsWay(j)'
    PROVE  IndexInv'
<1>1. RowsInv'
  <2>1. ASSUME NEW j \in Jobs, rows'[j].state \in Coming
        PROVE  origin'[j] = "none" /\ ~Known(j)'
    BY <2>1 DEF RowMoves, IndexInv, RowsInv
  <2> QED BY <2>1 DEF RowMoves, RowsInv
<1>2. HintOrOnItsWay'
  <2>1. ASSUME NEW j \in Jobs, Wanted(j)' PROVE live'[j] # Null \/ OnItsWay(j)'
    BY <2>1 DEF RowMoves, IndexInv, HintOrOnItsWay, Wanted
  <2> QED BY <2>1 DEF HintOrOnItsWay, Wanted
<1> QED BY <1>1, <1>2 DEF IndexInv

\* What the callers wait for stays true of the jobs it is about.
LEMMA RemovalsStay ==
    ASSUME IndexInv, RowMoves
    PROVE  \A j \in Jobs :
              /\ \A c \in Callers : op[c].kind = "remove" /\ op[c].job = j => Safe(j)'
              /\ loop.pc = "report" /\ j \in loop.fin => Safe(j)'
              /\ loop.pc = "lost" /\ loop.cand = j => Useless(j)'
BY DEF IndexInv, RemovalsInv, RowMoves

\* A transaction that leaves the index alone, with perhaps a call to make.
LEMMA CallStep ==
    ASSUME IndexInv, RowMoves, UNCHANGED <<live, heaps, loop>>,
           aged' \in BOOLEAN, detours' \in Nat, origin' \in [Jobs -> Origins],
           \/ UNCHANGED op
           \/ \E c \in Callers, j \in Jobs, k \in {"add", "remove", "rebuild"} :
                 /\ Later(c, k, j)
                 /\ k = "add" => rows'[j].state \notin Coming
                 /\ k = "remove" => Safe(j)'
    PROVE  IndexInv'
<1>1. CASE UNCHANGED op
  <2>1. TypeOK' /\ LiveHasEntry'
    BY <1>1 DEF IndexInv, TypeOK, LiveHasEntry, RowMoves, Origins
  <2>2. RemovalsInv'
    <3>1. loop.fin \subseteq Jobs
      BY DEF IndexInv, TypeOK, Loop
    <3> QED BY <1>1, <3>1, RemovalsStay DEF RemovalsInv, IndexInv, Safe, Useless
  <2>3. \A j \in Jobs : Known(j)' <=> Known(j)
    BY <1>1 DEF Known
  <2>4. \A j \in Jobs : OnItsWay(j)' <=> OnItsWay(j)
    BY <1>1 DEF OnItsWay
  <2> QED BY <2>1, <2>2, <2>3, <2>4, Conclude
<1>2. ASSUME NEW c \in Callers, NEW j \in Jobs, NEW k \in {"add", "remove", "rebuild"},
             Later(c, k, j), k = "add" => rows'[j].state \notin Coming,
             k = "remove" => Safe(j)'
      PROVE  IndexInv'
  <2> DEFINE o == [kind |-> k, job |-> j, model |-> rows'[j].resolved_model]
  <2>1. /\ op[c] = NoOp /\ op \in [Callers -> Op] /\ op' = [op EXCEPT ![c] = o]
        /\ rows'[j].resolved_model \in Models
    BY <1>2 DEF Later, IndexInv, TypeOK, RowMoves, Row
  <2>2. /\ o \in Op /\ op'[c] = o /\ op' \in [Callers -> Op]
        /\ \A d \in Callers : d # c => op'[d] = op[d]
    <3>1. o \in Op
      BY <2>1 DEF Op
    <3> HIDE DEF o
    <3> QED BY <2>1, <3>1
  <2>3. /\ op'[c].kind = k /\ op'[c].job = j /\ op'[c].model \in Models
        /\ op[c].kind = "none"
    BY <2>1, <2>2 DEF NoOp
  <2> HIDE DEF o
  <2>4. TypeOK' /\ LiveHasEntry'
    BY <2>2, <2>3 DEF IndexInv, TypeOK, LiveHasEntry, RowMoves, Origins
  <2>5. RemovalsInv'
    <3>1. ASSUME NEW d \in Callers, op'[d].kind = "remove"
          PROVE  op'[d].job \in Jobs /\ (Gone(rows'[op'[d].job]) \/ origin'[op'[d].job] = "requeued")
      BY <1>2, <2>2, <2>3, <3>1, RemovalsStay DEF Safe, IndexInv, RemovalsInv
    <3>2. loop.fin \subseteq Jobs
      BY DEF IndexInv, TypeOK, Loop
    <3> QED BY <3>1, <3>2, RemovalsStay DEF RemovalsInv, IndexInv, Safe, Useless
  <2>6. \A i \in Jobs : Known(i)' => Known(i) \/ rows'[i].state \notin Coming
    BY <1>2, <2>2, <2>3 DEF Known
  <2>7. \A i \in Jobs : OnItsWay(i) => OnItsWay(i)'
    <3>1. ASSUME NEW i \in Jobs, NEW d \in Callers,
                 op[d].kind = "rebuild" \/ (op[d].kind = "add" /\ op[d].job = i)
          PROVE  op'[d] = op[d]
      BY <2>2, <2>3, <3>1
    <3> QED BY <3>1 DEF OnItsWay
  <2> QED BY <2>4, <2>5, <2>6, <2>7, Conclude
<1> QED BY <1>1, <1>2

\* Each transaction of a caller or a task, and the clock.
LEMMA TableStep ==
    ASSUME IndexInv,
           \/ Tick \/ Stage
           \/ \E c \in Callers : \/ Activate(c) \/ CancelBatch(c)
                                 \/ \E j \in Jobs : Enqueue(c, j) \/ CancelJob(c, j) \/ RequeueJob(c, j)
           \/ \E j \in Jobs : Start(j) \/ Settle(j) \/ \E m \in Models : Release(j, m)
    PROVE  IndexInv'
<1>1. aged \in BOOLEAN /\ detours \in Nat /\ origin \in [Jobs -> Origins]
  BY TableTypes DEF IndexInv, TypeOK
<1>2. CASE Tick
  BY <1>1, <1>2, TickRows, CallStep DEF Tick
<1>3. CASE Stage
  BY <1>1, <1>3, StageRows, CallStep DEF Stage, IndexStays
<1>4. ASSUME NEW c \in Callers, Activate(c) PROVE IndexInv'
  <2>1. UNCHANGED <<live, heaps, loop, aged, detours>>
    BY <1>4 DEF Activate, IndexStays
  <2>2. PICK j \in Jobs : Later(c, "rebuild", j)
    BY <1>4, ActivateRows
  <2> QED BY <1>1, <1>4, <2>1, <2>2, ActivateRows, CallStep
<1>5. ASSUME NEW c \in Callers, CancelBatch(c) PROVE IndexInv'
  <2>1. UNCHANGED <<live, heaps, loop, aged, detours>>
    BY <1>5 DEF CancelBatch, IndexStays
  <2>2. PICK j \in Jobs : Later(c, "rebuild", j)
    BY <1>5, CancelBatchRows
  <2> QED BY <1>1, <1>5, <2>1, <2>2, CancelBatchRows, CallStep
<1>6. ASSUME NEW c \in Callers, NEW j \in Jobs, Enqueue(c, j) PROVE IndexInv'
  <2>1. UNCHANGED <<live, heaps, loop, aged, detours>> /\ Later(c, "add", j)
    BY <1>6 DEF Enqueue, IndexStays
  <2> QED BY <1>1, <1>6, <2>1, EnqueueRows, CallStep
<1>7. ASSUME NEW c \in Callers, NEW j \in Jobs, CancelJob(c, j) PROVE IndexInv'
  <2>1. UNCHANGED <<live, heaps, loop, aged, detours>> /\ Later(c, "remove", j)
    BY <1>7 DEF CancelJob, IndexStays
  <2> QED BY <1>1, <1>7, <2>1, CancelJobRows, CallStep
<1>8. ASSUME NEW c \in Callers, NEW j \in Jobs, RequeueJob(c, j) PROVE IndexInv'
  <2>1. /\ UNCHANGED <<live, heaps, loop, aged>>
        /\ Later(c, "add", j)
        /\ detours' = detours + 1
    BY <1>8 DEF RequeueJob, IndexStays
  <2>2. detours' \in Nat
    BY <1>1, <2>1
  <2> QED BY <1>1, <1>8, <2>1, <2>2, RequeueRows, CallStep
<1>9. ASSUME NEW j \in Jobs, Start(j) PROVE IndexInv'
  BY <1>1, <1>9, StartRows, CallStep DEF Start, TaskCall
<1>10. ASSUME NEW j \in Jobs, Settle(j) PROVE IndexInv'
  BY <1>1, <1>10, SettleRows, CallStep DEF Settle, TaskCall
<1>11. ASSUME NEW j \in Jobs, NEW m \in Models, Release(j, m) PROVE IndexInv'
  <2>1. UNCHANGED <<live, heaps, loop, op, aged>> /\ detours' = detours + 1
    BY <1>11 DEF Release, TaskCall
  <2>2. detours' \in Nat
    BY <1>1, <2>1
  <2> QED BY <1>1, <1>11, <2>1, <2>2, ReleaseRows, CallStep
<1> QED BY <1>2, <1>3, <1>4, <1>5, <1>6, <1>7, <1>8, <1>9, <1>10, <1>11

\* No job that must not be missing is one whose hint may go.
LEMMA UnwantedHints ==
    ASSUME IndexInv, NEW j \in Jobs, Safe(j) \/ Useless(j)
    PROVE  ~Wanted(j)
BY RowOf
DEF Safe, Useless, Gone, Spent, Wanted, Claimable, IsTerminal, TerminalStates, Coming

\* A rebuild leaves an index that is true of the table.
LEMMA RebuildOK ==
    ASSUME IndexInv, Rebuild, UNCHANGED rows
    PROVE  /\ live' \in [Jobs -> Lanes \cup {Null}] /\ heaps' \in [Lanes -> SUBSET Jobs]
           /\ aged' \in BOOLEAN /\ LiveHasEntry'
           /\ \A j \in Jobs : /\ live'[j] # Null => rows[j].state \notin Coming
                              /\ Claimable(rows[j], TRUE) => live'[j] # Null
<1> DEFINE lane(j) == LaneIn(j, rows[j].resolved_model)
<1>1. \A j \in Jobs : lane(j) \in Lanes /\ lane(j) # Null
  BY RowOf, LaneTypes
<1>2. /\ live'  = [j \in Jobs |-> IF j \in Ready THEN lane(j) ELSE Null]
      /\ heaps' = [l \in Lanes |-> {j \in Ready : lane(j) = l}]
      /\ aged'  = FALSE
  BY DEF Rebuild
<1>3. Ready \subseteq Jobs /\ \A j \in Jobs : j \in Ready <=> rows[j].state = "queued"
  BY DEF Ready
<1> HIDE DEF lane
<1>4. live' \in [Jobs -> Lanes \cup {Null}] /\ heaps' \in [Lanes -> SUBSET Jobs]
  BY <1>1, <1>2, <1>3
<1>5. LiveHasEntry'
  BY <1>1, <1>2, <1>3 DEF LiveHasEntry
<1>6. ASSUME NEW j \in Jobs
      PROVE  /\ live'[j] # Null => rows[j].state \notin Coming
             /\ Claimable(rows[j], TRUE) => live'[j] # Null
  BY <1>1, <1>2, <1>3 DEF Coming, Claimable
<1> QED BY <1>2, <1>4, <1>5, <1>6

\* A removal takes hints away and nothing else.
LEMMA RemoveOK ==
    ASSUME IndexInv, NEW S, RemoveHints(S)
    PROVE  /\ live' \in [Jobs -> Lanes \cup {Null}] /\ heaps' \in [Lanes -> SUBSET Jobs]
           /\ LiveHasEntry'
           /\ \A j \in Jobs : live'[j] = IF j \in S THEN Null ELSE live[j]
BY DEF IndexInv, TypeOK, RemoveHints, LiveHasEntry

\* A call of a caller reaches the index.
LEMMA ChangeStep ==
    ASSUME IndexInv, NEW c \in Callers, ChangeIndex(c)
    PROVE  IndexInv'
<1> DEFINE o == op[c]
<1>1. /\ op' = [op EXCEPT ![c] = NoOp] /\ UNCHANGED <<rows, loop, origin, detours>>
      /\ \/ o.kind = "add" /\ AddHint(o.job, o.model) /\ UNCHANGED aged
         \/ o.kind = "remove" /\ RemoveHints({o.job}) /\ UNCHANGED aged
         \/ o.kind = "rebuild" /\ Rebuild
  BY DEF ChangeIndex
<1>2. /\ op \in [Callers -> Op] /\ op' \in [Callers -> Op] /\ op'[c] = NoOp
      /\ \A d \in Callers : d # c => op'[d] = op[d]
  <2>1. NoOp \in Op /\ op \in [Callers -> Op]
    BY DEF NoOp, Op, IndexInv, TypeOK
  <2> QED BY <1>1, <2>1
<1>3. op'[c].kind = "none"
  BY <1>2 DEF NoOp
<1>4. RowMoves
  BY <1>1, StillRows
<1>5. RemovalsInv'
  <2>1. ASSUME NEW d \in Callers, op'[d].kind = "remove"
        PROVE  op'[d].job \in Jobs /\ Safe(op[d].job) /\ op'[d] = op[d]
    BY <1>2, <1>3, <2>1 DEF IndexInv, RemovalsInv
  <2> QED BY <1>1, <2>1 DEF IndexInv, RemovalsInv, Safe, Useless
<1>6. \A j \in Jobs : Wanted(j)' => Wanted(j)
  BY <1>1 DEF Wanted
<1>7. \A j \in Jobs : OnItsWay(j) => \/ OnItsWay(j)'
                                     \/ o.kind = "rebuild"
                                     \/ o.kind = "add" /\ o.job = j
  BY <1>1, <1>2 DEF OnItsWay
<1>8. \A j \in Jobs : Known(j)' => Known(j) \/ live'[j] # Null
  BY <1>1, <1>2, <1>3 DEF Known
<1>9. /\ \A d \in Callers : op'[d].kind = "add" => op'[d].job \in Jobs /\ op'[d].model \in Models
      /\ o.kind = "add" => o.job \in Jobs /\ o.model \in Models
  BY <1>2, <1>3 DEF IndexInv, TypeOK
<1>10. CASE o.kind = "add" /\ AddHint(o.job, o.model) /\ UNCHANGED aged
  <2> DEFINE k == o.job
             l == LaneIn(o.job, o.model)
  <2>1. k \in Jobs /\ l \in Lanes /\ l # Null
    BY <1>9, <1>10, LaneTypes
  <2>2. live' = [live EXCEPT ![k] = l] /\ heaps' = [heaps EXCEPT ![l] = heaps[l] \cup {k}]
    BY <1>10 DEF AddHint, Pushed
  <2>3. Known(k)
    BY <1>10 DEF Known
  <2> HIDE DEF k, l
  <2>4. /\ live \in [Jobs -> Lanes \cup {Null}]
        /\ heaps \in [Lanes -> SUBSET Jobs]
        /\ aged \in BOOLEAN
    BY DEF IndexInv, TypeOK
  <2>5. live' \in [Jobs -> Lanes \cup {Null}] /\ heaps' \in [Lanes -> SUBSET Jobs]
    BY <2>1, <2>2, <2>4
  <2>6. LiveHasEntry'
    BY <2>1, <2>2, <2>4 DEF LiveHasEntry, IndexInv
  <2>7. TypeOK'
    BY <1>1, <1>2, <1>9, <1>10, <2>5 DEF TypeOK, IndexInv
  <2>8. \A j \in Jobs : Known(j)' => Known(j)
    BY <1>8, <2>2, <2>3, <2>4 DEF Known
  <2>9. \A j \in Jobs : live[j] # Null \/ j = k => live'[j] # Null
    BY <2>1, <2>2, <2>4
  <2>10. \A j \in Jobs : OnItsWay(j) => OnItsWay(j)' \/ j = k
    BY <1>7, <1>10 DEF k
  <2> QED BY <1>4, <1>5, <2>6, <2>7, <2>8, <2>9, <2>10, Conclude
<1>11. CASE o.kind = "remove" /\ RemoveHints({o.job}) /\ UNCHANGED aged
  <2>1. /\ live' \in [Jobs -> Lanes \cup {Null}] /\ heaps' \in [Lanes -> SUBSET Jobs]
        /\ LiveHasEntry'
        /\ \A j \in Jobs : live'[j] = IF j \in {o.job} THEN Null ELSE live[j]
    BY <1>11, RemoveOK
  <2>2. TypeOK'
    BY <1>1, <1>2, <1>9, <1>11, <2>1 DEF TypeOK, IndexInv
  <2>3. \A j \in Jobs : Known(j)' => Known(j)
    BY <1>8, <2>1 DEF Known
  <2>4. ASSUME NEW j \in Jobs, j = o.job PROVE ~Wanted(j)
    BY <1>11, <2>4, UnwantedHints DEF IndexInv, RemovalsInv
  <2>5. \A j \in Jobs : Wanted(j)' /\ (live[j] # Null \/ OnItsWay(j))
                        => live'[j] # Null \/ OnItsWay(j)'
    BY <1>6, <1>7, <1>11, <2>1, <2>4
  <2> QED BY <1>4, <1>5, <2>1, <2>2, <2>3, <2>5, Conclude
<1>12. CASE o.kind = "rebuild" /\ Rebuild
  <2>1. /\ live' \in [Jobs -> Lanes \cup {Null}] /\ heaps' \in [Lanes -> SUBSET Jobs]
        /\ aged' \in BOOLEAN /\ LiveHasEntry'
        /\ \A j \in Jobs : /\ live'[j] # Null => rows[j].state \notin Coming
                           /\ Claimable(rows[j], TRUE) => live'[j] # Null
    BY <1>1, <1>12, RebuildOK
  <2>2. TypeOK'
    BY <1>1, <1>2, <1>9, <2>1 DEF TypeOK, IndexInv
  <2>3. \A j \in Jobs : Known(j)' => Known(j) \/ rows'[j].state \notin Coming
    BY <1>1, <1>8, <2>1
  <2>4. \A j \in Jobs : Wanted(j)' => live'[j] # Null
    BY <1>6, <2>1 DEF Wanted
  <2> QED BY <1>4, <1>5, <2>1, <2>2, <2>3, <2>4, Conclude
<1> QED BY <1>1, <1>10, <1>11, <1>12

\* A step of the dispatcher.
LEMMA DispatcherStep ==
    ASSUME IndexInv, RowMoves, UNCHANGED <<op, detours>>, origin' \in [Jobs -> Origins],
           aged' \in BOOLEAN, loop' \in Loop,
           live' \in [Jobs -> Lanes \cup {Null}], heaps' \in [Lanes -> SUBSET Jobs],
           LiveHasEntry',
           \A j \in Jobs : live'[j] # Null => live[j] # Null \/ rows'[j].state \notin Coming,
           \A j \in Jobs : Wanted(j)' /\ (live[j] # Null \/ OnItsWay(j))
                           => live'[j] # Null \/ OnItsWay(j)',
           loop'.pc = "report" => \A j \in loop'.fin : Safe(j)',
           \A j : loop'.pc \in {"claim", "lost"} /\ loop'.cand = j
                  => j \in Jobs /\ rows'[j].state \notin Coming,
           \A j : loop'.pc = "lost" /\ loop'.cand = j => Useless(j)'
    PROVE  IndexInv'
<1>1. TypeOK'
  BY DEF TypeOK, IndexInv, RowMoves, Origins
<1>2. RemovalsInv'
  <2>1. \A c \in Callers : op[c].kind = "remove"
                           => op[c].job \in Jobs /\ (Gone(rows'[op[c].job]) \/ origin'[op[c].job] = "requeued")
    BY RemovalsStay DEF Safe, IndexInv, RemovalsInv
  <2> QED BY <2>1 DEF RemovalsInv, Safe, Useless
<1>3. \A j \in Jobs : Known(j)' => Known(j) \/ rows'[j].state \notin Coming
  BY DEF Known
<1> QED BY <1>1, <1>2, <1>3, Conclude

\* The types a step of the dispatcher starts from.
LEMMA IndexTypes ==
    ASSUME IndexInv
    PROVE  /\ loop \in Loop /\ loop.left \subseteq Models /\ aged \in BOOLEAN
           /\ live \in [Jobs -> Lanes \cup {Null}] /\ heaps \in [Lanes -> SUBSET Jobs]
           /\ origin \in [Jobs -> Origins] /\ LiveHasEntry
BY TableTypes DEF IndexInv, TypeOK, Loop

\* Where the dispatcher goes when a model has nothing more.
LEMMA NextModelTypes ==
    ASSUME IndexInv, NEW m
    PROVE  NextModel(m) \in Loop /\ NextModel(m).pc \in {"idle", "visit"}
<1>1. IdleLoop \in Loop /\ IdleLoop.pc = "idle"
  BY DEF IdleLoop, Loop
<1>2. [IdleLoop EXCEPT !.pc = "visit", !.left = loop.left \ {m}] \in Loop
      /\ [IdleLoop EXCEPT !.pc = "visit", !.left = loop.left \ {m}].pc = "visit"
  BY <1>1, IndexTypes DEF IdleLoop, Loop
<1> QED BY <1>1, <1>2 DEF NextModel

\* Dead entries go, live ones stay.
LEMMA TrimOK ==
    ASSUME IndexInv, NEW l \in Lanes
    PROVE  /\ Trimmed(l) \in SUBSET Jobs /\ Alive(l) \subseteq Trimmed(l)
           /\ Alive(l) # {} => HeadOf(l) \in Alive(l)
<1>1. heaps[l] \subseteq Jobs /\ Jobs \subseteq Nat
  BY IndexTypes, HybridAssumption DEF Jobs
<1>2. Alive(l) \in SUBSET Nat /\ Alive(l) \subseteq heaps[l]
  BY <1>1 DEF Alive
<1>3. ASSUME Alive(l) # {}
      PROVE  HeadOf(l) \in Alive(l) /\ \A j \in Alive(l) : HeadOf(l) <= j
  <2>1. \E x \in Alive(l) : \A y \in Alive(l) : x <= y
    BY <1>2, <1>3, LeastNat
  <2> QED BY <2>1 DEF HeadOf, Min
<1>4. Alive(l) \subseteq Trimmed(l)
  <2>1. ASSUME NEW j \in Alive(l) PROVE j \in Trimmed(l)
    <3>1. Alive(l) # {}
      BY <2>1
    <3>2. HeadOf(l) <= j /\ HeadOf(l) \in Nat /\ j \in Nat /\ j \in heaps[l]
      BY <1>2, <1>3, <3>1
    <3>3. j >= HeadOf(l)
      BY <3>2
    <3> QED BY <3>1, <3>2, <3>3 DEF Trimmed
  <2> QED BY <2>1
<1> QED BY <1>1, <1>3, <1>4 DEF Trimmed

LEMMA MaintainStep ==
    ASSUME IndexInv, Maintain
    PROVE  IndexInv'
<1>1. UNCHANGED <<live, heaps, aged, op, detours>> /\ loop.pc = "idle"
  BY DEF Maintain, CallersStay
<1>2. /\ RowMoves /\ origin' \in [Jobs -> Origins] /\ \A j \in loop'.fin : Safe(j)'
      /\ loop' \in Loop /\ loop'.pc = "report"
  BY MaintainRows
<1>3. LiveHasEntry'
  BY <1>1, IndexTypes DEF LiveHasEntry
<1>4. \A j \in Jobs : OnItsWay(j) => OnItsWay(j)'
  BY <1>1 DEF OnItsWay
<1> QED BY <1>1, <1>2, <1>3, <1>4, IndexTypes, DispatcherStep

\* The dispatcher's steps after maintenance leave the calls of others alone.
LEMMA CallsStay ==
    ASSUME UNCHANGED op, loop.pc # "report", NEW j \in Jobs, OnItsWay(j)
    PROVE  OnItsWay(j)'
BY DEF OnItsWay

LEMMA ReportStep ==
    ASSUME IndexInv, Report
    PROVE  IndexInv'
<1> DEFINE lane(j) == LaneIn(j, rows[j].resolved_model)
           add == {j \in loop.req : rows[j].state = "queued"}
<1>1. /\ UNCHANGED <<rows, aged, origin, op, detours>> /\ loop.pc = "report"
      /\ live' = [j \in Jobs |-> IF j \in add THEN lane(j)
                                 ELSE IF j \in loop.fin \cup loop.req THEN Null ELSE live[j]]
      /\ heaps' = [l \in Lanes |-> heaps[l] \cup {j \in add : lane(j) = l}]
      /\ loop' = [loop EXCEPT !.pc = "visit", !.fin = {}, !.req = {}]
  BY DEF Report, CallersStay
<1>2. \A j \in Jobs : lane(j) \in Lanes /\ lane(j) # Null
  BY RowOf, LaneTypes
<1>3. /\ loop.req \subseteq Jobs /\ loop' \in Loop /\ loop'.pc = "visit"
  BY <1>1, IndexTypes DEF Loop
<1>4. add \subseteq Jobs /\ \A j \in Jobs : j \in add <=> j \in loop.req /\ rows[j].state = "queued"
  BY <1>3
<1> HIDE DEF lane, add
<1>5. live' \in [Jobs -> Lanes \cup {Null}] /\ heaps' \in [Lanes -> SUBSET Jobs]
  BY <1>1, <1>2, <1>4, IndexTypes
<1>6. LiveHasEntry'
  <2>1. ASSUME NEW j \in Jobs, live'[j] # Null PROVE j \in heaps'[live'[j]]
    <3>1. CASE j \in add
      BY <1>1, <1>2, <3>1
    <3>2. CASE j \notin add
      BY <1>1, <2>1, <3>2, IndexTypes DEF LiveHasEntry
    <3> QED BY <3>1, <3>2
  <2> QED BY <2>1 DEF LiveHasEntry
<1>7. RowMoves
  BY <1>1, StillRows
<1>8. ASSUME NEW j \in Jobs
      PROVE  /\ live'[j] # Null => live[j] # Null \/ rows'[j].state \notin Coming
             /\ Wanted(j)' /\ (live[j] # Null \/ OnItsWay(j)) => live'[j] # Null \/ OnItsWay(j)'
  <2>1. live'[j] # Null => live[j] # Null \/ rows'[j].state \notin Coming
    BY <1>1, <1>4 DEF Coming
  <2>2. ASSUME Wanted(j)', live[j] # Null \/ OnItsWay(j) PROVE live'[j] # Null \/ OnItsWay(j)'
    <3>1. Wanted(j) /\ rows[j].state = "queued"
      BY <1>1, <2>2 DEF Wanted, Claimable
    <3>2. CASE j \in loop.req
      BY <1>1, <1>2, <1>4, <3>1, <3>2
    <3>3. CASE j \notin loop.req
      <4>1. j \notin loop.fin
        BY <1>1, <3>1, UnwantedHints DEF IndexInv, RemovalsInv
      <4>2. OnItsWay(j) => OnItsWay(j)'
        BY <1>1, <3>3 DEF OnItsWay
      <4> QED BY <1>1, <1>4, <2>2, <3>3, <4>1, <4>2
    <3> QED BY <3>2, <3>3
  <2> QED BY <2>1, <2>2
<1> QED BY <1>1, <1>3, <1>5, <1>6, <1>7, <1>8, IndexTypes, DispatcherStep

LEMMA ReconcileStep ==
    ASSUME IndexInv, Reconcile
    PROVE  IndexInv'
<1>1. Rebuild /\ UNCHANGED <<rows, loop, origin, op, detours>> /\ loop.pc = "visit"
  BY DEF Reconcile, CallersStay
<1>2. RowMoves
  BY <1>1, StillRows
<1>3. \A j \in Jobs : Wanted(j)' => live'[j] # Null
  BY <1>1, RebuildOK DEF Wanted
<1> QED BY <1>1, <1>2, <1>3, RebuildOK, IndexTypes, DispatcherStep

LEMMA ProposeStep ==
    ASSUME IndexInv, NEW m \in Models, Propose(m)
    PROVE  IndexInv'
<1>1. /\ UNCHANGED <<rows, live, aged, origin, op, detours>>
      /\ loop.pc \in {"visit", "again"}
      /\ heaps' = [l \in Lanes |-> IF l[1] = m THEN Trimmed(l) ELSE heaps[l]]
  BY DEF Propose, CallersStay
<1>2. RowMoves
  BY <1>1, StillRows
<1>3. heaps' \in [Lanes -> SUBSET Jobs]
  BY <1>1, IndexTypes, TrimOK
<1>4. LiveHasEntry'
  <2>1. ASSUME NEW j \in Jobs, live[j] # Null PROVE j \in heaps'[live[j]]
    <3>1. live[j] \in Lanes /\ j \in heaps[live[j]]
      BY <2>1, IndexTypes DEF LiveHasEntry
    <3>2. j \in Alive(live[j])
      BY <3>1 DEF Alive
    <3>3. j \in Trimmed(live[j])
      BY <3>1, <3>2, TrimOK
    <3> QED BY <1>1, <3>1, <3>3
  <2> QED BY <1>1, <2>1 DEF LiveHasEntry
<1>5. CASE loop' = NextModel(m)
  BY <1>1, <1>2, <1>3, <1>4, <1>5, CallsStay, NextModelTypes, IndexTypes, DispatcherStep
<1>6. ASSUME NEW l \in Lanes, Alive(l) # {},
             loop' = [loop EXCEPT !.pc = "claim", !.model = m, !.cand = HeadOf(l)]
      PROVE  IndexInv'
  <2>1. HeadOf(l) \in Jobs /\ live[HeadOf(l)] = l /\ l # Null
    BY <1>6, TrimOK, IndexTypes, HybridAssumption DEF Alive, Lanes
  <2>2. rows[HeadOf(l)].state \notin Coming
    BY <2>1 DEF IndexInv, RowsInv, Known
  <2>3. loop' \in Loop /\ loop'.pc = "claim" /\ loop'.cand = HeadOf(l)
    BY <1>6, <2>1, IndexTypes DEF Loop
  <2> QED BY <1>1, <1>2, <1>3, <1>4, <2>1, <2>2, <2>3, CallsStay, IndexTypes, DispatcherStep
<1> QED BY <1>5, <1>6 DEF Propose

LEMMA ClaimStep ==
    ASSUME IndexInv, ClaimById
    PROVE  IndexInv'
<1>0. PICK j \in Jobs : j = loop.cand
  BY ClaimRows
<1>1. /\ UNCHANGED <<aged, origin, op, detours>> /\ loop.pc = "claim"
      /\ rows' = [rows EXCEPT ![j] = ClaimSql(rows[j], Worker, TRUE)]
  BY <1>0 DEF ClaimById, CallersStay
<1>2. RowMoves /\ ~Claimable(rows'[j], TRUE)
  BY <1>0, ClaimRows
<1>3. CASE Claimable(rows[j], TRUE)
  <2>1. RemoveHints({j}) /\ loop' = [loop EXCEPT !.pc = "more", !.cand = 0, !.tries = 0]
    BY <1>0, <1>3 DEF ClaimById
  <2>2. loop' \in Loop /\ loop'.pc = "more"
    BY <2>1, IndexTypes DEF Loop
  <2>3. ~Wanted(j)'
    BY <1>2 DEF Wanted
  <2>4. \A i \in Jobs : Wanted(i)' /\ (live[i] # Null \/ OnItsWay(i))
                        => live'[i] # Null \/ OnItsWay(i)'
    BY <1>1, <2>1, <2>3, RemoveOK, CallsStay
  <2>5. \A i \in Jobs : live'[i] # Null => live[i] # Null
    BY <2>1, RemoveOK
  <2> QED BY <1>1, <1>2, <2>1, <2>2, <2>4, <2>5, RemoveOK, IndexTypes, DispatcherStep
<1>4. CASE ~Claimable(rows[j], TRUE)
  <2>1. UNCHANGED <<live, heaps>> /\ loop' = [loop EXCEPT !.pc = "lost"]
    BY <1>0, <1>4 DEF ClaimById
  <2>2. loop' \in Loop /\ loop'.pc = "lost" /\ loop'.cand = j
    BY <1>0, <2>1, IndexTypes DEF Loop
  <2>3. rows' = rows
    BY <1>1, <1>4, TableTypes DEF ClaimSql
  <2>4. rows[j].state \notin Coming
    BY <1>0, <1>1 DEF IndexInv, RowsInv, Known
  <2>5. Spent(rows[j])
    BY <1>2, <1>4, <2>4, RowOf DEF Spent, Claimable, RowInv
  <2>6. Useless(j)'
    BY <2>3, <2>5 DEF Useless
  <2>7. LiveHasEntry'
    BY <2>1, IndexTypes DEF LiveHasEntry
  <2> QED BY <1>1, <1>2, <2>1, <2>2, <2>3, <2>4, <2>6, <2>7, CallsStay, IndexTypes, DispatcherStep
<1> QED BY <1>3, <1>4

LEMMA DropStep ==
    ASSUME IndexInv, DropHint
    PROVE  IndexInv'
<1> DEFINE j == loop.cand
<1>1. /\ UNCHANGED <<rows, aged, origin, op, detours>>
      /\ loop.pc = "lost"
      /\ RemoveHints({j})
      /\ loop' = IF loop.tries + 1 < MaxTries
                 THEN [loop EXCEPT !.pc = "again", !.cand = 0, !.tries = loop.tries + 1]
                 ELSE NextModel(loop.model)
  BY DEF DropHint, CallersStay
<1>2. RowMoves
  BY <1>1, StillRows
<1>3. j \in Jobs /\ ~Wanted(j)
  BY <1>1, UnwantedHints DEF IndexInv, RemovalsInv
<1>4. loop' \in Loop /\ loop'.pc \in {"again", "idle", "visit"}
  <2>1. loop.tries + 1 \in Nat
    BY IndexTypes DEF Loop
  <2>2. /\ [loop EXCEPT !.pc = "again", !.cand = 0, !.tries = loop.tries + 1] \in Loop
        /\ [loop EXCEPT !.pc = "again", !.cand = 0, !.tries = loop.tries + 1].pc = "again"
    BY <2>1, IndexTypes DEF Loop
  <2> QED BY <1>1, <2>2, NextModelTypes
<1>5. \A i \in Jobs : Wanted(i)' /\ (live[i] # Null \/ OnItsWay(i))
                      => live'[i] # Null \/ OnItsWay(i)'
  BY <1>1, <1>3, RemoveOK, CallsStay DEF Wanted
<1>6. \A i \in Jobs : live'[i] # Null => live[i] # Null
  BY <1>1, RemoveOK
<1> QED BY <1>1, <1>2, <1>4, <1>5, <1>6, RemoveOK, IndexTypes, DispatcherStep

LEMMA MoreStep ==
    ASSUME IndexInv, ClaimMore
    PROVE  IndexInv'
<1>1. /\ UNCHANGED <<aged, origin, op, detours>> /\ loop.pc = "more"
      /\ loop' = [loop EXCEPT !.pc = "visit", !.model = Null]
  BY DEF ClaimMore, CallersStay
<1>2. PICK S \in SUBSET Jobs : RemoveHints(S) /\ \A j \in S : ~Claimable(rows'[j], TRUE)
  BY ClaimMoreRows
<1>3. loop' \in Loop /\ loop'.pc = "visit"
  BY <1>1, IndexTypes DEF Loop
<1>4. \A i \in Jobs : Wanted(i)' /\ (live[i] # Null \/ OnItsWay(i))
                      => live'[i] # Null \/ OnItsWay(i)'
  BY <1>1, <1>2, RemoveOK, CallsStay DEF Wanted
<1>5. \A i \in Jobs : live'[i] # Null => live[i] # Null
  BY <1>2, RemoveOK
<1> QED BY <1>1, <1>2, <1>3, <1>4, <1>5, ClaimMoreRows, RemoveOK, IndexTypes, DispatcherStep

(***************************************************************************)
(* The theorems.                                                           *)
(***************************************************************************)
LEMMA IndexInit == Init => IndexInv
<1> SUFFICES ASSUME Init PROVE IndexInv
  OBVIOUS
<1>1. PICK s \in Scopes :
         /\ op = [c \in Callers |-> IF c \in s.callers THEN NoOp ELSE Away]
         /\ rows = [j \in Jobs |-> NoRow(IF j \in s.jobs THEN "absent" ELSE "deleted",
                                         s.attempts, s.deadline)]
  BY DEF Init
<1>2. s.attempts \in Nat \ {0} /\ s.deadline \in Instant
  BY HybridAssumption
<1>3. ASSUME NEW x \in {"absent", "deleted"}
      PROVE  /\ RowInv(NoRow(x, s.attempts, s.deadline)) /\ NoRow(x, s.attempts, s.deadline) \in Row
             /\ ~Claimable(NoRow(x, s.attempts, s.deadline), TRUE)
  <2> DEFINE r == NoRow(x, s.attempts, s.deadline)
  <2>1. /\ r \in Row /\ r.state = x /\ r.attempt_count = 0 /\ r.max_attempts = s.attempts
        /\ r.lease_owner = Null /\ r.lease_expires_at = Null /\ r.not_before = Null
        /\ r.cancel_requested = FALSE /\ r.finished_at = FALSE
    BY <1>2, HybridAssumption DEF NoRow, Row, Instant, JobStates, NoRowStates
  <2> HIDE DEF r
  <2>2. RowOK(r)
    BY <1>2, <2>1 DEF RowOK, HeldStates, TerminalStates
  <2> QED BY <2>1, <2>2 DEF RowInv, Due, Claimable, r
<1>4. \A j \in Jobs : RowInv(rows[j]) /\ rows[j] \in Row /\ ~Claimable(rows[j], TRUE)
  BY <1>1, <1>3
<1>5. \A c \in Callers : op[c] \in Op /\ op[c].kind \in {"none", "away"}
  BY <1>1 DEF NoOp, Away, Op
<1>6. /\ live = [j \in Jobs |-> Null] /\ heaps = [l \in Lanes |-> {}] /\ loop = IdleLoop
      /\ aged = FALSE /\ origin = [j \in Jobs |-> "none"] /\ detours = 0
  BY DEF Init
<1>7. loop \in Loop /\ loop.pc = "idle"
  BY <1>6 DEF IdleLoop, Loop
<1>8. rows \in [Jobs -> Row] /\ op \in [Callers -> Op]
  BY <1>1, <1>4, <1>5
<1>9. TypeOK
  BY <1>5, <1>6, <1>7, <1>8 DEF TypeOK
<1>10. RowsInv
  BY <1>4, <1>5, <1>6, <1>7 DEF RowsInv, Known
<1>11. LiveHasEntry /\ RemovalsInv /\ HintOrOnItsWay
  BY <1>4, <1>5, <1>6, <1>7 DEF LiveHasEntry, RemovalsInv, HintOrOnItsWay
<1> QED BY <1>9, <1>10, <1>11 DEF IndexInv

LEMMA IndexStep == IndexInv /\ [Next]_vars => IndexInv'
<1> SUFFICES ASSUME IndexInv, [Next]_vars PROVE IndexInv'
  OBVIOUS
<1>1. CASE UNCHANGED vars
  <2>1. UNCHANGED <<rows, live, heaps, loop, op, aged, origin, detours>>
    BY <1>1 DEF vars
  <2> QED BY <2>1, StillRows, CallStep, IndexTypes DEF IndexInv, TypeOK
<1>2. CASE Dispatch
  BY <1>2, MaintainStep, ReportStep, ReconcileStep, ClaimStep, DropStep, MoreStep, ProposeStep
     DEF Dispatch
<1>3. ASSUME NEW c \in Callers, ChangeIndex(c) PROVE IndexInv'
  BY <1>3, ChangeStep
<1> QED BY <1>1, <1>2, <1>3, TableStep DEF Next

\* The index invariant holds throughout, for every number of jobs, callers and
\* models and every choice of the jobs that come.
THEOREM IndexIsSound == Spec => []IndexInv
BY IndexInit, IndexStep, PTL DEF Spec

\* Every variable has its type.
THEOREM TypeCorrect == Spec => []TypeOK
<1>1. IndexInv => TypeOK
  BY DEF IndexInv
<1> QED BY <1>1, IndexIsSound, PTL

\* Lazy deletion never loses a hint: a job the index holds to be live has an
\* entry in the heap of its lane.
THEOREM NoHintWithoutEntry == Spec => []LiveHasEntry
<1>1. IndexInv => LiveHasEntry
  BY DEF IndexInv
<1> QED BY <1>1, IndexIsSound, PTL

\* A job that was submitted, activated, promoted or recovered has its hint, or a
\* call in flight that will give it one, in every interleaving of the callers'
\* transactions, their index changes and the dispatcher.
THEOREM HintsAreNotLost == Spec => []HintOrOnItsWay
<1>1. IndexInv => HintOrOnItsWay
  BY DEF IndexInv
<1> QED BY <1>1, IndexIsSound, PTL
=============================================================================
