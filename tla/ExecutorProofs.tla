--------------------------- MODULE ExecutorProofs ---------------------------
(***************************************************************************)
(* The executor's safety invariants, for every number of jobs, tasks,       *)
(* models, lease tokens, attempts and restarts.                            *)
(*                                                                         *)
(* AttemptBudget is not inductive: _settle_failure compares the worker's    *)
(* own copy of attempt_count with max_attempts, so the proof needs that the *)
(* copy is exact while the worker still holds the lease (SeenOK), which     *)
(* needs that no other claim ever reuses the worker's token                 *)
(* (OwnersDistinct, and freshness of a claim's token).  The second half says *)
(* what the steps do to slots, models, deadlines and the life of a job.     *)
(***************************************************************************)
EXTENDS Executor, QueueRowsProofs

CurPCs  == {"finish", "mark", "late", "expired", "target", "cancel", "commit"}
IdlePCs == {"free", "claimed", "start"}

\* What is always true of one task, on its own.
TaskOK(T) ==
    /\ T \in Task
    /\ IF T.pc = "free" THEN T = FreeTask ELSE T.owner \in Owners /\ T.model \in Models
    /\ T.pc \in CurPCs => T.cur \in T.jobs
    /\ T.todo \subseteq T.jobs /\ T.runnable \subseteq T.jobs
    /\ T.pc \in IdlePCs => T.runnable = {}
    /\ T.pc \in {"settle", "cancel", "commit"} => T.todo \subseteq T.runnable

RowsOK  == \A j \in Jobs : RowOK(rows[j])
TasksOK == \A t \in Tasks : TaskOK(tasks[t])

\* While a task holds the lease of a job it runs, its copy of the attempt
\* count is the row's.
SeenOK == \A t \in Tasks : \A j \in tasks[t].runnable :
             rows[j].lease_owner = tasks[t].owner => tasks[t].seen[j] = rows[j].attempt_count

\* A lost mark is on a job its task runs: a task that is only claiming has none.
LostInRunnable == \A p \in lost : \E t \in Tasks :
                     tasks[t].owner = p[2] /\ p[1] \in tasks[t].runnable

IInv == /\ TypeOK /\ RowsOK /\ TasksOK /\ OwnersDistinct /\ SeenOK
        /\ LostStaysLost /\ LostInRunnable

\* The rows change only as statements other than claims change them.
RowsTame == /\ rows' \in [Jobs -> Row]
            /\ \A j \in Jobs : RowOK(rows'[j]) /\ KeepsLease(rows[j], rows'[j])

USE DEF TerminalStates, IncompleteStates, NoRowStates, JobStates, HeldStates

LEMMA FreeTaskOK == TaskOK(FreeTask)
BY DEF TaskOK, FreeTask, Task, AwayPCs, SectionPCs, Outcomes, CurPCs, IdlePCs

\* A row that is not there, and a freshly submitted one.
LEMMA NoRowFields ==
    ASSUME NEW s \in {"absent", "deleted", "queued"}
    PROVE  /\ NoRow(s) \in Row /\ NoRow(s).state = s
           /\ NoRow(s).lease_owner = Null /\ NoRow(s).lease_expires_at = Null
           /\ NoRow(s).finished_at = FALSE /\ NoRow(s).cancel_requested = FALSE
           /\ NoRow(s).attempt_count = 0 /\ NoRow(s).max_attempts = 1
<1> DEFINE m0 == CHOOSE m \in Models : TRUE
<1>1. m0 \in Models
  BY ModelsAssumption
<1>2. NoRow(s) = [state |-> s, attempt_count |-> 0, max_attempts |-> 1, lease_owner |-> Null,
                  lease_expires_at |-> Null, not_before |-> Null, deadline_at |-> Null,
                  cancel_requested |-> FALSE, finished_at |-> FALSE, resolved_model |-> m0]
  BY DEF NoRow
<1> HIDE DEF m0
<1>3. Null \in Instant
  BY DEF Instant
<1> QED BY <1>1, <1>2, <1>3 DEF Row

LEMMA NoRowOK ==
    ASSUME NEW s \in {"absent", "deleted", "queued"}
    PROVE  RowOK(NoRow(s))
<1> DEFINE r == NoRow(s)
<1>1. /\ r \in Row /\ r.state = s /\ r.lease_owner = Null /\ r.lease_expires_at = Null
      /\ r.finished_at = FALSE /\ r.cancel_requested = FALSE
      /\ r.attempt_count = 0 /\ r.max_attempts = 1
  BY NoRowFields
<1> HIDE DEF r
<1>2. RowOK(r)
  BY <1>1 DEF RowOK
<1> QED BY <1>2 DEF r

LEMMA QueuedRowOK ==
    ASSUME NEW n \in MaxAttemptsSet, NEW d \in Deadlines, NEW m \in Models
    PROVE  RowOK(QueuedRow(n, d, m)) /\ QueuedRow(n, d, m).lease_owner = Null
<1> DEFINE r == NoRow("queued")
           q == [r EXCEPT !.max_attempts = n, !.deadline_at = d, !.resolved_model = m]
<1>1. n \in Nat \ {0} /\ d \in Instant
  BY InputAssumption
<1>2. /\ r \in Row /\ r.state = "queued"
      /\ r.lease_owner = Null /\ r.lease_expires_at = Null
      /\ r.finished_at = FALSE /\ r.attempt_count = 0
  BY NoRowFields
<1>3. q = QueuedRow(n, d, m)
  BY DEF QueuedRow
<1> HIDE DEF r
<1>4. /\ q \in Row /\ q.state = "queued"
      /\ q.lease_owner = Null /\ q.lease_expires_at = Null
      /\ q.finished_at = FALSE /\ q.attempt_count = 0 /\ q.max_attempts = n
  BY <1>1, <1>2 DEF Row
<1> HIDE DEF q
<1>5. RowOK(q)
  BY <1>1, <1>4 DEF RowOK
<1> QED BY <1>3, <1>4, <1>5

\* A step that changes one row, by a statement that is not a claim.
LEMMA OneRowTame ==
    ASSUME IInv, NEW j \in Jobs, NEW r, RowOK(r), KeepsLease(rows[j], r), OnlyRow(j, r)
    PROVE  RowsTame
BY DEF IInv, TypeOK, RowsOK, RowsTame, RowOK, OnlyRow, KeepsLease

\* A step that leaves the rows alone.
LEMMA NoRowTame ==
    ASSUME IInv, UNCHANGED rows
    PROVE  RowsTame
BY DEF IInv, TypeOK, RowsOK, RowsTame, KeepsLease

\* A step that rewrites every row, each by a statement that is not a claim.
LEMMA AllRowsTame ==
    ASSUME rows' = [j \in Jobs |-> rows'[j]],
           \A j \in Jobs : RowOK(rows'[j]) /\ KeepsLease(rows[j], rows'[j])
    PROVE  RowsTame
BY DEF RowsTame, RowOK

(***************************************************************************)
(* Steps of the callers, the clock and the dispatcher's sweep: only rows    *)
(* change.                                                                 *)
(***************************************************************************)
LEMMA RowsStep ==
    ASSUME IInv, RowsTame, UNCHANGED <<tasks, active, lost, mine>>,
           left' \subseteq Models, dispatching' \in BOOLEAN, stop' \in BOOLEAN, released' \in BOOLEAN,
           restarts' \in Nat, requeues' \in Nat
    PROVE  IInv'
<1> USE DEF IInv
<1>1. TypeOK'
  BY DEF TypeOK, RowsTame
<1>2. RowsOK'
  BY DEF RowsTame, RowsOK
<1>3. TasksOK' /\ OwnersDistinct' /\ LostInRunnable'
  BY DEF TasksOK, OwnersDistinct, Busy, LostInRunnable
<1>4. SeenOK'
  <2> SUFFICES ASSUME NEW t \in Tasks, NEW j \in tasks[t].runnable,
                      rows'[j].lease_owner = tasks[t].owner
               PROVE  tasks[t].seen[j] = rows'[j].attempt_count
    BY DEF SeenOK
  <2>1. TaskOK(tasks[t])
    BY DEF TasksOK
  <2>2. j \in Jobs /\ tasks[t].owner # Null
    BY <2>1, NullAssumption DEF TaskOK, Task, IdlePCs
  <2> QED BY <2>2 DEF SeenOK, RowsTame, KeepsLease
<1>5. LostStaysLost'
  <2> SUFFICES ASSUME NEW p \in lost PROVE rows'[p[1]].lease_owner # p[2]
    BY DEF LostStaysLost
  <2>1. p[1] \in Jobs /\ p[2] # Null
    BY NullAssumption DEF TypeOK
  <2> QED BY <2>1 DEF LostStaysLost, RowsTame, KeepsLease
<1> QED BY <1>1, <1>2, <1>3, <1>4, <1>5

\* Every step of a caller, of the clock and of the maintenance transaction.
LEMMA CallerSteps ==
    ASSUME IInv, Request \/ Tick \/ Maintain \/ ReleaseLeases \/ Shutdown
    PROVE  IInv'
<1> USE DEF ServiceUnchanged
<1>0. /\ TypeOK /\ RowsOK
  BY DEF IInv
<1>T. /\ left \subseteq Models /\ dispatching \in BOOLEAN /\ stop \in BOOLEAN /\ released \in BOOLEAN
      /\ restarts \in Nat /\ requeues \in Nat /\ rows \in [Jobs -> Row] /\ Null \notin mine
  BY <1>0, NullAssumption DEF TypeOK
<1>1. ASSUME NEW j \in Jobs, Submit(j) PROVE IInv'
  <2>1. PICK n \in MaxAttemptsSet, d \in Deadlines, m \in Models :
            rows' = [rows EXCEPT ![j] = QueuedRow(n, d, m)]
    BY <1>1 DEF Submit
  <2>2. RowOK(QueuedRow(n, d, m)) /\ KeepsLease(rows[j], QueuedRow(n, d, m))
    BY QueuedRowOK DEF KeepsLease
  <2>3. RowsTame
    BY <2>1, <2>2, OneRowTame DEF OnlyRow
  <2> QED BY <1>1, <1>T, <2>3, RowsStep DEF Submit
<1>2. ASSUME NEW j \in Jobs, CancelJob(j) PROVE IInv'
  <2>1. RowsTame
    BY <1>0, <1>2, CancelOK, OneRowTame DEF CancelJob, RowsOK, OnlyRow
  <2> QED BY <1>2, <1>T, <2>1, RowsStep DEF CancelJob
<1>3. ASSUME NEW j \in Jobs, RequeueJob(j) PROVE IInv'
  <2>1. RowsTame
    BY <1>0, <1>3, RequeueOK, OneRowTame DEF RequeueJob, RowsOK, OnlyRow
  <2> QED BY <1>3, <1>T, <2>1, RowsStep DEF RequeueJob
<1>4. ASSUME Cleanup PROVE IInv'
  <2>1. PICK S \in SUBSET Jobs :
            rows' = [j \in Jobs |-> IF j \in S THEN NoRow("deleted") ELSE rows[j]]
    BY <1>4 DEF Cleanup
  <2>2. \A j \in Jobs : RowOK(rows'[j]) /\ KeepsLease(rows[j], rows'[j])
    BY <1>0, <2>1, NoRowOK, NoRowFields DEF RowsOK, KeepsLease
  <2>3. RowsTame
    BY <2>1, <2>2, AllRowsTame
  <2> QED BY <1>4, <1>T, <2>3, RowsStep DEF Cleanup
<1>5. ASSUME Tick PROVE IInv'
  <2>1. rows' = [j \in Jobs |-> Elapse(rows[j])]
    BY <1>5 DEF Tick
  <2>2. RowsTame
    BY <1>0, <2>1, ElapseOK, AllRowsTame DEF RowsOK
  <2> QED BY <1>5, <1>T, <2>2, RowsStep DEF Tick
<1>6. ASSUME Maintain PROVE IInv'
  <2>1. rows' = [j \in Jobs |-> Maintenance(rows[j])]
    BY <1>6 DEF Maintain
  <2>2. RowsTame
    BY <1>0, <2>1, MaintenanceOK, AllRowsTame DEF RowsOK
  <2> QED BY <1>6, <1>T, <2>2, RowsStep DEF Maintain
<1>7. ASSUME ReleaseLeases PROVE IInv'
  <2>1. rows' = [j \in Jobs |-> IF rows[j].lease_owner \in mine
                   THEN ReleaseSql(rows[j], rows[j].lease_owner, rows[j].resolved_model)
                   ELSE rows[j]]
    BY <1>7 DEF ReleaseLeases
  <2>2. \A j \in Jobs : RowOK(rows'[j]) /\ KeepsLease(rows[j], rows'[j])
    <3> SUFFICES ASSUME NEW j \in Jobs
                 PROVE  RowOK(rows'[j]) /\ KeepsLease(rows[j], rows'[j])
      OBVIOUS
    <3>1. RowOK(rows[j]) /\ rows[j].resolved_model \in Models
      BY <1>0 DEF RowsOK, RowOK, Row
    <3>2. LET r == ReleaseSql(rows[j], rows[j].lease_owner, rows[j].resolved_model)
          IN  RowOK(r) /\ KeepsLease(rows[j], r)
      BY <3>1, ReleaseOK
    <3> QED BY <2>1, <3>1, <3>2 DEF KeepsLease
  <2>3. RowsTame
    BY <2>1, <2>2, AllRowsTame
  <2> QED BY <1>7, <1>T, <2>3, RowsStep DEF ReleaseLeases
<1>8. ASSUME Shutdown PROVE IInv'
  <2>1. RowsTame
    BY <1>8, NoRowTame DEF Shutdown
  <2> QED BY <1>8, <1>T, <2>1, RowsStep DEF Shutdown
<1> QED BY <1>1, <1>2, <1>3, <1>4, <1>5, <1>6, <1>7, <1>8 DEF Request

(***************************************************************************)
(* Steps of one task.                                                      *)
(***************************************************************************)
LEMMA OneTaskStep ==
    ASSUME IInv, RowsTame, NEW t \in Tasks, NEW r, TaskStep(t, r), ExecUnchanged,
           TaskOK(r), tasks[t].pc # "free", r.pc # "free",
           r.owner = tasks[t].owner, tasks[t].runnable \subseteq r.runnable,
           \A j \in r.runnable :
               \/ j \in tasks[t].runnable /\ r.seen[j] = tasks[t].seen[j]
               \/ rows' = rows /\ r.seen[j] = rows[j].attempt_count
    PROVE  IInv'
<1> USE DEF ExecUnchanged
<1>0. TypeOK /\ RowsOK /\ TasksOK /\ OwnersDistinct /\ SeenOK /\ LostStaysLost /\ LostInRunnable
  BY DEF IInv
<1>a. tasks' = [tasks EXCEPT ![t] = r] /\ tasks'[t] = r
  BY <1>0 DEF TaskStep, TypeOK
<1>1. TypeOK'
  BY <1>0, <1>a DEF TypeOK, RowsTame, TaskOK
<1>2. RowsOK'
  BY DEF RowsTame, RowsOK
<1>3. TasksOK'
  BY <1>0, <1>a DEF TasksOK, TypeOK
<1>4. \A s \in Tasks : /\ tasks'[s].owner = tasks[s].owner
                       /\ tasks[s].runnable \subseteq tasks'[s].runnable
                       /\ tasks'[s].pc = "free" <=> tasks[s].pc = "free"
  BY <1>0, <1>a DEF TypeOK
<1>5. OwnersDistinct'
  BY <1>0, <1>4 DEF OwnersDistinct, Busy
<1>6. LostInRunnable'
  BY <1>0, <1>4 DEF LostInRunnable
<1>7. SeenOK'
  <2> SUFFICES ASSUME NEW s \in Tasks, NEW j \in tasks'[s].runnable,
                      rows'[j].lease_owner = tasks'[s].owner
               PROVE  tasks'[s].seen[j] = rows'[j].attempt_count
    BY DEF SeenOK
  <2>1. TaskOK(tasks'[s]) /\ tasks'[s].owner = tasks[s].owner
    BY <1>3, <1>4 DEF TasksOK
  <2>2. j \in Jobs /\ tasks[s].owner # Null
    BY <2>1, NullAssumption DEF TaskOK, Task, IdlePCs
  <2>3. rows'[j].lease_owner = rows[j].lease_owner /\ rows'[j].attempt_count = rows[j].attempt_count
    BY <2>1, <2>2 DEF RowsTame, KeepsLease
  <2>4. CASE j \in tasks[s].runnable /\ tasks'[s].seen[j] = tasks[s].seen[j]
    BY <1>0, <2>1, <2>3, <2>4 DEF SeenOK
  <2>5. CASE rows' = rows /\ tasks'[s].seen[j] = rows[j].attempt_count
    BY <2>5
  <2> QED BY <1>0, <1>a, <2>4, <2>5 DEF TypeOK
<1>8. LostStaysLost'
  <2> SUFFICES ASSUME NEW p \in lost PROVE rows'[p[1]].lease_owner # p[2]
    BY DEF LostStaysLost
  <2>1. p[1] \in Jobs /\ p[2] # Null
    BY <1>0, NullAssumption DEF TypeOK
  <2> QED BY <1>0, <2>1 DEF LostStaysLost, RowsTame, KeepsLease
<1> QED BY <1>1, <1>2, <1>3, <1>5, <1>6, <1>7, <1>8 DEF IInv

\* A failure settled from an exact copy of the attempt count changes the row
\* as statements other than claims do.
LEMMA SettleFailureTame ==
    ASSUME IInv, NEW j \in Jobs, NEW o, NEW n, NEW kind,
           rows[j].lease_owner = o => n = rows[j].attempt_count,
           SettleFailure(j, o, n, kind)
    PROVE  RowsTame
<1>0. RowOK(rows[j])
  BY DEF IInv, RowsOK
<1>1. CASE OnlyRow(j, Fail(rows[j], o, kind = "retryable"))
  <2>1. (kind = "retryable") \in BOOLEAN
    OBVIOUS
  <2> QED BY <1>0, <1>1, <2>1, SettleOK, OneRowTame
<1>2. ASSUME ~(kind = "permanent" \/ n >= rows[j].max_attempts \/ rows[j].deadline_at = 0),
             NEW d \in Delays, NEW m \in Targets(j, rows[j].resolved_model),
             OnlyRow(j, Retry(rows[j], o, d, m))
      PROVE  RowsTame
  <2>1. d \in Nat /\ m \in Models
    BY <1>0, InputAssumption DEF Targets, RowOK, Row
  <2>2. OwnedRunning(rows[j], o) => rows[j].attempt_count < rows[j].max_attempts
    BY <1>0, <1>2 DEF OwnedRunning, RowOK, Row
  <2> QED BY <1>0, <1>2, <2>1, <2>2, RetryOK, OneRowTame
<1> QED BY <1>1, <1>2 DEF SettleFailure

\* The steps of a task that end neither the task nor the call's loop.
LEMMA TaskSteps ==
    ASSUME IInv, NEW t \in Tasks,
           \/ BeginExecute(t) \/ FinishEarly(t) \/ MarkJob(t) \/ FailExpired(t) \/ Target(t)
           \/ StartInference(t) \/ Inference(t) \/ SettleCancelled(t) \/ Commit(t)
           \/ \E j \in Jobs : Inspect(t, j) \/ SkipLost(t, j) \/ SettleFailed(t, j) \/ CheckCancel(t, j)
    PROVE  IInv'
<1> DEFINE T == tasks[t]
<1> USE DEF CurPCs, IdlePCs, AwayPCs, SectionPCs, Outcomes, Task
<1>0. TaskOK(T) /\ RowsOK /\ TypeOK
  BY DEF IInv, TasksOK
<1>r. \A j \in Jobs : RowOK(rows[j])
  BY <1>0 DEF RowsOK
<1>f. FreeTask.pc = "free"
  BY DEF FreeTask
<1>s. ASSUME T.pc \in CurPCs PROVE T.cur \in Jobs
  BY <1>0, <1>s DEF TaskOK
<1>1. CASE BeginExecute(t)
  <2> DEFINE r == [T EXCEPT !.pc = "next", !.todo = T.jobs]
  <2>1. TaskStep(t, r) /\ UNCHANGED rows /\ ExecUnchanged /\ T.pc = "start"
    BY <1>1 DEF BeginExecute
  <2>2. TaskOK(r) /\ r.pc = "next" /\ r.owner = T.owner /\ r.runnable = {} /\ T.runnable = {}
    BY <1>0, <2>1 DEF TaskOK
  <2> QED BY <2>1, <2>2, NoRowTame, OneTaskStep
<1>2. CASE FinishEarly(t)
  <2> DEFINE r == [T EXCEPT !.pc = "next", !.cur = Null]
  <2>1. /\ TaskStep(t, r) /\ ExecUnchanged /\ T.pc = "finish"
        /\ OnlyRow(T.cur, FinishCancel(rows[T.cur], T.owner))
    BY <1>2 DEF FinishEarly
  <2>2. /\ TaskOK(r) /\ r.pc = "next" /\ r.owner = T.owner
        /\ r.runnable = T.runnable /\ r.seen = T.seen
    BY <1>0, <2>1 DEF TaskOK
  <2>3. RowsTame
    BY <1>r, <1>s, <2>1, SettleOK, OneRowTame
  <2> QED BY <2>1, <2>2, <2>3, OneTaskStep
<1>3. CASE MarkJob(t)
  <2>1. /\ ExecUnchanged /\ T.pc \in {"mark", "late"}
        /\ OnlyRow(T.cur, MarkRunning(rows[T.cur], T.owner))
    BY <1>3 DEF MarkJob
  <2>2. RowsTame
    BY <1>r, <1>s, <2>1, HoldOK, OneRowTame
  <2>3. PICK r : /\ TaskStep(t, r)
                 /\ \/ r = [T EXCEPT !.pc = "expired"] \/ r = [T EXCEPT !.pc = "target"]
                    \/ r = [T EXCEPT !.pc = "next", !.cur = Null]
    BY <1>3 DEF MarkJob
  <2>4. /\ TaskOK(r) /\ r.pc # "free" /\ r.owner = T.owner
        /\ r.runnable = T.runnable /\ r.seen = T.seen
    BY <1>0, <2>1, <2>3 DEF TaskOK
  <2> QED BY <2>1, <2>2, <2>3, <2>4, OneTaskStep
<1>4. CASE FailExpired(t)
  <2> DEFINE r == [T EXCEPT !.pc = "next", !.cur = Null]
  <2>1. /\ TaskStep(t, r) /\ ExecUnchanged /\ T.pc = "expired"
        /\ OnlyRow(T.cur, Fail(rows[T.cur], T.owner, FALSE))
    BY <1>4 DEF FailExpired
  <2>2. /\ TaskOK(r) /\ r.pc = "next" /\ r.owner = T.owner
        /\ r.runnable = T.runnable /\ r.seen = T.seen
    BY <1>0, <2>1 DEF TaskOK
  <2>3. RowsTame
    BY <1>r, <1>s, <2>1, SettleOK, OneRowTame
  <2> QED BY <2>1, <2>2, <2>3, OneTaskStep
<1>5. CASE Target(t)
  <2> DEFINE j == T.cur
  <2>0. T.pc = "target" /\ ExecUnchanged /\ j \in Jobs
    BY <1>5, <1>s DEF Target
  <2>1. CASE /\ TaskStep(t, [T EXCEPT !.pc = "next", !.cur = Null, !.runnable = @ \cup {j},
                                      !.seen[j] = rows[j].attempt_count])
             /\ UNCHANGED rows
    <3> DEFINE r == [T EXCEPT !.pc = "next", !.cur = Null, !.runnable = @ \cup {j},
                              !.seen[j] = rows[j].attempt_count]
    <3>1. rows[j].attempt_count \in Nat
      BY <1>r, <2>0 DEF RowOK, Row
    <3>2. /\ r.pc = "next" /\ r.owner = T.owner
          /\ r.runnable = T.runnable \cup {j}
          /\ r.seen = [T.seen EXCEPT ![j] = rows[j].attempt_count]
      BY <1>0 DEF TaskOK
    <3>3. TaskOK(r)
      BY <1>0, <2>0, <3>1 DEF TaskOK
    <3>4. \A k \in r.runnable : \/ k \in T.runnable /\ r.seen[k] = T.seen[k]
                                \/ r.seen[k] = rows[k].attempt_count
      BY <1>0, <2>0, <3>2 DEF TaskOK
    <3> QED BY <2>0, <2>1, <3>2, <3>3, <3>4, NoRowTame, OneTaskStep
  <2> DEFINE r == [T EXCEPT !.pc = "next", !.cur = Null]
  <2>2. /\ TaskOK(r) /\ r.pc = "next" /\ r.owner = T.owner
        /\ r.runnable = T.runnable /\ r.seen = T.seen
    BY <1>0, <2>0 DEF TaskOK
  <2>3. ASSUME NEW m \in Targets(j, T.model) \ {T.model},
               OnlyRow(j, ReleaseSql(rows[j], T.owner, m)), TaskStep(t, r)
        PROVE  IInv'
    <3>1. m \in Models
      BY <1>0, <2>0, <2>3 DEF Targets, TaskOK
    <3>2. RowsTame
      BY <1>r, <2>0, <2>3, <3>1, ReleaseOK, OneRowTame
    <3> QED BY <2>0, <2>2, <2>3, <3>2, OneTaskStep
  <2>4. ASSUME NEW kind \in {"permanent", "retryable"},
               SettleFailure(j, T.owner, rows[j].attempt_count, kind), TaskStep(t, r)
        PROVE  IInv'
    <3>1. RowsTame
      BY <2>0, <2>4, SettleFailureTame
    <3> QED BY <2>0, <2>2, <2>4, <3>1, OneTaskStep
  <2> QED BY <1>5, <2>1, <2>3, <2>4 DEF Target
<1>6. CASE StartInference(t)
  <2> DEFINE r == [T EXCEPT !.pc = "infer"]
  <2>1. TaskStep(t, r) /\ UNCHANGED rows /\ ExecUnchanged /\ T.pc = "next"
    BY <1>6 DEF StartInference
  <2>2. /\ TaskOK(r) /\ r.pc = "infer" /\ r.owner = T.owner
        /\ r.runnable = T.runnable /\ r.seen = T.seen
    BY <1>0, <2>1 DEF TaskOK
  <2> QED BY <2>1, <2>2, NoRowTame, OneTaskStep
<1>7. CASE Inference(t)
  <2>0. PICK out \in Outcomes : InferenceEnds(t, out)
    BY <1>7 DEF Inference
  <2> DEFINE r == [T EXCEPT !.pc = "settle", !.outcome = out, !.todo = T.runnable]
  <2>1. TaskStep(t, r) /\ UNCHANGED rows /\ ExecUnchanged /\ T.pc = "infer"
    BY <2>0 DEF InferenceEnds
  <2>2. /\ TaskOK(r) /\ r.pc = "settle" /\ r.owner = T.owner
        /\ r.runnable = T.runnable /\ r.seen = T.seen
    BY <1>0, <2>1 DEF TaskOK
  <2> QED BY <2>1, <2>2, NoRowTame, OneTaskStep
<1>8. CASE SettleCancelled(t) \/ Commit(t)
  <2> DEFINE r == [T EXCEPT !.pc = "settle", !.cur = Null]
  <2>1. /\ TaskStep(t, r) /\ ExecUnchanged /\ T.pc \in {"cancel", "commit"}
        /\ \/ OnlyRow(T.cur, FinishCancel(rows[T.cur], T.owner))
           \/ OnlyRow(T.cur, Complete(rows[T.cur], T.owner))
    BY <1>8 DEF SettleCancelled, Commit
  <2>2. /\ TaskOK(r) /\ r.pc = "settle" /\ r.owner = T.owner
        /\ r.runnable = T.runnable /\ r.seen = T.seen
    BY <1>0, <2>1 DEF TaskOK
  <2>3. RowsTame
    BY <1>r, <1>s, <2>1, SettleOK, OneRowTame
  <2> QED BY <2>1, <2>2, <2>3, OneTaskStep
<1>9. ASSUME NEW j \in Jobs, Inspect(t, j) PROVE IInv'
  <2>1. PICK r : /\ TaskStep(t, r)
                 /\ \E p \in {"finish", "late", "mark"} :
                      r = [T EXCEPT !.cur = j, !.todo = @ \ {j}, !.pc = p]
    BY <1>9 DEF Inspect
  <2>2. UNCHANGED rows /\ ExecUnchanged /\ T.pc = "next" /\ j \in T.todo
    BY <1>9 DEF Inspect
  <2>3. /\ TaskOK(r) /\ r.pc # "free" /\ r.owner = T.owner
        /\ r.runnable = T.runnable /\ r.seen = T.seen
    BY <1>0, <2>1, <2>2 DEF TaskOK
  <2> QED BY <2>1, <2>2, <2>3, NoRowTame, OneTaskStep
<1>10. ASSUME NEW j \in Jobs, SkipLost(t, j) PROVE IInv'
  <2> DEFINE r == [T EXCEPT !.todo = @ \ {j}]
  <2>1. TaskStep(t, r) /\ UNCHANGED rows /\ ExecUnchanged /\ T.pc = "settle"
    BY <1>10 DEF SkipLost, Settling
  <2>2. /\ TaskOK(r) /\ r.pc = "settle" /\ r.owner = T.owner
        /\ r.runnable = T.runnable /\ r.seen = T.seen
    BY <1>0, <2>1 DEF TaskOK
  <2> QED BY <2>1, <2>2, NoRowTame, OneTaskStep
<1>11. ASSUME NEW j \in Jobs, CheckCancel(t, j) PROVE IInv'
  <2>1. PICK p \in {"cancel", "commit"} :
            TaskStep(t, [T EXCEPT !.todo = @ \ {j}, !.cur = j, !.pc = p])
    BY <1>11 DEF CheckCancel
  <2>2. UNCHANGED rows /\ ExecUnchanged /\ T.pc = "settle" /\ j \in T.todo
    BY <1>11 DEF CheckCancel, Settling
  <2> DEFINE r == [T EXCEPT !.todo = @ \ {j}, !.cur = j, !.pc = p]
  <2>3. /\ r \in Task /\ r.pc = p /\ r.cur = j /\ r.todo = T.todo \ {j}
        /\ r.owner = T.owner /\ r.model = T.model /\ r.jobs = T.jobs
        /\ r.runnable = T.runnable /\ r.seen = T.seen
    BY <1>0, <2>2 DEF TaskOK
  <2>4. /\ T.owner \in Owners /\ T.model \in Models /\ j \in T.jobs
        /\ T.todo \subseteq T.jobs /\ T.runnable \subseteq T.jobs /\ T.todo \subseteq T.runnable
    BY <1>0, <2>2 DEF TaskOK
  <2> HIDE DEF r
  <2>5. TaskOK(r)
    BY <2>3, <2>4 DEF TaskOK
  <2>6. TaskStep(t, r)
    BY <2>1 DEF r
  <2> QED BY <2>2, <2>3, <2>5, <2>6, NoRowTame, OneTaskStep
<1>12. ASSUME NEW j \in Jobs, SettleFailed(t, j) PROVE IInv'
  <2> DEFINE r == [T EXCEPT !.todo = @ \ {j}]
  <2>1. /\ TaskStep(t, r) /\ ExecUnchanged /\ T.pc = "settle" /\ j \in T.todo
        /\ SettleFailure(j, T.owner, T.seen[j], T.outcome)
    BY <1>12 DEF SettleFailed, Settling
  <2>2. /\ TaskOK(r) /\ r.pc = "settle" /\ r.owner = T.owner
        /\ r.runnable = T.runnable /\ r.seen = T.seen
    BY <1>0, <2>1 DEF TaskOK
  <2>3. rows[j].lease_owner = T.owner => T.seen[j] = rows[j].attempt_count
    BY <1>0, <2>1 DEF TaskOK, IInv, SeenOK
  <2>4. RowsTame
    BY <2>1, <2>3, SettleFailureTame
  <2> QED BY <2>1, <2>2, <2>4, OneTaskStep
<1> QED BY <1>1, <1>2, <1>3, <1>4, <1>5, <1>6, <1>7, <1>8, <1>9, <1>10, <1>11, <1>12

(***************************************************************************)
(* The end of a task, the heartbeat, the claims and the restart.            *)
(***************************************************************************)
\* Freeing a task that no row's lease or lost mark still depends on.
LEMMA FreeStep ==
    ASSUME IInv, UNCHANGED <<rows, mine, dispatching, stop, released, restarts, requeues>>,
           NEW t \in Tasks, TaskStep(t, FreeTask), left' \subseteq Models,
           active' \in [Models -> Nat], lost' \subseteq lost,
           \A p \in lost' : ~(p[2] = tasks[t].owner /\ p[1] \in tasks[t].runnable)
    PROVE  IInv'
<1>0. TypeOK /\ RowsOK /\ TasksOK /\ OwnersDistinct /\ SeenOK /\ LostStaysLost /\ LostInRunnable
  BY DEF IInv
<1>a. /\ tasks' = [tasks EXCEPT ![t] = FreeTask] /\ tasks'[t] = FreeTask
      /\ \A s \in Tasks \ {t} : tasks'[s] = tasks[s]
  BY <1>0 DEF TaskStep, TypeOK
<1>b. FreeTask.pc = "free" /\ FreeTask.owner = Null /\ FreeTask.runnable = {}
  BY DEF FreeTask
<1>1. TypeOK'
  BY <1>0, <1>a, FreeTaskOK DEF TypeOK, TaskOK
<1>2. RowsOK'
  BY <1>0 DEF RowsOK
<1>3. TasksOK'
  BY <1>0, <1>a, FreeTaskOK DEF TasksOK
<1>4. OwnersDistinct'
  <2> SUFFICES ASSUME NEW u \in Tasks, NEW v \in Tasks, u # v, tasks'[u].pc # "free"
               PROVE  tasks'[u].owner # tasks'[v].owner
    BY DEF OwnersDistinct, Busy
  <2>1. tasks'[u] = tasks[u] /\ TaskOK(tasks[u]) /\ tasks[u].owner # Null
    BY <1>0, <1>a, <1>b, NullAssumption DEF TasksOK, TaskOK
  <2> QED BY <1>0, <1>a, <1>b, <2>1 DEF OwnersDistinct, Busy
<1>5. SeenOK'
  BY <1>0, <1>a, <1>b DEF SeenOK
<1>6. LostStaysLost'
  BY <1>0 DEF LostStaysLost
<1>7. LostInRunnable'
  BY <1>0, <1>a DEF LostInRunnable
<1> QED BY <1>1, <1>2, <1>3, <1>4, <1>5, <1>6, <1>7 DEF IInv

\* The finally block of _execute, reached normally or by an exception.
LEMMA FinallyStep ==
    ASSUME IInv, NEW t \in Tasks, tasks[t].pc # "free", Finally(t), UNCHANGED rows
    PROVE  IInv'
<1> DEFINE T == tasks[t]
<1>1. TypeOK /\ TaskOK(T)
  BY DEF IInv, TasksOK
<1>2. /\ lost' = lost \ {<<j, T.owner>> : j \in T.jobs} /\ TaskStep(t, FreeTask)
      /\ active' = [active EXCEPT ![T.model] = IF @ = 0 THEN 0 ELSE @ - 1]
      /\ UNCHANGED <<left, dispatching, stop, released, mine, restarts, requeues>>
  BY DEF Finally, GiveBack
<1>3. active' \in [Models -> Nat]
  <2> DEFINE n == IF active[T.model] = 0 THEN 0 ELSE active[T.model] - 1
  <2>1. active \in [Models -> Nat] /\ T.model \in Models
    BY <1>1 DEF TypeOK, TaskOK
  <2>2. n \in Nat
    BY <2>1
  <2>3. active' = [active EXCEPT ![T.model] = n]
    BY <1>2, <2>1
  <2> HIDE DEF n
  <2> QED BY <2>1, <2>2, <2>3
<1>4. T.runnable \subseteq T.jobs
  BY <1>1 DEF TaskOK
<1>5. \A p \in lost' : ~(p[2] = T.owner /\ p[1] \in T.runnable)
  <2> SUFFICES ASSUME NEW p \in lost', p[2] = T.owner, p[1] \in T.runnable PROVE FALSE
    OBVIOUS
  <2>1. p = <<p[1], p[2]>>
    BY <1>1, <1>2 DEF TypeOK
  <2> QED BY <1>2, <1>4, <2>1
<1> QED BY <1>1, <1>2, <1>3, <1>5, FreeStep DEF TypeOK

\* A claimed group dropped by an exception before its task exists.
LEMMA ClaimRaisesStep ==
    ASSUME IInv, NEW m \in Models, ClaimRaises(m)
    PROVE  IInv'
<1>0. TypeOK /\ TasksOK /\ LostInRunnable /\ OwnersDistinct
  BY DEF IInv
<1>1. CASE active' = [active EXCEPT ![m] = @ + 1] /\ UNCHANGED tasks
  <2>1. UNCHANGED <<rows, lost, dispatching, stop, released, mine, restarts, requeues>> /\ left' = {}
    BY DEF ClaimRaises
  <2>2. TypeOK'
    BY <1>0, <1>1, <2>1 DEF TypeOK
  <2> QED BY <1>1, <2>1, <2>2
          DEF IInv, RowsOK, TasksOK, OwnersDistinct, Busy, SeenOK, LostStaysLost, LostInRunnable
<1>2. ASSUME NEW t \in Tasks, tasks[t].pc = "claimed", TaskStep(t, FreeTask), UNCHANGED active
      PROVE  IInv'
  <2>1. UNCHANGED <<rows, lost, dispatching, stop, released, mine, restarts, requeues>> /\ left' = {}
    BY DEF ClaimRaises
  <2>2. tasks[t].runnable = {}
    BY <1>0, <1>2 DEF TasksOK, TaskOK, IdlePCs
  <2> QED BY <1>0, <1>2, <2>1, <2>2, FreeStep DEF TypeOK
<1> QED BY <1>1, <1>2 DEF ClaimRaises, TaskStep

\* The heartbeat extends the leases it holds and marks those it does not.
LEMMA HeartbeatStep ==
    ASSUME IInv, NEW t \in Tasks, Heartbeat(t)
    PROVE  IInv'
<1> DEFINE T == tasks[t]
<1>0. TypeOK /\ RowsOK /\ TasksOK /\ OwnersDistinct /\ SeenOK /\ LostStaysLost /\ LostInRunnable
  BY DEF IInv
<1>1. /\ T.pc = "infer"
      /\ rows' = [j \in Jobs |-> IF j \in T.runnable THEN ExtendLease(rows[j], T.owner) ELSE rows[j]]
      /\ lost' = lost \cup {<<j, T.owner>> : j \in {k \in T.runnable : ~Holds(rows[k], T.owner)}}
      /\ UNCHANGED <<tasks, active, left, dispatching, stop, released, mine, restarts, requeues>>
  BY DEF Heartbeat
<1>2. T.owner \in Owners /\ T.runnable \subseteq Jobs
  BY <1>0, <1>1 DEF TasksOK, TaskOK, Task
<1>3. \A j \in Jobs : RowOK(rows'[j]) /\ KeepsLease(rows[j], rows'[j])
  BY <1>0, <1>1, HoldOK DEF RowsOK, KeepsLease
<1>4. RowsTame
  BY <1>1, <1>3, AllRowsTame
<1>5. TypeOK'
  BY <1>0, <1>1, <1>2, <1>4 DEF TypeOK, RowsTame
<1>6. RowsOK' /\ TasksOK' /\ OwnersDistinct'
  BY <1>0, <1>1, <1>3 DEF RowsOK, TasksOK, OwnersDistinct, Busy
<1>7. SeenOK'
  <2> SUFFICES ASSUME NEW s \in Tasks, NEW j \in tasks[s].runnable,
                      rows'[j].lease_owner = tasks[s].owner
               PROVE  tasks[s].seen[j] = rows'[j].attempt_count
    BY <1>1 DEF SeenOK
  <2>1. j \in Jobs /\ tasks[s].owner # Null
    BY <1>0, NullAssumption DEF TasksOK, TaskOK, Task, IdlePCs
  <2> QED BY <1>0, <1>3, <2>1 DEF SeenOK, KeepsLease
<1>8. LostStaysLost'
  <2> SUFFICES ASSUME NEW p \in lost' PROVE rows'[p[1]].lease_owner # p[2]
    BY DEF LostStaysLost
  <2>1. p[1] \in Jobs /\ p[2] # Null
    BY <1>5, NullAssumption DEF TypeOK
  <2>2. KeepsLease(rows[p[1]], rows'[p[1]]) /\ RowOK(rows[p[1]])
    BY <1>0, <1>3, <2>1 DEF RowsOK
  <2>3. CASE p \in lost
    BY <1>0, <2>1, <2>2, <2>3 DEF LostStaysLost, KeepsLease
  <2>4. CASE p \notin lost
    <3>1. ~Holds(rows[p[1]], T.owner) /\ p[2] = T.owner
      BY <1>1, <2>4
    <3>2. rows[p[1]].lease_owner # p[2]
      BY <2>1, <2>2, <3>1 DEF Holds, RowOK
    <3> QED BY <2>1, <2>2, <3>2 DEF KeepsLease
  <2> QED BY <2>3, <2>4
<1>9. LostInRunnable'
  BY <1>0, <1>1 DEF LostInRunnable
<1> QED BY <1>5, <1>6, <1>7, <1>8, <1>9 DEF IInv

\* claim_next: a fresh token, so no task's copy and no lost mark is about it.
LEMMA ClaimNextStep ==
    ASSUME IInv, NEW m \in Models, NEW t \in Tasks, NEW o \in Owners, NEW j \in Jobs,
           ClaimNext(m, t, o, j)
    PROVE  IInv'
<1> DEFINE T == [FreeTask EXCEPT !.pc = "claimed", !.owner = o, !.model = m, !.jobs = {j}]
<1>0. TypeOK /\ RowsOK /\ TasksOK /\ OwnersDistinct /\ SeenOK /\ LostStaysLost /\ LostInRunnable
  BY DEF IInv
<1>1. /\ tasks[t].pc = "free" /\ Claimable(rows[j], TRUE) /\ ~InUse(o)
      /\ active' = [active EXCEPT ![m] = @ + 1]
      /\ rows' = [rows EXCEPT ![j] = ClaimSql(@, o, TRUE)]
      /\ tasks' = [tasks EXCEPT ![t] = T]
      /\ mine' = {x \in mine : InUse(x)} \cup {o}
      /\ UNCHANGED <<lost, left, dispatching, stop, released, restarts, requeues>>
  BY DEF ClaimNext, ClaimableFor
<1>2. RowOK(rows'[j]) /\ rows'[j].lease_owner = o
      /\ \A k \in Jobs \ {j} : rows'[k] = rows[k]
  BY <1>0, <1>1, ClaimOK DEF RowsOK, TypeOK
<1>3. RowsOK'
  BY <1>0, <1>2 DEF RowsOK
<1>4. /\ TaskOK(T) /\ T.pc = "claimed" /\ T.owner = o /\ T.runnable = {}
  BY DEF TaskOK, FreeTask, Task, AwayPCs, SectionPCs, Outcomes, CurPCs, IdlePCs
<1>5. tasks'[t] = T /\ \A s \in Tasks \ {t} : tasks'[s] = tasks[s]
  BY <1>0, <1>1 DEF TypeOK
<1> HIDE DEF T
<1>6. TasksOK'
  BY <1>0, <1>4, <1>5 DEF TasksOK
<1>7. TypeOK'
  <2>1. rows' \in [Jobs -> Row]
    BY <1>0, <1>1, <1>2 DEF TypeOK, RowOK
  <2>2. tasks' \in [Tasks -> Task]
    BY <1>0, <1>1, <1>4 DEF TypeOK, TaskOK
  <2>3. active' \in [Models -> Nat] /\ mine' \subseteq Owners
    BY <1>0, <1>1 DEF TypeOK
  <2> QED BY <1>0, <1>1, <2>1, <2>2, <2>3 DEF TypeOK
<1>8. /\ \A k \in Jobs : rows[k].lease_owner # o /\ <<k, o>> \notin lost
      /\ \A s \in Tasks : tasks[s].owner # o
  BY <1>1 DEF InUse
<1>9. OwnersDistinct'
  BY <1>0, <1>4, <1>5, <1>8 DEF OwnersDistinct, Busy
<1>10. SeenOK'
  <2> SUFFICES ASSUME NEW s \in Tasks, NEW k \in tasks'[s].runnable,
                      rows'[k].lease_owner = tasks'[s].owner
               PROVE  tasks'[s].seen[k] = rows'[k].attempt_count
    BY DEF SeenOK
  <2>1. s # t /\ tasks'[s] = tasks[s]
    BY <1>4, <1>5
  <2>2. k \in Jobs
    BY <1>0, <2>1 DEF TypeOK, Task
  <2>3. k # j
    BY <1>2, <1>8, <2>1
  <2> QED BY <1>0, <1>2, <2>1, <2>2, <2>3 DEF SeenOK
<1>11. LostStaysLost'
  <2> SUFFICES ASSUME NEW p \in lost PROVE rows'[p[1]].lease_owner # p[2]
    BY <1>1 DEF LostStaysLost
  <2>1. p[1] \in Jobs /\ p = <<p[1], p[2]>>
    BY <1>0 DEF TypeOK
  <2>2. p[2] # o
    BY <1>8, <2>1
  <2> QED BY <1>0, <1>2, <2>1, <2>2 DEF LostStaysLost
<1>12. LostInRunnable'
  <2> SUFFICES ASSUME NEW p \in lost
               PROVE  \E s \in Tasks : tasks'[s].owner = p[2] /\ p[1] \in tasks'[s].runnable
    BY <1>1 DEF LostInRunnable
  <2>1. PICK s \in Tasks : tasks[s].owner = p[2] /\ p[1] \in tasks[s].runnable
    BY <1>0 DEF LostInRunnable
  <2>2. s # t
    BY <1>0, <1>1, <2>1 DEF TasksOK, TaskOK, IdlePCs
  <2> QED BY <1>5, <2>1, <2>2
<1> QED BY <1>3, <1>6, <1>7, <1>9, <1>10, <1>11, <1>12 DEF IInv

\* claim_compatible: the companions get the same token, and the task of that
\* token has not started, so nothing is remembered about it.
LEMMA ClaimCompatibleStep ==
    ASSUME IInv, NEW t \in Tasks, ClaimCompatible(t)
    PROVE  IInv'
<1>0. TypeOK /\ RowsOK /\ TasksOK /\ OwnersDistinct /\ SeenOK /\ LostStaysLost /\ LostInRunnable
  BY DEF IInv
<1> DEFINE o == tasks[t].owner
<1>a. PICK j \in tasks[t].jobs : \E S \in SUBSET Companions(j, tasks[t].model) :
        /\ rows' = [k \in Jobs |-> IF k \in S THEN ClaimSql(rows[k], o, TRUE) ELSE rows[k]]
        /\ tasks' = [tasks EXCEPT ![t] = [tasks[t] EXCEPT !.pc = "start", !.jobs = @ \cup S]]
  BY DEF ClaimCompatible
<1>1. PICK S \in SUBSET Companions(j, tasks[t].model) :
        /\ rows' = [k \in Jobs |-> IF k \in S THEN ClaimSql(rows[k], o, TRUE) ELSE rows[k]]
        /\ tasks' = [tasks EXCEPT ![t] = [tasks[t] EXCEPT !.pc = "start", !.jobs = @ \cup S]]
  BY <1>a
<1> DEFINE T == [tasks[t] EXCEPT !.pc = "start", !.jobs = @ \cup S]
<1>2. /\ tasks[t].pc = "claimed"
      /\ UNCHANGED <<active, lost, left, dispatching, stop, released, mine, restarts, requeues>>
  BY DEF ClaimCompatible
<1>3. TaskOK(tasks[t]) /\ o \in Owners /\ tasks[t].runnable = {}
  BY <1>0, <1>2 DEF TasksOK, TaskOK, IdlePCs
<1>4. S \subseteq Jobs /\ \A k \in S : Claimable(rows[k], TRUE)
  BY DEF Companions, ClaimableFor
<1>5. \A k \in Jobs : /\ RowOK(rows'[k])
                      /\ IF k \in S THEN rows'[k].lease_owner = o ELSE rows'[k] = rows[k]
  BY <1>0, <1>1, <1>3, <1>4, ClaimOK DEF RowsOK
<1>6. TaskOK(T) /\ T.pc = "start" /\ T.owner = o /\ T.runnable = {}
  BY <1>2, <1>3, <1>4 DEF TaskOK, Task, AwayPCs, SectionPCs, Outcomes, CurPCs, IdlePCs
<1>c. tasks' = [tasks EXCEPT ![t] = T]
  BY <1>1
<1> HIDE DEF T
<1>7. tasks' = [tasks EXCEPT ![t] = T] /\ tasks'[t] = T /\ \A s \in Tasks \ {t} : tasks'[s] = tasks[s]
  BY <1>0, <1>c DEF TypeOK
<1>8. RowsOK' /\ TasksOK'
  BY <1>0, <1>5, <1>6, <1>7 DEF RowsOK, TasksOK
<1>9. TypeOK'
  <2>1. rows' \in [Jobs -> Row]
    BY <1>1, <1>5 DEF RowOK
  <2>2. tasks' \in [Tasks -> Task]
    BY <1>0, <1>6, <1>7 DEF TypeOK, TaskOK
  <2> QED BY <1>0, <1>2, <2>1, <2>2 DEF TypeOK
<1>10. \A s \in Tasks : s # t => tasks[s].owner # o
  BY <1>0, <1>2 DEF OwnersDistinct, Busy
<1>11. OwnersDistinct'
  BY <1>0, <1>2, <1>6, <1>7, <1>10 DEF OwnersDistinct, Busy
<1>12. SeenOK'
  <2> SUFFICES ASSUME NEW s \in Tasks, NEW k \in tasks'[s].runnable,
                      rows'[k].lease_owner = tasks'[s].owner
               PROVE  tasks'[s].seen[k] = rows'[k].attempt_count
    BY DEF SeenOK
  <2>1. s # t /\ tasks'[s] = tasks[s]
    BY <1>6, <1>7
  <2>2. k \in Jobs
    BY <1>0, <2>1 DEF TypeOK, Task
  <2> QED BY <1>0, <1>5, <1>10, <2>1, <2>2 DEF SeenOK
<1>13. \A p \in lost : p[2] # o
  BY <1>0, <1>3, <1>10 DEF LostInRunnable
<1>14. LostStaysLost'
  <2> SUFFICES ASSUME NEW p \in lost PROVE rows'[p[1]].lease_owner # p[2]
    BY <1>2 DEF LostStaysLost
  <2>1. p[1] \in Jobs
    BY <1>0 DEF TypeOK
  <2> QED BY <1>0, <1>5, <1>13, <2>1 DEF LostStaysLost
<1>15. LostInRunnable'
  <2> SUFFICES ASSUME NEW p \in lost
               PROVE  \E s \in Tasks : tasks'[s].owner = p[2] /\ p[1] \in tasks'[s].runnable
    BY <1>2 DEF LostInRunnable
  <2>1. PICK s \in Tasks : tasks[s].owner = p[2] /\ p[1] \in tasks[s].runnable
    BY <1>0 DEF LostInRunnable
  <2> QED BY <1>3, <1>7, <2>1
<1> QED BY <1>8, <1>9, <1>11, <1>12, <1>14, <1>15 DEF IInv

\* A restart forgets the tasks and keeps the rows.
LEMMA NewProcessStep ==
    ASSUME IInv, NewProcess
    PROVE  IInv'
<1>1. TypeOK /\ RowsOK
  BY DEF IInv
<1>2. FreeTask.pc = "free" /\ FreeTask.runnable = {}
  BY DEF FreeTask
<1>n. /\ tasks' = [t \in Tasks |-> FreeTask] /\ active' = [m \in Models |-> 0]
      /\ lost' = {} /\ left' = {} /\ mine' = {} /\ stop' = FALSE /\ released' = FALSE
      /\ dispatching' = TRUE /\ restarts' = restarts + 1 /\ rows' = rows /\ requeues' = requeues
  BY DEF NewProcess
<1>3. TypeOK'
  <2>1. FreeTask \in Task
    BY FreeTaskOK DEF TaskOK
  <2>2. restarts + 1 \in Nat /\ rows \in [Jobs -> Row] /\ requeues \in Nat
    BY <1>1 DEF TypeOK
  <2>3. tasks' \in [Tasks -> Task] /\ active' \in [Models -> Nat]
    BY <1>n, <2>1
  <2> QED BY <1>n, <2>2, <2>3 DEF TypeOK
<1>4. RowsOK' /\ TasksOK'
  BY <1>1, FreeTaskOK DEF NewProcess, RowsOK, TasksOK
<1>5. OwnersDistinct' /\ SeenOK' /\ LostStaysLost' /\ LostInRunnable'
  BY <1>2 DEF NewProcess, OwnersDistinct, Busy, SeenOK, LostStaysLost, LostInRunnable
<1> QED BY <1>3, <1>4, <1>5 DEF IInv

LEMMA LeaveModelStep ==
    ASSUME IInv, NEW m \in Models, LeaveModel(m)
    PROVE  IInv'
<1>1. left' \subseteq Models /\ UNCHANGED <<rows, tasks, active, lost, dispatching, stop, released, mine, restarts, requeues>>
  BY DEF LeaveModel, IInv, TypeOK
<1>2. RowsTame
  BY <1>1, NoRowTame
<1> QED BY <1>1, <1>2, RowsStep DEF IInv, TypeOK

(***************************************************************************)
(* The invariant, and the theorems.                                        *)
(***************************************************************************)
LEMMA InitInv == Init => IInv
<1> SUFFICES ASSUME Init PROVE IInv
  OBVIOUS
<1>1. FreeTask.pc = "free" /\ FreeTask.runnable = {}
  BY DEF FreeTask
<1>2. NoRow("absent") \in Row /\ RowOK(NoRow("absent"))
  BY NoRowOK, NoRowFields
<1>3. TypeOK
  BY <1>2, FreeTaskOK DEF Init, TypeOK, TaskOK
<1>4. RowsOK /\ TasksOK
  BY <1>2, FreeTaskOK DEF Init, RowsOK, TasksOK
<1>5. OwnersDistinct /\ SeenOK /\ LostStaysLost /\ LostInRunnable
  BY <1>1 DEF Init, OwnersDistinct, Busy, SeenOK, LostStaysLost, LostInRunnable
<1> QED BY <1>3, <1>4, <1>5 DEF IInv

\* Every step of the system keeps the invariant.
LEMMA NextInv == IInv /\ [Next]_vars => IInv'
<1> SUFFICES ASSUME IInv, [Next]_vars PROVE IInv'
  OBVIOUS
<1>1. CASE Request \/ Tick \/ Maintain \/ ReleaseLeases \/ Shutdown
  BY <1>1, CallerSteps
<1>2. CASE Claim
  BY <1>2, ClaimNextStep DEF Claim
<1>3. ASSUME NEW t \in Tasks, ClaimCompatible(t) PROVE IInv'
  BY <1>3, ClaimCompatibleStep
<1>4. ASSUME NEW m \in Models, LeaveModel(m) PROVE IInv'
  BY <1>4, LeaveModelStep
<1>s. CASE StopSeen \/ DispatcherDies
  BY <1>s, NoRowTame, RowsStep DEF StopSeen, DispatcherDies, IInv, TypeOK
<1>5. ASSUME NEW t \in Tasks, NothingRunnable(t) \/ AllSettled(t) \/ TaskRaises(t) PROVE IInv'
  <2>1. tasks[t].pc # "free" /\ Finally(t) /\ UNCHANGED rows
    BY <1>5 DEF NothingRunnable, AllSettled, TaskRaises, SectionPCs
  <2> QED BY <2>1, FinallyStep
<1>6. ASSUME NEW t \in Tasks, Prologue(t) \/ Inference(t) \/ Settlement(t) PROVE IInv'
  BY <1>5, <1>6, TaskSteps DEF Prologue, Settlement
<1>7. ASSUME NEW t \in Tasks, Heartbeat(t) PROVE IInv'
  BY <1>7, HeartbeatStep
<1>8. CASE Fault
  BY <1>5, <1>s, <1>8, ClaimRaisesStep DEF Fault
<1>9. CASE StopLoop \/ Crash
  BY <1>9, NewProcessStep DEF StopLoop, Crash
<1>10. CASE UNCHANGED vars
  BY <1>10 DEF vars, IInv, TypeOK, RowsOK, TasksOK, OwnersDistinct, Busy, SeenOK,
               LostStaysLost, LostInRunnable
<1> QED BY <1>1, <1>2, <1>3, <1>4, <1>s, <1>6, <1>7, <1>8, <1>9, <1>10 DEF Next, Dispatch

THEOREM Invariance == Spec => []IInv
BY InitInv, NextInv, PTL DEF Spec

\* Every variable keeps its type (any instance of TypeOK's run).
THEOREM TypeCorrect == Spec => []TypeOK
<1>1. IInv => TypeOK
  BY DEF IInv
<1> QED BY <1>1, Invariance, PTL

\* A row carries a lease exactly while it is leased or running.
THEOREM LeaseMatches == Spec => []LeaseMatchesState
<1>1. IInv => LeaseMatchesState
  BY DEF IInv, RowsOK, RowOK, LeaseMatchesState
<1> QED BY <1>1, Invariance, PTL

\* finished_at is set exactly on terminal rows.
THEOREM FinishedMatches == Spec => []FinishedMatchesState
<1>1. IInv => FinishedMatchesState
  BY DEF IInv, RowsOK, RowOK, FinishedMatchesState, IsTerminal
<1> QED BY <1>1, Invariance, PTL

\* No job is charged more attempts than it may have, and a waiting job has
\* one left, although settlement decides from the worker's own copy.
THEOREM AttemptBudgetHolds == Spec => []AttemptBudget
<1>1. IInv => AttemptBudget
  BY DEF IInv, RowsOK, RowOK, AttemptBudget, Waiting
<1> QED BY <1>1, Invariance, PTL

\* A job that is leased but not running has no cancel request pending.
THEOREM LeasedNotCancelledHolds == Spec => []LeasedNotCancelled
<1>1. IInv => LeasedNotCancelled
  BY DEF IInv, RowsOK, RowOK, LeasedNotCancelled
<1> QED BY <1>1, Invariance, PTL

\* A worker that has marked a lease as lost never holds that lease again.
THEOREM LostIsForever == Spec => []LostStaysLost
<1>1. IInv => LostStaysLost
  BY DEF IInv
<1> QED BY <1>1, Invariance, PTL

\* Lost marks are those of live tasks only.
THEOREM LostBounded == Spec => []LostOnlyWhileRunning
<1>1. IInv => LostOnlyWhileRunning
  <2> SUFFICES ASSUME IInv, NEW p \in lost
               PROVE  \E t \in Tasks : tasks[t].owner = p[2] /\ p[1] \in tasks[t].jobs
    BY DEF LostOnlyWhileRunning
  <2>1. PICK t \in Tasks : tasks[t].owner = p[2] /\ p[1] \in tasks[t].runnable
    BY DEF IInv, LostInRunnable
  <2> QED BY <2>1 DEF IInv, TasksOK, TaskOK
<1> QED BY <1>1, Invariance, PTL

(***************************************************************************)
(* The steps.  Most are steady: no task comes or goes, no slot is taken,    *)
(* and a job is settled only by the task that holds its lease.              *)
(***************************************************************************)
RowsGo == \A j \in Jobs : Goes(rows[j], rows'[j]) /\ KeepsModel(rows[j], rows'[j])

TasksKeep == \A s \in Tasks : /\ tasks'[s].model = tasks[s].model /\ tasks'[s].owner = tasks[s].owner
                              /\ tasks'[s].jobs = tasks[s].jobs

SettledByOwner ==
    \A j \in Jobs : Settles(rows[j], rows'[j]) =>
        \E t \in Tasks : /\ tasks[t].owner = rows[j].lease_owner /\ j \in tasks[t].jobs
                         /\ tasks'[t] # tasks[t]

Steady == RowsGo /\ TasksKeep /\ SettledByOwner /\ UNCHANGED active

\* Steps that leave the tasks alone and settle nothing.
LEMMA OnlyRows ==
    ASSUME UNCHANGED <<tasks, active>>,
           \A j \in Jobs : /\ Goes(rows[j], rows'[j]) /\ KeepsModel(rows[j], rows'[j])
                           /\ ~Settles(rows[j], rows'[j])
    PROVE  Steady
BY DEF Steady, RowsGo, TasksKeep, SettledByOwner

LEMMA OneRow ==
    ASSUME IInv, NEW j \in Jobs, NEW r, Moves(rows[j], r), OnlyRow(j, r)
    PROVE  /\ \A k \in Jobs : Moves(rows[k], rows'[k])
           /\ \A k \in Jobs : Settles(rows[k], rows'[k]) => k = j /\ Settles(rows[j], r)
<1>1. rows \in [Jobs -> Row] /\ rows' = [rows EXCEPT ![j] = r]
  BY DEF IInv, TypeOK, OnlyRow
<1>2. \A k \in Jobs : rows'[k] = IF k = j THEN r ELSE rows[k]
  BY <1>1
<1>3. \A k \in Jobs : Quiet(rows[k], rows[k])
  BY <1>1, SameQuiet
<1> QED BY <1>2, <1>3 DEF Quiet

LEMMA NoRowFacts ==
    ASSUME NEW s \in {"absent", "deleted", "queued"}
    PROVE  /\ NoRow(s) \in Row /\ NoRow(s).deadline_at = Null
           /\ View(NoRow(s)) = [state |-> s, attempt_count |-> 0, max_attempts |-> 1,
                                cancel_requested |-> FALSE]
<1>1. NoRow(s).deadline_at = Null
  BY DEF NoRow
<1> QED BY <1>1, NoRowFields DEF View

\* A row that is made or deleted.
LEMMA CreatedGoes ==
    ASSUME NEW a \in Row, a.state = "absent",
           NEW n \in MaxAttemptsSet, NEW d \in Deadlines, NEW m \in Models
    PROVE  LET q == QueuedRow(n, d, m) IN
           Goes(a, q) /\ KeepsModel(a, q) /\ ~Settles(a, q)
<1> DEFINE r == NoRow("queued")
           q == [r EXCEPT !.max_attempts = n, !.deadline_at = d, !.resolved_model = m]
<1>1. n \in Nat \ {0} /\ d \in Instant
  BY InputAssumption
<1>2. /\ r \in Row /\ r.state = "queued" /\ r.lease_owner = Null
      /\ r.attempt_count = 0 /\ r.cancel_requested = FALSE
  BY NoRowFields
<1>3. q = QueuedRow(n, d, m)
  BY DEF QueuedRow
<1> HIDE DEF r
<1>4. /\ q \in Row /\ q.state = "queued" /\ q.lease_owner = Null
      /\ q.attempt_count = 0 /\ q.max_attempts = n /\ q.cancel_requested = FALSE
  BY <1>1, <1>2 DEF Row
<1> HIDE DEF q
<1> DEFINE x == View(a)
           y == View(q)
<1>5. /\ x.state = "absent" /\ y.state = "queued" /\ y.attempt_count = 0
      /\ y.max_attempts = n /\ y.cancel_requested = FALSE
  BY <1>4, ViewFields
<1> HIDE DEF x, y
<1>6. Life!Arrow(x, y)
  BY <1>1, <1>5 DEF Life!Arrow, Life!Created
<1> QED BY <1>3, <1>4, <1>6 DEF Goes, KeepsModel, Settles, x, y

LEMMA RemovedGoes ==
    ASSUME NEW a \in Row, Expungeable(a)
    PROVE  LET n == NoRow("deleted") IN Goes(a, n) /\ KeepsModel(a, n) /\ ~Settles(a, n)
<1> DEFINE n == NoRow("deleted")
<1>1. n.state = "deleted" /\ n.lease_owner = Null
  BY NoRowFields
<1>2. a.state \in TerminalStates
  BY DEF Expungeable, HasRow, Row
<1> HIDE DEF n
<1> DEFINE x == View(a)
           y == View(n)
<1>3. x.state \in TerminalStates /\ y.state = "deleted"
  BY <1>1, <1>2, ViewFields
<1> HIDE DEF x, y
<1>4. Life!Arrow(x, y)
  BY <1>3 DEF Life!Arrow, Life!Removed, Life!TerminalStates
<1>5. Goes(a, n) /\ KeepsModel(a, n) /\ ~Settles(a, n)
  BY <1>1, <1>4 DEF Goes, KeepsModel, Settles, x, y
<1> QED BY <1>5 DEF n

LEMMA ElapseGoes ==
    ASSUME NEW r \in Row
    PROVE  Goes(r, Elapse(r)) /\ KeepsModel(r, Elapse(r)) /\ ~Settles(r, Elapse(r))
<1>1. View(r) = View(Elapse(r))
  BY DEF View, Elapse, Row
<1>2. /\ Elapse(r).lease_owner = r.lease_owner /\ Elapse(r).resolved_model = r.resolved_model
      /\ Elapse(r).state = r.state
  BY DEF Elapse, Row
<1> QED BY <1>1, <1>2 DEF Goes, KeepsModel, Settles

LEMMA CallersSteady ==
    ASSUME IInv, Request \/ Tick \/ Maintain \/ ReleaseLeases \/ Shutdown
    PROVE  Steady
<1> USE DEF ServiceUnchanged
<1>0. rows \in [Jobs -> Row] /\ \A j \in Jobs : RowOK(rows[j]) /\ rows[j] \in Row
  BY DEF IInv, TypeOK, RowsOK
<1>1. ASSUME NEW j \in Jobs, NEW r, rows' = [rows EXCEPT ![j] = r],
             Goes(rows[j], r) /\ KeepsModel(rows[j], r) /\ ~Settles(rows[j], r),
             UNCHANGED <<tasks, active>>
      PROVE  Steady
  <2>1. \A k \in Jobs : rows'[k] = IF k = j THEN r ELSE rows[k]
    BY <1>0, <1>1
  <2>2. \A k \in Jobs : Quiet(rows[k], rows[k])
    BY <1>0, SameQuiet
  <2> QED BY <1>1, <2>1, <2>2, OnlyRows DEF Quiet, Moves
<1>2. ASSUME NEW j \in Jobs, Submit(j) PROVE Steady
  <2>1. PICK n \in MaxAttemptsSet, d \in Deadlines, m \in Models :
            rows' = [rows EXCEPT ![j] = QueuedRow(n, d, m)]
    BY <1>2 DEF Submit
  <2>2. rows[j].state = "absent" /\ UNCHANGED <<tasks, active>>
    BY <1>2 DEF Submit
  <2> QED BY <1>0, <1>1, <2>1, <2>2, CreatedGoes
<1>3. ASSUME NEW j \in Jobs, CancelJob(j) PROVE Steady
  <2>1. rows' = [rows EXCEPT ![j] = Cancel(rows[j])] /\ UNCHANGED <<tasks, active>>
    BY <1>3 DEF CancelJob
  <2> QED BY <1>0, <1>1, <2>1, CancelQuiet DEF Quiet, Moves
<1>4. ASSUME NEW j \in Jobs, RequeueJob(j) PROVE Steady
  <2>1. rows' = [rows EXCEPT ![j] = Requeue(rows[j])] /\ UNCHANGED <<tasks, active>>
    BY <1>4 DEF RequeueJob
  <2> QED BY <1>0, <1>1, <2>1, RequeueQuiet DEF Quiet, Moves
<1>5. CASE Cleanup
  <2>1. PICK S \in SUBSET {j \in Jobs : Expungeable(rows[j])} :
            rows' = [j \in Jobs |-> IF j \in S THEN NoRow("deleted") ELSE rows[j]]
    BY <1>5 DEF Cleanup
  <2>2. \A j \in Jobs : Goes(rows[j], rows'[j]) /\ KeepsModel(rows[j], rows'[j])
                         /\ ~Settles(rows[j], rows'[j])
    BY <1>0, <2>1, RemovedGoes, SameQuiet DEF Quiet, Moves
  <2> QED BY <1>5, <2>2, OnlyRows DEF Cleanup
<1>6. CASE Tick
  <2>1. \A j \in Jobs : rows'[j] = Elapse(rows[j])
    BY <1>6 DEF Tick
  <2> QED BY <1>0, <1>6, <2>1, ElapseGoes, OnlyRows DEF Tick
<1>7. CASE Maintain
  <2>1. \A j \in Jobs : rows'[j] = Maintenance(rows[j])
    BY <1>7 DEF Maintain
  <2> QED BY <1>0, <1>7, <2>1, MaintenanceQuiet, OnlyRows DEF Maintain, Quiet, Moves
<1>8. CASE ReleaseLeases
  <2>1. \A j \in Jobs : rows'[j] = IF rows[j].lease_owner \in mine
                   THEN ReleaseSql(rows[j], rows[j].lease_owner, rows[j].resolved_model)
                   ELSE rows[j]
    BY <1>8 DEF ReleaseLeases
  <2>2. \A j \in Jobs : rows[j].resolved_model \in Models
    BY <1>0 DEF Row
  <2>3. \A j \in Jobs : Quiet(rows[j], rows'[j])
    BY <1>0, <2>1, <2>2, ReleaseQuiet, SameQuiet
  <2> QED BY <1>8, <2>3, OnlyRows DEF ReleaseLeases, Quiet, Moves
<1>9. CASE Shutdown
  BY <1>0, <1>9, SameQuiet, OnlyRows DEF Shutdown, Quiet, Moves
<1> QED BY <1>2, <1>3, <1>4, <1>5, <1>6, <1>7, <1>8, <1>9 DEF Request

(***************************************************************************)
(* The steps of a task.  They keep deadlines too.                          *)
(***************************************************************************)
RowsMove == \A j \in Jobs : Moves(rows[j], rows'[j])

\* The rows are left alone, or one of them changes and is not settled.
LEMMA QuietRow ==
    ASSUME IInv, \/ UNCHANGED rows
                 \/ \E j \in Jobs : \E r : Quiet(rows[j], r) /\ OnlyRow(j, r)
    PROVE  RowsMove /\ \A j \in Jobs : ~Settles(rows[j], rows'[j])
<1>1. CASE UNCHANGED rows
  BY <1>1, SameQuiet DEF IInv, TypeOK, RowsMove, Quiet
<1>2. CASE \E j \in Jobs : \E r : Quiet(rows[j], r) /\ OnlyRow(j, r)
  BY <1>2, OneRow DEF RowsMove, Quiet
<1> QED BY <1>1, <1>2

LEMMA SettleFailureMoves ==
    ASSUME IInv, NEW j \in Jobs, NEW o, NEW n, NEW kind,
           rows[j].lease_owner = o => n = rows[j].attempt_count,
           SettleFailure(j, o, n, kind)
    PROVE  RowsMove /\ \A k \in Jobs : Settles(rows[k], rows'[k]) => k = j /\ rows[j].lease_owner = o
<1>0. RowOK(rows[j]) /\ rows[j] \in Row
  BY DEF IInv, RowsOK, RowOK
<1>1. CASE OnlyRow(j, Fail(rows[j], o, kind = "retryable"))
  <2>1. (kind = "retryable") \in BOOLEAN
    OBVIOUS
  <2>2. Quiet(rows[j], Fail(rows[j], o, kind = "retryable"))
    BY <1>0, <2>1, FailQuiet
  <2> QED BY <1>1, <2>2, QuietRow
<1>2. ASSUME ~(kind = "permanent" \/ n >= rows[j].max_attempts \/ rows[j].deadline_at = 0),
             NEW d \in Delays, NEW m \in Targets(j, rows[j].resolved_model),
             OnlyRow(j, Retry(rows[j], o, d, m))
      PROVE  RowsMove /\ \A k \in Jobs : Settles(rows[k], rows'[k]) => k = j /\ rows[j].lease_owner = o
  <2>1. d \in Nat /\ m \in Models
    BY <1>0, InputAssumption DEF Targets, Row
  <2>2. OwnedRunning(rows[j], o) => rows[j].attempt_count < rows[j].max_attempts
    BY <1>0, <1>2 DEF OwnedRunning, Row
  <2> DEFINE r == Retry(rows[j], o, d, m)
  <2>3. Moves(rows[j], r) /\ (Settles(rows[j], r) => rows[j].lease_owner = o)
    BY <1>0, <2>1, <2>2, RetryMoves
  <2>4. OnlyRow(j, r)
    BY <1>2
  <2> HIDE DEF r
  <2> QED BY <2>3, <2>4, OneRow DEF RowsMove
<1> QED BY <1>1, <1>2 DEF SettleFailure

LEMMA TaskSteady ==
    ASSUME IInv, NEW t \in Tasks, NEW r, TaskStep(t, r), ExecUnchanged, RowsMove,
           r.model = tasks[t].model, r.owner = tasks[t].owner, r.jobs = tasks[t].jobs,
           \A j \in Jobs : Settles(rows[j], rows'[j]) =>
               rows[j].lease_owner = tasks[t].owner /\ j \in tasks[t].jobs /\ r # tasks[t]
    PROVE  Steady
<1>1. tasks'[t] = r /\ \A s \in Tasks \ {t} : tasks'[s] = tasks[s]
  BY DEF IInv, TypeOK, TaskStep
<1> QED BY <1>1 DEF Steady, RowsGo, RowsMove, Moves, TasksKeep, SettledByOwner, ExecUnchanged

LEMMA TaskStepsSteady ==
    ASSUME IInv, NEW t \in Tasks,
           \/ BeginExecute(t) \/ FinishEarly(t) \/ MarkJob(t) \/ FailExpired(t) \/ Target(t)
           \/ StartInference(t) \/ Inference(t) \/ SettleCancelled(t) \/ Commit(t)
           \/ \E j \in Jobs : Inspect(t, j) \/ SkipLost(t, j) \/ SettleFailed(t, j) \/ CheckCancel(t, j)
    PROVE  Steady /\ RowsMove
<1> DEFINE T == tasks[t]
<1> USE DEF CurPCs
<1>0. TaskOK(T) /\ T \in Task
  BY DEF IInv, TasksOK, TaskOK
<1>r. \A j \in Jobs : RowOK(rows[j]) /\ rows[j] \in Row
  BY DEF IInv, RowsOK, RowOK
<1>c. ASSUME T.pc \in CurPCs PROVE T.cur \in Jobs /\ T.cur \in T.jobs
  BY <1>0, <1>c DEF TaskOK, Task
<1>q. ASSUME NEW r, TaskStep(t, r), ExecUnchanged,
             r.model = T.model /\ r.owner = T.owner /\ r.jobs = T.jobs,
             \/ UNCHANGED rows
             \/ \E j \in Jobs : \E x : Quiet(rows[j], x) /\ OnlyRow(j, x)
      PROVE  Steady /\ RowsMove
  BY <1>q, QuietRow, TaskSteady
<1>1. CASE BeginExecute(t)
  <2> DEFINE r == [T EXCEPT !.pc = "next", !.todo = T.jobs]
  <2>1. TaskStep(t, r) /\ UNCHANGED rows /\ ExecUnchanged
    BY <1>1 DEF BeginExecute
  <2>2. r.model = T.model /\ r.owner = T.owner /\ r.jobs = T.jobs
    BY <1>0 DEF Task
  <2> HIDE DEF r
  <2> QED BY <1>q, <2>1, <2>2
<1>2. CASE FinishEarly(t) \/ FailExpired(t)
  <2> DEFINE r == [T EXCEPT !.pc = "next", !.cur = Null]
  <2>1. /\ TaskStep(t, r) /\ ExecUnchanged /\ T.pc \in {"finish", "expired"}
        /\ \/ OnlyRow(T.cur, FinishCancel(rows[T.cur], T.owner))
           \/ OnlyRow(T.cur, Fail(rows[T.cur], T.owner, FALSE))
    BY <1>2 DEF FinishEarly, FailExpired
  <2>2. r.model = T.model /\ r.owner = T.owner /\ r.jobs = T.jobs
    BY <1>0 DEF Task
  <2> HIDE DEF r
  <2> QED BY <1>c, <1>r, <1>q, <2>1, <2>2, FailQuiet
<1>3. CASE MarkJob(t)
  <2>1. /\ ExecUnchanged /\ T.pc \in {"mark", "late"}
        /\ OnlyRow(T.cur, MarkRunning(rows[T.cur], T.owner))
    BY <1>3 DEF MarkJob
  <2>2. PICK r : /\ TaskStep(t, r)
                 /\ \/ r = [T EXCEPT !.pc = "expired"] \/ r = [T EXCEPT !.pc = "target"]
                    \/ r = [T EXCEPT !.pc = "next", !.cur = Null]
    BY <1>3 DEF MarkJob
  <2>3. r.model = T.model /\ r.owner = T.owner /\ r.jobs = T.jobs
    BY <1>0, <2>2 DEF Task
  <2> QED BY <1>c, <1>r, <1>q, <2>1, <2>2, <2>3, HoldQuiet
<1>4. CASE Target(t)
  <2> DEFINE j == T.cur
             r == [T EXCEPT !.pc = "next", !.cur = Null]
             s == [T EXCEPT !.pc = "next", !.cur = Null, !.runnable = @ \cup {j},
                            !.seen[j] = rows[j].attempt_count]
  <2>0. T.pc = "target" /\ ExecUnchanged /\ j \in Jobs /\ j \in T.jobs
    BY <1>4, <1>c DEF Target
  <2>1. CASE TaskStep(t, s) /\ UNCHANGED rows
    <3>1. s.model = T.model /\ s.owner = T.owner /\ s.jobs = T.jobs
      BY <1>0 DEF Task
    <3> HIDE DEF s
    <3> QED BY <1>q, <2>0, <2>1, <3>1
  <2>2. r.model = T.model /\ r.owner = T.owner /\ r.jobs = T.jobs /\ r.pc = "next"
    BY <1>0 DEF Task
  <2>3. ASSUME NEW m \in Targets(j, T.model) \ {T.model},
               OnlyRow(j, ReleaseSql(rows[j], T.owner, m)), TaskStep(t, r)
        PROVE  Steady /\ RowsMove
    <3>1. m \in Models
      BY <1>0, <2>0, <2>3 DEF Targets, TaskOK
    <3>2. Quiet(rows[j], ReleaseSql(rows[j], T.owner, m))
      BY <1>r, <2>0, <3>1, ReleaseQuiet
    <3> HIDE DEF r
    <3> QED BY <1>q, <2>0, <2>2, <2>3, <3>2
  <2>4. ASSUME NEW kind \in {"permanent", "retryable"},
               SettleFailure(j, T.owner, rows[j].attempt_count, kind), TaskStep(t, r)
        PROVE  Steady /\ RowsMove
    <3>1. RowsMove /\ \A k \in Jobs : Settles(rows[k], rows'[k]) => k = j /\ rows[j].lease_owner = T.owner
      BY <2>0, <2>4, SettleFailureMoves
    <3>2. r # T
      BY <2>0, <2>2
    <3> HIDE DEF r
    <3> QED BY <2>0, <2>2, <2>4, <3>1, <3>2, TaskSteady
  <2> QED BY <1>4, <2>1, <2>3, <2>4 DEF Target
<1>5. CASE StartInference(t)
  <2> DEFINE r == [T EXCEPT !.pc = "infer"]
  <2>1. TaskStep(t, r) /\ UNCHANGED rows /\ ExecUnchanged
    BY <1>5 DEF StartInference
  <2>2. r.model = T.model /\ r.owner = T.owner /\ r.jobs = T.jobs
    BY <1>0 DEF Task
  <2> HIDE DEF r
  <2> QED BY <1>q, <2>1, <2>2
<1>6. CASE Inference(t)
  <2>0. PICK out \in Outcomes : InferenceEnds(t, out)
    BY <1>6 DEF Inference
  <2> DEFINE r == [T EXCEPT !.pc = "settle", !.outcome = out, !.todo = T.runnable]
  <2>1. TaskStep(t, r) /\ UNCHANGED rows /\ ExecUnchanged
    BY <2>0 DEF InferenceEnds
  <2>2. r.model = T.model /\ r.owner = T.owner /\ r.jobs = T.jobs
    BY <1>0 DEF Task
  <2> HIDE DEF r
  <2> QED BY <1>q, <2>1, <2>2
<1>7. CASE SettleCancelled(t)
  <2> DEFINE r == [T EXCEPT !.pc = "settle", !.cur = Null]
  <2>1. /\ TaskStep(t, r) /\ ExecUnchanged /\ T.pc = "cancel"
        /\ OnlyRow(T.cur, FinishCancel(rows[T.cur], T.owner))
    BY <1>7 DEF SettleCancelled
  <2>2. r.model = T.model /\ r.owner = T.owner /\ r.jobs = T.jobs
    BY <1>0 DEF Task
  <2>3. Quiet(rows[T.cur], FinishCancel(rows[T.cur], T.owner))
    BY <1>c, <1>r, <2>1, FailQuiet
  <2> HIDE DEF r
  <2> QED BY <1>c, <1>q, <2>1, <2>2, <2>3
<1>8. CASE Commit(t)
  <2> DEFINE r == [T EXCEPT !.pc = "settle", !.cur = Null]
             x == Complete(rows[T.cur], T.owner)
  <2>1. /\ TaskStep(t, r) /\ ExecUnchanged /\ T.pc = "commit" /\ OnlyRow(T.cur, x)
    BY <1>8 DEF Commit
  <2>2. r.model = T.model /\ r.owner = T.owner /\ r.jobs = T.jobs /\ r.pc = "settle"
    BY <1>0 DEF Task
  <2>3. r # T
    BY <2>1, <2>2
  <2>4. Moves(rows[T.cur], x) /\ (Settles(rows[T.cur], x) => rows[T.cur].lease_owner = T.owner)
    BY <1>c, <1>r, <2>1, CompleteMoves
  <2> HIDE DEF r, x
  <2>5. /\ RowsMove
        /\ \A k \in Jobs : Settles(rows[k], rows'[k]) => k = T.cur /\ rows[T.cur].lease_owner = T.owner
    BY <1>c, <2>1, <2>4, OneRow DEF RowsMove
  <2> QED BY <1>c, <2>1, <2>2, <2>3, <2>5, TaskSteady
<1>9. ASSUME NEW j \in Jobs, Inspect(t, j) PROVE Steady /\ RowsMove
  <2>1. PICK r : /\ TaskStep(t, r)
                 /\ \E p \in {"finish", "late", "mark"} :
                      r = [T EXCEPT !.cur = j, !.todo = @ \ {j}, !.pc = p]
    BY <1>9 DEF Inspect
  <2>2. r.model = T.model /\ r.owner = T.owner /\ r.jobs = T.jobs
    BY <1>0, <2>1 DEF Task
  <2>3. UNCHANGED rows /\ ExecUnchanged
    BY <1>9 DEF Inspect
  <2> QED BY <1>q, <2>1, <2>2, <2>3
<1>10. ASSUME NEW j \in Jobs, SkipLost(t, j) PROVE Steady /\ RowsMove
  <2> DEFINE r == [T EXCEPT !.todo = @ \ {j}]
  <2>1. TaskStep(t, r) /\ UNCHANGED rows /\ ExecUnchanged
    BY <1>10 DEF SkipLost
  <2>2. r.model = T.model /\ r.owner = T.owner /\ r.jobs = T.jobs
    BY <1>0 DEF Task
  <2> HIDE DEF r
  <2> QED BY <1>q, <2>1, <2>2
<1>11. ASSUME NEW j \in Jobs, CheckCancel(t, j) PROVE Steady /\ RowsMove
  <2>1. PICK p \in {"cancel", "commit"} :
            TaskStep(t, [T EXCEPT !.todo = @ \ {j}, !.cur = j, !.pc = p])
    BY <1>11 DEF CheckCancel
  <2> DEFINE r == [T EXCEPT !.todo = @ \ {j}, !.cur = j, !.pc = p]
  <2>2. r.model = T.model /\ r.owner = T.owner /\ r.jobs = T.jobs
    BY <1>0 DEF Task
  <2>3. TaskStep(t, r) /\ UNCHANGED rows /\ ExecUnchanged
    BY <1>11, <2>1 DEF CheckCancel
  <2> HIDE DEF r
  <2> QED BY <1>q, <2>2, <2>3
<1>12. ASSUME NEW j \in Jobs, SettleFailed(t, j) PROVE Steady /\ RowsMove
  <2> DEFINE r == [T EXCEPT !.todo = @ \ {j}]
  <2>1. /\ TaskStep(t, r) /\ ExecUnchanged /\ T.pc = "settle" /\ j \in T.todo
        /\ SettleFailure(j, T.owner, T.seen[j], T.outcome)
    BY <1>12 DEF SettleFailed, Settling
  <2>2. r.model = T.model /\ r.owner = T.owner /\ r.jobs = T.jobs /\ r.todo = T.todo \ {j}
    BY <1>0 DEF Task
  <2>3. r # T
    BY <2>1, <2>2
  <2>4. rows[j].lease_owner = T.owner => T.seen[j] = rows[j].attempt_count
    BY <1>0, <2>1 DEF TaskOK, IInv, SeenOK
  <2>5. RowsMove /\ \A k \in Jobs : Settles(rows[k], rows'[k]) => k = j /\ rows[j].lease_owner = T.owner
    BY <2>1, <2>4, SettleFailureMoves
  <2>6. j \in T.jobs
    BY <1>0, <2>1 DEF TaskOK
  <2> HIDE DEF r
  <2> QED BY <2>1, <2>2, <2>3, <2>5, <2>6, TaskSteady
<1> QED BY <1>1, <1>2, <1>3, <1>4, <1>5, <1>6, <1>7, <1>8, <1>9, <1>10, <1>11, <1>12

\* A heartbeat extends leases.
LEMMA HeartbeatSteady ==
    ASSUME IInv, NEW t \in Tasks, Heartbeat(t)
    PROVE  Steady /\ RowsMove
<1>0. \A j \in Jobs : rows[j] \in Row
  BY DEF IInv, TypeOK
<1>1. \A j \in Jobs : \/ rows'[j] = ExtendLease(rows[j], tasks[t].owner)
                      \/ rows'[j] = rows[j]
  BY DEF Heartbeat
<1>2. \A j \in Jobs : Quiet(rows[j], rows'[j])
  BY <1>0, <1>1, HoldQuiet, SameQuiet
<1>3. UNCHANGED <<tasks, active>>
  BY DEF Heartbeat
<1>4. Steady
  BY <1>2, <1>3, OnlyRows DEF Quiet, Moves
<1> QED BY <1>2, <1>4 DEF RowsMove, Quiet

(***************************************************************************)
(* Every step is steady, a claim, the end of a task, or a new process.      *)
(***************************************************************************)
Ends(t)   == tasks[t].pc # "free" /\ Finally(t) /\ UNCHANGED rows
Companies == \E t \in Tasks : ClaimCompatible(t)
Raises    == \E m \in Models : ClaimRaises(m)

LEMMA UnchangedSteady ==
    ASSUME IInv, UNCHANGED <<rows, tasks, active>>
    PROVE  Steady /\ RowsMove
<1>1. \A j \in Jobs : Quiet(rows[j], rows'[j])
  BY SameQuiet DEF IInv, TypeOK
<1> QED BY <1>1, OnlyRows DEF Quiet, Moves, RowsMove

LEMMA StepKinds ==
    ASSUME IInv, [Next]_vars
    PROVE  \/ Steady \/ Claim \/ Companies \/ Raises \/ NewProcess
           \/ \E t \in Tasks : Ends(t)
<1>1. CASE Request \/ Tick \/ Maintain \/ ReleaseLeases \/ Shutdown
  BY <1>1, CallersSteady
<1>2. ASSUME NEW t \in Tasks, NothingRunnable(t) \/ AllSettled(t) \/ TaskRaises(t)
      PROVE  Ends(t)
  BY <1>2 DEF NothingRunnable, AllSettled, TaskRaises, SectionPCs, Ends
<1>3. ASSUME NEW t \in Tasks, Prologue(t) \/ Inference(t) \/ Settlement(t)
      PROVE  Steady \/ Ends(t)
  BY <1>2, <1>3, TaskStepsSteady DEF Prologue, Settlement
<1>4. ASSUME NEW t \in Tasks, Heartbeat(t) PROVE Steady
  BY <1>4, HeartbeatSteady
<1>5. ASSUME NEW m \in Models, LeaveModel(m) PROVE Steady
  BY <1>5, UnchangedSteady DEF LeaveModel
<1>6. CASE StopSeen \/ DispatcherDies \/ UNCHANGED vars
  BY <1>6, UnchangedSteady DEF StopSeen, DispatcherDies, vars
<1>7. CASE Fault
  BY <1>2, <1>6, <1>7 DEF Fault, Raises
<1>8. CASE StopLoop \/ Crash
  BY <1>8 DEF StopLoop, Crash
<1> QED BY <1>1, <1>3, <1>4, <1>5, <1>6, <1>7, <1>8 DEF Next, Dispatch, Companies

(***************************************************************************)
(* Slots.                                                                  *)
(***************************************************************************)
SlotsOK == \A m \in Models :
              /\ IsFiniteSet(InFlight(m)) /\ Cardinality(InFlight(m)) <= active[m]
              /\ active[m] <= Cap[m]
              /\ ~StoreFaults => active[m] = Cardinality(InFlight(m))

LEMMA FreeTaskModel == FreeTask.model = Null /\ Null \notin Models
BY ModelsAssumption DEF FreeTask

\* A task takes a slot of m0, or a slot of it is lost.
LEMMA SlotTaken ==
    ASSUME IInv, SlotsOK, NEW m0 \in Models, HasSlot(m0),
           active' = [active EXCEPT ![m0] = @ + 1],
           \/ UNCHANGED tasks /\ StoreFaults
           \/ \E t \in Tasks : /\ tasks[t].pc = "free" /\ tasks'[t].model = m0
                              /\ \A s \in Tasks \ {t} : tasks'[s] = tasks[s]
    PROVE  SlotsOK'
<1>0. active \in [Models -> Nat] /\ TasksOK
  BY DEF IInv, TypeOK
<1> SUFFICES ASSUME NEW m \in Models
             PROVE  /\ IsFiniteSet(InFlight(m)') /\ Cardinality(InFlight(m)') <= active'[m]
                    /\ active'[m] <= Cap[m]
                    /\ ~StoreFaults => active'[m] = Cardinality(InFlight(m)')
  BY DEF SlotsOK
<1>1. /\ IsFiniteSet(InFlight(m)) /\ Cardinality(InFlight(m)) <= active[m]
      /\ Cardinality(InFlight(m)) \in Nat /\ active[m] \in Nat /\ Cap[m] \in Nat
      /\ active[m] <= Cap[m] /\ (~StoreFaults => active[m] = Cardinality(InFlight(m)))
  BY <1>0, CapAssumption, FS_CardinalityType DEF SlotsOK
<1>2. active'[m] = (IF m = m0 THEN active[m] + 1 ELSE active[m]) /\ active[m0] < Cap[m0]
  BY <1>0 DEF HasSlot
<1>3. CASE UNCHANGED tasks /\ StoreFaults
  <2>1. InFlight(m)' = InFlight(m)
    BY <1>3 DEF InFlight
  <2> QED BY <1>1, <1>2, <1>3, <2>1
<1>4. ASSUME NEW t \in Tasks, tasks[t].pc = "free", tasks'[t].model = m0,
             \A s \in Tasks \ {t} : tasks'[s] = tasks[s]
      PROVE  /\ IsFiniteSet(InFlight(m)') /\ Cardinality(InFlight(m)') <= active'[m]
             /\ active'[m] <= Cap[m]
             /\ ~StoreFaults => active'[m] = Cardinality(InFlight(m)')
  <2>1. tasks[t].model = Null
    BY <1>0, <1>4, FreeTaskModel DEF TasksOK, TaskOK
  <2>2. t \notin InFlight(m)
    BY <2>1, FreeTaskModel DEF InFlight
  <2>3. InFlight(m)' = IF m = m0 THEN InFlight(m) \cup {t} ELSE InFlight(m)
    BY <1>4, <2>1, FreeTaskModel DEF InFlight
  <2>4. /\ IsFiniteSet(InFlight(m) \cup {t})
        /\ Cardinality(InFlight(m) \cup {t}) = Cardinality(InFlight(m)) + 1
    BY <1>1, <2>2, FS_AddElement
  <2> QED BY <1>1, <1>2, <2>3, <2>4
<1> QED BY <1>3, <1>4

\* A task leaves its model; what its slot does is in active'.
LEMMA TaskLeaves ==
    ASSUME IInv, SlotsOK, NEW t \in Tasks, tasks[t].pc # "free", TaskStep(t, FreeTask),
           \/ UNCHANGED active /\ StoreFaults
           \/ GiveBack(tasks[t].model)
    PROVE  SlotsOK'
<1>0. active \in [Models -> Nat] /\ tasks[t].model \in Models
  BY DEF IInv, TypeOK, TasksOK, TaskOK
<1> DEFINE m0 == tasks[t].model
<1> SUFFICES ASSUME NEW m \in Models
             PROVE  /\ IsFiniteSet(InFlight(m)') /\ Cardinality(InFlight(m)') <= active'[m]
                    /\ active'[m] <= Cap[m]
                    /\ ~StoreFaults => active'[m] = Cardinality(InFlight(m)')
  BY DEF SlotsOK
<1>1. /\ IsFiniteSet(InFlight(m)) /\ Cardinality(InFlight(m)) <= active[m]
      /\ Cardinality(InFlight(m)) \in Nat /\ active[m] \in Nat /\ Cap[m] \in Nat
      /\ active[m] <= Cap[m] /\ (~StoreFaults => active[m] = Cardinality(InFlight(m)))
  BY <1>0, CapAssumption, FS_CardinalityType DEF SlotsOK
<1>2. tasks'[t].model = Null /\ \A s \in Tasks \ {t} : tasks'[s] = tasks[s]
  BY FreeTaskModel DEF IInv, TypeOK, TaskStep
<1>3. InFlight(m)' = IF m = m0 THEN InFlight(m) \ {t} ELSE InFlight(m)
  BY <1>2, FreeTaskModel DEF InFlight
<1>4. CASE m # m0
  <2>1. active'[m] = active[m]
    BY <1>0, <1>4 DEF GiveBack
  <2> QED BY <1>1, <1>3, <1>4, <2>1
<1>5. CASE m = m0
  <2>1. t \in InFlight(m)
    BY <1>5 DEF InFlight
  <2>2. /\ IsFiniteSet(InFlight(m) \ {t})
        /\ Cardinality(InFlight(m) \ {t}) = Cardinality(InFlight(m)) - 1
    BY <1>1, <2>1, FS_RemoveElement
  <2>3. Cardinality(InFlight(m) \ {t}) \in Nat
    BY <2>2, FS_CardinalityType
  <2>4. (active'[m] = active[m] /\ StoreFaults) \/ active'[m] = IF active[m] = 0 THEN 0 ELSE active[m] - 1
    BY <1>0, <1>5 DEF GiveBack
  <2> QED BY <1>1, <1>3, <1>5, <2>2, <2>3, <2>4
<1> QED BY <1>4, <1>5

LEMMA SlotsInit == Init => SlotsOK
<1> SUFFICES ASSUME Init, NEW m \in Models
             PROVE  /\ IsFiniteSet(InFlight(m)) /\ Cardinality(InFlight(m)) <= active[m]
                    /\ active[m] <= Cap[m]
                    /\ ~StoreFaults => active[m] = Cardinality(InFlight(m))
  BY DEF SlotsOK
<1>1. InFlight(m) = {} /\ active[m] = 0
  BY FreeTaskModel DEF Init, InFlight
<1>2. Cap[m] \in Nat
  BY CapAssumption
<1> QED BY <1>1, <1>2, FS_EmptySet

LEMMA SlotsStep == IInv /\ SlotsOK /\ [Next]_vars => SlotsOK'
<1> SUFFICES ASSUME IInv, SlotsOK, [Next]_vars PROVE SlotsOK'
  OBVIOUS
<1>1. CASE Steady
  <2>1. \A m \in Models : InFlight(m)' = InFlight(m)
    BY <1>1 DEF Steady, TasksKeep, InFlight
  <2>2. UNCHANGED active
    BY <1>1 DEF Steady
  <2> QED BY <2>1, <2>2 DEF SlotsOK
<1>2. CASE Claim
  <2>1. PICK m \in Models, t \in Tasks, o \in Owners, j \in Jobs : ClaimNext(m, t, o, j)
    BY <1>2 DEF Claim
  <2> DEFINE r == [FreeTask EXCEPT !.pc = "claimed", !.owner = o, !.model = m, !.jobs = {j}]
  <2>2. /\ HasSlot(m) /\ active' = [active EXCEPT ![m] = @ + 1] /\ tasks[t].pc = "free"
        /\ tasks' = [tasks EXCEPT ![t] = r]
    BY <2>1 DEF ClaimNext
  <2>3. r.model = m
    BY DEF FreeTask
  <2> HIDE DEF r
  <2>4. tasks'[t].model = m /\ \A s \in Tasks \ {t} : tasks'[s] = tasks[s]
    BY <2>2, <2>3 DEF IInv, TypeOK
  <2> QED BY <2>2, <2>4, SlotTaken
<1>3. CASE Companies
  <2>1. PICK t \in Tasks : ClaimCompatible(t)
    BY <1>3 DEF Companies
  <2>2. PICK J \in SUBSET Jobs : tasks' = [tasks EXCEPT ![t] = [tasks[t] EXCEPT !.pc = "start", !.jobs = @ \cup J]]
    BY <2>1 DEF ClaimCompatible, Companions
  <2>3. UNCHANGED active /\ \A s \in Tasks : tasks'[s].model = tasks[s].model
    BY <2>1, <2>2 DEF ClaimCompatible, IInv, TypeOK, Task
  <2>4. \A m \in Models : InFlight(m)' = InFlight(m)
    BY <2>3 DEF InFlight
  <2> QED BY <2>3, <2>4 DEF SlotsOK
<1>4. CASE Raises
  <2>1. PICK m \in Models : ClaimRaises(m)
    BY <1>4 DEF Raises
  <2>2. CASE Visiting(m) /\ HasSlot(m) /\ active' = [active EXCEPT ![m] = @ + 1] /\ UNCHANGED tasks
    BY <2>1, <2>2, SlotTaken DEF ClaimRaises
  <2>3. CASE \E t \in Tasks : /\ tasks[t].pc = "claimed" /\ tasks[t].model = m
                             /\ tasks' = [tasks EXCEPT ![t] = FreeTask] /\ UNCHANGED active
    BY <2>1, <2>3, TaskLeaves DEF ClaimRaises, TaskStep
  <2> QED BY <2>1, <2>2, <2>3 DEF ClaimRaises
<1>5. CASE NewProcess
  <2>1. \A m \in Models : InFlight(m)' = {} /\ active'[m] = 0 /\ Cap[m] \in Nat
    BY <1>5, FreeTaskModel, CapAssumption DEF NewProcess, InFlight
  <2> QED BY <2>1, FS_EmptySet DEF SlotsOK
<1>6. ASSUME NEW t \in Tasks, Ends(t) PROVE SlotsOK'
  BY <1>6, TaskLeaves DEF Ends, Finally
<1> QED BY <1>1, <1>2, <1>3, <1>4, <1>5, <1>6, StepKinds

\* Slots cover tasks and stay within the cap, in every reachable state.
THEOREM SlotsAreCounted == Spec => []SlotsOK
<1>1. Init => SlotsOK
  BY SlotsInit
<1>2. IInv /\ SlotsOK /\ [Next]_vars => SlotsOK'
  BY SlotsStep
<1> QED BY <1>1, <1>2, Invariance, PTL DEF Spec

\* A model never has more tasks than max_concurrency, whatever is retargeted,
\* claimed in groups, lost in a store error or restarted.
THEOREM ConcurrencyCapHolds == Spec => []ConcurrencyCap
<1>1. IInv /\ SlotsOK => ConcurrencyCap
  <2> SUFFICES ASSUME IInv, SlotsOK, NEW m \in Models
               PROVE  Cardinality(InFlight(m)) <= Cap[m]
    BY DEF ConcurrencyCap
  <2>1. active[m] \in Nat /\ Cap[m] \in Nat /\ Cardinality(InFlight(m)) \in Nat
    BY CapAssumption, FS_CardinalityType DEF IInv, TypeOK, SlotsOK
  <2> QED BY <2>1 DEF SlotsOK
<1> QED BY <1>1, Invariance, SlotsAreCounted, PTL

\* No path gives back a slot it does not own.
THEOREM SlotsCoverTasksHolds == Spec => []SlotsCoverTasks
<1>1. IInv /\ SlotsOK => SlotsCoverTasks
  <2> SUFFICES ASSUME IInv, SlotsOK, NEW m \in Models
               PROVE  active[m] >= Cardinality(InFlight(m))
    BY DEF SlotsCoverTasks
  <2>1. active[m] \in Nat /\ Cardinality(InFlight(m)) \in Nat
    BY FS_CardinalityType DEF IInv, TypeOK, SlotsOK
  <2> QED BY <2>1 DEF SlotsOK
<1> QED BY <1>1, Invariance, SlotsAreCounted, PTL

\* Without store errors no slot is lost either.
THEOREM SlotsAreTasks == ~StoreFaults => (Spec => []SlotAccounting)
<1> SUFFICES ASSUME ~StoreFaults PROVE Spec => []SlotAccounting
  OBVIOUS
<1>1. SlotsOK => SlotAccounting
  BY DEF SlotsOK, SlotAccounting
<1> QED BY <1>1, SlotsAreCounted, PTL

(***************************************************************************)
(* The model a job runs on.                                                *)
(***************************************************************************)
ModelOK == \A t \in Tasks : \A j \in tasks[t].jobs :
              rows[j].lease_owner = tasks[t].owner => rows[j].resolved_model = tasks[t].model

LEMMA ModelInit == Init => ModelOK
BY DEF Init, ModelOK, FreeTask

LEMMA ModelStep == IInv /\ ModelOK /\ [Next]_vars => ModelOK'
<1> SUFFICES ASSUME IInv, ModelOK, [Next]_vars PROVE ModelOK'
  OBVIOUS
<1>0. /\ rows \in [Jobs -> Row] /\ tasks \in [Tasks -> Task]
      /\ \A t \in Tasks : tasks[t].jobs \subseteq Jobs
      /\ \A t \in Tasks : IF tasks[t].pc = "free" THEN tasks[t] = FreeTask
                         ELSE tasks[t].owner \in Owners
  BY DEF IInv, TypeOK, Task, TasksOK, TaskOK
<1>f. FreeTask.jobs = {}
  BY DEF FreeTask
<1>1. CASE Steady
  <2> SUFFICES ASSUME NEW t \in Tasks, NEW j \in tasks'[t].jobs,
                      rows'[j].lease_owner = tasks'[t].owner
               PROVE  rows'[j].resolved_model = tasks'[t].model
    BY DEF ModelOK
  <2>1. /\ j \in tasks[t].jobs /\ tasks'[t].owner = tasks[t].owner
        /\ tasks'[t].model = tasks[t].model
    BY <1>1 DEF Steady, TasksKeep
  <2>2. j \in Jobs /\ tasks[t].owner # Null
    BY <1>0, <1>f, <2>1, NullAssumption
  <2>3. KeepsModel(rows[j], rows'[j])
    BY <1>1, <2>2 DEF Steady, RowsGo
  <2> QED BY <2>1, <2>2, <2>3 DEF ModelOK, KeepsModel
<1>2. CASE Claim
  <2>1. PICK m \in Models, t \in Tasks, o \in Owners, j \in Jobs : ClaimNext(m, t, o, j)
    BY <1>2 DEF Claim
  <2> DEFINE r == [FreeTask EXCEPT !.pc = "claimed", !.owner = o, !.model = m, !.jobs = {j}]
  <2>2. /\ ClaimableFor(j, m) /\ ~InUse(o) /\ tasks' = [tasks EXCEPT ![t] = r]
        /\ rows' = [rows EXCEPT ![j] = ClaimSql(rows[j], o, TRUE)]
    BY <2>1 DEF ClaimNext
  <2>3. r.model = m /\ r.owner = o /\ r.jobs = {j}
    BY DEF FreeTask
  <2> HIDE DEF r
  <2>4. tasks'[t] = r /\ \A s \in Tasks \ {t} : tasks'[s] = tasks[s]
    BY <1>0, <2>2
  <2>5. rows'[j].resolved_model = m /\ rows'[j].lease_owner = o
    BY <1>0, <2>2, ClaimGoes, ClaimOK DEF IInv, RowsOK, ClaimableFor
  <2>6. \A k \in Jobs \ {j} : rows'[k] = rows[k]
    BY <1>0, <2>2
  <2>7. \A s \in Tasks : tasks[s].owner # o
    BY <2>2 DEF InUse
  <2> SUFFICES ASSUME NEW s \in Tasks, NEW k \in tasks'[s].jobs,
                      rows'[k].lease_owner = tasks'[s].owner
               PROVE  rows'[k].resolved_model = tasks'[s].model
    BY DEF ModelOK
  <2>8. CASE s = t
    BY <2>3, <2>4, <2>5, <2>8
  <2>9. CASE s # t
    BY <1>0, <2>4, <2>5, <2>6, <2>7, <2>9 DEF ModelOK
  <2> QED BY <2>8, <2>9
<1>3. CASE Companies
  <2>1. PICK t \in Tasks : ClaimCompatible(t)
    BY <1>3 DEF Companies
  <2> DEFINE o == tasks[t].owner
             m == tasks[t].model
  <2>2. PICK j \in tasks[t].jobs : \E S \in SUBSET Companions(j, m) :
          /\ rows' = [k \in Jobs |-> IF k \in S THEN ClaimSql(rows[k], o, TRUE) ELSE rows[k]]
          /\ tasks' = [tasks EXCEPT ![t] = [tasks[t] EXCEPT !.pc = "start", !.jobs = @ \cup S]]
    BY <2>1 DEF ClaimCompatible
  <2>3. PICK S \in SUBSET Companions(j, m) :
          /\ rows' = [k \in Jobs |-> IF k \in S THEN ClaimSql(rows[k], o, TRUE) ELSE rows[k]]
          /\ tasks' = [tasks EXCEPT ![t] = [tasks[t] EXCEPT !.pc = "start", !.jobs = @ \cup S]]
    BY <2>2
  <2>4. /\ tasks'[t].owner = o /\ tasks'[t].model = m /\ tasks'[t].jobs = tasks[t].jobs \cup S
        /\ \A s \in Tasks \ {t} : tasks'[s] = tasks[s]
    BY <1>0, <2>3 DEF Task
  <2>5. tasks[t].pc = "claimed" /\ o \in Owners
    BY <1>0, <2>1 DEF ClaimCompatible, FreeTask
  <2>6. S \subseteq Jobs /\ \A k \in S : Claimable(rows[k], TRUE) /\ rows[k].resolved_model = m
    BY DEF Companions, ClaimableFor
  <2>7. \A k \in Jobs : IF k \in S THEN rows'[k].resolved_model = m /\ rows'[k].lease_owner = o
                        ELSE rows'[k] = rows[k]
    BY <2>3, <2>5, <2>6, ClaimGoes, ClaimOK DEF IInv, RowsOK
  <2>8. \A s \in Tasks : s # t => tasks[s].owner # o
    BY <2>5 DEF IInv, OwnersDistinct, Busy
  <2> HIDE DEF o, m
  <2> SUFFICES ASSUME NEW s \in Tasks, NEW k \in tasks'[s].jobs,
                      rows'[k].lease_owner = tasks'[s].owner
               PROVE  rows'[k].resolved_model = tasks'[s].model
    BY DEF ModelOK
  <2>9. CASE s = t
    <3>1. k \in Jobs
      BY <1>0, <2>4, <2>6, <2>9
    <3>2. CASE k \in S
      BY <2>4, <2>7, <2>9, <3>1, <3>2
    <3>3. CASE k \notin S
      <4>1. k \in tasks[t].jobs /\ rows'[k] = rows[k]
        BY <2>4, <2>7, <2>9, <3>1, <3>3
      <4> QED BY <2>4, <2>9, <4>1 DEF ModelOK, o, m
    <3> QED BY <3>2, <3>3
  <2>10. CASE s # t
    BY <1>0, <2>4, <2>7, <2>8, <2>10 DEF ModelOK
  <2> QED BY <2>9, <2>10
<1>4. CASE Raises \/ \E t \in Tasks : Ends(t)
  <2>1. rows' = rows /\ \A s \in Tasks : tasks'[s] = tasks[s] \/ tasks'[s] = FreeTask
    BY <1>0, <1>4 DEF Raises, ClaimRaises, Ends, Finally, TaskStep
  <2> QED BY <1>f, <2>1 DEF ModelOK
<1>5. CASE NewProcess
  BY <1>5, <1>f DEF NewProcess, ModelOK
<1> QED BY <1>1, <1>2, <1>3, <1>4, <1>5, StepKinds

\* A job runs on the model whose slot its task holds.
THEOREM RunsOnReservedModelHolds == Spec => []RunsOnReservedModel
<1>1. Init => ModelOK
  BY ModelInit
<1>2. IInv /\ ModelOK /\ [Next]_vars => ModelOK'
  BY ModelStep
<1>3. ModelOK => RunsOnReservedModel
  BY DEF ModelOK, RunsOnReservedModel, Holds
<1> QED BY <1>1, <1>2, <1>3, Invariance, PTL DEF Spec

(***************************************************************************)
(* Who settles a job, and the lifecycle.                                   *)
(***************************************************************************)
\* What every step does to every row.
LEMMA StepGoes ==
    ASSUME IInv, [Next]_vars
    PROVE  \A j \in Jobs : /\ Goes(rows[j], rows'[j])
                           /\ Steady \/ ~Settles(rows[j], rows'[j])
<1>0. \A j \in Jobs : RowOK(rows[j]) /\ Quiet(rows[j], rows[j])
  BY SameQuiet DEF IInv, RowsOK, RowOK
<1>1. CASE Steady
  BY <1>1 DEF Steady, RowsGo
<1>2. CASE Claim
  <2>1. PICK m \in Models, t \in Tasks, o \in Owners, j \in Jobs : ClaimNext(m, t, o, j)
    BY <1>2 DEF Claim
  <2>2. /\ Claimable(rows[j], TRUE) /\ rows' = [rows EXCEPT ![j] = ClaimSql(rows[j], o, TRUE)]
    BY <2>1 DEF ClaimNext, ClaimableFor
  <2>3. \A k \in Jobs : rows'[k] = IF k = j THEN ClaimSql(rows[j], o, TRUE) ELSE rows[k]
    BY <2>2 DEF IInv, TypeOK
  <2> QED BY <1>0, <2>2, <2>3, ClaimGoes DEF Quiet, Moves
<1>3. CASE Companies
  <2>1. PICK t \in Tasks : ClaimCompatible(t)
    BY <1>3 DEF Companies
  <2>2. PICK S \in SUBSET Jobs :
          /\ \A k \in S : Claimable(rows[k], TRUE)
          /\ rows' = [k \in Jobs |-> IF k \in S THEN ClaimSql(rows[k], tasks[t].owner, TRUE) ELSE rows[k]]
    BY <2>1 DEF ClaimCompatible, Companions, ClaimableFor
  <2>3. tasks[t].owner \in Owners
    BY <2>1 DEF ClaimCompatible, IInv, TasksOK, TaskOK
  <2> QED BY <1>0, <2>2, <2>3, ClaimGoes DEF Quiet, Moves
<1>4. CASE Raises \/ NewProcess \/ \E t \in Tasks : Ends(t)
  <2>1. rows' = rows
    BY <1>4 DEF Raises, ClaimRaises, NewProcess, Ends
  <2> QED BY <1>0, <2>1 DEF Quiet, Moves
<1> QED BY <1>1, <1>2, <1>3, <1>4, StepKinds

\* A worker that lost its lease never settles the job for the one that has it.
THEOREM OnlyOwnerSettlesHolds == Spec => OnlyOwnerSettles
<1>1. IInv /\ [Next]_vars =>
        [\A j \in Jobs :
          (rows[j].state = "running" /\ rows'[j].state \in {"succeeded", "retry_wait"})
          => \E t \in Tasks : /\ tasks[t].owner = rows[j].lease_owner /\ j \in tasks[t].jobs
                              /\ tasks'[t] # tasks[t]]_vars
  BY StepGoes DEF Steady, SettledByOwner, Settles
<1> QED BY <1>1, Invariance, PTL DEF Spec, OnlyOwnerSettles

\* The arrows of a row are the arrows of the job whose row it is.
LEMMA SameArrow ==
    ASSUME NEW a, NEW b, Life!Arrow(a, b)
    PROVE  Lifecycle!Arrow(a, b)
BY DEF Lifecycle!Arrow, Lifecycle!Created, Lifecycle!Removed, Lifecycle!Activated,
       Lifecycle!Claimed, Lifecycle!Started, Lifecycle!Succeeded, Lifecycle!Failed,
       Lifecycle!Retried, Lifecycle!Promoted, Lifecycle!Released, Lifecycle!Expired,
       Lifecycle!Cancelled, Lifecycle!Flagged, Lifecycle!Requeued, Lifecycle!Keeps,
       Lifecycle!Same, Lifecycle!Costs, Lifecycle!TerminalStates, Lifecycle!HeldStates,
       Lifecycle!IncompleteStates,
       Life!Arrow, Life!Created, Life!Removed, Life!Activated, Life!Claimed, Life!Started,
       Life!Succeeded, Life!Failed, Life!Retried, Life!Promoted, Life!Released,
       Life!Expired, Life!Cancelled, Life!Flagged, Life!Requeued, Life!Keeps, Life!Same,
       Life!Costs, Life!TerminalStates, Life!HeldStates, Life!IncompleteStates

\* The executor implements the lifecycle: every step takes every job along an
\* arrow or leaves it where it is.
THEOREM ExecutorImplementsLifecycle == Spec => ImplementsLifecycle
<1> DEFINE life == [j \in Jobs |-> [state |-> rows[j].state, attempt_count |-> rows[j].attempt_count,
                             max_attempts |-> rows[j].max_attempts,
                             cancel_requested |-> rows[j].cancel_requested]]
<1>1. Init => Lifecycle!Init
  <2> SUFFICES ASSUME Init, NEW j \in Jobs PROVE rows[j].state = "absent"
    BY DEF Lifecycle!Init
  <2> QED BY NoRowFields DEF Init
<1>2. IInv /\ [Next]_vars => [Lifecycle!Next]_life
  <2> SUFFICES ASSUME IInv, [Next]_vars PROVE Lifecycle!Next
    OBVIOUS
  <2>1. \A j \in Jobs : Goes(rows[j], rows'[j])
    BY StepGoes
  <2>2. \A j \in Jobs : life[j] = View(rows[j]) /\ life'[j] = View(rows'[j])
    BY DEF View
  <2>3. \A j \in Jobs : life[j] = life'[j] \/ Lifecycle!Arrow(life[j], life'[j])
    <3> HIDE DEF life
    <3> QED BY <2>1, <2>2, SameArrow DEF Goes
  <2> QED BY <2>3 DEF Lifecycle!Next
<1> QED BY <1>1, <1>2, Invariance, PTL DEF Spec, ImplementsLifecycle, Lifecycle!Spec

(***************************************************************************)
(* Deadlines.  Between get_job and the decision to run, no tick comes in,   *)
(* and no statement brings a deadline nearer.                              *)
(***************************************************************************)
Timely(a, b) == a.state # "absent" /\ a.deadline_at # 0 => b.state # "absent" /\ b.deadline_at # 0

TimedPCs == {"mark", "target"}

OnTime == \A t \in Tasks : tasks[t].pc \in TimedPCs =>
             /\ rows[tasks[t].cur].state # "absent" /\ rows[tasks[t].cur].deadline_at # 0

LEMMA RowsTimely ==
    ASSUME IInv, [Next]_vars
    PROVE  Tick \/ \A j \in Jobs : Timely(rows[j], rows'[j])
<1> USE DEF ServiceUnchanged
<1> DEFINE AllTimely == \A j \in Jobs : Timely(rows[j], rows'[j])
<1>0. /\ rows \in [Jobs -> Row]
      /\ \A j \in Jobs : RowOK(rows[j]) /\ rows[j] \in Row
  BY DEF IInv, TypeOK, RowsOK
<1>q. \A a, b : Quiet(a, b) \/ Moves(a, b) \/ SameDeadline(a, b) \/ a = b => Timely(a, b)
  BY DEF Quiet, Moves, SameDeadline, HasRow, Timely
<1>o. ASSUME NEW j \in Jobs, NEW r, rows' = [rows EXCEPT ![j] = r], Timely(rows[j], r)
      PROVE  AllTimely
  <2>1. \A k \in Jobs : rows'[k] = IF k = j THEN r ELSE rows[k]
    BY <1>0, <1>o
  <2> QED BY <1>o, <1>q, <2>1
<1>1. ASSUME NEW j \in Jobs, Submit(j) \/ CancelJob(j) \/ RequeueJob(j) PROVE AllTimely
  <2>1. PICK r : /\ rows' = [rows EXCEPT ![j] = r]
                 /\ r = Cancel(rows[j]) \/ r = Requeue(rows[j]) \/ rows[j].state = "absent"
    BY <1>1 DEF Submit, CancelJob, RequeueJob
  <2>2. Timely(rows[j], r)
    BY <1>0, <1>q, <2>1, CancelQuiet, RequeueQuiet DEF Timely
  <2> QED BY <1>o, <2>1, <2>2
<1>2. CASE Cleanup
  <2>1. \A j \in Jobs : rows'[j] = NoRow("deleted") \/ rows'[j] = rows[j]
    BY <1>2 DEF Cleanup
  <2>2. NoRow("deleted").state = "deleted" /\ NoRow("deleted").deadline_at # 0
    BY NoRowFields, NoRowFacts, NullAssumption
  <2> HIDE DEF NoRow
  <2> QED BY <1>q, <2>1, <2>2 DEF Timely
<1>3. CASE Maintain
  <2>1. \A j \in Jobs : rows'[j] = Maintenance(rows[j])
    BY <1>3 DEF Maintain
  <2> QED BY <1>0, <1>q, <2>1, MaintenanceQuiet
<1>4. CASE ReleaseLeases
  <2>1. \A j \in Jobs : rows'[j] = IF rows[j].lease_owner \in mine
                   THEN ReleaseSql(rows[j], rows[j].lease_owner, rows[j].resolved_model)
                   ELSE rows[j]
    BY <1>4 DEF ReleaseLeases
  <2>2. \A j \in Jobs : rows[j].resolved_model \in Models
    BY <1>0 DEF Row
  <2> QED BY <1>0, <1>q, <2>1, <2>2, ReleaseQuiet
<1>5. CASE Claim
  <2>1. PICK m \in Models, t \in Tasks, o \in Owners, j \in Jobs : ClaimNext(m, t, o, j)
    BY <1>5 DEF Claim
  <2>2. /\ Claimable(rows[j], TRUE) /\ rows' = [rows EXCEPT ![j] = ClaimSql(rows[j], o, TRUE)]
    BY <2>1 DEF ClaimNext, ClaimableFor
  <2> QED BY <1>0, <1>o, <1>q, <2>2, ClaimGoes
<1>6. CASE Companies
  <2>1. PICK t \in Tasks : ClaimCompatible(t)
    BY <1>6 DEF Companies
  <2>2. PICK S \in SUBSET Jobs :
          /\ \A k \in S : Claimable(rows[k], TRUE)
          /\ rows' = [k \in Jobs |-> IF k \in S THEN ClaimSql(rows[k], tasks[t].owner, TRUE) ELSE rows[k]]
    BY <2>1 DEF ClaimCompatible, Companions, ClaimableFor
  <2>3. tasks[t].owner \in Owners
    BY <2>1 DEF ClaimCompatible, IInv, TasksOK, TaskOK
  <2> QED BY <1>0, <1>q, <2>2, <2>3, ClaimGoes
<1>7. ASSUME UNCHANGED rows PROVE AllTimely
  BY <1>7, <1>q
<1>8. ASSUME NEW t \in Tasks, Prologue(t) \/ Inference(t) \/ Settlement(t) \/ Heartbeat(t)
      PROVE  AllTimely
  <2>1. ASSUME NothingRunnable(t) \/ AllSettled(t) PROVE AllTimely
    <3>1. UNCHANGED rows
      BY <2>1 DEF NothingRunnable, AllSettled
    <3> QED BY <1>7, <3>1
  <2>2. ASSUME RowsMove PROVE AllTimely
    BY <1>q, <2>2 DEF RowsMove
  <2>3. NothingRunnable(t) \/ AllSettled(t) \/ RowsMove
    BY <1>8, TaskStepsSteady, HeartbeatSteady DEF Prologue, Settlement
  <2> QED BY <2>1, <2>2, <2>3
<1>9. ASSUME Fault \/ Shutdown \/ StopLoop \/ Crash \/ StopSeen \/ UNCHANGED vars
             \/ \E m \in Models : LeaveModel(m)
      PROVE  AllTimely
  <2>1. UNCHANGED rows
    BY <1>9 DEF Fault, ClaimRaises, TaskRaises, DispatcherDies, Shutdown, StopLoop, Crash, NewProcess, StopSeen,
                vars, LeaveModel
  <2> QED BY <1>7, <2>1
<1> QED BY <1>1, <1>2, <1>3, <1>4, <1>5, <1>6, <1>8, <1>9 DEF Next, Request, Dispatch, Companies

\* How a task comes to these places, and how a job joins the group to be run.
Placed(T, U) == /\ U.pc \in TimedPCs => T.pc \in TimedPCs /\ U.cur = T.cur
                /\ \A j \in U.runnable \ T.runnable : T.pc = "target" /\ j = T.cur

LEMMA TaskPlaces ==
    ASSUME IInv, [Next]_vars, NEW s \in Tasks
    PROVE  Placed(tasks[s], tasks'[s]) \/ \E j \in Jobs : Inspect(s, j)
<1>0. tasks \in [Tasks -> Task] /\ \A t \in Tasks : TaskOK(tasks[t])
  BY DEF IInv, TypeOK, TasksOK
<1> DEFINE Good == Placed(tasks[s], tasks'[s])
<1>u. ASSUME tasks'[s] = tasks[s] PROVE Good
  BY <1>u DEF Placed
<1>f. ASSUME tasks'[s].pc \notin TimedPCs, tasks'[s].runnable \subseteq tasks[s].runnable PROVE Good
  BY <1>f DEF Placed
<1>o. ASSUME NEW t \in Tasks, NEW r, tasks' = [tasks EXCEPT ![t] = r],
             r.pc \notin TimedPCs, r.runnable \subseteq tasks[t].runnable
      PROVE  Good
  <2>1. tasks'[s] = IF s = t THEN r ELSE tasks[s]
    BY <1>0, <1>o
  <2> QED BY <1>u, <1>f, <1>o, <2>1
<1>1. CASE Request \/ Tick \/ Maintain \/ ReleaseLeases \/ Shutdown \/ StopSeen
           \/ DispatcherDies \/ UNCHANGED vars
           \/ (\E m \in Models : LeaveModel(m)) \/ (\E t \in Tasks : Heartbeat(t))
  BY <1>1, <1>u DEF Request, Submit, CancelJob, RequeueJob, Cleanup, ServiceUnchanged, Tick, Maintain,
                    ReleaseLeases, Shutdown, StopSeen, DispatcherDies, vars, LeaveModel, Heartbeat
<1>2. CASE Claim
  <2>1. PICK m \in Models, t \in Tasks, o \in Owners, j \in Jobs : ClaimNext(m, t, o, j)
    BY <1>2 DEF Claim
  <2> DEFINE r == [FreeTask EXCEPT !.pc = "claimed", !.owner = o, !.model = m, !.jobs = {j}]
  <2>2. r.pc \notin TimedPCs /\ r.runnable = {}
    BY DEF FreeTask, TimedPCs
  <2>3. tasks' = [tasks EXCEPT ![t] = r]
    BY <2>1 DEF ClaimNext
  <2> HIDE DEF r
  <2> QED BY <1>o, <2>2, <2>3
<1>3. CASE Companies
  <2>1. PICK t \in Tasks : ClaimCompatible(t)
    BY <1>3 DEF Companies
  <2>2. PICK J \in SUBSET Jobs : tasks' = [tasks EXCEPT ![t] = [tasks[t] EXCEPT !.pc = "start", !.jobs = @ \cup J]]
    BY <2>1 DEF ClaimCompatible, Companions
  <2> DEFINE r == [tasks[t] EXCEPT !.pc = "start", !.jobs = @ \cup J]
  <2>3. r.pc \notin TimedPCs /\ r.runnable = tasks[t].runnable
    BY <1>0 DEF Task, TimedPCs
  <2> HIDE DEF r
  <2> QED BY <1>o, <2>2, <2>3 DEF r
<1>4. ASSUME Raises \/ NewProcess \/ \E t \in Tasks : Ends(t) PROVE Good
  <2>1. tasks'[s] = tasks[s] \/ tasks'[s] = FreeTask
    BY <1>0, <1>4 DEF Raises, ClaimRaises, NewProcess, Ends, Finally, TaskStep
  <2>2. FreeTask.pc \notin TimedPCs /\ FreeTask.runnable = {}
    BY DEF FreeTask, TimedPCs
  <2> QED BY <1>u, <1>f, <2>1, <2>2
<1>5. ASSUME NEW t \in Tasks,
             \/ BeginExecute(t) \/ FinishEarly(t) \/ FailExpired(t) \/ StartInference(t)
             \/ Inference(t) \/ SettleCancelled(t) \/ Commit(t)
             \/ \E j \in Jobs : SkipLost(t, j) \/ SettleFailed(t, j) \/ CheckCancel(t, j)
      PROVE  Good
  <2> DEFINE T == tasks[t]
             Leaves(r) == TaskStep(t, r) /\ r.pc \notin TimedPCs /\ r.runnable = T.runnable
  <2>0. T \in Task
    BY <1>0
  <2>1. ASSUME NEW r, Leaves(r) PROVE Good
    BY <1>o, <2>1 DEF TaskStep
  <2>2. CASE BeginExecute(t)
    <3>1. Leaves([T EXCEPT !.pc = "next", !.todo = T.jobs])
      BY <2>0, <2>2 DEF BeginExecute, Task, TimedPCs
    <3> HIDE DEF Leaves
    <3> QED BY <2>1, <3>1
  <2>3. CASE FinishEarly(t) \/ FailExpired(t)
    <3>1. Leaves([T EXCEPT !.pc = "next", !.cur = Null])
      BY <2>0, <2>3 DEF FinishEarly, FailExpired, Task, TimedPCs
    <3> HIDE DEF Leaves
    <3> QED BY <2>1, <3>1
  <2>4. CASE StartInference(t)
    <3>1. Leaves([T EXCEPT !.pc = "infer"])
      BY <2>0, <2>4 DEF StartInference, Task, TimedPCs
    <3> HIDE DEF Leaves
    <3> QED BY <2>1, <3>1
  <2>5. CASE Inference(t)
    <3>1. PICK out \in Outcomes : InferenceEnds(t, out)
      BY <2>5 DEF Inference
    <3>2. Leaves([T EXCEPT !.pc = "settle", !.outcome = out, !.todo = T.runnable])
      BY <2>0, <3>1 DEF InferenceEnds, Task, TimedPCs
    <3> HIDE DEF Leaves
    <3> QED BY <2>1, <3>2
  <2>6. CASE SettleCancelled(t) \/ Commit(t)
    <3>1. Leaves([T EXCEPT !.pc = "settle", !.cur = Null])
      BY <2>0, <2>6 DEF SettleCancelled, Commit, Task, TimedPCs
    <3> HIDE DEF Leaves
    <3> QED BY <2>1, <3>1
  <2>7. ASSUME NEW j \in Jobs, SkipLost(t, j) \/ SettleFailed(t, j) PROVE Good
    <3>1. TaskStep(t, [T EXCEPT !.todo = @ \ {j}]) /\ T.pc = "settle"
      BY <2>7 DEF SkipLost, SettleFailed, Settling
    <3>2. Leaves([T EXCEPT !.todo = @ \ {j}])
      BY <2>0, <3>1 DEF Task, TimedPCs
    <3> HIDE DEF Leaves
    <3> QED BY <2>1, <3>2
  <2>8. ASSUME NEW j \in Jobs, CheckCancel(t, j) PROVE Good
    <3>1. PICK p \in {"cancel", "commit"} :
            TaskStep(t, [T EXCEPT !.todo = @ \ {j}, !.cur = j, !.pc = p])
      BY <2>8 DEF CheckCancel
    <3>2. Leaves([T EXCEPT !.todo = @ \ {j}, !.cur = j, !.pc = p])
      BY <2>0, <3>1 DEF Task, TimedPCs
    <3> HIDE DEF Leaves
    <3> QED BY <2>1, <3>2
  <2> QED BY <1>5, <2>2, <2>3, <2>4, <2>5, <2>6, <2>7, <2>8
<1>6. ASSUME NEW t \in Tasks, MarkJob(t) PROVE Good
  <2>1. tasks[t].pc \in {"mark", "late"}
    BY <1>6 DEF MarkJob
  <2>2. \/ tasks[t].pc = "mark" /\ TaskStep(t, [tasks[t] EXCEPT !.pc = "target"])
        \/ TaskStep(t, [tasks[t] EXCEPT !.pc = "expired"])
        \/ TaskStep(t, [tasks[t] EXCEPT !.pc = "next", !.cur = Null])
    BY <1>6, <2>1 DEF MarkJob
  <2>3. CASE tasks[t].pc = "mark" /\ TaskStep(t, [tasks[t] EXCEPT !.pc = "target"])
    BY <1>0, <2>3, <1>u DEF TaskStep, Placed, Task, TimedPCs
  <2>4. CASE TaskStep(t, [tasks[t] EXCEPT !.pc = "expired"])
    BY <1>0, <2>4, <1>u DEF TaskStep, Placed, Task, TimedPCs
  <2>5. CASE TaskStep(t, [tasks[t] EXCEPT !.pc = "next", !.cur = Null])
    BY <1>0, <2>5, <1>u DEF TaskStep, Placed, Task, TimedPCs
  <2> QED BY <2>2, <2>3, <2>4, <2>5
<1>7. ASSUME NEW t \in Tasks, Target(t) PROVE Good
  <2> DEFINE j == tasks[t].cur
             T == tasks[t]
             a == [T EXCEPT !.pc = "next", !.cur = Null, !.runnable = @ \cup {j},
                            !.seen[j] = rows[j].attempt_count]
             b == [T EXCEPT !.pc = "next", !.cur = Null]
  <2>1. tasks[t].pc = "target" /\ (TaskStep(t, a) \/ TaskStep(t, b))
    BY <1>7 DEF Target
  <2>2. /\ a.pc = "next" /\ a.runnable = T.runnable \cup {j}
        /\ b.pc = "next" /\ b.runnable = T.runnable
    BY <1>0 DEF Task
  <2> HIDE DEF a, b
  <2> QED BY <1>0, <1>u, <2>1, <2>2 DEF TaskStep, Placed, TimedPCs
<1>8. ASSUME NEW t \in Tasks, NEW j \in Jobs, Inspect(t, j) PROVE Good \/ Inspect(s, j)
  <2>1. \A u \in Tasks \ {t} : tasks'[u] = tasks[u]
    BY <1>0, <1>8 DEF Inspect, TaskStep
  <2> QED BY <1>8, <1>u, <2>1
<1>9. ASSUME NEW t \in Tasks, NothingRunnable(t) \/ AllSettled(t) \/ TaskRaises(t) PROVE Good
  <2>1. Ends(t)
    BY <1>9 DEF NothingRunnable, AllSettled, TaskRaises, SectionPCs, Ends
  <2> QED BY <1>4, <2>1
<1> QED BY <1>1, <1>2, <1>3, <1>4, <1>5, <1>6, <1>7, <1>8, <1>9
        DEF Next, Dispatch, Companies, Prologue, Settlement, Fault, Raises, StopLoop, Crash

LEMMA OnTimeInit == Init => OnTime
BY DEF Init, OnTime, FreeTask, TimedPCs

LEMMA OnTimeStep == IInv /\ OnTime /\ [Next]_vars => OnTime'
<1> SUFFICES ASSUME IInv, OnTime, [Next]_vars, NEW t \in Tasks, tasks'[t].pc \in TimedPCs
             PROVE  rows'[tasks'[t].cur].state # "absent" /\ rows'[tasks'[t].cur].deadline_at # 0
  BY DEF OnTime
<1>0. /\ rows \in [Jobs -> Row] /\ tasks \in [Tasks -> Task]
      /\ \A s \in Tasks : TaskOK(tasks[s])
  BY DEF IInv, TypeOK, TasksOK
<1>1. CASE Tick
  <2>1. tasks'[t].pc \in AwayPCs
    BY <1>1 DEF Tick, LoopFree, ServiceUnchanged
  <2> QED BY <2>1 DEF AwayPCs, TimedPCs
<1>2. CASE \E j \in Jobs : Inspect(t, j)
  <2>1. PICK j \in Jobs : Inspect(t, j)
    BY <1>2
  <2>2. /\ UNCHANGED rows
        /\ tasks'[t].cur = j
        /\ tasks'[t].pc = IF ~HasRow(rows[j]) \/ rows[j].cancel_requested THEN "finish"
                          ELSE IF rows[j].deadline_at = 0 THEN "late" ELSE "mark"
    BY <1>0, <2>1 DEF Inspect, TaskStep, Task
  <2> QED BY <2>2 DEF TimedPCs, HasRow
<1>3. CASE Placed(tasks[t], tasks'[t]) /\ ~Tick
  <2>1. tasks[t].pc \in TimedPCs /\ tasks'[t].cur = tasks[t].cur
    BY <1>3 DEF Placed
  <2>2. tasks[t].cur \in Jobs
    BY <1>0, <2>1 DEF TaskOK, Task, TimedPCs, CurPCs
  <2>3. Timely(rows[tasks[t].cur], rows'[tasks[t].cur])
    BY <1>3, <2>2, RowsTimely
  <2> QED BY <2>1, <2>3 DEF OnTime, Timely
<1> QED BY <1>1, <1>2, <1>3, TaskPlaces

\* No job joins the group to be run after its deadline has passed.
THEOREM NeverRunsLateHolds == Spec => NeverRunsLate
<1>1. Init => OnTime
  BY OnTimeInit
<1>2. IInv /\ OnTime /\ [Next]_vars => OnTime'
  BY OnTimeStep
<1>3. IInv /\ OnTime /\ [Next]_vars =>
        [\A t \in Tasks : \A j \in tasks'[t].runnable \ tasks[t].runnable :
           rows[j].deadline_at # 0]_vars
  <2> SUFFICES ASSUME IInv, OnTime, [Next]_vars, NEW t \in Tasks,
                      NEW j \in tasks'[t].runnable \ tasks[t].runnable
               PROVE  rows[j].deadline_at # 0
    OBVIOUS
  <2>1. CASE \E k \in Jobs : Inspect(t, k)
    <3>1. tasks'[t].runnable = tasks[t].runnable
      BY <2>1 DEF Inspect, TaskStep, IInv, TypeOK, Task
    <3> QED BY <3>1
  <2>2. CASE Placed(tasks[t], tasks'[t])
    <3>1. tasks[t].pc \in TimedPCs /\ j = tasks[t].cur
      BY <2>2 DEF Placed, TimedPCs
    <3> QED BY <3>1 DEF OnTime
  <2> QED BY <2>1, <2>2, TaskPlaces
<1> QED BY <1>1, <1>2, <1>3, Invariance, PTL DEF Spec, NeverRunsLate
=============================================================================
