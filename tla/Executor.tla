------------------------------ MODULE Executor ------------------------------
(***************************************************************************)
(* The execution side of keziah/service.py over the SQLite queue: the       *)
(* dispatcher, the asyncio tasks that run jobs, their heartbeats, the       *)
(* callers' requests, shutdown, crash and restart.                          *)
(*                                                                         *)
(* Every backend call is one transaction, hence one step.  The dispatcher,  *)
(* the tasks and the heartbeats share one event loop: a section of code     *)
(* between two awaits is a run of steps no other task and no clock tick     *)
(* enters, but requests come from other threads and interleave anywhere.    *)
(***************************************************************************)
EXTENDS QueueRows

CONSTANTS Jobs,
          Tasks,            \* identities for asyncio tasks
          Cap,              \* max_concurrency of each model
          NativeBatch,      \* max_native_batch_size of each model (1: no native batch)
          SameQuestions,    \* set of pairs of jobs with equal questions_hash
          GroupJobs,        \* jobs whose requested model is a group
          MaxAttemptsSet,   \* values callers give max_attempts
          Deadlines,        \* values callers give deadline_at
          Delays,           \* backoff delays, in ticks
          StoreFaults,      \* may a backend call raise (database locked)?
          MaxRestarts,      \* bound on process crashes and shutdowns
          MaxRequeues       \* bound on manual requeues

ASSUME CapAssumption ==
    /\ Cap \in [Models -> Nat \ {0}]
    /\ NativeBatch \in [Models -> Nat \ {0}]
ASSUME InputAssumption ==
    /\ MaxAttemptsSet \subseteq Nat \ {0}
    /\ Deadlines \subseteq Instant
    /\ Delays \subseteq Nat
    /\ StoreFaults \in BOOLEAN
    /\ MaxRestarts \in Nat /\ MaxRequeues \in Nat
ASSUME ModelsAssumption ==
    /\ Models # {} /\ Null \notin Models
    /\ IsFiniteSet(Jobs) /\ Null \notin Jobs

VARIABLES rows,      \* the jobs table
          tasks,     \* the tasks of _tasks, and where each is
          active,    \* _active: reserved slots per model
          lost,      \* _lost: (job, owner) pairs a heartbeat found gone
          left,      \* models this dispatch iteration still has to visit
          dispatching,  \* is _dispatch_loop still running?
          stop,      \* _stop
          released,  \* has shutdown() called release_leases?
          mine,      \* lease tokens minted by this process
          restarts, requeues

vars == <<rows, tasks, active, lost, left, dispatching, stop, released, mine, restarts, requeues>>

\* Where a task is in _execute.  A task in "free", "start" or "infer" does not
\* hold the event loop.
AwayPCs    == {"free", "start", "infer"}
SectionPCs == {"claimed", "next", "finish", "mark", "late", "expired", "target",
               "settle", "cancel", "commit"}
Outcomes   == {"none", "ok", "retryable", "permanent"}

Task == [pc       : AwayPCs \cup SectionPCs,
         owner    : Owners \cup {Null},
         model    : Models \cup {Null},
         jobs     : SUBSET Jobs,         \* the claimed group
         todo     : SUBSET Jobs,         \* still to visit in the current loop
         cur      : Jobs \cup {Null},    \* the job being visited
         runnable : SUBSET Jobs,
         seen     : [Jobs -> Nat],       \* attempt_count in the task's copy of a job
         outcome  : Outcomes]

FreeTask == [pc |-> "free", owner |-> Null, model |-> Null, jobs |-> {}, todo |-> {},
             cur |-> Null, runnable |-> {}, seen |-> [j \in Jobs |-> 0], outcome |-> "none"]

NoRow(s) == [state |-> s, attempt_count |-> 0, max_attempts |-> 1, lease_owner |-> Null,
             lease_expires_at |-> Null, not_before |-> Null, deadline_at |-> Null,
             cancel_requested |-> FALSE, finished_at |-> FALSE,
             resolved_model |-> CHOOSE m \in Models : TRUE]

QueuedRow(n, d, m) == [NoRow("queued") EXCEPT !.max_attempts = n, !.deadline_at = d,
                                              !.resolved_model = m]

LoopFree == left = {} /\ \A t \in Tasks : tasks[t].pc \in AwayPCs

\* A fresh uuid token: one nobody holds or remembers.
InUse(o) == \/ \E j \in Jobs : rows[j].lease_owner = o
            \/ \E t \in Tasks : tasks[t].owner = o
            \/ \E j \in Jobs : <<j, o>> \in lost

Init ==
    /\ rows = [j \in Jobs |-> NoRow("absent")]
    /\ tasks = [t \in Tasks |-> FreeTask]
    /\ active = [m \in Models |-> 0]
    /\ lost = {} /\ left = {} /\ mine = {}
    /\ dispatching = TRUE /\ stop = FALSE /\ released = FALSE
    /\ restarts = 0 /\ requeues = 0

(***************************************************************************)
(* The callers' threads.                                                   *)
(***************************************************************************)
ServiceUnchanged == UNCHANGED <<tasks, active, lost, left, dispatching, stop, released, mine, restarts>>

Submit(j) ==
    /\ rows[j].state = "absent" /\ ~stop
    /\ \E n \in MaxAttemptsSet, d \in Deadlines, m \in Models :
          rows' = [rows EXCEPT ![j] = QueuedRow(n, d, m)]
    /\ ServiceUnchanged /\ UNCHANGED requeues

CancelJob(j) ==
    /\ HasRow(rows[j])
    /\ rows' = [rows EXCEPT ![j] = Cancel(@)]
    /\ ServiceUnchanged /\ UNCHANGED requeues

RequeueJob(j) ==
    /\ Requeueable(rows[j]) /\ requeues < MaxRequeues
    /\ rows' = [rows EXCEPT ![j] = Requeue(@)]
    /\ requeues' = requeues + 1
    /\ ServiceUnchanged

\* Retention windows differ by outcome and ages are arbitrary: any set of
\* finished rows can be the one that is old enough.
Cleanup ==
    /\ \E S \in SUBSET {j \in Jobs : Expungeable(rows[j])} :
          /\ S # {}
          /\ rows' = [j \in Jobs |-> IF j \in S THEN NoRow("deleted") ELSE rows[j]]
    /\ ServiceUnchanged /\ UNCHANGED requeues

(***************************************************************************)
(* The dispatcher: maintenance, then one visit to each model.              *)
(***************************************************************************)
Maintain ==
    /\ LoopFree /\ dispatching /\ ~stop
    /\ rows' = [j \in Jobs |-> Maintenance(rows[j])]
    /\ left' = Models
    /\ UNCHANGED <<tasks, active, lost, dispatching, stop, released, mine, restarts, requeues>>

ClaimableFor(j, m) == Claimable(rows[j], TRUE) /\ rows[j].resolved_model = m

\* Is the dispatcher between two models, with no group being claimed?
Visiting(m) == m \in left /\ \A t \in Tasks : tasks[t].pc # "claimed"

\* Mutant of HasSlot: one slot too many.
HasSlotTooMany(m) == active[m] <= Cap[m]

\* The test of _try_reserve, and _release.
HasSlot(m)  == active[m] < Cap[m]

\* Mutant of GiveBack: the slot is kept.
KeepSlot(m) == UNCHANGED active

GiveBack(m) == active' = [active EXCEPT ![m] = IF @ = 0 THEN 0 ELSE @ - 1]

\* _try_reserve, then claim_next.
ClaimNext(m, t, o, j) ==
    /\ Visiting(m) /\ tasks[t].pc = "free"
    /\ HasSlot(m)
    /\ ClaimableFor(j, m) /\ ~InUse(o)
    /\ active' = [active EXCEPT ![m] = @ + 1]
    /\ rows' = [rows EXCEPT ![j] = ClaimSql(@, o, TRUE)]
    /\ tasks' = [tasks EXCEPT ![t] = [FreeTask EXCEPT !.pc = "claimed", !.owner = o,
                                                      !.model = m, !.jobs = {j}]]
    /\ mine' = {x \in mine : InUse(x)} \cup {o}
    /\ UNCHANGED <<lost, left, dispatching, stop, released, restarts, requeues>>

Companions(j, m) == {k \in Jobs \ {j} : ClaimableFor(k, m) /\ <<j, k>> \in SameQuestions}

SmallerOf(a, b) == IF a < b THEN a ELSE b

\* claim_compatible with limit max_native_batch_size - 1, then create_task.
\* The order of created_at is free, so any set of the right size can be first.
ClaimCompatible(t) ==
    /\ tasks[t].pc = "claimed"
    /\ \E j \in tasks[t].jobs :
       LET m == tasks[t].model
           C == Companions(j, m)
       IN \E S \in SUBSET C :
            /\ Cardinality(S) = SmallerOf(Cardinality(C), NativeBatch[m] - 1)
            /\ rows' = [k \in Jobs |-> IF k \in S THEN ClaimSql(rows[k], tasks[t].owner, TRUE)
                                       ELSE rows[k]]
            /\ tasks' = [tasks EXCEPT ![t] = [tasks[t] EXCEPT !.pc = "start", !.jobs = @ \cup S]]
    /\ UNCHANGED <<active, lost, left, dispatching, stop, released, mine, restarts, requeues>>

\* Mutant of LeaveModel: it also gives back a slot when it reserved none.
LeaveModelGivesBack(m) ==
    /\ Visiting(m)
    /\ ~HasSlot(m) \/ \A j \in Jobs : ~ClaimableFor(j, m)
    /\ left' = left \ {m} /\ active' = [active EXCEPT ![m] = @ - 1]
    /\ UNCHANGED <<rows, tasks, lost, dispatching, stop, released, mine, restarts, requeues>>

\* No slot, or no candidate (the reserved slot is given back at once).
LeaveModel(m) ==
    /\ Visiting(m)
    /\ ~HasSlot(m) \/ \A j \in Jobs : ~ClaimableFor(j, m)
    /\ left' = left \ {m}
    /\ UNCHANGED <<rows, tasks, active, lost, dispatching, stop, released, mine, restarts, requeues>>

\* _dispatch_available checks _stop once, before the first model: a shutdown
\* that came during maintenance ends the iteration there.
StopSeen ==
    /\ stop /\ left = Models /\ \A m \in Models : Visiting(m)
    /\ left' = {}
    /\ UNCHANGED <<rows, tasks, active, lost, dispatching, stop, released, mine, restarts, requeues>>

\* A claim raises: the dispatch loop logs it and starts over; the reserved
\* slot is not given back.
ClaimRaises(m) ==
    /\ StoreFaults /\ m \in left
    /\ \/ /\ Visiting(m) /\ HasSlot(m)
          /\ active' = [active EXCEPT ![m] = @ + 1]
          /\ UNCHANGED tasks
       \/ \E t \in Tasks :
             /\ tasks[t].pc = "claimed" /\ tasks[t].model = m
             /\ tasks' = [tasks EXCEPT ![t] = FreeTask]
             /\ UNCHANGED active
    /\ left' = {}
    /\ UNCHANGED <<rows, lost, dispatching, stop, released, mine, restarts, requeues>>

\* next_wake_s raises.  It is called outside the try of the loop, when an
\* iteration has started nothing, as one that failed in maintenance has not.
\* The tasks go on; nothing starts the loop again.
DispatcherDies ==
    /\ StoreFaults /\ LoopFree /\ dispatching /\ ~stop
    /\ dispatching' = FALSE
    /\ UNCHANGED <<rows, tasks, active, lost, left, stop, released, mine, restarts, requeues>>

(***************************************************************************)
(* One asyncio task running _execute.  First loop: look at each claimed     *)
(* job again, mark it running and decide which model it runs on.           *)
(***************************************************************************)
TaskStep(t, r) == tasks' = [tasks EXCEPT ![t] = r]
OnlyRow(j, r)  == rows' = [rows EXCEPT ![j] = r]
ExecUnchanged  == UNCHANGED <<active, lost, left, dispatching, stop, released, mine, restarts, requeues>>

BeginExecute(t) ==
    /\ LoopFree /\ tasks[t].pc = "start"
    /\ TaskStep(t, [tasks[t] EXCEPT !.pc = "next", !.todo = tasks[t].jobs])
    /\ UNCHANGED rows /\ ExecUnchanged

\* Mutant of Inspect: the deadline is not looked at again.
InspectIgnoresDeadline(t, j) ==
    /\ tasks[t].pc = "next" /\ j \in tasks[t].todo
    /\ TaskStep(t, [tasks[t] EXCEPT
            !.cur = j, !.todo = @ \ {j},
            !.pc = IF ~HasRow(rows[j]) \/ rows[j].cancel_requested THEN "finish" ELSE "mark"])
    /\ UNCHANGED rows /\ ExecUnchanged

\* get_job, and the early branches on what it returns.
Inspect(t, j) ==
    /\ tasks[t].pc = "next" /\ j \in tasks[t].todo
    /\ TaskStep(t, [tasks[t] EXCEPT
            !.cur = j, !.todo = @ \ {j},
            !.pc = IF ~HasRow(rows[j]) \/ rows[j].cancel_requested THEN "finish"
                   ELSE IF rows[j].deadline_at = 0 THEN "late" ELSE "mark"])
    /\ UNCHANGED rows /\ ExecUnchanged

\* finish_cancel for a job found cancelled or gone.
FinishEarly(t) ==
    LET T == tasks[t] IN
    /\ T.pc = "finish"
    /\ OnlyRow(T.cur, FinishCancel(rows[T.cur], T.owner))
    /\ TaskStep(t, [T EXCEPT !.pc = "next", !.cur = Null])
    /\ ExecUnchanged

\* mark_running, for a job to run or for one whose deadline has passed.
MarkJob(t) ==
    LET T == tasks[t] IN
    /\ T.pc \in {"mark", "late"}
    /\ OnlyRow(T.cur, MarkRunning(rows[T.cur], T.owner))
    /\ IF CanMarkRunning(rows[T.cur], T.owner)
       THEN TaskStep(t, [T EXCEPT !.pc = IF T.pc = "late" THEN "expired" ELSE "target"])
       ELSE TaskStep(t, [T EXCEPT !.pc = "next", !.cur = Null])
    /\ ExecUnchanged

\* fail(dead_letter=False) for a job past its deadline.
FailExpired(t) ==
    LET T == tasks[t] IN
    /\ T.pc = "expired"
    /\ OnlyRow(T.cur, Fail(rows[T.cur], T.owner, FALSE))
    /\ TaskStep(t, [T EXCEPT !.pc = "next", !.cur = Null])
    /\ ExecUnchanged

\* Where resolve may send a job: a group may name any model, others only their own.
Targets(j, m) == IF j \in GroupJobs THEN Models ELSE {m}

\* Mutant of SettleFailure: one retry too many.
SettleFailureLate(j, o, n, kind) ==
    IF kind = "permanent" \/ n > rows[j].max_attempts \/ rows[j].deadline_at = 0
    THEN OnlyRow(j, Fail(rows[j], o, kind = "retryable"))
    ELSE \E d \in Delays, m \in Targets(j, rows[j].resolved_model) :
            OnlyRow(j, Retry(rows[j], o, d, m))

\* _settle_failure for the copy of j whose attempt_count is n.
SettleFailure(j, o, n, kind) ==
    IF kind = "permanent" \/ n >= rows[j].max_attempts \/ rows[j].deadline_at = 0
    THEN OnlyRow(j, Fail(rows[j], o, kind = "retryable"))
    ELSE \E d \in Delays, m \in Targets(j, rows[j].resolved_model) :
            OnlyRow(j, Retry(rows[j], o, d, m))

\* Re-read the job, then _execution_target: run it here, hand it to another
\* model's slot, or fail it when the model is known to be unavailable.
Target(t) ==
    LET T == tasks[t]
        j == T.cur
    IN
    /\ T.pc = "target"
    /\ \/ /\ TaskStep(t, [T EXCEPT !.pc = "next", !.cur = Null,
                                   !.runnable = @ \cup {j},
                                   !.seen[j] = rows[j].attempt_count])
          /\ UNCHANGED rows
       \/ /\ \E m \in Targets(j, T.model) \ {T.model} :
                OnlyRow(j, ReleaseSql(rows[j], T.owner, m))
          /\ TaskStep(t, [T EXCEPT !.pc = "next", !.cur = Null])
       \/ /\ \E kind \in {"permanent", "retryable"} :
                SettleFailure(j, T.owner, rows[j].attempt_count, kind)
          /\ TaskStep(t, [T EXCEPT !.pc = "next", !.cur = Null])
    /\ ExecUnchanged

\* The finally block: forget lost marks, give the slot back.
Finally(t) ==
    LET T == tasks[t] IN
    /\ lost' = lost \ {<<j, T.owner>> : j \in T.jobs}
    /\ GiveBack(T.model)
    /\ TaskStep(t, FreeTask)
    /\ UNCHANGED <<left, dispatching, stop, released, mine, restarts, requeues>>

NothingRunnable(t) ==
    /\ tasks[t].pc = "next" /\ tasks[t].todo = {} /\ tasks[t].runnable = {}
    /\ Finally(t) /\ UNCHANGED rows

\* Start the heartbeat and await the adapter.
StartInference(t) ==
    /\ tasks[t].pc = "next" /\ tasks[t].todo = {} /\ tasks[t].runnable # {}
    /\ TaskStep(t, [tasks[t] EXCEPT !.pc = "infer"])
    /\ UNCHANGED rows /\ ExecUnchanged

\* Mutant of Heartbeat: it marks every job of the call.
HeartbeatMarksAll(t) ==
    LET T == tasks[t] IN
    /\ LoopFree /\ T.pc = "infer"
    /\ rows' = [j \in Jobs |-> IF j \in T.runnable THEN ExtendLease(rows[j], T.owner)
                               ELSE rows[j]]
    /\ lost' = lost \cup {<<j, T.owner>> : j \in T.runnable}
    /\ UNCHANGED <<tasks, active, left, dispatching, stop, released, mine, restarts, requeues>>

\* One round of _heartbeat over the jobs of the call.
Heartbeat(t) ==
    LET T == tasks[t] IN
    /\ LoopFree /\ T.pc = "infer"
    /\ rows' = [j \in Jobs |-> IF j \in T.runnable THEN ExtendLease(rows[j], T.owner)
                               ELSE rows[j]]
    /\ lost' = lost \cup {<<j, T.owner>> : j \in {k \in T.runnable : ~Holds(rows[k], T.owner)}}
    /\ UNCHANGED <<tasks, active, left, dispatching, stop, released, mine, restarts, requeues>>

\* The call returns, raises, or times out (retryable), for the whole group.
InferenceEnds(t, out) ==
    /\ LoopFree /\ tasks[t].pc = "infer"
    /\ TaskStep(t, [tasks[t] EXCEPT !.pc = "settle", !.outcome = out, !.todo = tasks[t].runnable])
    /\ UNCHANGED rows /\ ExecUnchanged

(***************************************************************************)
(* Second loop: settle each job of the call, skipping those already lost.  *)
(***************************************************************************)
Settling(t, j) == tasks[t].pc = "settle" /\ j \in tasks[t].todo

SkipLost(t, j) ==
    /\ Settling(t, j) /\ <<j, tasks[t].owner>> \in lost
    /\ TaskStep(t, [tasks[t] EXCEPT !.todo = @ \ {j}])
    /\ UNCHANGED rows /\ ExecUnchanged

SettleFailed(t, j) ==
    LET T == tasks[t] IN
    /\ Settling(t, j) /\ <<j, T.owner>> \notin lost /\ T.outcome # "ok"
    /\ SettleFailure(j, T.owner, T.seen[j], T.outcome)
    /\ TaskStep(t, [T EXCEPT !.todo = @ \ {j}])
    /\ ExecUnchanged

\* get_job decides between finish_cancel and complete; the row may change
\* before either runs.
CheckCancel(t, j) ==
    LET T == tasks[t] IN
    /\ Settling(t, j) /\ <<j, T.owner>> \notin lost /\ T.outcome = "ok"
    /\ TaskStep(t, [T EXCEPT !.todo = @ \ {j}, !.cur = j,
            !.pc = IF HasRow(rows[j]) /\ rows[j].cancel_requested THEN "cancel" ELSE "commit"])
    /\ UNCHANGED rows /\ ExecUnchanged

SettleCancelled(t) ==
    LET T == tasks[t] IN
    /\ T.pc = "cancel"
    /\ OnlyRow(T.cur, FinishCancel(rows[T.cur], T.owner))
    /\ TaskStep(t, [T EXCEPT !.pc = "settle", !.cur = Null])
    /\ ExecUnchanged

Commit(t) ==
    LET T == tasks[t] IN
    /\ T.pc = "commit"
    /\ OnlyRow(T.cur, Complete(rows[T.cur], T.owner))
    /\ TaskStep(t, [T EXCEPT !.pc = "settle", !.cur = Null])
    /\ ExecUnchanged

AllSettled(t) ==
    /\ tasks[t].pc = "settle" /\ tasks[t].todo = {}
    /\ Finally(t) /\ UNCHANGED rows

\* Any backend call of the task raises: the exception is logged and the task
\* ends, leaving its jobs to their leases.
TaskRaises(t) ==
    /\ StoreFaults /\ tasks[t].pc \in SectionPCs \ {"claimed"}
    /\ Finally(t) /\ UNCHANGED rows

(***************************************************************************)
(* Shutdown, crash, time.                                                  *)
(***************************************************************************)
\* shutdown(): stop accepting and dispatching.
Shutdown ==
    /\ ~stop /\ restarts < MaxRestarts
    /\ stop' = TRUE
    /\ UNCHANGED <<rows, tasks, active, lost, left, dispatching, released, mine, restarts, requeues>>

\* release_leases(worker_id), after the grace period or once nothing is in flight.
ReleaseLeases ==
    /\ stop /\ ~released
    /\ rows' = [j \in Jobs |-> IF rows[j].lease_owner \in mine
                               THEN ReleaseSql(rows[j], rows[j].lease_owner, rows[j].resolved_model)
                               ELSE rows[j]]
    /\ released' = TRUE
    /\ UNCHANGED <<tasks, active, lost, left, dispatching, stop, mine, restarts, requeues>>

\* Everything in memory is lost; the next process opens the same file.
NewProcess ==
    /\ tasks' = [t \in Tasks |-> FreeTask]
    /\ active' = [m \in Models |-> 0]
    /\ lost' = {} /\ left' = {} /\ mine' = {}
    /\ dispatching' = TRUE /\ stop' = FALSE /\ released' = FALSE
    /\ restarts' = restarts + 1
    /\ UNCHANGED <<rows, requeues>>

\* The end of shutdown() stops the loop between two callbacks.
StopLoop == stop /\ released /\ LoopFree /\ restarts < MaxRestarts /\ NewProcess

Crash == restarts < MaxRestarts /\ NewProcess

\* A section of the event loop is shorter than a tick.
Tick ==
    /\ LoopFree
    /\ rows' = [j \in Jobs |-> Elapse(rows[j])]
    /\ rows' # rows
    /\ ServiceUnchanged /\ UNCHANGED requeues

(***************************************************************************)
(* The specification.                                                      *)
(***************************************************************************)
Request == \/ \E j \in Jobs : Submit(j) \/ CancelJob(j) \/ RequeueJob(j)
           \/ Cleanup

Claim == \E m \in Models, t \in Tasks, o \in Owners, j \in Jobs : ClaimNext(m, t, o, j)

Dispatch == \/ Maintain
            \/ Claim
            \/ \E t \in Tasks : ClaimCompatible(t)
            \/ \E m \in Models : LeaveModel(m)
            \/ StopSeen

Prologue(t) == \/ BeginExecute(t) \/ FinishEarly(t) \/ MarkJob(t) \/ FailExpired(t)
               \/ Target(t) \/ NothingRunnable(t) \/ StartInference(t)
               \/ \E j \in Jobs : Inspect(t, j)

Settlement(t) == \/ SettleCancelled(t) \/ Commit(t) \/ AllSettled(t)
                 \/ \E j \in Jobs : SkipLost(t, j) \/ SettleFailed(t, j) \/ CheckCancel(t, j)

Inference(t) == \E out \in Outcomes \ {"none"} : InferenceEnds(t, out)

Fault == \/ \E m \in Models : ClaimRaises(m)
         \/ \E t \in Tasks : TaskRaises(t)
         \/ DispatcherDies

Next == \/ Request \/ Dispatch
        \/ \E t \in Tasks : Prologue(t) \/ Heartbeat(t) \/ Inference(t) \/ Settlement(t)
        \/ Fault
        \/ Shutdown \/ ReleaseLeases \/ StopLoop \/ Crash
        \/ Tick

Spec == Init /\ [][Next]_vars

\* What the event loop, asyncio.wait_for and the clock give: the dispatcher
\* wakes at least every recovery_interval_s; a section that has begun goes on;
\* a callback that is ready (a task to start, a call that returned or timed
\* out, loop.stop) gets its turn although other sections run in between; time
\* passes.  Maintenance that may raise does not raise for ever.  Nothing is
\* assumed of the callers, of heartbeats or of the other faults.
Fairness == /\ WF_vars(Dispatch)
            /\ \A t \in Tasks : /\ WF_vars(Prologue(t)) /\ WF_vars(Settlement(t))
                                /\ SF_vars(BeginExecute(t)) /\ SF_vars(Inference(t))
            /\ WF_vars(ReleaseLeases) /\ SF_vars(StopLoop)
            /\ SF_vars(Tick)

FairSpec == Spec /\ Fairness

(***************************************************************************)
(* Properties.                                                             *)
(***************************************************************************)
Busy(t)       == tasks[t].pc # "free"
InFlight(m)   == {t \in Tasks : tasks[t].model = m}
Waiting(r)    == r.state \in {"queued", "retry_wait"}

\* Every variable has its type.
TypeOK ==
    /\ rows \in [Jobs -> Row]
    /\ tasks \in [Tasks -> Task]
    /\ active \in [Models -> Nat]
    /\ lost \subseteq Jobs \X Owners
    /\ left \subseteq Models
    /\ mine \subseteq Owners
    /\ dispatching \in BOOLEAN /\ stop \in BOOLEAN /\ released \in BOOLEAN
    /\ restarts \in Nat /\ requeues \in Nat

\* A row carries a lease (owner and expiry) exactly while it is leased or
\* running: whatever path takes a job out of a worker's hands clears both, so
\* no stale token can match a later owner check.
LeaseMatchesState ==
    \A j \in Jobs : LET r == rows[j] IN
        /\ (r.state \in HeldStates) <=> (r.lease_owner # Null)
        /\ (r.state \in HeldStates) <=> (r.lease_expires_at # Null)

\* finished_at is set exactly on terminal rows, requeue included: the
\* retention sweep keys on it.
FinishedMatchesState ==
    \A j \in Jobs : rows[j].finished_at <=> IsTerminal(rows[j])

\* No job is ever charged more attempts than it may have, and a job that is
\* waiting to run again still has one left.  It rests on two checks far apart:
\* _settle_failure's on the worker's old copy, and the expiry sweep's.
AttemptBudget ==
    \A j \in Jobs : LET r == rows[j] IN
        /\ r.attempt_count <= r.max_attempts
        /\ Waiting(r) => r.attempt_count < r.max_attempts
        /\ r.state \in HeldStates => r.attempt_count >= 1

\* A job that is leased but not yet running has no cancel request pending:
\* cancel() ends such a job at once, and a flagged job that returns to the
\* queue is never claimed again.
LeasedNotCancelled ==
    \A j \in Jobs : rows[j].state = "leased" => ~rows[j].cancel_requested

\* A worker that has marked a lease as lost never holds that lease again, so
\* skipping the job at settlement never strands it.
LostStaysLost ==
    \A p \in lost : rows[p[1]].lease_owner # p[2]

\* The lost marks are those of live tasks only; the set does not grow.
LostOnlyWhileRunning ==
    \A p \in lost : \E t \in Tasks : tasks[t].owner = p[2] /\ p[1] \in tasks[t].jobs

\* Never more concurrent executions of a model than its max_concurrency,
\* retargeted jobs, native batches, failures and restarts included.
ConcurrencyCap ==
    \A m \in Models : Cardinality(InFlight(m)) <= Cap[m]

\* Without store errors, every reserved slot belongs to a task.
SlotAccounting ==
    \A m \in Models : active[m] = Cardinality(InFlight(m))

\* Whatever a store error leaks, a model never has fewer slots reserved than
\* tasks on it: nothing gives back a slot it does not own.
SlotsCoverTasks ==
    \A m \in Models : active[m] >= Cardinality(InFlight(m))

\* A job runs on the model whose slot its task holds: a job sent to another
\* model of its group goes back to the queue and through that model's cap.
RunsOnReservedModel ==
    \A t \in Tasks : \A j \in tasks[t].jobs :
        Holds(rows[j], tasks[t].owner) => rows[j].resolved_model = tasks[t].model

\* No job joins the group to be run after its deadline has passed, however long
\* it waited, claimed, for its task to start.
NeverRunsLate ==
    [][\A t \in Tasks : \A j \in tasks'[t].runnable \ tasks[t].runnable :
          rows[j].deadline_at # 0]_vars

\* Two tasks alive at once never hold the same lease token.
OwnersDistinct ==
    \A s, t \in Tasks : s # t /\ Busy(s) => tasks[s].owner # tasks[t].owner

\* A running job becomes succeeded or retry_wait only in a step of the task
\* whose lease is on the row at that moment: a worker that lost the lease never
\* settles the job for the one that has it now.
OnlyOwnerSettles ==
    [][\A j \in Jobs :
          (rows[j].state = "running" /\ rows'[j].state \in {"succeeded", "retry_wait"})
          => \E t \in Tasks : /\ tasks[t].owner = rows[j].lease_owner /\ j \in tasks[t].jobs
                              /\ tasks'[t] # tasks[t]]_vars

\* The executor implements the job lifecycle, attempt accounting included.
Lifecycle == INSTANCE JobLifecycle WITH
    life <- [j \in Jobs |-> [state |-> rows[j].state, attempt_count |-> rows[j].attempt_count,
                             max_attempts |-> rows[j].max_attempts,
                             cancel_requested |-> rows[j].cancel_requested]]
ImplementsLifecycle == Lifecycle!Spec

\* What a store error can leave behind until the next start: no dispatcher, or
\* a slot that no task will give back.
Impaired(m) == ~dispatching \/ active[m] > Cardinality(InFlight(m))

\* Every submitted job ends: it is run, failed, cancelled or buried, whatever
\* crashes, lost leases, retries and store errors it meets, except while a store
\* error has killed the dispatch loop or leaked a slot of the job's model.
EverySubmittedJobEnds ==
    \A j \in Jobs :
        (rows[j].state = "queued") ~> \/ rows[j].state \in TerminalStates \cup {"deleted"}
                                     \/ Impaired(rows[j].resolved_model)

\* docs/queue-semantics.md:15: "running --cancel requested--> cancelled when
\* the attempt ends".
CancelRequestedEndsCancelled ==
    [][\A j \in Jobs :
          (rows[j].state = "running" /\ rows[j].cancel_requested /\ IsTerminal(rows'[j]))
          => rows'[j].state = "cancelled"]_vars
=============================================================================
