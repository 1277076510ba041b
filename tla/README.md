# Keziah, specified

TLA+ modules for Keziah, a job queue and execution broker for inference calls
(`src/src/keziah`, about 7100 lines of Python), the TLC runs that check them on
small instances, and TLAPS proofs for every instance: each safety property and each
refinement that a passing run checks is also a theorem. Paths below are relative to
`src/src/keziah` unless they start with `docs/`.

## The system

| Part | State it keeps | Operations | What is hard |
|---|---|---|---|
| SQLite queue (`queue/sqlite.py`) | tables `jobs`, `batches`, `events` | enqueue, stage, activate, abort, claim, extend, mark running, complete, fail, retry, release, cancel, requeue, maintenance, cleanup, migration | owner checks against late workers, order of the sweeps, crash between two transactions or two statements |
| In-memory queue (`queue/memory.py`) | dicts of jobs, batches, keys; a ready index | the same protocol (`queue/backend.py`) | no rollback, no rebuild of the index, a sweep of another shape |
| Hybrid queue (`queue/hybrid.py`, `queue/ready.py`) | the SQLite tables and a ready index in RAM | every call is a transaction, then an index change | the two are not atomic together |
| Service (`service.py`) | tasks, slots per model, lost marks, events, callbacks | submit, submit_batch, wait, cancel, requeue, shutdown; dispatcher loop; `_execute`, heartbeat | threads of callers beside an event loop, leases that expire during a call, retries, shutdown, crash |
| Registry (`registry.py`) | cached health | resolve a model, an alias, a group | a job changes model between attempts |
| Scheduler (`scheduler.py`) | credits per class, skips per client | choose among candidates | starvation, drift of credits |
| Adapters (`adapters/`) | connections | one call, a native batch | timeouts, classification of errors |
| API, client, CLI (`api/`, `client.py`, `cli/`) | none of their own | requests to the service | - |

Callers' threads call the service, the service calls the backend; one dispatcher
thread runs an asyncio loop in which the dispatcher, the tasks and their
heartbeats take turns. All share the jobs table, and leases decide who may write
a row. `wait()` and callbacks hear of a job's end through `_deliver`. The
database outlives the process; everything else is lost in a crash.

What makes each part correct: a job never gets more attempts than it may have,
and no worker writes over a row it lost; a model never runs more than its
`max_concurrency`; a batch is visible whole or not at all and its key names one
payload; whoever waits for a job hears of its end; a ready job is in the index
or soon will be; no class or client starves; an open file has its whole schema;
every submitted job ends.

`PROJECT.json` lists the components with their status, and under `hazards` the
places where these can go wrong, each with the properties that look at it.

## Modules

| Module | What it models |
|---|---|
| `KeziahTypes` | the state sets of `types.py` |
| `QueueRows` | one row of `jobs`, and each SQL statement as a function from row to row: the WHERE clause is the IF, the SET clause the EXCEPT |
| `JobLifecycle` | the abstract promise: which state of a job may follow which, when an attempt is charged or given back |
| `Executor` | dispatcher, tasks, heartbeats, requests, shutdown, crash, restart over `QueueRows` |
| `Batches` | submit, submit_batch, keys, limits, clean-up on open |
| `Waiters` | wait, callbacks, `_deliver` |
| `HybridQueue` | the ready index beside the table |
| `MemoryQueue` | the in-memory backend |
| `Scheduler` | `select` and its commit: credits, boosts, skips, scores over the lanes of the index |
| `SchemaMigration` | the constructor and `_migrate`, statement by statement, by several processes |
| `QueueRowsProofs` | what each SQL statement does to one row: well-formedness, ownership, the arrows of the lifecycle |
| `ExecutorProofs` | the inductive invariant of the executor; what its steps do to slots, models, deadlines, owners and the life of a job |
| `BatchesProofs` | submission: visibility, receipts, capacity, for any callers and requests |
| `WaitersProofs` | callbacks run at most once and see the end |
| `HybridProofs` | the ready index never loses a job that came by a way it is told of |
| `MemoryProofs` | the in-memory backend's index, keys and sweep; it implements the lifecycle |
| `SchedulerProofs`, `MigrationProofs` | the invariants of these two modules, and the bounds on turns |
| `MC*` | values for TLC |

`Executor`, `Batches`, `HybridQueue` and `MemoryQueue` extend `QueueRows`, so one
set of row transitions is checked from four sides. `Executor` and `MemoryQueue`
both instantiate `JobLifecycle` and are shown to implement it.

### Modelling choices

*Time* is kept as the time left: an instant is `Null`, 0 ("now or before") or a
number of ticks, and `Tick` takes one off. The code only compares instants with
now. A section of the event loop between two awaits is shorter than a tick, which
holds with leases of seconds; `now_iso`, which the code reads once per section, is
therefore the current time throughout it. Ages for retention are arbitrary.

*Steps.* A backend call is one transaction and one step. In `Executor` a section
of the loop is a chain of steps during which no other task and no tick comes in,
but callers do. In `Waiters` and `HybridQueue` each access to shared data is a
step. Two accesses are merged where nothing could tell: looking up an event and
setting it (events are never removed), making and clearing an event, and in
`HybridQueue` a claim that succeeds with the removal of its hint (the row is not
ready in between).

*Lease tokens* are fresh UUIDs: a claim takes any token that is in no row, no task
and no lost mark. `mine` is the set of tokens of the current process, which is what
the prefix test of `release_leases` finds.

*Copies.* A task's copy of a job matters only through `attempt_count`
(`_settle_failure`), so `seen` keeps that and nothing else; `max_attempts` and
`deadline_at` never change.

*Choices left open:* which candidate the scheduler takes, which model of a group is
healthy, what a model call returns and how long it takes, when callers call. What
is proved or checked holds for all of them. Jobs of `Executor` are in no batch;
`Batches` has the batch clause of a claim and cuts execution down to claim, start, end. `docs/deployment.md` gives a file one process at a time, and nothing
enforces it: `Batches` lets a second process open the file (and abort what is being
staged) and `SchemaMigration` has several that open it at once; `Executor` has one.

*Scheduler.* Credits are integers in a unit that makes the boost per tick whole,
with the configured proportions; Python's floats add nothing but rounding. Time stops
while a head is `MaxAge` old; the theorems hold for every `MaxAge`. The
history variables `watched`, `waits` and `passes` follow one lane, any one.

*Migrations.* A step of `MIGRATIONS` is a number of statements, each creating one
thing and failing when it is there. `executescript` commits statement by statement.

*Store faults.* With `StoreFaults` any backend call of the dispatcher or a task
may raise: the dispatch iteration is dropped with its reserved slot, a task ends in
its `finally`, and `next_wake_s`, which is outside the `try`, ends the dispatch loop.

## Runs

Sizes are distinct states; all finish well within five minutes on two cores.

| Run | Question | Bounds |
|---|---|---|
| `executor_races` (352k) | leases, attempts, lost marks and slots under two tasks, lease expiry, retries, cancellation, shutdown, one crash; the executor implements `JobLifecycle` | 2 jobs, 2 tasks, 3 tokens, leases of one tick, 2 attempts |
| `executor_groups` (972k) | caps, running on the reserved model, deadlines, requeue, with store faults and native batches of two | 2 jobs, 2 models with one slot, 1 attempt |
| `executor_liveness` (200k) | a submitted job ends, store errors included, unless one of them has killed the dispatch loop or leaked a slot | 1 job with 2 attempts, 2 tasks and slots (a worker without a lease beside its successor), one crash or shutdown |
| `batches` (1.51M) | two callers, one key, a list, a stream, a batch too large and single jobs: whole or not at all, one answer per key, no staging batch without a caller, capacity | two callers, room for two jobs, up to three chunks, one crash or second opener, one failing abort, one requeue |
| `waiters` (340k) | one waiter, two submitters with callbacks on one key, a canceller: the waiter returns, callbacks run at most once and on an ended job | one lost lease, one requeue, one cancel_batch |
| `hybrid` (602k) | the index beside the table: two jobs in one heap, one of them in a batch, with lazy deletion and rebuilds; and one job at every interleaving of transactions and index changes | two jobs of one attempt with one caller, or one job of two attempts with two callers and perhaps a deadline; one detour, claims that try twice |
| `memory_backend` (384k) | any calls in any order on the in-memory backend; sweeps that end a job as SQLite's do; it implements `JobLifecycle` | 2 jobs, 2 models, one key, one batch, one proposal per claim |
| `scheduler_turns` (559k) | credits balance, boosts keep the order of classes, a class and a client with a waiting job get their turn | three clients, two ways of using the classes (the three upper ones; batch beside two clients in bulk), the default weights, two priorities, heads new or 80 s old |
| `migration_races` (20k) | an open file is complete, versions never fall, races alone tear nothing, who keeps trying opens the file | three processes, one of the older version; two steps of two statements; two crashes or locks |
| `cancel_when_attempt_ends` | finding 1 | 1 job, 1 task |
| `client_limit_in_mixed_chunk` | finding 2 | two jobs per client allowed, one chunk with the jobs of two clients and single jobs of the second |
| `two_waiters_one_event` | finding 3 | two waiters |

Why the bounds are enough: rows do not refer to each other, so what jobs do to
each other goes through tasks, slots, groups, chunks, keys and heaps, and two jobs
reach every pair; a zombie worker needs two tasks and a lease shorter than a
call; a stale retry decision needs two attempts; a token used by the zombie, one
by its successor and a fresh one make three. `executor_liveness` has one job, since
with store errors two are too many for the liveness check: another job could only hold
a slot, as this job's own zombie does, and is claimed a bounded number of times.
In the scheduler, a starved lane needs
rivals that always have a job: heads arrive at any moment, at any priority and at
either age. A tick is 80 s, after which the boost of every class is at its cap or
ceiling; ages in between, and bulk beside more than one class, are left to the theorems, which
give the run its `WaitBound` and `PassBound`: no claim is made that they are the least.
`MemoryBackend.cfg` allows one proposal per claim (the code 64), so that two jobs show a
claim that gives up while others remain; dropping one and claiming the next is two
calls then. A migration can be cut
before, inside and after a step, and the second step meets a file of the first
version. Counters that would grow without
bound (restarts, requeues, lost leases, detours, opens, faults, interruptions) are
named CONSTANTS.
Deadlock checking is off except in `migration_races`: when all jobs have ended or been deleted and
the bounds are used up, the system has nothing left to do.

Symmetry is declared only in runs without liveness, over identities that no
configured function tells apart.

Some states differ from what one might expect, and the properties say so:
`SlotsCoverTasks` is one-sided because an exception in a claim leaks its slot;
`EverySubmittedJobEnds` excepts times when a slot is leaked or the dispatch loop is
dead (`Impaired`), which only the next start mends;
`QueueCapacity` leaves room for manual requeues, which reserve none;
`WaitReturns` and `CallbackFires` except jobs ended by `cancel_batch`, which
delivers nothing; `CallbackFires` is about the callback registered last, as one that is
overwritten under the same key never runs; `HintsComeBack` has `reconcile` switched on; `CallbackSeesTheEnd` excepts tasks that lost their lease and
requeued jobs; `HintOrOnItsWay` excepts jobs that were released or ever requeued,
which may have to wait for `reconcile` (`HintsComeBack`); `StagingHasCaller` allows
one staging batch per abort that failed, which keeps its room until the next open;
`OpensUnlessTorn` excepts a file in which a step was cut from its record, which no
later open mends (`docs/review-2026-09-26.md:142` has it as M10).

### Fairness

`Executor!Fairness`: the dispatcher loop wakes at least every
`recovery_interval_s`; a section that has begun goes on; a callback that is ready
(a task to start, a call that returned or ran into `asyncio.wait_for`, `loop.stop`)
gets its turn although other sections run in between, hence strong fairness; time
passes. Maintenance may raise but not for ever; heartbeats, callers and the other
faults are unfair. `Waiters`: a thread inside a
call goes on; nobody has to call and no timeout has to strike. `HybridQueue`: the
dispatcher goes round, callers finish what they began, time passes.
`SchemaMigration`: a constructor goes on, and whoever failed to open the file tries
again, as a supervisor or an operator does; interruptions are unfair and bounded.
`Scheduler` and `Batches` need no fairness: their promises are bounds and invariants.

### Findings

1. `docs/queue-semantics.md:15` says a running job with a cancel request becomes
   cancelled when the attempt ends. Only success re-reads the flag, and a request
   between that read and `complete` is overtaken (`CancelRequestedEndsCancelled`).
2. `docs/configuration.md:29` describes a limit of active jobs per client. A chunk
   of a batch is charged to the client of its first job (`ClientCapacity`).
3. The comment at `service.py:347` says the second read in `wait()` makes sure that
   no completion is missed. With two waiters on one event it can be: one clears
   what the other was to see (`CompletionNotMissed`).

## Proofs

All theorems hold for every value of the constants that satisfies the named ASSUMEs.

### Executor

The row-level lemmas are in `QueueRowsProofs`, shared by the four modules over
`QueueRows`; a lemma that a statement keeps a row well formed or moves it along an
arrow is proved once.

For every set of jobs, tasks, models and tokens (`ExecutorProofs`):

| Theorem | Statement |
|---|---|
| `Invariance` | `Spec => []IInv` |
| `TypeCorrect` | every variable has its type |
| `LeaseMatches` | a row carries a lease exactly while it is leased or running |
| `FinishedMatches` | `finished_at` is set exactly on ended rows |
| `AttemptBudgetHolds` | attempts stay within the budget, and a waiting job has one left |
| `LeasedNotCancelledHolds` | a leased job has no cancel request |
| `LostIsForever` | a lost lease is never held again |
| `LostBounded` | lost marks belong to live tasks |

The argument: `RowOK` (in `QueueRowsProofs`) is what is true of one row alone, and a
lemma per SQL statement shows that it is kept; `MaintenanceOK` composes the sweeps.
It is not inductive for the executor, because `_settle_failure` trusts a copy that
was read before the model call. `IInv` adds `SeenOK` (the copy is exact while its
task holds the lease), which needs `OwnersDistinct` (no two tasks share a token) and
`LostStaysLost` with `LostInRunnable` (a fresh token is on no mark). Each action
then has one step in `NextInv`, by one of three lemmas: the rows change but keep or
drop leases (`RowsTame`), one task changes, or a claim brings in a fresh token.

On `Invariance` rest, in the same module:

| Theorem | Statement |
|---|---|
| `SlotsAreCounted` | a model's slots cover its tasks and stay within its cap; without store errors they are exactly as many |
| `ConcurrencyCapHolds`, `SlotsCoverTasksHolds` | its two halves for runs with store errors |
| `SlotsAreTasks` | `SlotAccounting`, when there are no store errors |
| `RunsOnReservedModelHolds` | a job that a task holds has the model whose slot the task holds |
| `OnlyOwnerSettlesHolds` | only the owner of the lease settles a running job |
| `NeverRunsLateHolds` | no job joins a call after its deadline |
| `ExecutorImplementsLifecycle` | `Spec => Lifecycle!Spec` |

Every step is one of six (`StepKinds`): steady (slots and the tasks' groups stay as
they are), a claim, a claim of companions, an error in a claim, the end of a task, or
a new process. A lemma per SQL statement (`...Quiet`,
`...Moves`) shows that it takes a row along one arrow of the lifecycle, keeps the
model while the lease stays, and settles only for the owner. The sweeps of one
transaction do not compose arrow by arrow: an expired job that is also late goes from
running to failed at once. `Swept` says what a row can be between two sweeps, so that
the last one can be charged to the row as it was before the first. The model of a job
needs `ModelOK`, which ties the rows to the tasks by token. Deadlines need `OnTime`: between
`get_job` and the decision to run no tick comes in, and no statement brings a deadline
nearer.

### Ready index

`HybridProofs` proves `TypeCorrect`, `NoHintWithoutEntry` (every live hint has its
heap entry) and `HintsAreNotLost` (a claimable job that was submitted, or promoted
and returned by the sweeps, is in the index, or some caller or the dispatcher is
about to put it there) from one inductive invariant, `IndexInv`. Why a removal that
comes late cannot hurt: it hits a job that is `Safe`, that is ended, cancelled or
since requeued, and a row is only dropped after a failed claim when it is `Useless`,
that is cannot become claimable while the dispatcher is at it. What every statement
of SQL does to that is one lemma each (`...Tame`), what each transaction does to the
table another (`...Rows`), and what the index does a third (`CallStep`, `TableStep`,
`ChangeStep`, and one per step of the dispatcher). `RowsInv` also says that a job
that has not come yet is known to nobody (`Known`), which is what makes its first
hint arrive.

### Submission

`BatchesProofs`, for any number of callers, requests, chunks, jobs, processes that
open the file and aborts that fail:

| Theorem | Statement |
|---|---|
| `BatchesInvariance` | `Spec => []BInv` |
| `BatchesTypeCorrect` | every variable has its type, and no batch exceeds `max_batch_size` |
| `BatchVisibilityHolds` | no worker sees part of a batch |
| `AllOrNothingHolds` | a batch is submitted whole or not at all |
| `ReceiptsAgreeHolds` | one key of a client names one batch and one payload |
| `StagingHasCallerHolds` | only failed aborts leave a batch in staging without its caller |
| `QueueCapacityHolds` | submission stays within `max_queued_jobs` |

`submit_batch` makes three transactions or more, so three records of a batch drift
apart between them: the caller's place in the call, the batch's row, and the rows of
its jobs. None of the properties is inductive; `BInv` ties the three together. The
ids made for batches are disjoint and below the next one (`IdsOK`); a job has a row
exactly when it is in its batch (`InfoOK`); of a batch in staging the first `count`
jobs are there, of an active one all (`StagedOK`); `count` is what the chunks before
the caller's have sent, so that the last chunk completes the ids (`CallsOK`); only an
active batch has a key, and no other batch of the client has it (`KeysOK`). A second
process may abort what a caller is staging: `CallOK` allows for it, and the caller's
next call fails on the status. `QueueCapacity` needs that a chunk is counted
before it is inserted in the same transaction; `StagingHasCaller` that an abort which
fails is counted in `faults` when the caller gives up its batch.

### Callbacks

`WaitersProofs` has `CallbackOnceHolds` and `CallbackSeesTheEndHolds`, for any number
of jobs, submitters, waiters and cancellers. What keeps a callback from running twice is
where it is: on its way to the table, in the table, in the hands of the thread that popped
it, or called (`OnePlace`), at most one of these. `DeliversTheEnd` says of each place
from which a thread delivers that its job has ended, or that a lease was lost or a
job requeued.

### In-memory backend

`MemoryProofs`, for any jobs, keys, models and tokens and any order of calls:
`ReadyIsIndexedHolds`, `OfferedIsQueuedHolds`, `KeysMatchJobsHolds`,
`SweepsConvergeHolds` and `MemoryImplementsLifecycle`, from the invariant `MInv`.
`ReadyIsIndexed` is about what can be claimed now, and a claim throws away the
entries of what cannot; so a job must never become claimable while it is out of the
index. `MInv` says why: the entries are those of the queued jobs that are not
cancelled (`OfferedIsQueued`, `QueuedIsOffered`), a queued job is due already
(`DueOK`), and members of a batch that is not active are not queued (`MembersWait`).
`TwoSweeps` compares the if-elif chain, run twice, with SQLite's four updates row by
row. The refinement is by a lemma per call (`...Follows`) that its job goes along an
arrow of `JobLifecycle`, which is the specification the executor implements too.

### Scheduler

`SchedulerProofs`, for all weights, boosts, score weights, clients and arrivals:

| Theorem | Statement |
|---|---|
| `CreditIsConserved` | the credits of the classes sum to zero |
| `OrderIsKept` | a boost never lifts a class to the weight of a class above it |
| `ClassTurnBound` | a class with work waits for at most `3 * P / weight` turns, `P` being the most that two classes gain together in one (`PairBound`) |
| `TurnForEveryClassHolds` | `TurnForEveryClass`, when `WaitBound` is as large as that for each class |
| `SkippingCountsHolds` | as often as its class passed a client over, so many skips count for it, when every client uses one class |
| `ClientTurnBound` | a client of one class is passed over at most `D` times and once for each neighbour, when `D + 1` skips outweigh any priority and age |
| `TurnForEveryClientHolds` | `TurnForEveryClient`, when `PassBound` is as large as that |

*Classes.* A waiting class gains its weight in every turn, so it waits long only if
its credit began low or ends high. Credit is bounded because a class gains in a turn
only what leaves it behind the one that is served and then pays for all. A bound on single
credits is not inductive, as two classes that are level lift each other: `Level`
bounds single credits by `3 * P / 2` and sums of two by `2 * P`, from both sides, and
each of these rests on the other. What a class gains is at most its `Ceiling`: weight
and full boost, which for all but the first class end at the larger of its own weight and
three quarters of the least weight above. With the default weights, in halves, the
ceilings are 32, 12, 6 and 3, so `P` is 44, and the four classes wait for at most 8, 16, 33
and 66 turns, with all four in use and heads of any age: the unit can be
as fine as one likes, since the bound does not change when weights and `P` are scaled. The run
checks the same numbers with the three upper classes or with batch and bulk, and two ages.

*Clients.* A lane that is served before the watched one is at most `D` skips behind it
(`ServedIsClose`) and has none afterwards, so each neighbour passes it at most once
beyond `D` skips; `Behind` counts those that have (`PassesBounded`), and
`SkippingCounts` gives the watched client its skips. With the run's
constants (an age of 80 s and one priority step against skips of 25) `D` is 7 and
there is one neighbour, which gives its `PassBound` of 8. The
assumption `OneLaneEach`, that a client uses one class, is needed: skips are kept per
client, and a turn in one class spends what was gained in another. With a client in the second
and the third class, TLC finds `passes` larger than its skips after two turns, and a
client that is passed over more than 20 times while a neighbour of higher priority
keeps its lane filled: then only age helps it. The repository's `README.md:223` promises less
conditionally that a skipped client "gains score so one caller cannot hold the class
forever".

The `CHOOSE` of the chosen class and of the least weight need a least element
(`LeastNat`), which is taken from the well-foundedness of strict inclusion of the
sets of smaller numbers, as the prover has no induction over naturals.

### Migrations

`MigrationProofs`: `OpenFileIsComplete`, `VersionGrows`, `RacesAreHarmless`. The
invariant adds that recorded steps are complete (`Rows`), that only one process is
ever inside a step (`Alone`), and that what it has done is what the file has of that
step, which is not recorded yet (`Processes`, `Begun`).

### What stays with TLC

The liveness properties `EverySubmittedJobEnds`, `WaitReturns`, `CallbackFires`,
`HintsComeBack` and `OpensUnlessTorn`, which need fairness and ENABLED and are out of
the prover's reach, and the three violations.

## Not modelled

Adapters, HTTP, CLI, configuration and metrics, which keep no queue state. In
the modelled parts: the columns no property tells apart (payload, result, error,
timings, events, fallback records), pool threads that outlive a timeout, failing
backend calls of callers, the retry of a locked transaction in `_tx` (a step here is
the attempt that commits), the window of candidates that the scheduler reads from the
table when there is no index, errors of a statement inside a migration other than the
two that races and cuts give, and `close()`.

## Plan

What is left, most important first:

1. *Executor*: health that flaps, fallback records, threads that outlive their call.
2. *Lifecycle of the hybrid queue*: that its transactions implement `JobLifecycle`
   too, from the row lemmas that `ExecutorProofs` and `MemoryProofs` use.
3. *Waiters*: the safety half of `WaitReturns` as an invariant: with one waiter, an
   event that is clear while the waiter blocks means that a delivery is still to come.
4. *Scheduler*: the least bounds on turns, which are below those proved.
5. *Batches*: streams of more chunks in the run.
