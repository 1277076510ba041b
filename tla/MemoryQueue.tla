----------------------------- MODULE MemoryQueue -----------------------------
(***************************************************************************)
(* The in-memory backend, keziah/queue/memory.py.  Each call runs under one *)
(* lock, hence is one step.  A job goes through the same row transitions as *)
(* in SQLite (QueueRows); what differs is kept here: the ready index claims *)
(* are made from, which nothing ever rebuilds, the map of idempotency keys, *)
(* chunks that are not rolled back, and a sweep that takes each job through *)
(* at most one of the steps SQLite's takes it through.                      *)
(*                                                                         *)
(* The callers are free: any worker call with any token, in any order, save *)
(* that the service schedules no retry without attempts left.  There is one *)
(* batch; limits and keys of batches are in Batches.                        *)
(***************************************************************************)
EXTENDS QueueRows, Sequences

CONSTANTS Jobs,
          Keys,           \* idempotency keys of one client
          MaxGroup,       \* largest claim_compatible
          MaxTries,       \* proposals of one claim_next
          MaxAttemptsSet, Deadlines, Delays

ASSUME MemoryAssumption ==
    /\ Models # {} /\ Null \notin Keys \cup Jobs \cup Models
    /\ MaxGroup \in Nat /\ MaxTries \in Nat \ {0} /\ MaxAttemptsSet \subseteq Nat \ {0}
    /\ Deadlines \subseteq Instant /\ Delays \subseteq Nat

VARIABLES jobs,     \* _jobs
          index,    \* _index: the model whose lanes a job is offered in, or Null
          key,      \* the idempotency_key of each job, or Null
          keys,     \* _idemp: the job that has a key, or Null
          members,  \* the jobs created with the batch's id
          batch     \* its status; "raised": staging, and its caller got an exception

vars == <<jobs, index, key, keys, members, batch>>

NoJob(s) == [state |-> s, attempt_count |-> 0, max_attempts |-> 1, lease_owner |-> Null,
             lease_expires_at |-> Null, not_before |-> Null, deadline_at |-> Null,
             cancel_requested |-> FALSE, finished_at |-> FALSE,
             resolved_model |-> CHOOSE m \in Models : TRUE]
\* What _build_job makes of the callers' arguments.
Submitted(s, n, d, m) == [NoJob(s) EXCEPT !.max_attempts = n, !.deadline_at = d, !.resolved_model = m]
Submissions(s) == {Submitted(s, n, d, m) : n \in MaxAttemptsSet, d \in Deadlines, m \in Models}

Init == /\ jobs = [j \in Jobs |-> NoJob("absent")] /\ index = [j \in Jobs |-> Null]
        /\ key = [j \in Jobs |-> Null] /\ keys = [k \in Keys |-> Null]
        /\ members = {} /\ batch = "absent"

(***************************************************************************)
(* The index and the keys.                                                 *)
(***************************************************************************)
\* _batch_is_active and claimable.
Active(j)    == j \notin members \/ batch = "active"
CanClaim(j)  == Claimable(jobs[j], Active(j))
Taken(k)     == k # Null /\ keys[k] # Null

\* _remember_job for the jobs of S, whose keys are given by f.
Remember(S, f) ==
    /\ key'  = [j \in Jobs |-> IF j \in S THEN f[j] ELSE key[j]]
    /\ keys' = [k \in Keys |-> IF \E j \in S : f[j] = k THEN CHOOSE j \in S : f[j] = k ELSE keys[k]]

Indexed(j, r) == [index EXCEPT ![j] = r.resolved_model]

\* Mutant of Unindexed: entries stay.
StillIndexed(S) == index

Unindexed(S) == [j \in Jobs |-> IF j \in S THEN Null ELSE index[j]]

Only(j, r)     == jobs' = [jobs EXCEPT ![j] = r]
SameBatch      == UNCHANGED <<key, keys, members, batch>>

(***************************************************************************)
(* Submission.                                                             *)
(***************************************************************************)
Enqueue(j, k) ==
    /\ jobs[j].state = "absent" /\ ~Taken(k)
    /\ \E r \in Submissions("queued") : Only(j, r) /\ index' = Indexed(j, r)
    /\ Remember({j}, [i \in Jobs |-> k])
    /\ UNCHANGED <<members, batch>>

BeginBatch == /\ batch = "absent" /\ batch' = "staging"
              /\ UNCHANGED <<jobs, index, key, keys, members>>

\* A chunk of one job or two, alike but for the key.  The jobs before the first
\* whose key is taken stay, with their keys, when that one raises.
StageJobs(chunk, f) ==
    LET Clash(i) == \/ Taken(f[chunk[i]])
                    \/ \E h \in 1 .. i - 1 : f[chunk[i]] # Null /\ f[chunk[h]] = f[chunk[i]]
        Done == {chunk[i] : i \in {n \in DOMAIN chunk : \A h \in 1 .. n : ~Clash(h)}}
    IN
    /\ batch = "staging" /\ \A i \in DOMAIN chunk : jobs[chunk[i]].state = "absent"
    /\ \E r \in Submissions("staged") : jobs' = [j \in Jobs |-> IF j \in Done THEN r ELSE jobs[j]]
    /\ Remember(Done, f)
    /\ members' = members \cup Done
    /\ batch' = IF Cardinality(Done) = Len(chunk) THEN batch ELSE "raised"
    /\ UNCHANGED index

Chunks == {<<j>> : j \in Jobs} \cup {c \in Jobs \X Jobs : c[1] # c[2]}

ActivateBatch ==
    LET Staged == {j \in members : jobs[j].state = "staged"} IN
    /\ batch = "staging" /\ members # {}
    /\ batch' = "active"
    /\ jobs' = [j \in Jobs |-> IF j \in Staged THEN [jobs[j] EXCEPT !.state = "queued"] ELSE jobs[j]]
    /\ index' = [j \in Jobs |-> IF j \in Staged THEN jobs[j].resolved_model ELSE index[j]]
    /\ UNCHANGED <<key, keys, members>>

\* Mutant of Forget: the keys stay.
ForgetRowsOnly(S) ==
    /\ jobs' = [j \in Jobs |-> IF j \in S THEN NoJob("deleted") ELSE jobs[j]]
    /\ index' = Unindexed(S) /\ UNCHANGED <<key, keys>>

\* _forget_job, and the loop of _abort_unlocked.
Forget(S) ==
    /\ jobs' = [j \in Jobs |-> IF j \in S THEN NoJob("deleted") ELSE jobs[j]]
    /\ index' = Unindexed(S)
    /\ keys' = [k \in Keys |-> IF keys[k] \in S THEN Null ELSE keys[k]]
    /\ UNCHANGED key

AbortBatch == /\ batch \in {"staging", "raised"} /\ batch' = "aborted"
              /\ Forget({j \in members : HasRow(jobs[j])})
              /\ UNCHANGED members

(***************************************************************************)
(* Claims.                                                                 *)
(***************************************************************************)
Claims(S, o) == jobs' = [j \in Jobs |-> IF j \in S THEN ClaimSql(jobs[j], o, Active(j)) ELSE jobs[j]]

\* The heads the scheduler proposes first and that are not claimable leave the
\* index.  Nothing is claimed when none is left, or when MaxTries were tried.
ClaimNext(m, o) ==
    LET Offered == {j \in Jobs : index[j] = m}
        Idle    == {j \in Offered : ~CanClaim(j)}
    IN
    /\ \E D \in SUBSET Idle :
          \/ \E j \in Offered \ Idle : /\ Cardinality(D) < MaxTries
                                       /\ Claims({j}, o) /\ index' = Unindexed(D \cup {j})
          \/ /\ Cardinality(D) = MaxTries \/ (D = Offered /\ Cardinality(D) < MaxTries)
             /\ index' = Unindexed(D) /\ UNCHANGED jobs
    /\ SameBatch

\* Which jobs ask the same questions, and the room in the group, are free.
ClaimCompatible(m, o) ==
    /\ \E S \in SUBSET {j \in Jobs : jobs[j].resolved_model = m /\ CanClaim(j)} :
          Cardinality(S) <= MaxGroup /\ Claims(S, o) /\ index' = Unindexed(S)
    /\ SameBatch

(***************************************************************************)
(* Calls of the workers.                                                   *)
(***************************************************************************)
WorkerUpdate(j, o) ==
    /\ \/ Only(j, ExtendLease(jobs[j], o)) \/ Only(j, MarkRunning(jobs[j], o))
       \/ Only(j, Complete(jobs[j], o))
    /\ UNCHANGED index /\ SameBatch

WorkerFail(j, o) ==
    /\ OwnedRunning(jobs[j], o)
    /\ \/ \E dead \in BOOLEAN : Only(j, Fail(jobs[j], o, dead))
       \/ /\ jobs[j].attempt_count < jobs[j].max_attempts
          /\ \E d \in Delays, m \in Models : Only(j, Retry(jobs[j], o, d, m))
    /\ index' = Unindexed({j}) /\ SameBatch

WorkerCancel(j, o) == /\ Holds(jobs[j], o) /\ Only(j, FinishCancel(jobs[j], o))
                      /\ index' = Unindexed({j}) /\ SameBatch

\* Mutant of Release: the job goes back to the queue but not into the index.
ReleaseUnindexed(S, m) ==
    /\ jobs' = [j \in Jobs |-> IF j \in S THEN ReleaseSql(jobs[j], jobs[j].lease_owner, m[j]) ELSE jobs[j]]
    /\ UNCHANGED index

\* _release_unlocked for each job of S, with the model it goes to.
Release(S, m) ==
    /\ jobs' = [j \in Jobs |-> IF j \in S THEN ReleaseSql(jobs[j], jobs[j].lease_owner, m[j]) ELSE jobs[j]]
    /\ index' = [j \in Jobs |-> IF j \in S THEN m[j] ELSE index[j]]

ReleaseToQueue(j, o) == /\ Holds(jobs[j], o)
                        /\ \E m \in Models : Release({j}, [k \in Jobs |-> m])
                        /\ SameBatch

\* Every token carries the prefix of the one worker there is.
ReleaseLeases == /\ Release({j \in Jobs : jobs[j].state \in HeldStates},
                            [k \in Jobs |-> jobs[k].resolved_model])
                 /\ SameBatch

(***************************************************************************)
(* Requests and the sweeps.                                                *)
(***************************************************************************)
CancelSet(S) ==
    /\ jobs' = [j \in Jobs |-> IF j \in S THEN Cancel(jobs[j]) ELSE jobs[j]]
    /\ index' = Unindexed({j \in S : jobs[j].state \in IncompleteStates \ {"running"}})
    /\ SameBatch

CancelJob(j) == HasRow(jobs[j]) /\ CancelSet({j})
CancelBatch  == batch # "absent" /\ CancelSet({j \in members : HasRow(jobs[j])})

RequeueJob(j) == /\ Requeueable(jobs[j]) /\ Only(j, Requeue(jobs[j]))
                 /\ index' = Indexed(j, jobs[j]) /\ SameBatch

Cleanup == /\ \E S \in SUBSET {j \in Jobs : Expungeable(jobs[j])} : Forget(S)
           /\ UNCHANGED <<members, batch>>

\* _expire_lease ends or returns the job as SQLite's sweep does.
ExpireLease(r) == ExpireSql(r)

\* Mutant of SweepOne: a pending cancellation comes before a passed deadline.
SweepCancelFirst(r) ==
    IF r.state \in HeldStates /\ r.lease_expires_at = 0 THEN ExpireLease(r)
    ELSE IF r.state = "retry_wait" /\ Due(r.not_before) THEN PromoteDue(r)
    ELSE IF r.cancel_requested /\ r.state \in {"queued", "retry_wait", "staged"} THEN CancelFlagged(r)
    ELSE FailLate(r)

\* One job in one maintenance(): an if-elif chain, where SQLite runs four
\* updates one after the other.
SweepOne(r) ==
    IF r.state \in HeldStates /\ r.lease_expires_at = 0 THEN ExpireLease(r)
    ELSE IF r.state = "retry_wait" /\ Due(r.not_before) THEN PromoteDue(r)
    ELSE IF r.state = "queued" /\ r.deadline_at = 0 THEN FailLate(r)
    ELSE CancelFlagged(r)

Maintain ==
    LET after == [j \in Jobs |-> SweepOne(jobs[j])]
        Back  == {j \in Jobs : jobs[j].state # "queued" /\ after[j].state = "queued"}
        Over == {j \in Jobs : ~IsTerminal(jobs[j]) /\ IsTerminal(after[j])}
    IN
    /\ jobs' = after
    /\ index' = [j \in Jobs |-> IF j \in Back THEN after[j].resolved_model
                                ELSE IF j \in Over THEN Null ELSE index[j]]
    /\ SameBatch

Tick == /\ jobs' = [j \in Jobs |-> Elapse(jobs[j])]
        /\ UNCHANGED index /\ SameBatch

(***************************************************************************)
(* The specification.                                                      *)
(***************************************************************************)
Submission == \/ \E j \in Jobs, k \in Keys \cup {Null} : Enqueue(j, k)
              \/ \E chunk \in Chunks, f \in [Jobs -> Keys \cup {Null}] : StageJobs(chunk, f)
              \/ BeginBatch \/ ActivateBatch \/ AbortBatch
WorkerCall == \E o \in Owners :
                 \/ \E m \in Models : ClaimNext(m, o) \/ ClaimCompatible(m, o)
                 \/ \E j \in Jobs : \/ WorkerUpdate(j, o) \/ WorkerFail(j, o)
                                    \/ WorkerCancel(j, o) \/ ReleaseToQueue(j, o)
Request    == \/ \E j \in Jobs : CancelJob(j) \/ RequeueJob(j)
              \/ CancelBatch \/ Cleanup

Next == Submission \/ WorkerCall \/ Request \/ ReleaseLeases \/ Maintain \/ Tick

Spec == Init /\ [][Next]_vars

(***************************************************************************)
(* Properties.                                                             *)
(***************************************************************************)
\* Every job that may run is offered in the lanes of its model.  Nothing ever
\* rebuilds this index, so a job that is queued without an entry would wait
\* until the process ends: each path back to the queue must add one, and a
\* claim must never drop the entry of a job that becomes claimable later.
ReadyIsIndexed == \A j \in Jobs : CanClaim(j) => index[j] = jobs[j].resolved_model

\* What the index offers is queued, and offered to the model it is to run on.
OfferedIsQueued ==
    \A j \in Jobs : index[j] # Null => jobs[j].state = "queued" /\ index[j] = jobs[j].resolved_model

\* A key is remembered for exactly the job that carries it and is still there,
\* half-staged and swept jobs included: a key left behind would make the next
\* submission with it raise, a key lost would let it run twice.
KeysMatchJobs ==
    /\ \A k \in Keys : keys[k] # Null => HasRow(jobs[keys[k]]) /\ key[keys[k]] = k
    /\ \A j \in Jobs : HasRow(jobs[j]) /\ key[j] # Null => keys[key[j]] = j

\* Two rounds of this sweep do to a job exactly what one round of SQLite's
\* does, so the backends end a job the same way, at most one round apart.
SweepsConverge == \A j \in Jobs : SweepOne(SweepOne(jobs[j])) = Maintenance(jobs[j])

\* This backend implements the job lifecycle, as the SQLite one does.
Lifecycle == INSTANCE JobLifecycle WITH
    life <- [j \in Jobs |-> [state |-> jobs[j].state, attempt_count |-> jobs[j].attempt_count,
                             max_attempts |-> jobs[j].max_attempts,
                             cancel_requested |-> jobs[j].cancel_requested]]
ImplementsLifecycle == Lifecycle!Spec
=============================================================================
