------------------------------ MODULE Batches ------------------------------
(***************************************************************************)
(* Submission: single jobs, batches staged in chunks and activated in one   *)
(* transaction, idempotency keys, capacity limits, cancellation of a batch  *)
(* and the clean-up of half-submitted batches when the file is opened, by   *)
(* the next process or by a second one beside it.                          *)
(*                                                                         *)
(* Each call of submit_batch is a thread of its own; each backend call it   *)
(* makes is one transaction.  Job and batch ids are fresh UUIDs, numbered   *)
(* here in the order in which they are made.  What workers do with a        *)
(* visible job is cut down to claim, start and end: Executor.tla has the    *)
(* rest.  No job here has a deadline or a retry, and a lease that outlives  *)
(* its process is simply carried on.                                       *)
(***************************************************************************)
EXTENDS QueueRows, Sequences

CONSTANTS Callers,       \* threads that may be inside submit_batch
          Clients, Keys, Payloads,
          Requests,      \* batches callers submit
          Singles,       \* single jobs callers submit
          MaxJobs,       \* bound on job ids
          MaxBatches,    \* bound on batch ids
          MaxQueued,     \* max_queued_jobs
          MaxPerClient,  \* max_active_jobs_per_client
          MaxBatchSize,  \* max_batch_size
          MaxOpens, MaxRequeues, MaxRejects, MaxFaults
                         \* bounds on opens of the file, requeues, bad inputs, failed aborts

Jobs     == 1 .. MaxJobs
BatchIds == 1 .. MaxBatches

\* A job of a request: client_id, idempotency_key and the hash of the rest.
Spec1   == [client : Clients, key : Keys \cup {Null}, payload : Payloads]
\* A batch: its jobs in the chunks they are staged in; list is FALSE for a stream.
BatchOf == [client : Clients, key : Keys \cup {Null}, chunks : Seq(Seq(Spec1)), list : BOOLEAN]

ASSUME RequestsAssumption ==
    /\ Requests \subseteq BatchOf /\ Singles \subseteq Spec1
    /\ \A req \in Requests : \A i \in DOMAIN req.chunks : req.chunks[i] # <<>>
ASSUME BoundsAssumption ==
    /\ MaxJobs \in Nat /\ MaxBatches \in Nat /\ MaxQueued \in Nat /\ MaxPerClient \in Nat
    /\ MaxBatchSize \in Nat /\ MaxOpens \in Nat /\ MaxRequeues \in Nat /\ MaxRejects \in Nat
    /\ MaxFaults \in Nat
ASSUME BatchModelsAssumption == Models # {} /\ Null \notin Keys \cup Clients \cup Payloads

VARIABLES rows,      \* the jobs table, without the columns of info
          info,      \* client, batch and idempotency columns of jobs
          batches,   \* the batches table
          calls,     \* where each caller is in submit_batch
          receipts,  \* what submit_batch has returned so far
          nextJob, nextBatch, opens, requeues, rejects,
          faults     \* failed aborts since the file was last opened

limits == <<opens, requeues, rejects, faults>>
vars   == <<rows, info, batches, calls, receipts, nextJob, nextBatch, limits>>

NoRow(s) == [state |-> s, attempt_count |-> 0, max_attempts |-> 1, lease_owner |-> Null,
             lease_expires_at |-> Null, not_before |-> Null, deadline_at |-> Null,
             cancel_requested |-> FALSE, finished_at |-> FALSE,
             resolved_model |-> CHOOSE m \in Models : TRUE]

NoInfo  == [batch |-> Null, client |-> Null, key |-> Null]
NoBatch == [status |-> "absent", client |-> Null, key |-> Null, hash |-> Null,
            count |-> 0, ids |-> {}]
Idle    == [pc |-> "idle", req |-> Null, batch |-> Null, chunk |-> 1]

Init ==
    /\ rows = [j \in Jobs |-> NoRow("absent")] /\ info = [j \in Jobs |-> NoInfo]
    /\ batches = [b \in BatchIds |-> NoBatch]
    /\ calls = [c \in Callers |-> Idle]
    /\ receipts = {} /\ nextJob = 1 /\ nextBatch = 1
    /\ opens = 0 /\ requeues = 0 /\ rejects = 0 /\ faults = 0

(***************************************************************************)
(* Lookups and limits.                                                     *)
(***************************************************************************)
\* The places of the jobs in the first n chunks.
Places(req, n) == UNION {{i} \X DOMAIN req.chunks[i] : i \in 1 .. n}
Size(req)      == Cardinality(Places(req, Len(req.chunks)))

\* The first of the ids made for a batch.
First(b) == CHOOSE j \in batches[b].ids : \A k \in batches[b].ids : j <= k

\* The digest covers the payloads alone, and is another one for a stream than
\* for a list.
Digest(req) == <<[i \in DOMAIN req.chunks |-> [k \in DOMAIN req.chunks[i] |-> req.chunks[i][k].payload]],
                 req.list>>

Members(b)      == {j \in Jobs : info[j].batch = b /\ HasRow(rows[j])}
Incomplete(S)   == Cardinality({j \in S : rows[j].state \in IncompleteStates})
JobsOfClient(c) == {j \in Jobs : info[j].client = c}

\* _existing_job, without the comparison of hashes.
KeyUsed(s) == s.key # Null /\ \E j \in Jobs : /\ HasRow(rows[j])
                                             /\ info[j].client = s.client /\ info[j].key = s.key

\* The other batch, if any, that activate_batch or the early lookup finds.
BatchesWithKey(client, key) ==
    {b \in BatchIds : key # Null /\ batches[b].client = client /\ batches[b].key = key}

\* Mutant of Fits: the new jobs are not counted.
FitsBefore(client, n) ==
    Incomplete(Jobs) <= MaxQueued /\ Incomplete(JobsOfClient(client)) <= MaxPerClient

\* _reserve_capacity.
Fits(client, n) ==
    /\ Incomplete(Jobs) + n <= MaxQueued
    /\ Incomplete(JobsOfClient(client)) + n <= MaxPerClient

\* Mutant of ChunkFits: the size of the batch is not looked at.
ChunkFitsAnySize(b, chunk) == batches[b].status = "staging" /\ Fits(chunk[1].client, Len(chunk))

\* Does a batch with these rows accept the chunk?  One client is charged for all.
ChunkFits(b, chunk) ==
    /\ batches[b].status = "staging"
    /\ batches[b].count + Len(chunk) <= MaxBatchSize
    /\ Fits(chunk[1].client, Len(chunk))
    /\ \A i \in DOMAIN chunk : ~KeyUsed(chunk[i])
    /\ \A i, k \in DOMAIN chunk :
          i # k /\ chunk[i].key # Null => <<chunk[i].client, chunk[i].key>> # <<chunk[k].client, chunk[k].key>>

Rest == UNCHANGED <<nextBatch, limits>>
TableOnly == UNCHANGED <<info, batches, calls, receipts, nextJob>> /\ Rest

(***************************************************************************)
(* submit: one transaction.  A replay, a conflict and a full queue change   *)
(* nothing.                                                                *)
(***************************************************************************)
Submit(s) ==
    /\ nextJob <= MaxJobs
    /\ ~KeyUsed(s) /\ Fits(s.client, 1)
    /\ rows' = [rows EXCEPT ![nextJob] = NoRow("queued")]
    /\ info' = [info EXCEPT ![nextJob] = [batch |-> Null, client |-> s.client, key |-> s.key]]
    /\ nextJob' = nextJob + 1
    /\ UNCHANGED <<batches, calls, receipts>> /\ Rest

(***************************************************************************)
(* submit_batch.                                                           *)
(***************************************************************************)
\* Mutant of Raise: the except block of submit_batch is missing.
RaiseOnly(c)    == calls' = [calls EXCEPT ![c] = Idle]

\* An exception inside the try block: abort_batch comes next.
Raise(c)        == calls' = [calls EXCEPT ![c].pc = "abort"]
Return(c)       == calls' = [calls EXCEPT ![c] = Idle]
Receipt(req, b) == [client |-> req.client, key |-> req.key, hash |-> Digest(req), batch |-> b]

\* A list is measured and its key looked up first: a list that is too large is
\* refused and a known key answers or refuses, before anything is written.
Enter(c, req) ==
    /\ calls[c].pc = "idle"
    /\ req.list => Size(req) <= MaxBatchSize
    /\ LET known == IF req.list THEN BatchesWithKey(req.client, req.key) ELSE {}
           same  == {b \in known : batches[b].hash = Digest(req)}
       IN /\ receipts' = receipts \cup {Receipt(req, b) : b \in same}
          /\ IF known = {} THEN calls' = [calls EXCEPT ![c] = [Idle EXCEPT !.pc = "begin", !.req = req]]
                           ELSE UNCHANGED calls
    /\ UNCHANGED <<rows, info, batches, nextJob>> /\ Rest

\* begin_batch, without its key: the key is written at activation.
Begin(c) ==
    LET req == calls[c].req
        n   == Size(req)
    IN
    /\ calls[c].pc = "begin"
    /\ nextBatch <= MaxBatches /\ nextJob + n - 1 <= MaxJobs
    /\ batches' = [batches EXCEPT ![nextBatch] =
          [NoBatch EXCEPT !.status = "staging", !.client = req.client,
                          !.ids = nextJob .. nextJob + n - 1]]
    /\ calls' = [calls EXCEPT ![c].pc = "stage", ![c].batch = nextBatch]
    /\ nextBatch' = nextBatch + 1 /\ nextJob' = nextJob + n
    /\ UNCHANGED <<rows, info, receipts, limits>>

\* Mutant of LastChunk: the rest after the last full chunk is dropped.
LastChunkDropped(req, i) == i + 1 >= Len(req.chunks)

LastChunk(req, i) == i >= Len(req.chunks)

\* stage_jobs for the next chunk; an error sends the caller to abort_batch.
Stage(c) ==
    LET req == calls[c].req
        b   == calls[c].batch
        i   == calls[c].chunk
    IN
    /\ calls[c].pc = "stage"
    /\ IF i > Len(req.chunks) \/ ~ChunkFits(b, req.chunks[i])
       THEN Raise(c) /\ UNCHANGED <<rows, info, batches>>
       ELSE LET n     == Len(req.chunks[i])
                first == First(b) + batches[b].count
                Spot(j) == req.chunks[i][j - first + 1]
            IN
            /\ rows' = [j \in Jobs |-> IF j \in first .. first + n - 1 THEN NoRow("staged") ELSE rows[j]]
            /\ info' = [j \in Jobs |-> IF j \in first .. first + n - 1
                          THEN [batch |-> b, client |-> Spot(j).client, key |-> Spot(j).key]
                          ELSE info[j]]
            /\ batches' = [batches EXCEPT ![b].count = @ + n]
            /\ calls' = [calls EXCEPT ![c].chunk = i + 1,
                                      ![c].pc = IF LastChunk(req, i) THEN "activate" ELSE "stage"]
    /\ UNCHANGED <<receipts, nextJob>> /\ Rest

\* A later job of the input is not valid, or the input is too large.
InputFails(c) ==
    /\ calls[c].pc = "stage" /\ rejects < MaxRejects
    /\ Raise(c)
    /\ rejects' = rejects + 1
    /\ UNCHANGED <<rows, info, batches, receipts, nextJob, nextBatch, opens, requeues, faults>>

\* DELETE the jobs of some batches and mark these aborted.
DropJobs(B) == rows' = [j \in Jobs |-> IF HasRow(rows[j]) /\ info[j].batch \in B
                                       THEN NoRow("deleted") ELSE rows[j]]

\* Mutant of Drop: the job rows stay.
DropBatchesOnly(B) ==
    /\ UNCHANGED rows
    /\ batches' = [b \in BatchIds |-> IF b \in B
          THEN [batches[b] EXCEPT !.status = "aborted", !.count = 0, !.key = Null, !.hash = Null]
          ELSE batches[b]]

Drop(B) ==
    /\ DropJobs(B)
    /\ batches' = [b \in BatchIds |-> IF b \in B
          THEN [batches[b] EXCEPT !.status = "aborted", !.count = 0, !.key = Null, !.hash = Null]
          ELSE batches[b]]

\* Mutant of Rival: only the key is compared with what activation finds.
RivalIgnoresHash(req, b) == BatchesWithKey(req.client, req.key) \ {b}

\* The batch that already has the key and the payload.
Rival(req, b) == {x \in BatchesWithKey(req.client, req.key) \ {b} : batches[x].hash = Digest(req)}

\* activate_batch: the key decides between a replay (this copy is dropped), a
\* conflict (an error), and activation of the batch with all its staged jobs.
\* Only the caller that made b gets here, so b is staging, or aborted by an open:
\* the answer for a batch that is active already is left out.
Activate(c) ==
    LET req == calls[c].req
        b   == calls[c].batch
        others == BatchesWithKey(req.client, req.key) \ {b}
    IN
    /\ calls[c].pc = "activate"
    /\ \/ /\ Rival(req, b) # {}
          /\ Drop({b})
          /\ receipts' = receipts \cup {Receipt(req, x) : x \in Rival(req, b)}
          /\ Return(c)
       \/ /\ Rival(req, b) = {} /\ (others # {} \/ batches[b].status # "staging")
          /\ Raise(c)
          /\ UNCHANGED <<rows, batches, receipts>>
       \/ /\ others = {} /\ batches[b].status = "staging"
          /\ rows' = [j \in Jobs |-> IF info[j].batch = b /\ rows[j].state = "staged"
                                     THEN [rows[j] EXCEPT !.state = "queued"] ELSE rows[j]]
          /\ batches' = [batches EXCEPT ![b] =
                [@ EXCEPT !.status = "active", !.key = req.key, !.count = Cardinality(Members(b)),
                          !.hash = IF req.key = Null THEN Null ELSE Digest(req)]]
          /\ receipts' = receipts \cup {Receipt(req, b)}
          /\ Return(c)
    /\ UNCHANGED <<info, nextJob>> /\ Rest

\* abort_batch after any error, then the error goes to the caller.
Abort(c) ==
    /\ calls[c].pc = "abort"
    /\ Drop({b \in {calls[c].batch} : batches[b].status = "staging"})
    /\ Return(c)
    /\ UNCHANGED <<info, receipts, nextJob>> /\ Rest

\* abort_batch raises: that is logged, and the batch is left behind.
AbortFails(c) ==
    /\ calls[c].pc = "abort" /\ faults < MaxFaults
    /\ Return(c)
    /\ faults' = faults + 1
    /\ UNCHANGED <<rows, info, batches, receipts, nextJob, nextBatch, opens, requeues, rejects>>

(***************************************************************************)
(* What else happens to the rows.                                          *)
(***************************************************************************)
\* batch_id IS NULL OR EXISTS (an active batch).
ActiveClause(j) == info[j].batch \in {Null} \cup {b \in BatchIds : batches[b].status = "active"}

CancelJob(j) ==
    /\ HasRow(rows[j])
    /\ rows' = [rows EXCEPT ![j] = Cancel(@)]
    /\ TableOnly

CancelBatch(b) ==
    /\ batches[b].status # "absent"
    /\ rows' = [j \in Jobs |-> IF j \in Members(b) THEN Cancel(rows[j]) ELSE rows[j]]
    /\ TableOnly

Claim(j, o) ==
    /\ Claimable(rows[j], ActiveClause(j))
    /\ rows' = [rows EXCEPT ![j] = ClaimSql(@, o, ActiveClause(j))]
    /\ TableOnly

Start(j) ==
    /\ rows[j].state = "leased"
    /\ rows' = [rows EXCEPT ![j] = MarkRunning(@, rows[j].lease_owner)]
    /\ TableOnly

End(j) ==
    /\ rows[j].state = "running"
    /\ LET o == rows[j].lease_owner IN
       \/ rows' = [rows EXCEPT ![j] = Complete(@, o)]
       \/ rows' = [rows EXCEPT ![j] = Fail(@, o, FALSE)]
       \/ rows[j].cancel_requested /\ rows' = [rows EXCEPT ![j] = FinishCancel(@, o)]
    /\ TableOnly

RequeueJob(j) ==
    /\ Requeueable(rows[j]) /\ requeues < MaxRequeues
    /\ rows' = [rows EXCEPT ![j] = Requeue(@)]
    /\ requeues' = requeues + 1
    /\ UNCHANGED <<info, batches, calls, receipts, nextJob, nextBatch, opens, rejects, faults>>

Cleanup ==
    /\ \E S \in SUBSET {j \in Jobs : Expungeable(rows[j])} :
          /\ S # {}
          /\ rows' = [j \in Jobs |-> IF j \in S THEN NoRow("deleted") ELSE rows[j]]
    /\ TableOnly

\* Mutant of Orphans: opening the file leaves staging batches alone.
NoOrphans == {}

Orphans == {b \in BatchIds : batches[b].status = "staging"}

\* __init__ runs _abort_orphan_staging.
Open ==
    /\ opens < MaxOpens
    /\ Drop(Orphans)
    /\ opens' = opens + 1 /\ faults' = 0
    /\ UNCHANGED <<info, receipts, nextJob, nextBatch, requeues, rejects>>

\* The process dies and the next one opens the file.
CrashAndOpen == Open /\ calls' = [c \in Callers |-> Idle]

\* Another process opens the file beside this one, which goes on.
OpenBeside == Open /\ UNCHANGED calls

Next == \/ \E s \in Singles : Submit(s)
        \/ \E c \in Callers : \/ Begin(c) \/ Stage(c) \/ InputFails(c)
                              \/ Activate(c) \/ Abort(c) \/ AbortFails(c)
                              \/ \E req \in Requests : Enter(c, req)
        \/ \E j \in Jobs : \/ CancelJob(j) \/ Start(j) \/ End(j) \/ RequeueJob(j)
                           \/ \E o \in Owners : Claim(j, o)
        \/ \E b \in BatchIds : CancelBatch(b)
        \/ Cleanup \/ CrashAndOpen \/ OpenBeside

Spec == Init /\ [][Next]_vars

(***************************************************************************)
(* Properties.                                                             *)
(***************************************************************************)
Call == [pc : {"idle", "begin", "stage", "activate", "abort"}, req : Requests \cup {Null},
         batch : BatchIds \cup {Null}, chunk : Nat]

\* Every variable has its type.
TypeOK ==
    /\ rows \in [Jobs -> Row]
    /\ \A j \in Jobs : info[j].batch \in BatchIds \cup {Null}
    /\ \A b \in BatchIds : /\ batches[b].status \in BatchStatuses
                           /\ batches[b].count \in 0 .. MaxBatchSize
                           /\ batches[b].ids \subseteq Jobs
    /\ calls \in [Callers -> Call]
    /\ nextJob \in 1 .. MaxJobs + 1 /\ nextBatch \in 1 .. MaxBatches + 1

\* Atomic visibility: nothing but staged and cancelled jobs exists before the
\* batch is active, and no job stays staged once it is: no worker sees part
\* of a batch.
BatchVisibility ==
    \A j \in Jobs : HasRow(rows[j]) /\ info[j].batch # Null =>
        /\ batches[info[j].batch].status \in {"staging", "active"}
        /\ batches[info[j].batch].status = "staging" => rows[j].state \in {"staged", "cancelled"}
        /\ rows[j].state = "staged" => batches[info[j].batch].status = "staging"

\* A batch is submitted whole or not at all, whatever its chunks, rejected
\* inputs, replays, crashes and other openers of the file did in between.
AllOrNothing ==
    \A b \in BatchIds : \A j \in batches[b].ids :
        /\ batches[b].status = "active"  => rows[j].state # "absent"
        /\ batches[b].status = "aborted" => ~HasRow(rows[j])

\* Every caller that used one key was told the same batch and sent the same
\* payload, and that batch is active.
ReceiptsAgree ==
    /\ \A r \in receipts : batches[r.batch].status = "active"
    /\ \A r, s \in receipts : r.key # Null /\ r.key = s.key /\ r.client = s.client
                              => r.batch = s.batch /\ r.hash = s.hash

\* A half-submitted batch, and the capacity it takes, stays behind only when its
\* abort failed, and then only until the file is opened again.
StagingHasCaller ==
    Cardinality({b \in BatchIds : batches[b].status = "staging"
                                  /\ \A c \in Callers : calls[c].batch # b}) <= faults

\* Submission never takes the queue past max_queued_jobs: only a manual
\* requeue, which reserves nothing, can.
QueueCapacity == Incomplete(Jobs) <= MaxQueued + requeues

\* docs/configuration.md:29: max_active_jobs_per_client rejects extra work.
ClientCapacity == \A c \in Clients : Incomplete(JobsOfClient(c)) <= MaxPerClient
=============================================================================
