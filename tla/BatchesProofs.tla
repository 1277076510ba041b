--------------------------- MODULE BatchesProofs ---------------------------
(***************************************************************************)
(* Submission, for every number of callers, requests, chunks, jobs, openers *)
(* and failed aborts.                                                      *)
(*                                                                         *)
(* None of the properties is inductive.  What they rest on is the link      *)
(* between three places that never change together: a caller's place in     *)
(* submit_batch, the row of its batch, and the rows of the jobs.  The ids   *)
(* made for batches are disjoint (IdsOK), a job of a batch that has not     *)
(* been staged is absent (InfoOK), the staged ones are the first count of   *)
(* the batch (StagedOK), count is what the caller has sent (CallsOK), and   *)
(* only an active batch has a key (KeysOK).                                *)
(***************************************************************************)
EXTENDS Batches, QueueRowsProofs

Hashes    == {Digest(req) : req \in Requests} \cup {Null}
InfoType  == [batch : BatchIds \cup {Null}, client : Clients \cup {Null}, key : Keys \cup {Null}]
BatchType == [status : BatchStatuses, client : Clients \cup {Null}, key : Keys \cup {Null},
              hash : Hashes, count : Nat, ids : SUBSET Jobs]

TypesOK == /\ rows \in [Jobs -> Row] /\ \A j \in Jobs : RowOK(rows[j])
           /\ info \in [Jobs -> InfoType]
           /\ batches \in [BatchIds -> BatchType]
           /\ \A b \in BatchIds : batches[b].count <= MaxBatchSize
           /\ calls \in [Callers -> Call]
           /\ nextJob \in 1 .. MaxJobs + 1 /\ nextBatch \in 1 .. MaxBatches + 1
           /\ requeues \in Nat /\ faults \in Nat

Status(b) == batches[b].status

IdsOK == /\ \A b \in BatchIds : /\ b >= nextBatch => batches[b] = NoBatch
                                /\ b < nextBatch => Status(b) # "absent"
                                /\ batches[b].ids \subseteq 1 .. nextJob - 1
         /\ \A b, x \in BatchIds : b # x => batches[b].ids \cap batches[x].ids = {}

\* A job has been inserted for its batch, or its id is still unused.
InfoOK == /\ \A j \in Jobs : info[j].batch # Null => j \in batches[info[j].batch].ids
          /\ \A b \in BatchIds : \A j \in batches[b].ids :
                info[j].batch = b <=> rows[j].state # "absent"
          /\ \A j \in Jobs : j >= nextJob => rows[j].state = "absent"

StagedOK == \A b \in BatchIds : \A j \in batches[b].ids :
               /\ Status(b) = "staging" => (info[j].batch = b <=> j < First(b) + batches[b].count)
               /\ Status(b) = "active"  => info[j].batch = b

\* Only an active batch has a key, and no two of a client have the same.
KeysOK == \A b \in BatchIds : batches[b].key # Null =>
             /\ Status(b) = "active"
             /\ \A x \in BatchIds : batches[x].key = batches[b].key
                                    /\ batches[x].client = batches[b].client => x = b

ReceiptOK(r) == /\ r.batch \in BatchIds /\ Status(r.batch) = "active"
                /\ r.key # Null => /\ batches[r.batch].key = r.key
                                   /\ batches[r.batch].client = r.client
                                   /\ batches[r.batch].hash = r.hash

ReceiptsOK == \A r \in receipts : ReceiptOK(r)

\* The ids made for the batch are consecutive, one for each job of the request.
IdsOf(b, n) == \E lo \in 1 .. MaxJobs + 1 : batches[b].ids = lo .. lo + n - 1

CallOK(C) ==
    LET b == C.batch IN
    IF C.pc \in {"idle", "begin"}
    THEN b = Null /\ C.chunk = 1 /\ (C.pc = "begin" => C.req \in Requests)
    ELSE /\ C.req \in Requests /\ b \in BatchIds /\ C.chunk >= 1
         /\ Status(b) \in {"staging", "aborted"} /\ batches[b].client = C.req.client
         /\ IdsOf(b, Size(C.req))
         /\ Status(b) = "staging" /\ C.pc = "stage" =>
               C.chunk <= Len(C.req.chunks) + 1
               /\ batches[b].count = Cardinality(Places(C.req, C.chunk - 1))
         /\ Status(b) = "staging" /\ C.pc = "activate" => batches[b].count = Size(C.req)

CallsOK == /\ \A c \in Callers : CallOK(calls[c])
           /\ \A c, d \in Callers : calls[c].batch # Null /\ calls[c].batch = calls[d].batch => c = d

BInv == /\ TypesOK /\ IdsOK /\ InfoOK /\ StagedOK /\ KeysOK /\ ReceiptsOK /\ CallsOK
        /\ BatchVisibility /\ QueueCapacity /\ StagingHasCaller

USE DEF TerminalStates, IncompleteStates, NoRowStates, JobStates, HeldStates, BatchStatuses

(***************************************************************************)
(* Facts of the constants and of the types.                                *)
(***************************************************************************)
LEMMA JobsFacts ==
    /\ Jobs \subseteq Nat /\ BatchIds \subseteq Nat /\ Null \notin Jobs /\ Null \notin BatchIds
    /\ MaxJobs \in Nat /\ MaxBatches \in Nat
    /\ \A S \in SUBSET Jobs : IsFiniteSet(S) /\ Cardinality(S) \in Nat
    /\ \A S \in SUBSET BatchIds : IsFiniteSet(S) /\ Cardinality(S) \in Nat
<1>1. MaxJobs \in Nat /\ MaxBatches \in Nat
  BY BoundsAssumption
<1>2. IsFiniteSet(Jobs) /\ IsFiniteSet(BatchIds)
  BY <1>1, FS_Interval DEF Jobs, BatchIds
<1>3. \A S \in SUBSET Jobs : IsFiniteSet(S) /\ Cardinality(S) \in Nat
  BY <1>2, FS_Subset, FS_CardinalityType
<1>4. \A S \in SUBSET BatchIds : IsFiniteSet(S) /\ Cardinality(S) \in Nat
  BY <1>2, FS_Subset, FS_CardinalityType
<1> QED BY <1>1, <1>3, <1>4, NullAssumption DEF Jobs, BatchIds

LEMMA NoRowOK ==
    ASSUME NEW s \in {"absent", "deleted", "queued", "staged"}
    PROVE  RowOK(NoRow(s)) /\ NoRow(s) \in Row /\ NoRow(s).state = s
<1> DEFINE m0 == CHOOSE m \in Models : TRUE
<1>1. m0 \in Models
  BY BatchModelsAssumption
<1>2. NoRow(s) = [state |-> s, attempt_count |-> 0, max_attempts |-> 1, lease_owner |-> Null,
                  lease_expires_at |-> Null, not_before |-> Null, deadline_at |-> Null,
                  cancel_requested |-> FALSE, finished_at |-> FALSE, resolved_model |-> m0]
  BY DEF NoRow
<1> HIDE DEF m0
<1>3. NoRow(s) \in Row
  BY <1>1, <1>2 DEF Row, Instant
<1> QED BY <1>2, <1>3 DEF RowOK

\* What a well-typed state says of one job, one batch and one call.
LEMMA TypeFacts ==
    ASSUME TypesOK
    PROVE  /\ \A j \in Jobs : /\ rows[j] \in Row /\ RowOK(rows[j]) /\ rows[j].state \in JobStates
                              /\ info[j] \in InfoType /\ info[j].batch \in BatchIds \cup {Null}
           /\ \A b \in BatchIds : /\ batches[b] \in BatchType /\ batches[b].count \in Nat
                                  /\ batches[b].ids \subseteq Jobs /\ batches[b].status \in BatchStatuses
           /\ \A c \in Callers : /\ calls[c] \in Call /\ calls[c].batch \in BatchIds \cup {Null}
                                 /\ calls[c].pc \in {"idle", "begin", "stage", "activate", "abort"}
<1>1. \A j \in Jobs : rows[j] \in Row /\ RowOK(rows[j]) /\ info[j] \in InfoType
  BY DEF TypesOK
<1>2. \A b \in BatchIds : batches[b] \in BatchType
  BY DEF TypesOK
<1>3. \A c \in Callers : calls[c] \in Call
  BY DEF TypesOK
<1>4. \A j \in Jobs : rows[j].state \in JobStates /\ info[j].batch \in BatchIds \cup {Null}
  BY <1>1 DEF Row, InfoType
<1>5. \A b \in BatchIds : /\ batches[b].count \in Nat /\ batches[b].ids \subseteq Jobs
                          /\ batches[b].status \in BatchStatuses
  BY <1>2 DEF BatchType
<1>6. \A c \in Callers : /\ calls[c].batch \in BatchIds \cup {Null}
                         /\ calls[c].pc \in {"idle", "begin", "stage", "activate", "abort"}
  BY <1>3 DEF Call
<1> QED BY <1>1, <1>2, <1>3, <1>4, <1>5, <1>6

(***************************************************************************)
(* What happens to rows once they are there.                               *)
(***************************************************************************)
\* The row stays a row of its batch: it does not appear, it is not staged
\* again, and what is staged or cancelled does not become anything else.
Mild(a, b) ==
    /\ RowOK(b) /\ (a.state = "absent" <=> b.state = "absent")
    /\ HasRow(b) => HasRow(a)
    /\ b.state = "staged" => a.state = "staged"
    /\ a.state \in {"staged", "cancelled"} => b.state \in {"staged", "cancelled", "deleted"}

\* And takes no room in the queue that it did not take.
Shrinks(a, b) == b.state \in IncompleteStates => a.state \in IncompleteStates

LEMMA CancelMild ==
    ASSUME NEW r, RowOK(r)
    PROVE  Mild(r, Cancel(r)) /\ Shrinks(r, Cancel(r))
<1>1. RowOK(Cancel(r)) /\ r \in Row /\ r.state \in JobStates
  BY CancelOK DEF RowOK, Row
<1>2. Cancel(r).state \in {r.state, "cancelled"} /\ (Cancel(r).state # r.state => r.state \in IncompleteStates)
  BY <1>1, CancelledFields DEF Cancel, Row
<1> QED BY <1>1, <1>2 DEF Mild, Shrinks, HasRow

LEMMA ClaimMild ==
    ASSUME NEW r, RowOK(r), NEW o \in Owners, NEW act, Claimable(r, act)
    PROVE  Mild(r, ClaimSql(r, o, act)) /\ Shrinks(r, ClaimSql(r, o, act))
<1>1. Claimable(r, TRUE) /\ ClaimSql(r, o, act) = ClaimSql(r, o, TRUE)
  BY DEF Claimable, ClaimSql
<1>2. RowOK(ClaimSql(r, o, TRUE)) /\ ClaimSql(r, o, TRUE).state = "leased" /\ r.state = "queued"
  BY <1>1, ClaimOK DEF ClaimSql, Claimable, RowOK, Row
<1> QED BY <1>1, <1>2 DEF Mild, Shrinks, HasRow

LEMMA StartMild ==
    ASSUME NEW r, RowOK(r), NEW o
    PROVE  Mild(r, MarkRunning(r, o)) /\ Shrinks(r, MarkRunning(r, o))
<1>1. RowOK(MarkRunning(r, o)) /\ r \in Row
  BY HoldOK DEF RowOK
<1>2. MarkRunning(r, o) = r \/ (MarkRunning(r, o).state = "running" /\ r.state = "leased")
  BY <1>1 DEF MarkRunning, CanMarkRunning, Row
<1> QED BY <1>1, <1>2 DEF Mild, Shrinks, HasRow

LEMMA EndMild ==
    ASSUME NEW r, RowOK(r), NEW o, r.state = "running",
           NEW b \in {Complete(r, o), Fail(r, o, FALSE), FinishCancel(r, o)}
    PROVE  Mild(r, b) /\ Shrinks(r, b)
<1>1. RowOK(Complete(r, o)) /\ RowOK(FinishCancel(r, o)) /\ RowOK(Fail(r, o, FALSE)) /\ r \in Row
  BY SettleOK DEF RowOK
<1>2. b = r \/ b.state \in TerminalStates
  BY <1>1, EndedFields, CancelledFields DEF Complete, Fail, FinishCancel, Failure
<1>3. RowOK(b)
  BY <1>1
<1> QED BY <1>2, <1>3 DEF Mild, Shrinks, HasRow

LEMMA RequeueMild ==
    ASSUME NEW r, RowOK(r)
    PROVE  Mild(r, Requeue(r))
<1>1. RowOK(Requeue(r)) /\ r \in Row
  BY RequeueOK DEF RowOK
<1>2. Requeue(r) = r \/ (Requeue(r).state = "queued" /\ Requeueable(r))
  BY <1>1 DEF Requeue, Unleased, Row
<1> QED BY <1>1, <1>2 DEF Mild, HasRow, Requeueable

LEMMA DeletedMild ==
    ASSUME NEW r, RowOK(r), HasRow(r)
    PROVE  Mild(r, NoRow("deleted")) /\ Shrinks(r, NoRow("deleted"))
BY NoRowOK DEF Mild, Shrinks, HasRow

LEMMA SameMild ==
    ASSUME NEW r, RowOK(r)
    PROVE  Mild(r, r) /\ Shrinks(r, r)
BY DEF Mild, Shrinks

\* All of the invariant but the capacity.
Links == /\ TypesOK /\ IdsOK /\ InfoOK /\ StagedOK /\ KeysOK /\ ReceiptsOK /\ CallsOK
         /\ BatchVisibility /\ StagingHasCaller

LEMMA RowsStep ==
    ASSUME BInv, rows' \in [Jobs -> Row], \A j \in Jobs : Mild(rows[j], rows'[j]),
           UNCHANGED <<info, batches, calls, receipts, nextJob, nextBatch, faults>>,
           requeues' \in Nat
    PROVE  Links'
<1>1. TypesOK' /\ IdsOK'
  BY DEF BInv, TypesOK, IdsOK, Mild, Status
<1>2. \A j \in Jobs : rows[j].state = "absent" <=> rows'[j].state = "absent"
  BY DEF Mild
<1>3. \A b \in BatchIds : batches[b].ids \subseteq Jobs
  BY TypeFacts DEF BInv
<1>4. InfoOK'
  BY <1>2, <1>3 DEF BInv, InfoOK
<1>5. StagedOK' /\ KeysOK' /\ ReceiptsOK'
  BY DEF BInv, StagedOK, KeysOK, ReceiptsOK, ReceiptOK, Status, First
<1>6. CallsOK' /\ StagingHasCaller'
  BY DEF BInv, CallsOK, CallOK, IdsOf, Status, StagingHasCaller
<1>7. BatchVisibility'
  BY DEF BInv, BatchVisibility, Mild, HasRow
<1> QED BY <1>1, <1>4, <1>5, <1>6, <1>7 DEF Links

\* The queue holds no more than before.
LEMMA CapacityKept ==
    ASSUME BInv, \A j \in Jobs : Shrinks(rows[j], rows'[j]), requeues' = requeues
    PROVE  QueueCapacity'
<1> DEFINE A == {j \in Jobs : rows[j].state \in IncompleteStates}
           B == {j \in Jobs : rows'[j].state \in IncompleteStates}
<1>1. B \subseteq A /\ IsFiniteSet(A) /\ Cardinality(A) \in Nat /\ Cardinality(B) \in Nat
  BY JobsFacts DEF Shrinks
<1>2. Cardinality(B) <= Cardinality(A)
  BY <1>1, FS_Subset
<1>3. Cardinality(A) <= MaxQueued + requeues /\ MaxQueued \in Nat /\ requeues \in Nat
  BY BoundsAssumption DEF BInv, TypesOK, QueueCapacity, Incomplete
<1> QED BY <1>1, <1>2, <1>3 DEF QueueCapacity, Incomplete

LEMMA TableStep ==
    ASSUME BInv, TableOnly, rows' \in [Jobs -> Row],
           \A j \in Jobs : Mild(rows[j], rows'[j]) /\ Shrinks(rows[j], rows'[j])
    PROVE  BInv'
<1>1. /\ UNCHANGED <<info, batches, calls, receipts, nextJob, nextBatch, faults>>
      /\ requeues' = requeues /\ requeues \in Nat
  BY DEF TableOnly, Rest, limits, BInv, TypesOK
<1> QED BY <1>1, RowsStep, CapacityKept DEF BInv, Links

LEMMA OneRowStep ==
    ASSUME BInv, TableOnly, NEW j \in Jobs, NEW r, rows' = [rows EXCEPT ![j] = r],
           Mild(rows[j], r) /\ Shrinks(rows[j], r)
    PROVE  BInv'
<1>1. rows \in [Jobs -> Row] /\ r \in Row
  BY DEF BInv, TypesOK, Mild, RowOK
<1>2. rows' \in [Jobs -> Row] /\ \A k \in Jobs : rows'[k] = IF k = j THEN r ELSE rows[k]
  BY <1>1
<1> QED BY <1>2, TypeFacts, SameMild, TableStep DEF BInv

LEMMA WorkStep ==
    ASSUME BInv,
           \/ \E j \in Jobs : CancelJob(j) \/ Start(j) \/ End(j) \/ \E o \in Owners : Claim(j, o)
           \/ \E b \in BatchIds : CancelBatch(b)
           \/ Cleanup
    PROVE  BInv'
<1>0. \A j \in Jobs : RowOK(rows[j]) /\ rows[j] \in Row
  BY TypeFacts DEF BInv
<1>1. ASSUME NEW j \in Jobs, CancelJob(j) PROVE BInv'
  BY <1>0, <1>1, CancelMild, OneRowStep DEF CancelJob
<1>2. ASSUME NEW j \in Jobs, Start(j) PROVE BInv'
  BY <1>0, <1>2, StartMild, OneRowStep DEF Start
<1>3. ASSUME NEW j \in Jobs, End(j) PROVE BInv'
  <2> DEFINE o == rows[j].lease_owner
  <2>1. PICK b \in {Complete(rows[j], o), Fail(rows[j], o, FALSE), FinishCancel(rows[j], o)} :
           rows' = [rows EXCEPT ![j] = b]
    BY <1>3 DEF End
  <2>2. rows[j].state = "running" /\ TableOnly
    BY <1>3 DEF End
  <2> HIDE DEF o
  <2> QED BY <1>0, <2>1, <2>2, EndMild, OneRowStep
<1>4. ASSUME NEW j \in Jobs, NEW o \in Owners, Claim(j, o) PROVE BInv'
  BY <1>0, <1>4, ClaimMild, OneRowStep DEF Claim
<1>5. ASSUME NEW b \in BatchIds, CancelBatch(b) PROVE BInv'
  <2>1. \A j \in Jobs : rows'[j] \in {rows[j], Cancel(rows[j])}
    BY <1>5 DEF CancelBatch
  <2>2. \A j \in Jobs : Mild(rows[j], rows'[j]) /\ Shrinks(rows[j], rows'[j])
    BY <1>0, <2>1, CancelMild, SameMild
  <2>3. rows' \in [Jobs -> Row] /\ TableOnly
    BY <1>5, <2>2 DEF CancelBatch, Mild, RowOK
  <2> QED BY <2>2, <2>3, TableStep
<1>6. ASSUME Cleanup PROVE BInv'
  <2>1. PICK S \in SUBSET {j \in Jobs : Expungeable(rows[j])} :
           rows' = [j \in Jobs |-> IF j \in S THEN NoRow("deleted") ELSE rows[j]]
    BY <1>6 DEF Cleanup
  <2>2. \A j \in Jobs : /\ rows'[j] = IF j \in S THEN NoRow("deleted") ELSE rows[j]
                        /\ j \in S => HasRow(rows[j])
    BY <2>1 DEF Expungeable
  <2>3. \A j \in Jobs : Mild(rows[j], rows'[j]) /\ Shrinks(rows[j], rows'[j])
    BY <1>0, <2>2, DeletedMild, SameMild
  <2>4. rows' \in [Jobs -> Row] /\ TableOnly
    BY <1>0, <1>6, <2>1, NoRowOK DEF Cleanup
  <2> QED BY <2>3, <2>4, TableStep
<1> QED BY <1>1, <1>2, <1>3, <1>4, <1>5, <1>6

\* A requeue reserves nothing, and is counted for that.
LEMMA RequeueStep ==
    ASSUME BInv, NEW j \in Jobs, RequeueJob(j)
    PROVE  BInv'
<1> DEFINE r == Requeue(rows[j])
<1>1. /\ rows' = [rows EXCEPT ![j] = r] /\ requeues' = requeues + 1 /\ requeues \in Nat
      /\ UNCHANGED <<info, batches, calls, receipts, nextJob, nextBatch, faults>>
      /\ rows \in [Jobs -> Row]
  BY DEF RequeueJob, BInv, TypesOK
<1>2. Mild(rows[j], r) /\ r \in Row
  BY RequeueMild, TypeFacts DEF BInv, Mild, RowOK
<1> HIDE DEF r
<1>3. rows' \in [Jobs -> Row] /\ \A k \in Jobs : rows'[k] = IF k = j THEN r ELSE rows[k]
  BY <1>1, <1>2
<1>4. Links'
  BY <1>1, <1>2, <1>3, TypeFacts, SameMild, RowsStep DEF BInv
<1>5. QueueCapacity'
  <2> DEFINE A == {k \in Jobs : rows[k].state \in IncompleteStates}
             B == {k \in Jobs : rows'[k].state \in IncompleteStates}
  <2>1. B \subseteq A \cup {j}
    BY <1>3
  <2>2. IsFiniteSet(A) /\ Cardinality(A) \in Nat /\ Cardinality(B) \in Nat
    BY JobsFacts
  <2>3. Cardinality(A) <= MaxQueued + requeues /\ MaxQueued \in Nat
    BY BoundsAssumption DEF BInv, QueueCapacity, Incomplete
  <2>5. QueueCapacity' <=> Cardinality(B) <= MaxQueued + requeues'
    BY DEF QueueCapacity, Incomplete
  <2> HIDE DEF A, B
  <2>6. IsFiniteSet(A \cup {j}) /\ Cardinality(A \cup {j}) <= Cardinality(A) + 1
        /\ Cardinality(A \cup {j}) \in Nat
    BY <2>2, FS_AddElement, FS_CardinalityType
  <2>4. Cardinality(B) <= Cardinality(A) + 1
    BY <2>1, <2>2, <2>6, FS_Subset
  <2> QED BY <1>1, <2>2, <2>3, <2>4, <2>5
<1> QED BY <1>4, <1>5 DEF BInv, Links

(***************************************************************************)
(* The sizes of requests.                                                  *)
(***************************************************************************)
LEMMA PlacesFinite ==
    ASSUME NEW req \in Requests, NEW n \in 0 .. Len(req.chunks)
    PROVE  IsFiniteSet(Places(req, n)) /\ Cardinality(Places(req, n)) \in Nat
<1> DEFINE T == {{i} \X DOMAIN req.chunks[i] : i \in 1 .. n}
           F == [i \in 1 .. n |-> {i} \X DOMAIN req.chunks[i]]
<1>1. req.chunks \in Seq(Seq(Spec1)) /\ n \in Nat
  BY RequestsAssumption DEF BatchOf
<1>2. \A i \in 1 .. n : req.chunks[i] \in Seq(Spec1)
  BY <1>1
<1>3. \A i \in 1 .. n : IsFiniteSet({i} \X DOMAIN req.chunks[i])
  <2> TAKE i \in 1 .. n
  <2>1. \E l \in Nat : DOMAIN req.chunks[i] = 1 .. l
    BY <1>2
  <2>2. IsFiniteSet(DOMAIN req.chunks[i])
    BY <2>1, FS_Interval
  <2> QED BY <2>2, FS_Singleton, FS_Product
<1>4. F \in Surjection(1 .. n, T)
  BY DEF Surjection
<1>5. IsFiniteSet(1 .. n)
  BY <1>1, FS_Interval
<1> HIDE DEF F
<1>6. IsFiniteSet(T)
  BY <1>4, <1>5, FS_Surjection
<1>7. \A t \in T : IsFiniteSet(t)
  BY <1>3
<1>8. Places(req, n) = UNION T
  BY DEF Places
<1> HIDE DEF T
<1>9. IsFiniteSet(Places(req, n))
  BY <1>6, <1>7, <1>8, FS_UNION
<1> QED BY <1>9, FS_CardinalityType

LEMMA NoPlaces == \A req : Cardinality(Places(req, 0)) = 0
BY FS_EmptySet DEF Places

\* The next chunk adds the places of its jobs, and no chunk takes the number of
\* places past the size of the request.
LEMMA PlacesStep ==
    ASSUME NEW req \in Requests, NEW i \in 1 .. Len(req.chunks)
    PROVE  /\ Len(req.chunks[i]) \in Nat
           /\ Cardinality(Places(req, i)) = Cardinality(Places(req, i - 1)) + Len(req.chunks[i])
           /\ Cardinality(Places(req, i)) <= Size(req)
           /\ Size(req) \in Nat
<1> DEFINE A == Places(req, i - 1)
           B == {i} \X DOMAIN req.chunks[i]
           C == Places(req, i)
           L == Places(req, Len(req.chunks))
<1>1. req.chunks \in Seq(Seq(Spec1)) /\ i \in Nat /\ i # 0 /\ Len(req.chunks) \in Nat
  BY RequestsAssumption DEF BatchOf
<1>2. req.chunks[i] \in Seq(Spec1)
  BY <1>1
<1>3. Len(req.chunks[i]) \in Nat /\ DOMAIN req.chunks[i] = 1 .. Len(req.chunks[i])
  BY <1>2
<1>4. C = A \cup B /\ A \cap B = {} /\ C \subseteq L
  <2>1. 1 .. i = (1 .. i - 1) \cup {i} /\ 1 .. i \subseteq 1 .. Len(req.chunks)
    BY <1>1
  <2> QED BY <2>1, <1>1 DEF Places
<1>5. IsFiniteSet(B) /\ Cardinality(B) = Len(req.chunks[i])
  <2>1. IsFiniteSet(DOMAIN req.chunks[i]) /\ Cardinality(DOMAIN req.chunks[i]) = Len(req.chunks[i])
    <3> DEFINE l == Len(req.chunks[i])
    <3>1. l \in Nat /\ DOMAIN req.chunks[i] = 1 .. l
      BY <1>3
    <3> HIDE DEF l
    <3>2. IsFiniteSet(1 .. l) /\ Cardinality(1 .. l) = IF 1 > l THEN 0 ELSE l - 1 + 1
      BY <3>1, FS_Interval
    <3>3. Cardinality(1 .. l) = l
      BY <3>1, <3>2
    <3> QED BY <3>1, <3>2, <3>3 DEF l
  <2>2. IsFiniteSet({i}) /\ Cardinality({i}) = 1
    BY FS_Singleton
  <2>3. IsFiniteSet(B) /\ Cardinality(B) = Cardinality({i}) * Cardinality(DOMAIN req.chunks[i])
    BY <2>1, <2>2, FS_Product
  <2> QED BY <1>3, <2>1, <2>2, <2>3
<1>6. /\ IsFiniteSet(A) /\ IsFiniteSet(C) /\ IsFiniteSet(L)
      /\ Cardinality(A) \in Nat /\ Cardinality(C) \in Nat /\ Cardinality(L) \in Nat
  BY <1>1, PlacesFinite
<1>7. Size(req) = Cardinality(L)
  BY DEF Size
<1> HIDE DEF A, B, C, L
<1>8. Cardinality(A \cap B) = 0
  BY <1>4, FS_EmptySet
<1>9. Cardinality(C) = Cardinality(A) + Len(req.chunks[i])
  <2>1. Cardinality(A \cup B) = Cardinality(A) + Cardinality(B) - Cardinality(A \cap B)
    BY <1>5, <1>6, FS_Union
  <2> QED BY <1>3, <1>4, <1>5, <1>6, <1>8, <2>1
<1>10. Cardinality(C) <= Cardinality(L)
  BY <1>4, <1>6, FS_Subset
<1> QED BY <1>3, <1>6, <1>7, <1>9, <1>10 DEF A, C

LEMMA SizeFacts ==
    ASSUME NEW req \in Requests
    PROVE  Size(req) \in Nat /\ Len(req.chunks) \in Nat
<1>1. Len(req.chunks) \in Nat
  BY RequestsAssumption DEF BatchOf
<1> QED BY <1>1, PlacesFinite DEF Size

(***************************************************************************)
(* Steps that move one caller alone.                                       *)
(***************************************************************************)
LEMMA CallStep ==
    ASSUME BInv, NEW c \in Callers, NEW C \in Call, CallOK(C), C.batch \in {Null, calls[c].batch},
           calls' = [calls EXCEPT ![c] = C],
           UNCHANGED <<rows, info, batches, receipts, nextJob, nextBatch, requeues>>,
           faults' \in Nat, StagingHasCaller'
    PROVE  BInv'
<1>1. calls' \in [Callers -> Call] /\ \A d \in Callers : calls'[d] = IF d = c THEN C ELSE calls[d]
  BY DEF BInv, TypesOK
<1>2. TypesOK' /\ IdsOK' /\ InfoOK' /\ StagedOK' /\ KeysOK' /\ ReceiptsOK'
  <2>1. TypesOK'
    BY <1>1 DEF BInv, TypesOK
  <2>2. IdsOK' /\ InfoOK' /\ KeysOK'
    BY DEF BInv, IdsOK, InfoOK, KeysOK, Status
  <2>3. StagedOK'
    BY DEF BInv, StagedOK, Status, First
  <2>4. ReceiptsOK'
    BY DEF BInv, ReceiptsOK, ReceiptOK, Status
  <2> QED BY <2>1, <2>2, <2>3, <2>4
<1>3. \A d \in Callers : CallOK(calls[d])
  BY DEF BInv, CallsOK
<1>4. \A d \in Callers : CallOK(calls'[d])
  BY <1>1, <1>3
<1>5. (\A d \in Callers : CallOK(calls[d]))'
  BY <1>4 DEF CallOK, IdsOf, Status
<1>6. (\A x, d \in Callers : calls[x].batch # Null /\ calls[x].batch = calls[d].batch => x = d)'
  BY <1>1 DEF BInv, CallsOK
<1>7. CallsOK'
  BY <1>5, <1>6 DEF CallsOK
<1>8. BatchVisibility' /\ QueueCapacity'
  BY DEF BInv, BatchVisibility, QueueCapacity, Incomplete
<1> QED BY <1>2, <1>7, <1>8 DEF BInv

\* The batches in staging that no caller looks after.
Unattended == {b \in BatchIds : Status(b) = "staging" /\ \A c \in Callers : calls[c].batch # b}

LEMMA SameCallStep ==
    ASSUME BInv, NEW c \in Callers, NEW C \in Call, CallOK(C), C.batch = calls[c].batch,
           calls' = [calls EXCEPT ![c] = C],
           UNCHANGED <<rows, info, batches, receipts, nextJob, nextBatch, requeues, faults>>
    PROVE  BInv'
<1>1. \A d \in Callers : calls'[d].batch = calls[d].batch
  BY DEF BInv, TypesOK
<1>2. StagingHasCaller' /\ faults' \in Nat
  BY <1>1 DEF BInv, TypesOK, StagingHasCaller
<1> QED BY <1>2, CallStep

LEMMA RaiseStep ==
    ASSUME BInv, NEW c \in Callers, calls[c].pc \in {"stage", "activate"}, Raise(c),
           UNCHANGED <<rows, info, batches, receipts, nextJob, nextBatch, requeues, faults>>
    PROVE  BInv'
<1> DEFINE C == [calls[c] EXCEPT !.pc = "abort"]
<1>1. calls[c] \in Call /\ CallOK(calls[c])
  BY TypeFacts DEF BInv, CallsOK
<1>2. C \in Call /\ C.batch = calls[c].batch /\ C.pc = "abort" /\ C.req = calls[c].req
      /\ C.chunk = calls[c].chunk
  BY <1>1 DEF Call
<1>3. calls' = [calls EXCEPT ![c] = C]
  BY DEF Raise
<1> HIDE DEF C
<1>4. CallOK(C)
  BY <1>1, <1>2 DEF CallOK
<1> QED BY <1>2, <1>3, <1>4, SameCallStep

LEMMA IdleFacts ==
    /\ Idle \in Call /\ CallOK(Idle)
    /\ Idle.pc = "idle" /\ Idle.batch = Null /\ Idle.chunk = 1
BY DEF Idle, Call, CallOK

LEMMA EnterStep ==
    ASSUME BInv, NEW c \in Callers, NEW req \in Requests, Enter(c, req)
    PROVE  BInv'
<1> DEFINE known == IF req.list THEN BatchesWithKey(req.client, req.key) ELSE {}
           same  == {b \in known : batches[b].hash = Digest(req)}
           C     == [Idle EXCEPT !.pc = "begin", !.req = req]
<1>1. /\ calls[c].pc = "idle" /\ receipts' = receipts \cup {Receipt(req, b) : b \in same}
      /\ IF known = {} THEN calls' = [calls EXCEPT ![c] = C] ELSE UNCHANGED calls
      /\ UNCHANGED <<rows, info, batches, nextJob, nextBatch, requeues, faults>>
  BY DEF Enter, Rest, limits
<1>2. calls[c] \in Call /\ CallOK(calls[c])
  BY TypeFacts DEF BInv, CallsOK
<1>3. CASE known = {}
  <2>1. C \in Call /\ C.pc = "begin" /\ C.req = req /\ C.batch = Null /\ C.chunk = 1
    BY IdleFacts DEF Call
  <2>2. CallOK(C) /\ calls[c].batch = Null
    BY <1>1, <1>2, <2>1 DEF CallOK
  <2>3. receipts' = receipts
    BY <1>1, <1>3
  <2> HIDE DEF C
  <2> QED BY <1>1, <1>3, <2>1, <2>2, <2>3, SameCallStep
<1>4. CASE known # {}
  <2>1. \A b \in same : b \in BatchIds /\ req.key # Null /\ batches[b].key = req.key
                        /\ batches[b].client = req.client /\ batches[b].hash = Digest(req)
    BY <1>4 DEF BatchesWithKey
  <2>2. \A b \in same : ReceiptOK(Receipt(req, b))
    BY <2>1 DEF BInv, KeysOK, ReceiptOK, Receipt
  <2>3. \A r \in receipts' : ReceiptOK(r)
    BY <1>1, <2>2 DEF BInv, ReceiptsOK
  <2>4. ReceiptsOK'
    BY <1>1, <2>3 DEF ReceiptsOK, ReceiptOK, Status
  <2>0. UNCHANGED calls
    BY <1>1, <1>4
  <2>5. TypesOK' /\ IdsOK' /\ InfoOK' /\ StagedOK' /\ KeysOK'
    <3>1. TypesOK'
      BY <1>1, <2>0 DEF BInv, TypesOK
    <3>2. IdsOK' /\ InfoOK' /\ KeysOK'
      BY <1>1 DEF BInv, IdsOK, InfoOK, KeysOK, Status
    <3>3. StagedOK'
      BY <1>1 DEF BInv, StagedOK, Status, First
    <3> QED BY <3>1, <3>2, <3>3
  <2>6. CallsOK' /\ StagingHasCaller'
    <3>1. CallsOK'
      BY <1>1, <2>0 DEF BInv, CallsOK, CallOK, IdsOf, Status
    <3>2. StagingHasCaller'
      BY <1>1, <2>0 DEF BInv, StagingHasCaller
    <3> QED BY <3>1, <3>2
  <2>7. BatchVisibility' /\ QueueCapacity'
    BY <1>1 DEF BInv, BatchVisibility, QueueCapacity, Incomplete
  <2> QED BY <2>4, <2>5, <2>6, <2>7 DEF BInv
<1> QED BY <1>3, <1>4

\* An abort that fails leaves one batch more behind, and is counted.
LEMMA AbortFailsStep ==
    ASSUME BInv, NEW c \in Callers, AbortFails(c)
    PROVE  BInv'
<1>1. /\ calls' = [calls EXCEPT ![c] = Idle] /\ faults' = faults + 1
      /\ UNCHANGED <<rows, info, batches, receipts, nextJob, nextBatch, requeues>>
  BY DEF AbortFails, Return
<1>2. calls \in [Callers -> Call] /\ calls[c] \in Call /\ faults \in Nat
  BY TypeFacts DEF BInv, TypesOK
<1>3. Idle \in Call /\ CallOK(Idle) /\ Idle.batch = Null
  BY IdleFacts
<1>4. Unattended \subseteq BatchIds /\ Unattended' \subseteq Unattended \cup {calls[c].batch}
  BY <1>1, <1>2 DEF Unattended, Status
<1>5. IsFiniteSet(Unattended) /\ Cardinality(Unattended) \in Nat /\ Cardinality(Unattended') \in Nat
  BY JobsFacts DEF Unattended
<1>6. Cardinality(Unattended) <= faults
  BY DEF BInv, StagingHasCaller, Unattended, Status
<1> DEFINE x == calls[c].batch
<1>7. IsFiniteSet(Unattended \cup {x}) /\ Cardinality(Unattended \cup {x}) \in Nat
      /\ Cardinality(Unattended \cup {x}) <= Cardinality(Unattended) + 1
  <2>1. IsFiniteSet(Unattended \cup {x})
        /\ Cardinality(Unattended \cup {x}) =
              IF x \in Unattended THEN Cardinality(Unattended) ELSE Cardinality(Unattended) + 1
    BY <1>5, FS_AddElement
  <2> QED BY <1>5, <2>1
<1>8. Cardinality(Unattended') <= Cardinality(Unattended \cup {x})
  BY <1>4, <1>7, FS_Subset
<1>9. Cardinality(Unattended') <= faults' /\ faults' \in Nat
  BY <1>1, <1>2, <1>5, <1>6, <1>7, <1>8
<1>10. StagingHasCaller'
  BY <1>9 DEF StagingHasCaller, Unattended, Status
<1> QED BY <1>1, <1>3, <1>9, <1>10, CallStep
(***************************************************************************)
(* Lemmas for the steps that write the tables.                             *)
(***************************************************************************)
\* The queue holds the jobs it held and those of N at most.
LEMMA CapacityAdds ==
    ASSUME BInv, NEW N \in SUBSET Jobs, NEW n \in Nat, IsFiniteSet(N), Cardinality(N) = n,
           Incomplete(Jobs) + n <= MaxQueued, requeues' = requeues,
           \A j \in Jobs : rows'[j].state \in IncompleteStates =>
                              j \in N \/ rows[j].state \in IncompleteStates
    PROVE  QueueCapacity'
<1> DEFINE A == {j \in Jobs : rows[j].state \in IncompleteStates}
           B == {j \in Jobs : rows'[j].state \in IncompleteStates}
<1>1. B \subseteq A \cup N
  OBVIOUS
<1>2. IsFiniteSet(A) /\ Cardinality(A) \in Nat /\ Cardinality(B) \in Nat
      /\ IsFiniteSet(A \cup N) /\ Cardinality(A \cup N) \in Nat
      /\ Cardinality(A \cap N) \in Nat
  BY JobsFacts
<1>3. Cardinality(A) + n <= MaxQueued
  BY DEF Incomplete
<1>4. QueueCapacity' <=> Cardinality(B) <= MaxQueued + requeues'
  BY DEF QueueCapacity, Incomplete
<1>5. MaxQueued \in Nat /\ requeues \in Nat
  BY BoundsAssumption DEF BInv, TypesOK
<1> HIDE DEF A, B
<1>6. Cardinality(A \cup N) = Cardinality(A) + n - Cardinality(A \cap N)
  BY <1>2, FS_Union
<1>7. Cardinality(B) <= Cardinality(A \cup N)
  BY <1>1, <1>2, FS_Subset
<1> QED BY <1>2, <1>3, <1>4, <1>5, <1>6, <1>7

LEMMA UnattendedShrinks ==
    ASSUME BInv, Unattended' \subseteq Unattended, faults' = faults
    PROVE  StagingHasCaller'
<1>1. IsFiniteSet(Unattended) /\ Cardinality(Unattended) \in Nat /\ Cardinality(Unattended') \in Nat
  BY JobsFacts DEF Unattended
<1>2. Cardinality(Unattended) <= faults /\ faults \in Nat
  BY DEF BInv, TypesOK, StagingHasCaller, Unattended, Status
<1>3. Cardinality(Unattended') <= Cardinality(Unattended)
  BY <1>1, FS_Subset
<1>4. Cardinality(Unattended') <= faults'
  BY <1>1, <1>2, <1>3
<1> QED BY <1>4 DEF StagingHasCaller, Unattended, Status

LEMMA OtherCalls ==
    ASSUME BInv, NEW c \in Callers, NEW b \in BatchIds,
           \A x \in BatchIds : x # b => batches'[x] = batches[x],
           \A d \in Callers \ {c} : calls'[d] = calls[d] /\ calls[d].batch # b
    PROVE  \A d \in Callers \ {c} : CallOK(calls[d])'
BY DEF BInv, CallsOK, CallOK, IdsOf, Status

\* The least of a set of numbers is what First chooses.
LEMMA LeastOf ==
    ASSUME NEW S \in SUBSET Nat, NEW lo \in S, \A k \in S : lo <= k
    PROVE  (CHOOSE j \in S : \A k \in S : j <= k) = lo
<1> DEFINE m == CHOOSE j \in S : \A k \in S : j <= k
<1>1. m \in S /\ \A k \in S : m <= k
  OBVIOUS
<1>2. m \in Nat /\ lo \in Nat /\ m <= lo /\ lo <= m
  BY <1>1
<1> HIDE DEF m
<1>3. m = lo
  BY <1>2
<1> QED BY <1>3 DEF m

LEMMA FirstIs ==
    ASSUME NEW b \in BatchIds, NEW lo \in Nat, NEW n \in Nat, n > 0,
           batches[b].ids = lo .. lo + n - 1
    PROVE  First(b) = lo
<1> DEFINE S == batches[b].ids
<1>1. S \in SUBSET Nat /\ lo \in S /\ \A k \in S : lo <= k
  OBVIOUS
<1>2. First(b) = CHOOSE j \in S : \A k \in S : j <= k
  BY DEF First
<1> HIDE DEF S
<1> QED BY <1>1, <1>2, LeastOf

(***************************************************************************)
(* Submit.                                                                 *)
(***************************************************************************)
LEMMA SubmitStep ==
    ASSUME BInv, NEW s \in Singles, Submit(s)
    PROVE  BInv'
<1> DEFINE j == nextJob
           I == [batch |-> Null, client |-> s.client, key |-> s.key]
<1>1. /\ j <= MaxJobs /\ Incomplete(Jobs) + 1 <= MaxQueued
      /\ rows' = [rows EXCEPT ![j] = NoRow("queued")] /\ info' = [info EXCEPT ![j] = I]
      /\ nextJob' = nextJob + 1 /\ requeues' = requeues
      /\ UNCHANGED <<batches, calls, receipts, nextBatch, faults>>
  BY DEF Submit, Fits, Rest, limits
<1>2. /\ rows \in [Jobs -> Row] /\ info \in [Jobs -> InfoType]
      /\ nextJob \in 1 .. MaxJobs + 1 /\ MaxJobs \in Nat
  BY JobsFacts DEF BInv, TypesOK
<1>3. j \in Jobs /\ j \in Nat
  BY <1>1, <1>2 DEF Jobs
<1>4. I \in InfoType /\ I.batch = Null
  BY RequestsAssumption DEF Spec1, InfoType
<1>5. rows[j].state = "absent"
  BY <1>2, <1>3 DEF BInv, InfoOK
<1>6. \A b \in BatchIds : j \notin batches[b].ids
  BY <1>2, <1>3 DEF BInv, IdsOK
<1>7. /\ RowOK(NoRow("queued")) /\ NoRow("queued") \in Row /\ NoRow("queued").state = "queued"
  BY NoRowOK
<1> DEFINE R == NoRow("queued")
<1> HIDE DEF I, R
<1>8. /\ rows' \in [Jobs -> Row] /\ info' \in [Jobs -> InfoType]
      /\ \A k \in Jobs : /\ rows'[k] = IF k = j THEN R ELSE rows[k]
                         /\ info'[k] = IF k = j THEN I ELSE info[k]
  BY <1>1, <1>2, <1>4, <1>7 DEF R
<1>9. RowOK(R) /\ R.state = "queued"
  BY <1>7 DEF R
<1>10. TypesOK'
  BY <1>1, <1>2, <1>3, <1>8, <1>9 DEF BInv, TypesOK
<1>11. IdsOK' /\ KeysOK' /\ ReceiptsOK'
  <2>1. \A b \in BatchIds : batches[b].ids \subseteq 1 .. nextJob' - 1
    BY <1>1, <1>2 DEF BInv, IdsOK
  <2> QED BY <1>1, <2>1 DEF BInv, IdsOK, KeysOK, ReceiptsOK, ReceiptOK, Status
<1>12. InfoOK'
  <2>1. \A k \in Jobs : info'[k].batch # Null => k \in batches[info'[k].batch].ids
    BY <1>4, <1>8 DEF BInv, InfoOK
  <2>2. \A b \in BatchIds : \A k \in batches[b].ids : info'[k].batch = b <=> rows'[k].state # "absent"
    BY <1>6, <1>8, TypeFacts DEF BInv, InfoOK
  <2>3. \A k \in Jobs : k >= nextJob' => rows'[k].state = "absent"
    <3>1. ASSUME NEW k \in Jobs, k >= nextJob' PROVE k >= nextJob /\ k # j
      BY <1>1, <1>2, <3>1, JobsFacts
    <3>2. \A k \in Jobs : k >= nextJob => rows[k].state = "absent"
      BY DEF BInv, InfoOK
    <3> QED BY <1>8, <3>1, <3>2
  <2> QED BY <1>1, <2>1, <2>2, <2>3 DEF InfoOK
<1>13. StagedOK'
  <2>1. \A b \in BatchIds : \A k \in batches[b].ids : info'[k] = info[k]
    BY <1>6, <1>8, TypeFacts DEF BInv
  <2>2. batches' = batches /\ \A b \in BatchIds : First(b)' = First(b)
    BY <1>1 DEF First
  <2>3. \A b \in BatchIds : \A k \in batches[b].ids :
           /\ Status(b) = "staging" => (info[k].batch = b <=> k < First(b) + batches[b].count)
           /\ Status(b) = "active"  => info[k].batch = b
    BY DEF BInv, StagedOK
  <2> QED BY <2>1, <2>2, <2>3 DEF StagedOK, Status
<1>14. CallsOK' /\ StagingHasCaller'
  BY <1>1 DEF BInv, CallsOK, CallOK, IdsOf, Status, StagingHasCaller
<1>15. BatchVisibility'
  BY <1>1, <1>4, <1>8 DEF BInv, BatchVisibility
<1>16. QueueCapacity'
  <2> DEFINE N == {j}
  <2>1. N \in SUBSET Jobs /\ IsFiniteSet(N) /\ Cardinality(N) = 1
    BY <1>3, FS_Singleton
  <2>2. \A k \in Jobs : k \notin N => rows'[k] = rows[k]
    BY <1>8
  <2> HIDE DEF N
  <2> QED BY <1>1, <2>1, <2>2, CapacityAdds
<1> QED BY <1>10, <1>11, <1>12, <1>13, <1>14, <1>15, <1>16 DEF BInv

(***************************************************************************)
(* Begin.                                                                  *)
(***************************************************************************)
LEMMA NoBatchFacts ==
    /\ NoBatch \in BatchType /\ NoBatch.status = "absent" /\ NoBatch.count = 0
    /\ NoBatch.key = Null /\ NoBatch.ids = {}
BY DEF NoBatch, BatchType, Hashes

\* What begin_batch writes: b is the new row, lo .. lo + n - 1 its ids.
LEMMA BeginWrites ==
    ASSUME BInv, NEW c \in Callers, NEW b \in BatchIds, b = nextBatch,
           NEW req \in Requests, NEW n \in Nat, n = Size(req),
           NEW lo \in 1 .. MaxJobs + 1, lo = nextJob, NEW I, I = lo .. lo + n - 1, lo + n - 1 <= MaxJobs,
           NEW T \in BatchType, T.status = "staging", T.client = req.client, T.ids = I,
           T.count = 0, T.key = Null,
           NEW C \in Call, C.pc = "stage", C.batch = b, C.req = req, C.chunk = 1,
           calls[c].batch = Null,
           batches' = [batches EXCEPT ![b] = T], calls' = [calls EXCEPT ![c] = C],
           nextBatch' = b + 1, nextJob' = lo + n,
           UNCHANGED <<rows, info, receipts, requeues, faults>>
    PROVE  BInv'
<1>2. /\ calls \in [Callers -> Call] /\ batches \in [BatchIds -> BatchType]
      /\ lo \in Nat /\ b \in Nat /\ b <= MaxBatches
      /\ MaxJobs \in Nat /\ MaxBatches \in Nat
  BY JobsFacts DEF BInv, TypesOK, BatchIds
<1>4. Len(req.chunks) \in Nat
  BY SizeFacts
<1>5. batches[b] = NoBatch
  BY <1>2 DEF BInv, IdsOK
<1>6. I \subseteq Jobs /\ \A j \in I : j >= lo
  BY <1>2 DEF Jobs
<1>9. /\ batches' \in [BatchIds -> BatchType] /\ calls' \in [Callers -> Call]
      /\ \A x \in BatchIds : batches'[x] = IF x = b THEN T ELSE batches[x]
      /\ \A d \in Callers : calls'[d] = IF d = c THEN C ELSE calls[d]
  BY <1>2
<1>10. \A x \in BatchIds : x # b => batches[x].ids \subseteq 1 .. lo - 1
  BY DEF BInv, IdsOK
<1>11. \A j \in I : rows[j].state = "absent" /\ info[j].batch = Null
  <2> TAKE j \in I
  <2>1. j \in Jobs /\ j \in Nat /\ j >= lo
    BY <1>6, JobsFacts
  <2>2. rows[j].state = "absent"
    BY <2>1 DEF BInv, InfoOK
  <2>3. info[j].batch \in BatchIds \cup {Null}
    BY <2>1, TypeFacts DEF BInv
  <2>4. info[j].batch = Null
    BY <1>2, <2>1, <2>3 DEF BInv, InfoOK, IdsOK
  <2> QED BY <2>2, <2>4
<1>12. TypesOK'
  <2>1. MaxBatchSize \in Nat
    BY BoundsAssumption
  <2>2. \A x \in BatchIds : batches'[x].count <= MaxBatchSize
    BY <1>9, <2>1 DEF BInv, TypesOK
  <2>3. nextJob' \in 1 .. MaxJobs + 1 /\ nextBatch' \in 1 .. MaxBatches + 1
    BY <1>2, <1>4
  <2> QED BY <1>9, <2>2, <2>3 DEF BInv, TypesOK
<1>13. IdsOK'
  <2>1. \A x \in BatchIds : /\ x >= nextBatch' => batches'[x] = NoBatch
                            /\ x < nextBatch' => batches'[x].status # "absent"
    <3> TAKE x \in BatchIds
    <3>1. x \in Nat
      BY JobsFacts
    <3> QED BY <1>5, <1>9, <3>1 DEF BInv, IdsOK, Status
  <2>2. \A x \in BatchIds : batches'[x].ids \subseteq 1 .. nextJob' - 1
    BY <1>2, <1>4, <1>9, <1>10
  <2>3. \A x \in BatchIds : x # b => batches[x].ids \cap I = {}
    BY <1>2, <1>10
  <2>4. \A x, y \in BatchIds : x # y => batches'[x].ids \cap batches'[y].ids = {}
    BY <1>9, <2>3 DEF BInv, IdsOK
  <2> QED BY <2>1, <2>2, <2>4 DEF IdsOK, Status
<1>14. InfoOK'
  <2>1. \A j \in Jobs : info[j].batch # Null => info[j].batch # b
    BY <1>5, NoBatchFacts DEF BInv, InfoOK
  <2>2. \A j \in Jobs : info[j].batch # Null => j \in batches'[info[j].batch].ids
    BY <1>9, <2>1, TypeFacts DEF BInv, InfoOK
  <2>3. \A x \in BatchIds : \A j \in batches'[x].ids : info[j].batch = x <=> rows[j].state # "absent"
    <3>1. \A x \in BatchIds : x # b => batches'[x].ids = batches[x].ids
      BY <1>9
    <3>2. batches'[b].ids = I
      BY <1>9
    <3>3. \A x \in BatchIds : x # b => \A j \in batches'[x].ids : info[j].batch = x <=> rows[j].state # "absent"
      BY <3>1 DEF BInv, InfoOK
    <3>4. \A j \in I : info[j].batch # b /\ rows[j].state = "absent"
      BY <1>11, JobsFacts
    <3> QED BY <3>2, <3>3, <3>4
  <2>4. \A j \in Jobs : j >= nextJob' => rows[j].state = "absent"
    <3>1. \A j \in Jobs : j >= nextJob' => j >= lo
      BY <1>2, <1>4, JobsFacts
    <3> QED BY <3>1 DEF BInv, InfoOK
  <2> QED BY <2>2, <2>3, <2>4 DEF InfoOK
<1>15. StagedOK'
  <2>1. ASSUME NEW j \in I PROVE First(b)' = lo
    <3> DEFINE S == batches'[b].ids
    <3>1. S = I
      BY <1>5, <1>9
    <3>2. S \in SUBSET Nat /\ lo \in S /\ \A k \in S : lo <= k
      <4>1. I \subseteq Nat /\ \A k \in I : lo <= k
        BY <1>2
      <4>2. j \in Nat /\ lo <= j /\ j <= lo + n - 1
        BY <1>2, <2>1
      <4>3. lo \in I
        BY <1>2, <4>2
      <4> QED BY <3>1, <4>1, <4>3
    <3>3. First(b)' = CHOOSE k \in S : \A l \in S : k <= l
      BY DEF First
    <3> HIDE DEF S
    <3> QED BY <3>2, <3>3, LeastOf
  <2>2. \A x \in BatchIds : x # b => First(x)' = First(x) /\ batches'[x] = batches[x]
    BY <1>9 DEF First
  <2>3. \A j \in I : info[j].batch # b /\ ~(j < lo + 0)
    BY <1>2, <1>5, <1>6, <1>11, JobsFacts
  <2>4. ASSUME NEW x \in BatchIds, NEW j \in batches'[x].ids
        PROVE  /\ batches'[x].status = "staging" => (info[j].batch = x <=> j < First(x)' + batches'[x].count)
               /\ batches'[x].status = "active"  => info[j].batch = x
    <3>1. CASE x = b
      <4>1. j \in I /\ batches'[x] = T
        BY <1>9, <2>4, <3>1
      <4>2. First(x)' + batches'[x].count = lo + 0
        BY <2>1, <3>1, <4>1
      <4> QED BY <2>3, <3>1, <4>1, <4>2
    <3>2. CASE x # b
      BY <2>2, <2>4, <3>2 DEF BInv, StagedOK, Status
    <3> QED BY <3>1, <3>2
  <2> QED BY <2>4 DEF StagedOK, Status
<1>16. KeysOK'
  BY <1>9 DEF BInv, KeysOK, Status
<1>17. ReceiptsOK'
  BY <1>5, <1>9, NoBatchFacts DEF BInv, ReceiptsOK, ReceiptOK, Status
<1>18. CallsOK'
  <2>1. \A d \in Callers \ {c} : calls'[d] = calls[d] /\ calls[d].batch # b
    BY <1>5, <1>9, NoBatchFacts, JobsFacts DEF BInv, CallsOK, CallOK, Status
  <2>2. \A d \in Callers \ {c} : CallOK(calls[d])'
    BY <1>5, <1>9, <2>1, OtherCalls
  <2>3. IdsOf(b, n)'
    BY <1>2, <1>5, <1>9 DEF IdsOf
  <2>4. Cardinality(Places(req, 0)) = 0
    BY NoPlaces
  <2>5. CallOK(C)'
    BY <1>4, <1>5, <1>9, <2>3, <2>4 DEF CallOK, Status
  <2>6. CallOK(calls[c])'
    BY <1>9, <2>5
  <2>7. \A x, d \in Callers : calls'[x].batch # Null /\ calls'[x].batch = calls'[d].batch => x = d
    BY <1>9, <2>1 DEF BInv, CallsOK
  <2> QED BY <2>2, <2>6, <2>7 DEF CallsOK
<1>19. BatchVisibility'
  <2>1. \A j \in Jobs : info[j].batch # Null => batches'[info[j].batch] = batches[info[j].batch]
    BY <1>5, <1>9, NoBatchFacts, TypeFacts DEF BInv, InfoOK
  <2> QED BY <2>1 DEF BInv, BatchVisibility
<1>20. QueueCapacity'
  BY DEF BInv, QueueCapacity, Incomplete
<1>21. StagingHasCaller'
  <2>1. Unattended' \subseteq Unattended
    BY <1>5, <1>9, JobsFacts DEF Unattended, Status
  <2> QED BY <2>1, UnattendedShrinks
<1> QED BY <1>12, <1>13, <1>14, <1>15, <1>16, <1>17, <1>18, <1>19, <1>20, <1>21 DEF BInv

LEMMA BeginStep ==
    ASSUME BInv, NEW c \in Callers, Begin(c)
    PROVE  BInv'
<1> DEFINE req == calls[c].req
           n   == Size(req)
           b   == nextBatch
           I   == nextJob .. nextJob + n - 1
           T   == [NoBatch EXCEPT !.status = "staging", !.client = req.client, !.ids = I]
           C   == [calls[c] EXCEPT !.pc = "stage", !.batch = nextBatch]
<1>1. /\ calls[c].pc = "begin" /\ b <= MaxBatches /\ nextJob + n - 1 <= MaxJobs
      /\ batches' = [batches EXCEPT ![b] = T] /\ calls' = [calls EXCEPT ![c] = C]
      /\ nextBatch' = b + 1 /\ nextJob' = nextJob + n
      /\ UNCHANGED <<rows, info, receipts, requeues, faults>>
  BY DEF Begin, limits
<1>2. /\ calls \in [Callers -> Call] /\ nextJob \in 1 .. MaxJobs + 1 /\ nextBatch \in 1 .. MaxBatches + 1
      /\ MaxJobs \in Nat /\ MaxBatches \in Nat
  BY JobsFacts DEF BInv, TypesOK
<1>3. /\ calls[c] \in Call /\ CallOK(calls[c]) /\ calls[c].batch = Null /\ calls[c].chunk = 1
      /\ req \in Requests
  BY <1>1, <1>2 DEF BInv, CallsOK, CallOK
<1>4. n \in Nat /\ req.client \in Clients
  BY <1>3, SizeFacts, RequestsAssumption DEF BatchOf
<1>5. b \in BatchIds
  BY <1>1, <1>2 DEF BatchIds
<1>6. I \subseteq Jobs
  BY <1>1, <1>2, <1>4 DEF Jobs
<1>7. /\ T \in BatchType /\ T.status = "staging" /\ T.client = req.client /\ T.ids = I
      /\ T.count = 0 /\ T.key = Null
  BY <1>4, <1>6, NoBatchFacts DEF BatchType
<1>8. /\ C \in Call /\ C.pc = "stage" /\ C.batch = b /\ C.req = req /\ C.chunk = 1
  BY <1>3, <1>5 DEF Call
<1> HIDE DEF T, C, I, n
<1>12. n = Size(req)
  BY DEF n
<1>13. I = nextJob .. nextJob + n - 1
  BY DEF I
<1> HIDE DEF req, b
<1>14. b = nextBatch
  BY DEF b
<1> QED BY <1>1, <1>2, <1>3, <1>4, <1>5, <1>7, <1>8, <1>12, <1>13, <1>14, BeginWrites
(***************************************************************************)
(* Stage.                                                                  *)
(***************************************************************************)
LEMMA IntervalSize ==
    ASSUME NEW a \in Nat, NEW n \in Nat, n > 0
    PROVE  IsFiniteSet(a .. a + n - 1) /\ Cardinality(a .. a + n - 1) = n
<1> DEFINE z == a + n - 1
<1>1. z \in Int /\ a \in Int /\ ~(a > z) /\ z - a + 1 = n
  OBVIOUS
<1> HIDE DEF z
<1>2. IsFiniteSet(a .. z) /\ Cardinality(a .. z) = IF a > z THEN 0 ELSE z - a + 1
  BY <1>1, FS_Interval
<1>3. IsFiniteSet(a .. z) /\ Cardinality(a .. z) = n
  BY <1>1, <1>2
<1> QED BY <1>3 DEF z

LEMMA CountUp ==
    ASSUME NEW B \in BatchType, NEW n \in Nat, NEW T, T = [B EXCEPT !.count = B.count + n]
    PROVE  /\ T \in BatchType /\ T.status = B.status /\ T.ids = B.ids /\ T.key = B.key
           /\ T.client = B.client /\ T.count = B.count + n /\ T.hash = B.hash
<1>1. B.count \in Nat /\ B.count + n \in Nat
  BY DEF BatchType
<1> QED BY <1>1 DEF BatchType

StageEffect(c, C, b, n, N, V) ==
    /\ rows' = [j \in Jobs |-> IF j \in N THEN NoRow("staged") ELSE rows[j]]
    /\ info' = [j \in Jobs |-> IF j \in N THEN V[j] ELSE info[j]]
    /\ batches' = [batches EXCEPT ![b].count = @ + n]
    /\ calls' = [calls EXCEPT ![c] = C]
    /\ UNCHANGED <<receipts, nextJob, nextBatch, requeues, faults>>

\* What stage_jobs writes: the rows of chunk i of the request, of n jobs, at the
\* first n ids of batch b that have not been used.
LEMMA StageWrites ==
    ASSUME BInv, NEW c \in Callers, NEW req \in Requests, NEW b \in BatchIds,
           NEW i \in 1 .. Len(req.chunks), NEW n \in Nat, n = Len(req.chunks[i]), n > 0,
           calls[c].pc = "stage", calls[c].req = req, calls[c].batch = b, calls[c].chunk = i,
           batches[b].status = "staging", batches[b].count + n <= MaxBatchSize,
           Incomplete(Jobs) + n <= MaxQueued,
           NEW first \in Nat, first = First(b) + batches[b].count,
           NEW N, N = first .. first + n - 1,
           NEW V \in [N -> InfoType], \A j \in N : V[j].batch = b,
           NEW C \in Call, C.req = req, C.batch = b, C.chunk = i + 1,
           C.pc = IF i >= Len(req.chunks) THEN "activate" ELSE "stage",
           StageEffect(c, C, b, n, N, V)
    PROVE  BInv'
<1> DEFINE T == [batches[b] EXCEPT !.count = @ + n]
           R == NoRow("staged")
<1>0. /\ UNCHANGED <<receipts, nextJob, nextBatch, requeues, faults>>
      /\ b \in Nat /\ nextBatch \in Nat /\ nextJob \in Nat /\ MaxJobs \in Nat /\ BatchIds \subseteq Nat
  <2>1. UNCHANGED <<receipts, nextJob, nextBatch, requeues, faults>>
    BY DEF StageEffect
  <2>2. MaxJobs \in Nat /\ MaxBatches \in Nat /\ BatchIds \subseteq Nat
    BY JobsFacts
  <2>3. nextBatch \in Nat /\ nextJob \in Nat
    BY <2>2 DEF BInv, TypesOK
  <2> QED BY <2>1, <2>2, <2>3
<1>1. /\ calls \in [Callers -> Call] /\ batches \in [BatchIds -> BatchType]
      /\ rows \in [Jobs -> Row] /\ info \in [Jobs -> InfoType]
      /\ calls[c] \in Call /\ CallOK(calls[c]) /\ batches[b] \in BatchType /\ batches[b].count \in Nat
  BY TypeFacts DEF BInv, TypesOK, CallsOK
<1>2. /\ T \in BatchType /\ T.status = "staging" /\ T.ids = batches[b].ids /\ T.key = batches[b].key
      /\ T.client = batches[b].client /\ T.count = batches[b].count + n /\ T.hash = batches[b].hash
  BY <1>1, CountUp
<1>3. RowOK(R) /\ R \in Row /\ R.state = "staged"
  BY NoRowOK
<1>4. batches' = [batches EXCEPT ![b] = T] /\ calls' = [calls EXCEPT ![c] = C]
  BY DEF StageEffect
<1> HIDE DEF T, R
<1>5. /\ batches' \in [BatchIds -> BatchType] /\ calls' \in [Callers -> Call]
      /\ \A x \in BatchIds : batches'[x] = IF x = b THEN T ELSE batches[x]
      /\ \A d \in Callers : calls'[d] = IF d = c THEN C ELSE calls[d]
  BY <1>1, <1>2, <1>4
<1>6. /\ rows' \in [Jobs -> Row] /\ info' \in [Jobs -> InfoType]
      /\ \A j \in Jobs : /\ rows'[j] = IF j \in N THEN R ELSE rows[j]
                         /\ info'[j] = IF j \in N THEN V[j] ELSE info[j]
  BY <1>1, <1>3 DEF R, StageEffect
\* Where the chunk lies among the ids of the batch.
<1>7. /\ n \in Nat /\ Cardinality(Places(req, i)) = Cardinality(Places(req, i - 1)) + n
      /\ Cardinality(Places(req, i)) <= Size(req) /\ Size(req) \in Nat /\ i \in Nat
      /\ Cardinality(Places(req, i - 1)) = batches[b].count /\ Len(req.chunks) \in Nat
  BY <1>1, PlacesStep, SizeFacts DEF CallOK, Status
<1>8. PICK lo \in 1 .. MaxJobs + 1 : batches[b].ids = lo .. lo + Size(req) - 1
  BY <1>1 DEF CallOK, IdsOf
<1>9. lo \in Nat /\ Size(req) > 0 /\ batches[b].count + n <= Size(req)
  <2>1. lo \in Nat
    BY <1>0
  <2>2. batches[b].count + n <= Size(req)
    BY <1>7
  <2> QED BY <1>1, <1>7, <2>1, <2>2
<1>10. First(b) = lo
  BY <1>7, <1>8, <1>9, FirstIs
<1>11. N \subseteq batches[b].ids /\ N \subseteq Jobs /\ \A j \in N : j \in Nat /\ j >= first
  <2>1. first = lo + batches[b].count
    BY <1>10
  <2>2. \A j \in N : j \in Int /\ j >= first /\ j <= first + n - 1
    OBVIOUS
  <2>3. \A j \in N : j >= lo /\ j <= lo + Size(req) - 1
    <3> DEFINE k == batches[b].count
               z == Size(req)
    <3>1. k \in Nat /\ z \in Nat /\ k + n <= z /\ first = lo + k /\ lo \in Nat /\ n \in Nat
      BY <1>1, <1>7, <1>9, <2>1
    <3> HIDE DEF k, z
    <3>2. \A j \in Int : j >= first /\ j <= first + n - 1 => j >= lo /\ j <= lo + z - 1
      <4> TAKE j \in Int
      <4>1. first + n - 1 = lo + (k + n) - 1 /\ lo + (k + n) - 1 <= lo + z - 1
        BY <3>1
      <4>2. first >= lo
        BY <3>1
      <4> QED BY <3>1, <4>1, <4>2
    <3> QED BY <2>2, <3>2 DEF z
  <2>4. N \subseteq batches[b].ids
    BY <1>8, <2>2, <2>3
  <2> QED BY <2>2, <2>4, TypeFacts DEF BInv
<1>12. \A j \in N : rows[j].state = "absent" /\ info[j].batch # b
  <2>1. \A j \in N : ~(j < First(b) + batches[b].count)
    BY <1>11
  <2>2. \A j \in N : info[j].batch # b
    BY <1>11, <2>1 DEF BInv, StagedOK, Status
  <2>3. \A j \in N : rows[j].state = "absent"
    BY <1>11, <2>2 DEF BInv, InfoOK
  <2> QED BY <2>2, <2>3
<1>13. \A x \in BatchIds : x # b => batches[x].ids \cap N = {}
  BY <1>11 DEF BInv, IdsOK
<1>14. \A x \in BatchIds : /\ batches'[x].status = batches[x].status /\ batches'[x].ids = batches[x].ids
                           /\ batches'[x].client = batches[x].client /\ batches'[x].key = batches[x].key
                           /\ batches'[x].hash = batches[x].hash
  BY <1>2, <1>5
<1>15. TypesOK'
  <2>1. \A x \in BatchIds : batches'[x].count <= MaxBatchSize
    BY <1>2, <1>5 DEF BInv, TypesOK
  <2>2. \A j \in Jobs : RowOK(rows'[j])
    BY <1>3, <1>6, TypeFacts DEF BInv
  <2> QED BY <1>0, <1>5, <1>6, <2>1, <2>2 DEF BInv, TypesOK
<1>16. IdsOK'
  <2>1. b < nextBatch
    <3>1. ~(b >= nextBatch)
      BY NoBatchFacts DEF BInv, IdsOK
    <3> QED BY <1>0, <3>1
  <2>2. \A x \in BatchIds : /\ x >= nextBatch => batches'[x] = NoBatch
                            /\ x < nextBatch => batches'[x].status # "absent"
    BY <1>0, <1>5, <1>14, <2>1 DEF BInv, IdsOK, Status
  <2> QED BY <1>0, <1>14, <2>2 DEF BInv, IdsOK, Status
<1>17. KeysOK' /\ ReceiptsOK'
  <2>1. KeysOK'
    BY <1>14 DEF BInv, KeysOK, Status
  <2>2. ReceiptsOK'
    BY <1>0, <1>14 DEF BInv, ReceiptsOK, ReceiptOK, Status
  <2> QED BY <2>1, <2>2
<1>18. InfoOK'
  <2>1. \A j \in Jobs : info'[j].batch # Null => j \in batches'[info'[j].batch].ids
    BY <1>6, <1>11, <1>14, TypeFacts DEF BInv, InfoOK
  <2>2. \A x \in BatchIds : \A j \in batches[x].ids : info'[j].batch = x <=> rows'[j].state # "absent"
    <3>1. \A j \in batches[b].ids : info'[j].batch = b <=> rows'[j].state # "absent"
      BY <1>3, <1>6, TypeFacts DEF BInv, InfoOK
    <3>2. \A x \in BatchIds : x # b => \A j \in batches[x].ids : info'[j].batch = x <=> rows'[j].state # "absent"
      <4>1. \A x \in BatchIds : x # b => \A j \in batches[x].ids : j \in Jobs /\ rows'[j] = rows[j] /\ info'[j] = info[j]
        BY <1>6, <1>13, TypeFacts DEF BInv
      <4> QED BY <4>1 DEF BInv, InfoOK
    <3> QED BY <3>1, <3>2
  <2>3. \A j \in N : ~(j >= nextJob)
    <3>1. N \subseteq 1 .. nextJob - 1
      BY <1>11 DEF BInv, IdsOK
    <3> QED BY <1>0, <3>1
  <2>4. \A j \in Jobs : j >= nextJob' => rows'[j].state = "absent"
    BY <1>0, <1>6, <2>3 DEF BInv, InfoOK
  <2> QED BY <1>14, <2>1, <2>2, <2>4 DEF InfoOK
<1>19. StagedOK'
  <2>1. \A x \in BatchIds : First(x)' = First(x)
    BY <1>14 DEF First
  <2>0. first - batches[b].count + (batches[b].count + n) = first + n
    BY <1>1
  <2>2. ASSUME NEW j \in batches[b].ids PROVE info'[j].batch = b <=> j < First(b)' + batches'[b].count
    <3>1. j \in Jobs /\ j \in Nat /\ First(b)' = first - batches[b].count /\ batches'[b].count = batches[b].count + n
      <4>1. j \in Jobs /\ j \in Nat
        BY TypeFacts, JobsFacts DEF BInv
      <4>2. First(b)' = lo /\ first = lo + batches[b].count
        BY <1>10, <2>1
      <4> QED BY <1>1, <1>2, <1>5, <1>9, <4>1, <4>2
    <3>2. j < First(b)' + batches'[b].count <=> j < first + n
      BY <2>0, <3>1
    <3>3. j \in N <=> (j >= first /\ j < first + n)
      <4>1. j \in N <=> (j >= first /\ j <= first + n - 1)
        BY <3>1
      <4>2. j <= first + n - 1 <=> j < first + n
        BY <3>1
      <4> QED BY <4>1, <4>2
    <3>4. info[j].batch = b <=> j < first
      BY DEF BInv, StagedOK, Status
    <3> QED BY <1>6, <3>1, <3>2, <3>3, <3>4
  <2>3. ASSUME NEW x \in BatchIds, x # b, NEW j \in batches[x].ids
        PROVE  /\ batches'[x].status = "staging" => (info'[j].batch = x <=> j < First(x)' + batches'[x].count)
               /\ batches'[x].status = "active" => info'[j].batch = x
    <3>1. j \notin N /\ j \in Jobs
      BY <1>13, <2>3, TypeFacts DEF BInv
    <3>2. info'[j] = info[j] /\ batches'[x] = batches[x] /\ First(x)' = First(x)
      BY <1>5, <1>6, <2>1, <2>3, <3>1
    <3> QED BY <3>2 DEF BInv, StagedOK, Status
  <2>4. ASSUME NEW x \in BatchIds, NEW j \in batches'[x].ids
        PROVE  /\ batches'[x].status = "staging" => (info'[j].batch = x <=> j < First(x)' + batches'[x].count)
               /\ batches'[x].status = "active" => info'[j].batch = x
    <3>1. j \in batches[x].ids
      BY <1>14, <2>4
    <3>2. CASE x = b
      BY <1>14, <2>2, <3>1, <3>2
    <3>3. CASE x # b
      BY <2>3, <3>1, <3>3
    <3> QED BY <3>2, <3>3
  <2> QED BY <2>4 DEF StagedOK, Status
<1>20. CallsOK'
  <2>1. \A d \in Callers \ {c} : calls'[d] = calls[d] /\ calls[d].batch # b
    BY <1>5, JobsFacts DEF BInv, CallsOK
  <2>2. \A d \in Callers \ {c} : CallOK(calls[d])'
    BY <1>5, <2>1, OtherCalls
  <2>3. IdsOf(b, Size(req))'
    BY <1>1, <1>14 DEF CallOK, IdsOf
  <2>4. batches'[b].count = Cardinality(Places(req, i)) /\ batches'[b].status = "staging"
        /\ batches'[b].client = req.client
    BY <1>1, <1>2, <1>5, <1>7, <1>14 DEF CallOK
  <2>5. C.pc = "activate" => i = Len(req.chunks)
    BY <1>7
  <2>6. C.chunk - 1 = i /\ C.chunk >= 1 /\ C.chunk <= Len(req.chunks) + 1 /\ C.pc \in {"stage", "activate"}
    BY <1>7
  <2>7. C.pc = "activate" => batches'[b].count = Size(req)
    BY <2>4, <2>5 DEF Size
  <2>8. CallOK(C)'
    BY <2>3, <2>4, <2>6, <2>7 DEF CallOK, Status
  <2>9. CallOK(calls[c])'
    BY <1>5, <2>8
  <2>10. \A x, d \in Callers : calls'[x].batch # Null /\ calls'[x].batch = calls'[d].batch => x = d
    BY <1>5, <2>1 DEF BInv, CallsOK
  <2> QED BY <2>2, <2>9, <2>10 DEF CallsOK
<1>21. BatchVisibility'
  BY <1>3, <1>6, <1>14, TypeFacts DEF BInv, BatchVisibility, HasRow
<1>22. QueueCapacity'
  <2>1. IsFiniteSet(N) /\ Cardinality(N) = n
    BY IntervalSize
  <2>2. \A j \in Jobs : rows'[j].state \in IncompleteStates => j \in N \/ rows[j].state \in IncompleteStates
    BY <1>6
  <2> QED BY <1>0, <1>11, <2>1, <2>2, CapacityAdds
<1>23. StagingHasCaller'
  <2>1. Unattended' \subseteq Unattended
    BY <1>5, <1>14 DEF Unattended, Status
  <2> QED BY <1>0, <2>1, UnattendedShrinks
<1> QED BY <1>15, <1>16, <1>17, <1>18, <1>19, <1>20, <1>21, <1>22, <1>23 DEF BInv
LEMMA StageStep ==
    ASSUME BInv, NEW c \in Callers, Stage(c)
    PROVE  BInv'
<1> DEFINE req == calls[c].req
           b   == calls[c].batch
           i   == calls[c].chunk
           n   == Len(req.chunks[i])
           first == First(b) + batches[b].count
           N   == first .. first + n - 1
           Spot(j) == req.chunks[i][j - first + 1]
           V   == [j \in N |-> [batch |-> b, client |-> Spot(j).client, key |-> Spot(j).key]]
           C   == [calls[c] EXCEPT !.chunk = i + 1,
                                   !.pc = IF i >= Len(req.chunks) THEN "activate" ELSE "stage"]
<1>1. calls[c].pc = "stage" /\ calls[c] \in Call /\ CallOK(calls[c])
  BY TypeFacts DEF Stage, BInv, CallsOK
<1>2. req \in Requests /\ b \in BatchIds /\ i \in Nat /\ i >= 1 /\ Len(req.chunks) \in Nat
  BY <1>1, SizeFacts DEF CallOK, Call
<1>3. CASE i > Len(req.chunks) \/ ~ChunkFits(b, req.chunks[i])
  <2>1. Raise(c) /\ UNCHANGED <<rows, info, batches, receipts, nextJob, nextBatch, requeues, faults>>
    BY <1>3 DEF Stage, Rest, limits
  <2> QED BY <1>1, <2>1, RaiseStep
<1>4. CASE ~(i > Len(req.chunks)) /\ ChunkFits(b, req.chunks[i])
  <2>1. i \in 1 .. Len(req.chunks)
    BY <1>2, <1>4
  <2>2. req.chunks \in Seq(Seq(Spec1)) /\ req.chunks[i] # <<>>
    BY <1>2, <2>1, RequestsAssumption DEF BatchOf
  <2>3. req.chunks[i] \in Seq(Spec1) /\ n \in Nat /\ n > 0
    <3>1. \A k \in 1 .. Len(req.chunks) : req.chunks[k] \in Seq(Spec1)
      BY <2>2
    <3>2. req.chunks[i] \in Seq(Spec1)
      BY <2>1, <3>1
    <3> DEFINE q == req.chunks[i]
    <3> HIDE DEF q
    <3>3. q \in Seq(Spec1) /\ q # <<>>
      BY <2>2, <3>2 DEF q
    <3>4. Len(q) \in Nat /\ Len(q) > 0
      BY <3>3
    <3> QED BY <3>2, <3>4 DEF q
  <2>4. /\ batches[b].status = "staging" /\ batches[b].count + n <= MaxBatchSize
        /\ Incomplete(Jobs) + n <= MaxQueued
    BY <1>4 DEF ChunkFits, Fits
  <2>5. PICK lo \in 1 .. MaxJobs + 1 : batches[b].ids = lo .. lo + Size(req) - 1
    BY <1>1 DEF CallOK, IdsOf
  <2>6. /\ Cardinality(Places(req, i)) = Cardinality(Places(req, i - 1)) + n
        /\ Cardinality(Places(req, i)) <= Size(req) /\ Size(req) \in Nat
        /\ Cardinality(Places(req, i - 1)) \in Nat
    <3>1. i - 1 \in 0 .. Len(req.chunks)
      BY <1>2, <2>1
    <3> QED BY <1>2, <2>1, <3>1, PlacesStep, PlacesFinite
  <2>7. first \in Nat
    <3>1. lo \in Nat /\ Size(req) > 0
      BY <2>3, <2>6, JobsFacts
    <3>2. First(b) = lo
      BY <1>2, <2>5, <2>6, <3>1, FirstIs
    <3>3. batches[b].count \in Nat
      BY <1>2, TypeFacts DEF BInv
    <3> QED BY <3>1, <3>2, <3>3
  <2>8. \A j \in N : j - first + 1 \in 1 .. n
    <3> TAKE j \in N
    <3>1. j \in Int /\ first <= j /\ j <= first + n - 1 /\ first \in Nat /\ n \in Nat
      BY <2>3, <2>7
    <3> HIDE DEF first, n
    <3> QED BY <3>1
  <2>9. \A j \in N : Spot(j) \in Spec1
    BY <2>3, <2>8
  <2>10. V \in [N -> InfoType] /\ \A j \in N : V[j].batch = b
    BY <1>2, <2>9 DEF InfoType, Spec1
  <2>11. /\ C \in Call /\ C.req = req /\ C.batch = b /\ C.chunk = i + 1
         /\ C.pc = IF i >= Len(req.chunks) THEN "activate" ELSE "stage"
    <3>1. i + 1 \in Nat
      BY <1>2
    <3>2. [calls[c] EXCEPT !.chunk = i + 1] \in Call
      BY <1>1, <3>1 DEF Call
    <3> QED BY <1>1, <3>1, <3>2 DEF Call
  <2>12. StageEffect(c, C, b, n, N, V)
    <3>1. rows' = [j \in Jobs |-> IF j \in N THEN NoRow("staged") ELSE rows[j]]
      BY <1>1, <1>4 DEF Stage
    <3>2. info' = [j \in Jobs |-> IF j \in N THEN V[j] ELSE info[j]]
      <4>1. info' = [j \in Jobs |-> IF j \in N
                        THEN [batch |-> b, client |-> Spot(j).client, key |-> Spot(j).key] ELSE info[j]]
        BY <1>1, <1>4 DEF Stage
      <4> QED BY <4>1
    <3>3. batches' = [batches EXCEPT ![b].count = @ + n] /\ calls' = [calls EXCEPT ![c] = C]
      BY <1>1, <1>4 DEF Stage, LastChunk
    <3>4. UNCHANGED <<receipts, nextJob, nextBatch, requeues, faults>>
      BY DEF Stage, Rest, limits
    <3> QED BY <3>1, <3>2, <3>3, <3>4 DEF StageEffect
  <2>13. N = first .. first + n - 1 /\ n = Len(req.chunks[i]) /\ first = First(b) + batches[b].count
    OBVIOUS
  <2> HIDE DEF C, V, N, first, n, req, b, i
  <2>14. calls[c].req = req /\ calls[c].batch = b /\ calls[c].chunk = i
    BY DEF req, b, i
  <2>15. /\ req \in Requests /\ b \in BatchIds /\ i \in 1 .. Len(req.chunks)
         /\ n \in Nat /\ n = Len(req.chunks[i]) /\ n > 0
         /\ calls[c].pc = "stage" /\ calls[c].req = req /\ calls[c].batch = b /\ calls[c].chunk = i
         /\ batches[b].status = "staging" /\ batches[b].count + n <= MaxBatchSize
         /\ Incomplete(Jobs) + n <= MaxQueued
    BY <1>1, <1>2, <2>1, <2>3, <2>4, <2>13, <2>14
  <2>16. /\ first \in Nat /\ first = First(b) + batches[b].count /\ N = first .. first + n - 1
         /\ V \in [N -> InfoType] /\ \A j \in N : V[j].batch = b
         /\ C \in Call /\ C.req = req /\ C.batch = b /\ C.chunk = i + 1
         /\ C.pc = IF i >= Len(req.chunks) THEN "activate" ELSE "stage"
         /\ StageEffect(c, C, b, n, N, V)
    BY <2>7, <2>10, <2>11, <2>12, <2>13
  <2> QED BY <2>15, <2>16, StageWrites
<1> QED BY <1>3, <1>4

(***************************************************************************)
(* Batches that are dropped: by a replay, by abort_batch, by an open.      *)
(***************************************************************************)
LEMMA DropStep ==
    ASSUME BInv, NEW B \in SUBSET BatchIds, \A b \in B : Status(b) \in {"staging", "aborted"},
           Drop(B), UNCHANGED <<info, nextJob, nextBatch, requeues>>,
           calls' \in [Callers -> Call], \A d \in Callers : CallOK(calls'[d]),
           \A x, d \in Callers : calls'[x].batch # Null /\ calls'[x].batch = calls'[d].batch => x = d,
           \A r \in receipts' : ReceiptOK(r), faults' \in Nat, StagingHasCaller'
    PROVE  BInv'
<1> DEFINE T(b) == [batches[b] EXCEPT !.status = "aborted", !.count = 0, !.key = Null, !.hash = Null]
<1>1. batches' = [b \in BatchIds |-> IF b \in B THEN T(b) ELSE batches[b]]
  BY DEF Drop
<1>2. \A b \in BatchIds : /\ batches[b] \in BatchType /\ T(b) \in BatchType /\ T(b).status = "aborted"
                          /\ T(b).count = 0 /\ T(b).key = Null /\ T(b).ids = batches[b].ids
                          /\ T(b).client = batches[b].client
  BY TypeFacts DEF BInv, BatchType, Hashes
<1> HIDE DEF T
<1>3. /\ batches' \in [BatchIds -> BatchType]
      /\ \A b \in BatchIds : /\ batches'[b] = IF b \in B THEN T(b) ELSE batches[b]
                             /\ batches'[b].ids = batches[b].ids /\ batches'[b].client = batches[b].client
  BY <1>1, <1>2
<1>4. \A b \in BatchIds : /\ b \in B => batches'[b].status = "aborted" /\ batches'[b].key = Null
                                         /\ batches'[b].count = 0
                          /\ b \notin B => batches'[b] = batches[b]
  BY <1>2, <1>3
<1>5. \A j \in Jobs : /\ rows'[j] = IF HasRow(rows[j]) /\ info[j].batch \in B
                                    THEN NoRow("deleted") ELSE rows[j]
                      /\ RowOK(rows'[j]) /\ rows'[j] \in Row
  BY NoRowOK, TypeFacts DEF BInv, Drop, DropJobs
<1>6. \A j \in Jobs : rows[j].state = "absent" <=> rows'[j].state = "absent"
  BY <1>5, NoRowOK DEF HasRow
<1>7. TypesOK'
  <2>1. rows' \in [Jobs -> Row]
    BY <1>5 DEF Drop, DropJobs
  <2>2. \A b \in BatchIds : batches'[b].count <= MaxBatchSize
    BY <1>4, BoundsAssumption DEF BInv, TypesOK
  <2> QED BY <1>3, <1>5, <2>1, <2>2 DEF BInv, TypesOK
<1>8. IdsOK'
  <2>1. \A b \in B : ~(b >= nextBatch)
    BY NoBatchFacts DEF BInv, IdsOK, Status
  <2>2. \A b \in BatchIds : /\ b >= nextBatch => batches'[b] = NoBatch
                            /\ b < nextBatch => batches'[b].status # "absent"
    BY <1>4, <2>1 DEF BInv, IdsOK, Status
  <2> QED BY <1>3, <2>2 DEF BInv, IdsOK, Status
<1>9. InfoOK'
  BY <1>3, <1>6, TypeFacts DEF BInv, InfoOK
<1>10. StagedOK'
  <2>1. \A b \in BatchIds : First(b)' = First(b)
    BY <1>3 DEF First
  <2> QED BY <1>3, <1>4, <2>1 DEF BInv, StagedOK, Status
<1>11. KeysOK'
  BY <1>3, <1>4 DEF BInv, KeysOK, Status
<1>12. ReceiptsOK'
  BY <1>4 DEF ReceiptsOK, ReceiptOK, Status
<1>13. CallsOK'
  <2>1. ASSUME NEW d \in Callers PROVE CallOK(calls[d])'
    <3> DEFINE D == calls'[d]
    <3>1. CallOK(D)
      OBVIOUS
    <3>2. CASE D.batch \in B
      BY <1>3, <1>4, <3>1, <3>2, JobsFacts DEF CallOK, IdsOf, Status
    <3>3. CASE D.batch \notin B
      BY <1>3, <1>4, <3>1, <3>3 DEF CallOK, IdsOf, Status
    <3> QED BY <3>2, <3>3
  <2> QED BY <2>1 DEF CallsOK
<1>14. BatchVisibility'
  BY <1>4, <1>5, NoRowOK, TypeFacts DEF BInv, BatchVisibility, HasRow
<1>15. QueueCapacity'
  <2>1. \A j \in Jobs : Shrinks(rows[j], rows'[j])
    BY <1>5, NoRowOK DEF Shrinks
  <2> QED BY <2>1, CapacityKept
<1> QED BY <1>7, <1>8, <1>9, <1>10, <1>11, <1>12, <1>13, <1>14, <1>15 DEF BInv

\* The caller returns, the batches dropped are its own.
LEMMA ReturnAndDrop ==
    ASSUME BInv, NEW c \in Callers, NEW B \in SUBSET BatchIds, B \subseteq {calls[c].batch},
           \A b \in B : Status(b) \in {"staging", "aborted"},
           \A b \in BatchIds : b = calls[c].batch /\ Status(b) = "staging" => b \in B,
           Drop(B), Return(c), UNCHANGED <<info, nextJob, nextBatch, requeues, faults>>,
           \A r \in receipts' : ReceiptOK(r)
    PROVE  BInv'
<1>1. /\ calls \in [Callers -> Call] /\ calls' = [calls EXCEPT ![c] = Idle]
      /\ \A d \in Callers : CallOK(calls[d]) /\ faults \in Nat
  BY DEF BInv, TypesOK, CallsOK, Return
<1>2. calls' \in [Callers -> Call] /\ \A d \in Callers : calls'[d] = IF d = c THEN Idle ELSE calls[d]
  BY <1>1, IdleFacts
<1>3. \A d \in Callers : CallOK(calls'[d])
  BY <1>1, <1>2, IdleFacts
<1>4. \A x, d \in Callers : calls'[x].batch # Null /\ calls'[x].batch = calls'[d].batch => x = d
  BY <1>2, IdleFacts DEF BInv, CallsOK
<1>5. Unattended' \subseteq Unattended
  <2>1. \A b \in BatchIds : /\ b \in B => batches'[b].status = "aborted"
                            /\ b \notin B => batches'[b] = batches[b]
    BY TypeFacts DEF BInv, Drop, BatchType
  <2>2. ASSUME NEW b \in Unattended' PROVE b \in Unattended
    <3>1. b \in BatchIds /\ b \notin B /\ batches[b].status = "staging"
          /\ \A d \in Callers : calls'[d].batch # b
      BY <2>1 DEF Unattended, Status
    <3>2. calls[c].batch # b
      BY <3>1 DEF Status
    <3>3. \A d \in Callers : calls[d].batch # b
      BY <1>2, <3>1, <3>2
    <3> QED BY <3>1, <3>3 DEF Unattended, Status
  <2> QED BY <2>2
<1>6. StagingHasCaller' /\ faults' \in Nat
  BY <1>1, <1>5, UnattendedShrinks
<1> QED BY <1>2, <1>3, <1>4, <1>6, DropStep

LEMMA AbortStep ==
    ASSUME BInv, NEW c \in Callers, Abort(c)
    PROVE  BInv'
<1> DEFINE B == {b \in {calls[c].batch} : batches[b].status = "staging"}
<1>1. /\ calls[c].pc = "abort" /\ Drop(B) /\ Return(c)
      /\ UNCHANGED <<info, receipts, nextJob, nextBatch, requeues, faults>>
  BY DEF Abort, Rest, limits
<1>2. calls[c].batch \in BatchIds
  BY <1>1 DEF BInv, CallsOK, CallOK
<1>3. /\ B \in SUBSET BatchIds /\ B \subseteq {calls[c].batch} /\ \A b \in B : Status(b) \in {"staging", "aborted"}
      /\ \A b \in BatchIds : b = calls[c].batch /\ Status(b) = "staging" => b \in B
  BY <1>2 DEF Status
<1>4. \A r \in receipts' : ReceiptOK(r)
  BY <1>1 DEF BInv, ReceiptsOK
<1> HIDE DEF B
<1> QED BY <1>1, <1>3, <1>4, ReturnAndDrop

\* The next process, or a second one, opens the file.
LEMMA OpenStep ==
    ASSUME BInv, CrashAndOpen \/ OpenBeside
    PROVE  BInv'
<1>1. /\ Drop(Orphans) /\ faults' = 0 /\ UNCHANGED <<info, receipts, nextJob, nextBatch, requeues>>
      /\ calls' = [c \in Callers |-> Idle] \/ calls' = calls
  BY DEF CrashAndOpen, OpenBeside, Open
<1>2. Orphans \in SUBSET BatchIds /\ \A b \in Orphans : Status(b) \in {"staging", "aborted"}
  BY DEF Orphans, Status
<1>3. /\ calls' \in [Callers -> Call] /\ \A d \in Callers : CallOK(calls'[d])
      /\ \A x, d \in Callers : calls'[x].batch # Null /\ calls'[x].batch = calls'[d].batch => x = d
  BY <1>1, IdleFacts DEF BInv, TypesOK, CallsOK
<1>4. \A r \in receipts' : ReceiptOK(r)
  BY <1>1 DEF BInv, ReceiptsOK
<1>5. StagingHasCaller'
  <2>1. \A b \in BatchIds : batches'[b].status # "staging"
    BY <1>1, TypeFacts DEF BInv, Drop, Orphans, BatchType
  <2>2. Unattended' = {}
    BY <2>1 DEF Unattended, Status
  <2>3. Cardinality(Unattended') <= faults'
    BY <1>1, <2>2, FS_EmptySet
  <2> QED BY <2>3 DEF StagingHasCaller, Unattended, Status
<1> QED BY <1>1, <1>2, <1>3, <1>4, <1>5, DropStep
(***************************************************************************)
(* Activate.                                                               *)
(***************************************************************************)
ActivateEffect(c, req, b) ==
    /\ rows' = [j \in Jobs |-> IF info[j].batch = b /\ rows[j].state = "staged"
                               THEN [rows[j] EXCEPT !.state = "queued"] ELSE rows[j]]
    /\ batches' = [batches EXCEPT ![b] =
          [@ EXCEPT !.status = "active", !.key = req.key, !.count = Cardinality(Members(b)),
                    !.hash = IF req.key = Null THEN Null ELSE Digest(req)]]
    /\ receipts' = receipts \cup {Receipt(req, b)}
    /\ Return(c)
    /\ UNCHANGED <<info, nextJob, nextBatch, requeues, faults>>

\* A staged row that becomes visible.
LEMMA QueuedMild ==
    ASSUME NEW r, RowOK(r), r.state = "staged"
    PROVE  /\ RowOK([r EXCEPT !.state = "queued"]) /\ [r EXCEPT !.state = "queued"] \in Row
           /\ [r EXCEPT !.state = "queued"].state = "queued"
<1>1. r \in Row
  BY DEF RowOK
<1>2. [r EXCEPT !.state = "queued"] \in Row /\ [r EXCEPT !.state = "queued"].state = "queued"
  BY <1>1 DEF Row
<1> QED BY <1>1, <1>2 DEF RowOK, Row

\* What activate_batch writes when it activates: count is what is found.
LEMMA ActivateWrites ==
    ASSUME BInv, NEW c \in Callers, NEW req \in Requests, NEW b \in BatchIds,
           calls[c].pc = "activate", calls[c].req = req, calls[c].batch = b,
           batches[b].status = "staging", BatchesWithKey(req.client, req.key) \ {b} = {},
           ActivateEffect(c, req, b)
    PROVE  BInv'
<1> DEFINE n == Cardinality(Members(b))
           h == IF req.key = Null THEN Null ELSE Digest(req)
           T == [batches[b] EXCEPT !.status = "active", !.key = req.key, !.count = n, !.hash = h]
<1>0. /\ UNCHANGED <<info, nextJob, nextBatch, requeues, faults>>
      /\ b \in Nat /\ nextBatch \in Nat /\ nextJob \in Nat /\ MaxJobs \in Nat /\ BatchIds \subseteq Nat
      /\ receipts' = receipts \cup {Receipt(req, b)}
  <2>1. UNCHANGED <<info, nextJob, nextBatch, requeues, faults>> /\ receipts' = receipts \cup {Receipt(req, b)}
    BY DEF ActivateEffect
  <2>2. MaxJobs \in Nat /\ MaxBatches \in Nat /\ BatchIds \subseteq Nat
    BY JobsFacts
  <2>3. nextBatch \in Nat /\ nextJob \in Nat
    BY <2>2 DEF BInv, TypesOK
  <2> QED BY <2>1, <2>2, <2>3
<1>1. /\ calls \in [Callers -> Call] /\ batches \in [BatchIds -> BatchType]
      /\ rows \in [Jobs -> Row] /\ info \in [Jobs -> InfoType]
      /\ CallOK(calls[c]) /\ batches[b] \in BatchType /\ batches[b].count \in Nat
  BY TypeFacts DEF BInv, TypesOK, CallsOK
<1>2. /\ batches[b].count = Size(req) /\ batches[b].client = req.client /\ Size(req) \in Nat
      /\ req.key \in Keys \cup {Null} /\ req.client \in Clients
  BY <1>1, SizeFacts, RequestsAssumption DEF CallOK, Status, BatchOf
<1>3. PICK lo \in 1 .. MaxJobs + 1 : batches[b].ids = lo .. lo + Size(req) - 1
  BY <1>1 DEF CallOK, IdsOf
<1>4. lo \in Nat
  BY <1>0
\* Every job of the batch has been staged.
<1>5. \A j \in batches[b].ids : info[j].batch = b
  <2> TAKE j \in batches[b].ids
  <2>1. Size(req) > 0
    BY <1>2, <1>3, <1>4
  <2>2. First(b) = lo
    BY <1>2, <1>3, <1>4, <2>1, FirstIs
  <2>3. j \in Int /\ j <= lo + Size(req) - 1
    BY <1>2, <1>3, <1>4
  <2>4. j < First(b) + batches[b].count
    BY <1>2, <1>4, <2>2, <2>3
  <2> QED BY <2>4 DEF BInv, StagedOK, Status
\* The count that is found is no larger than the one that was staged.
<1>6. n \in Nat /\ n <= MaxBatchSize
  <2>1. Members(b) \subseteq batches[b].ids /\ Members(b) \subseteq Jobs
    BY JobsFacts DEF Members, BInv, InfoOK
  <2>2. batches[b].ids \subseteq Jobs
    BY TypeFacts DEF BInv
  <2>3. IsFiniteSet(batches[b].ids) /\ Cardinality(batches[b].ids) \in Nat /\ n \in Nat
    BY <2>1, <2>2, JobsFacts
  <2>4. n <= Cardinality(batches[b].ids)
    BY <2>1, <2>3, FS_Subset
  <2>5. Cardinality(batches[b].ids) = Size(req)
    <3>1. CASE Size(req) = 0
      <4>1. batches[b].ids = {}
        BY <1>3, <1>4, <3>1
      <4> QED BY <3>1, <4>1, FS_EmptySet
    <3>2. CASE Size(req) > 0
      BY <1>2, <1>3, <1>4, <3>2, IntervalSize
    <3> QED BY <1>2, <3>1, <3>2
  <2>6. Size(req) <= MaxBatchSize /\ MaxBatchSize \in Nat
    BY <1>2, BoundsAssumption DEF BInv, TypesOK
  <2> QED BY <1>2, <2>3, <2>4, <2>5, <2>6
<1> HIDE DEF n
<1>7. h \in Hashes /\ (req.key # Null => h = Digest(req))
  BY DEF Hashes
<1> HIDE DEF h
<1>8. /\ T \in BatchType /\ T.status = "active" /\ T.key = req.key /\ T.count = n /\ T.hash = h
      /\ T.ids = batches[b].ids /\ T.client = batches[b].client
  BY <1>1, <1>2, <1>6, <1>7 DEF BatchType
<1>9. batches' = [batches EXCEPT ![b] = T]
  BY DEF ActivateEffect, n, h
<1> HIDE DEF T
<1>10. /\ batches' \in [BatchIds -> BatchType]
       /\ \A x \in BatchIds : /\ batches'[x] = IF x = b THEN T ELSE batches[x]
                              /\ batches'[x].ids = batches[x].ids /\ batches'[x].client = batches[x].client
  BY <1>1, <1>8, <1>9
<1>11. /\ calls' \in [Callers -> Call]
       /\ \A d \in Callers : calls'[d] = IF d = c THEN Idle ELSE calls[d]
  BY <1>1, IdleFacts DEF ActivateEffect, Return
<1>12. \A j \in Jobs : /\ rows'[j] = IF info[j].batch = b /\ rows[j].state = "staged"
                                     THEN [rows[j] EXCEPT !.state = "queued"] ELSE rows[j]
                       /\ RowOK(rows'[j]) /\ rows'[j] \in Row
                       /\ rows'[j].state = IF info[j].batch = b /\ rows[j].state = "staged"
                                           THEN "queued" ELSE rows[j].state
  <2>1. \A j \in Jobs : rows'[j] = IF info[j].batch = b /\ rows[j].state = "staged"
                                   THEN [rows[j] EXCEPT !.state = "queued"] ELSE rows[j]
    BY DEF ActivateEffect
  <2> TAKE j \in Jobs
  <2>2. RowOK(rows[j]) /\ rows[j] \in Row
    BY TypeFacts DEF BInv
  <2>3. CASE info[j].batch = b /\ rows[j].state = "staged"
    BY <2>1, <2>2, <2>3, QueuedMild
  <2>4. CASE ~(info[j].batch = b /\ rows[j].state = "staged")
    BY <2>1, <2>2, <2>4
  <2> QED BY <2>3, <2>4
<1>13. TypesOK'
  <2>1. rows' \in [Jobs -> Row]
    BY <1>12 DEF ActivateEffect
  <2>2. \A x \in BatchIds : batches'[x].count <= MaxBatchSize
    BY <1>6, <1>8, <1>10 DEF BInv, TypesOK
  <2> QED BY <1>0, <1>10, <1>11, <1>12, <2>1, <2>2 DEF BInv, TypesOK
<1>14. IdsOK'
  <2>1. ~(b >= nextBatch)
    BY NoBatchFacts DEF BInv, IdsOK
  <2>2. \A x \in BatchIds : /\ x >= nextBatch => batches'[x] = NoBatch
                            /\ x < nextBatch => batches'[x].status # "absent"
    BY <1>8, <1>10, <2>1 DEF BInv, IdsOK, Status
  <2> QED BY <1>0, <1>10, <2>2 DEF BInv, IdsOK, Status
<1>15. InfoOK'
  <2>1. \A j \in Jobs : rows'[j].state = "absent" <=> rows[j].state = "absent"
    BY <1>12
  <2>2. \A x \in BatchIds : batches[x].ids \subseteq Jobs
    BY TypeFacts DEF BInv
  <2>3. \A j \in Jobs : info'[j].batch # Null => j \in batches'[info'[j].batch].ids
    BY <1>0, <1>10, TypeFacts DEF BInv, InfoOK
  <2>4. \A x \in BatchIds : \A j \in batches'[x].ids : info'[j].batch = x <=> rows'[j].state # "absent"
    BY <1>0, <1>10, <2>1, <2>2 DEF BInv, InfoOK
  <2>5. \A j \in Jobs : j >= nextJob' => rows'[j].state = "absent"
    BY <1>0, <2>1 DEF BInv, InfoOK
  <2> QED BY <2>3, <2>4, <2>5 DEF InfoOK
<1>16. StagedOK'
  <2>1. \A x \in BatchIds : First(x)' = First(x)
    BY <1>10 DEF First
  <2>2. ASSUME NEW x \in BatchIds, NEW j \in batches'[x].ids
        PROVE  /\ batches'[x].status = "staging" => (info'[j].batch = x <=> j < First(x)' + batches'[x].count)
               /\ batches'[x].status = "active" => info'[j].batch = x
    <3>1. CASE x = b
      BY <1>0, <1>5, <1>8, <1>10, <2>2, <3>1
    <3>2. CASE x # b
      BY <1>0, <1>10, <2>1, <2>2, <3>2 DEF BInv, StagedOK, Status
    <3> QED BY <3>1, <3>2
  <2> QED BY <2>2 DEF StagedOK, Status
<1>17. KeysOK'
  <2>1. \A x \in BatchIds : x # b => batches'[x] = batches[x]
    BY <1>10
  <2>2. batches'[b].key = req.key /\ batches'[b].client = req.client /\ batches'[b].status = "active"
    BY <1>2, <1>8, <1>10
  <2>3. \A x \in BatchIds : x # b /\ req.key # Null /\ batches[x].client = req.client => batches[x].key # req.key
    BY DEF BatchesWithKey
  <2>4. ASSUME NEW x \in BatchIds, NEW y \in BatchIds, batches'[x].key # Null,
               batches'[y].key = batches'[x].key, batches'[y].client = batches'[x].client
        PROVE  batches'[x].status = "active" /\ y = x
    <3>1. CASE x = b /\ y = b
      BY <2>2, <3>1
    <3>2. CASE x = b /\ y # b
      BY <2>1, <2>2, <2>3, <2>4, <3>2
    <3>3. CASE x # b /\ y = b
      BY <2>1, <2>2, <2>3, <2>4, <3>3
    <3>4. CASE x # b /\ y # b
      BY <2>1, <2>4, <3>4 DEF BInv, KeysOK, Status
    <3> QED BY <3>1, <3>2, <3>3, <3>4
  <2> QED BY <2>4 DEF KeysOK, Status
<1>18. ReceiptsOK'
  <2>1. \A r \in receipts : ReceiptOK(r)'
    <3>1. \A r \in receipts : r.batch \in BatchIds /\ r.batch # b /\ ReceiptOK(r)
      BY DEF BInv, ReceiptsOK, ReceiptOK, Status
    <3> QED BY <1>10, <3>1 DEF ReceiptOK, Status
  <2>2. ReceiptOK(Receipt(req, b))'
    BY <1>2, <1>7, <1>8, <1>10 DEF ReceiptOK, Receipt, Status
  <2>3. \A r \in receipts' : ReceiptOK(r)'
    BY <1>0, <2>1, <2>2
  <2> QED BY <2>3 DEF ReceiptsOK
<1>19. \A d \in Callers \ {c} : calls'[d] = calls[d] /\ calls[d].batch # b
  BY <1>11, JobsFacts DEF BInv, CallsOK
<1>20. CallsOK'
  <2>1. \A d \in Callers \ {c} : CallOK(calls[d])'
    BY <1>10, <1>19, OtherCalls
  <2>2. CallOK(Idle)'
    BY DEF CallOK, Idle
  <2>3. CallOK(calls[c])'
    BY <1>11, <2>2
  <2>4. \A x, d \in Callers : calls'[x].batch # Null /\ calls'[x].batch = calls'[d].batch => x = d
    BY <1>11, IdleFacts DEF BInv, CallsOK
  <2> QED BY <2>1, <2>3, <2>4 DEF CallsOK
<1>21. BatchVisibility'
  <2> SUFFICES ASSUME NEW j \in Jobs, HasRow(rows'[j]), info'[j].batch # Null
               PROVE  /\ batches'[info'[j].batch].status \in {"staging", "active"}
                      /\ batches'[info'[j].batch].status = "staging" => rows'[j].state \in {"staged", "cancelled"}
                      /\ rows'[j].state = "staged" => batches'[info'[j].batch].status = "staging"
    BY DEF BatchVisibility
  <2>1. info'[j].batch = info[j].batch /\ info[j].batch \in BatchIds /\ HasRow(rows[j])
    BY <1>0, <1>12, TypeFacts DEF BInv, HasRow
  <2>2. CASE info[j].batch = b
    BY <1>8, <1>10, <1>12, <2>1, <2>2
  <2>3. CASE info[j].batch # b
    <3>1. rows'[j].state = rows[j].state /\ batches'[info[j].batch] = batches[info[j].batch]
      BY <1>10, <1>12, <2>1, <2>3
    <3>2. info[j].batch # Null
      BY <2>1
    <3>3. /\ batches[info[j].batch].status \in {"staging", "active"}
          /\ batches[info[j].batch].status = "staging" => rows[j].state \in {"staged", "cancelled"}
          /\ rows[j].state = "staged" => batches[info[j].batch].status = "staging"
      BY <2>1, <3>2 DEF BInv, BatchVisibility
    <3> QED BY <2>1, <3>1, <3>3
  <2> QED BY <2>2, <2>3
<1>22. QueueCapacity'
  <2>1. \A j \in Jobs : Shrinks(rows[j], rows'[j])
    BY <1>12 DEF Shrinks
  <2> QED BY <1>0, <2>1, CapacityKept
<1>23. StagingHasCaller'
  <2>1. Unattended' \subseteq Unattended
    BY <1>8, <1>10, <1>11, IdleFacts DEF Unattended, Status
  <2> QED BY <1>0, <2>1, UnattendedShrinks
<1> QED BY <1>13, <1>14, <1>15, <1>16, <1>17, <1>18, <1>20, <1>21, <1>22, <1>23 DEF BInv

LEMMA ActivateStep ==
    ASSUME BInv, NEW c \in Callers, Activate(c)
    PROVE  BInv'
<1> DEFINE req == calls[c].req
           b   == calls[c].batch
           others == BatchesWithKey(req.client, req.key) \ {b}
<1>1. /\ calls[c].pc = "activate" /\ calls[c] \in Call /\ CallOK(calls[c])
      /\ UNCHANGED <<info, nextJob, nextBatch, requeues, faults>>
  BY TypeFacts DEF Activate, BInv, CallsOK, Rest, limits
<1>2. req \in Requests /\ b \in BatchIds /\ Status(b) \in {"staging", "aborted"}
  BY <1>1 DEF CallOK
<1>3. ASSUME Drop({b}), receipts' = receipts \cup {Receipt(req, x) : x \in Rival(req, b)}, Return(c)
      PROVE  BInv'
  <2>1. \A x \in Rival(req, b) : x \in BatchIds /\ req.key # Null /\ batches[x].key = req.key
                                 /\ batches[x].client = req.client /\ batches[x].hash = Digest(req)
    BY DEF Rival, BatchesWithKey
  <2>2. \A x \in Rival(req, b) : ReceiptOK(Receipt(req, x))
    BY <2>1 DEF BInv, KeysOK, ReceiptOK, Receipt
  <2>3. \A r \in receipts' : ReceiptOK(r)
    BY <1>3, <2>2 DEF BInv, ReceiptsOK
  <2> DEFINE B == {b}
  <2>4. /\ B \in SUBSET BatchIds /\ B \subseteq {calls[c].batch} /\ \A x \in B : Status(x) \in {"staging", "aborted"}
        /\ \A x \in BatchIds : x = calls[c].batch /\ Status(x) = "staging" => x \in B
    BY <1>2
  <2>5. Drop(B) /\ Return(c)
    BY <1>3
  <2> HIDE DEF B
  <2> QED BY <1>1, <2>3, <2>4, <2>5, ReturnAndDrop
<1>4. ASSUME Raise(c), UNCHANGED <<rows, batches, receipts>> PROVE BInv'
  BY <1>1, <1>4, RaiseStep
<1>5. ASSUME others = {}, batches[b].status = "staging", ActivateEffect(c, req, b) PROVE BInv'
  BY <1>1, <1>2, <1>5, ActivateWrites
<1>6. \/ Drop({b}) /\ receipts' = receipts \cup {Receipt(req, x) : x \in Rival(req, b)} /\ Return(c)
      \/ Raise(c) /\ UNCHANGED <<rows, batches, receipts>>
      \/ others = {} /\ batches[b].status = "staging" /\ ActivateEffect(c, req, b)
  BY <1>1 DEF Activate, ActivateEffect
<1> QED BY <1>3, <1>4, <1>5, <1>6

LEMMA InputFailsStep ==
    ASSUME BInv, NEW c \in Callers, InputFails(c)
    PROVE  BInv'
BY RaiseStep DEF InputFails

(***************************************************************************)
(* The theorems.                                                           *)
(***************************************************************************)
LEMMA BatchesInit == Init => BInv
<1> SUFFICES ASSUME Init PROVE BInv
  OBVIOUS
<1>1. /\ \A j \in Jobs : rows[j] = NoRow("absent") /\ info[j] = NoInfo
      /\ \A b \in BatchIds : batches[b] = NoBatch
      /\ \A c \in Callers : calls[c] = Idle
      /\ receipts = {} /\ nextJob = 1 /\ nextBatch = 1 /\ requeues = 0 /\ faults = 0
  BY DEF Init
<1>2. \A j \in Jobs : RowOK(rows[j]) /\ rows[j] \in Row /\ rows[j].state = "absent"
  BY <1>1, NoRowOK
<1>3. NoInfo \in InfoType /\ NoInfo.batch = Null
  BY DEF NoInfo, InfoType
<1>4. TypesOK
  BY <1>1, <1>2, <1>3, NoBatchFacts, IdleFacts, BoundsAssumption DEF Init, TypesOK
<1>5. IdsOK /\ InfoOK /\ StagedOK /\ KeysOK /\ ReceiptsOK
  <2>1. \A b \in BatchIds : b >= 1
    BY BoundsAssumption DEF BatchIds
  <2>2. \A b \in BatchIds : batches[b].ids = {} /\ batches[b].key = Null
    BY <1>1, NoBatchFacts
  <2>3. IdsOK
    BY <1>1, <2>1, <2>2, JobsFacts DEF IdsOK, Status
  <2>4. InfoOK /\ StagedOK /\ KeysOK /\ ReceiptsOK
    BY <1>1, <1>2, <1>3, <2>2 DEF InfoOK, StagedOK, KeysOK, ReceiptsOK
  <2> QED BY <2>3, <2>4
<1>6. CallsOK /\ BatchVisibility
  BY <1>1, <1>2, <1>3, IdleFacts DEF CallsOK, BatchVisibility
<1>7. QueueCapacity
  <2>1. {j \in Jobs : rows[j].state \in IncompleteStates} = {}
    BY <1>2
  <2> QED BY <1>1, <2>1, FS_EmptySet, BoundsAssumption DEF QueueCapacity, Incomplete
<1>8. StagingHasCaller
  <2>1. {b \in BatchIds : batches[b].status = "staging" /\ \A c \in Callers : calls[c].batch # b} = {}
    BY <1>1, NoBatchFacts
  <2> QED BY <1>1, <2>1, FS_EmptySet DEF StagingHasCaller
<1> QED BY <1>4, <1>5, <1>6, <1>7, <1>8 DEF BInv

LEMMA BatchesStutter == BInv /\ UNCHANGED vars => BInv'
<1> SUFFICES ASSUME BInv, UNCHANGED vars PROVE BInv'
  OBVIOUS
<1>1. UNCHANGED <<info, batches, calls, receipts, nextJob, nextBatch, faults, requeues, rows>>
  BY DEF vars, limits
<1>2. rows' \in [Jobs -> Row] /\ requeues' \in Nat /\ \A j \in Jobs : rows'[j] = rows[j] /\ RowOK(rows[j])
  BY <1>1 DEF BInv, TypesOK
<1>3. \A j \in Jobs : Mild(rows[j], rows'[j]) /\ Shrinks(rows[j], rows'[j])
  BY <1>2, SameMild
<1> QED BY <1>1, <1>2, <1>3, RowsStep, CapacityKept DEF BInv, Links

LEMMA BatchesNext == BInv /\ [Next]_vars => BInv'
<1> SUFFICES ASSUME BInv, Next PROVE BInv'
  BY BatchesStutter
<1>1. CASE \E s \in Singles : Submit(s)
  BY <1>1, SubmitStep
<1>2. ASSUME NEW c \in Callers,
             \/ Begin(c) \/ Stage(c) \/ InputFails(c) \/ Activate(c) \/ Abort(c) \/ AbortFails(c)
             \/ \E req \in Requests : Enter(c, req)
      PROVE  BInv'
  BY <1>2, BeginStep, StageStep, InputFailsStep, ActivateStep, AbortStep, AbortFailsStep, EnterStep
<1>3. ASSUME NEW j \in Jobs,
             \/ CancelJob(j) \/ Start(j) \/ End(j) \/ RequeueJob(j) \/ \E o \in Owners : Claim(j, o)
      PROVE  BInv'
  BY <1>3, WorkStep, RequeueStep
<1>4. CASE (\E b \in BatchIds : CancelBatch(b)) \/ Cleanup
  BY <1>4, WorkStep
<1>5. CASE CrashAndOpen \/ OpenBeside
  BY <1>5, OpenStep
<1> QED BY <1>1, <1>2, <1>3, <1>4, <1>5 DEF Next

\* The invariant that the properties below rest on: the place of every caller in
\* submit_batch, the row of its batch and the rows of its jobs fit together,
\* for any callers, requests, chunks, openers of the file and failed aborts.
THEOREM BatchesInvariance == Spec => []BInv
<1> QED BY BatchesInit, BatchesNext, PTL DEF Spec

\* Every variable of submission keeps its type; no batch counts more jobs than
\* max_batch_size.
THEOREM BatchesTypeCorrect == Spec => []TypeOK
<1>1. BInv => TypeOK
  <2> SUFFICES ASSUME BInv PROVE TypeOK
    OBVIOUS
  <2>1. rows \in [Jobs -> Row] /\ calls \in [Callers -> Call]
        /\ nextJob \in 1 .. MaxJobs + 1 /\ nextBatch \in 1 .. MaxBatches + 1
    BY DEF BInv, TypesOK
  <2>2. \A b \in BatchIds : batches[b].count \in 0 .. MaxBatchSize
    BY TypeFacts, BoundsAssumption DEF BInv, TypesOK
  <2> QED BY <2>1, <2>2, TypeFacts DEF BInv, TypeOK
<1> QED BY <1>1, BatchesInvariance, PTL

\* No worker sees part of a batch: before activate_batch its jobs are staged or
\* cancelled, afterwards none is staged.
THEOREM BatchVisibilityHolds == Spec => []BatchVisibility
<1>1. BInv => BatchVisibility
  BY DEF BInv
<1> QED BY <1>1, BatchesInvariance, PTL

\* A batch is submitted whole or not at all, whatever chunks, rejected inputs,
\* replays, crashes and other openers come in between.
THEOREM AllOrNothingHolds == Spec => []AllOrNothing
<1>1. BInv => AllOrNothing
  <2> SUFFICES ASSUME BInv, NEW b \in BatchIds, NEW j \in batches[b].ids
               PROVE  /\ batches[b].status = "active"  => rows[j].state # "absent"
                      /\ batches[b].status = "aborted" => ~HasRow(rows[j])
    BY DEF AllOrNothing
  <2>1. j \in Jobs /\ (info[j].batch = b <=> rows[j].state # "absent")
    BY TypeFacts DEF BInv, InfoOK
  <2>2. batches[b].status = "active" => info[j].batch = b
    BY DEF BInv, StagedOK, Status
  <2>3. HasRow(rows[j]) => info[j].batch = b /\ info[j].batch # Null
    BY <2>1, JobsFacts DEF HasRow
  <2>4. HasRow(rows[j]) => batches[b].status \in {"staging", "active"}
    BY <2>1, <2>3 DEF BInv, BatchVisibility
  <2> QED BY <2>1, <2>2, <2>4
<1> QED BY <1>1, BatchesInvariance, PTL

\* Callers that used one key were told one batch, sent one payload, and that
\* batch is active, whichever of them activated first.
THEOREM ReceiptsAgreeHolds == Spec => []ReceiptsAgree
<1>1. BInv => ReceiptsAgree
  <2> SUFFICES ASSUME BInv PROVE ReceiptsAgree
    OBVIOUS
  <2>1. \A r \in receipts : ReceiptOK(r)
    BY DEF BInv, ReceiptsOK
  <2> QED BY <2>1 DEF BInv, KeysOK, ReceiptOK, ReceiptsAgree, Status
<1> QED BY <1>1, BatchesInvariance, PTL

\* A batch left in staging without its caller is the doing of an abort that
\* failed since the file was last opened.
THEOREM StagingHasCallerHolds == Spec => []StagingHasCaller
<1>1. BInv => StagingHasCaller
  BY DEF BInv
<1> QED BY <1>1, BatchesInvariance, PTL

\* Submission never takes the queue past max_queued_jobs, however many callers
\* stage at once; only manual requeues can, each by one.
THEOREM QueueCapacityHolds == Spec => []QueueCapacity
<1>1. BInv => QueueCapacity
  BY DEF BInv
<1> QED BY <1>1, BatchesInvariance, PTL
=============================================================================
