---------------------------- MODULE HybridQueue ----------------------------
(***************************************************************************)
(* Hybrid mode: the jobs table is the truth, and an index in memory (the    *)
(* ReadyIndex) is a hint of which jobs are ready.  Every operation is a     *)
(* transaction and then, under the index lock, a change of the index; other *)
(* threads come in between.  A section under the lock is one step.          *)
(*                                                                         *)
(* Jobs are numbered in the order of a lane's heap: higher priority first,  *)
(* then older.  Every model has a free slot whenever it is visited.         *)
(***************************************************************************)
EXTENDS QueueRows, FiniteSetsExt

CONSTANTS Callers,      \* threads that submit, cancel and requeue
          MaxJobs,      \* bound on jobs
          BatchJobs,    \* those that come as one batch
          LaneOf,       \* scheduling class and client of each job
          Delays,
          NativeBatch,  \* max_native_batch_size
          Scopes,       \* who calls, which jobs come, with what max_attempts and deadline
          MaxTries,     \* proposals one claim_next tries (64 in the code)
          MaxDetours    \* bound on requeues and retargeted attempts together

Jobs == 1 .. MaxJobs

ASSUME HybridAssumption ==
    /\ MaxJobs \in Nat /\ BatchJobs \subseteq Jobs /\ DOMAIN LaneOf = Jobs
    /\ Delays \subseteq Nat /\ Models # {} /\ Owners # {}
    /\ Null \notin Models \X {LaneOf[j] : j \in Jobs}
    /\ NativeBatch \in Nat \ {0}
    /\ Scopes \subseteq [callers : SUBSET Callers, jobs : SUBSET Jobs,
                       attempts : Nat \ {0}, deadline : Instant]
    /\ Scopes # {}
    /\ MaxTries \in Nat \ {0} /\ MaxDetours \in Nat

VARIABLES rows,     \* the jobs table
          live,     \* ReadyIndex._live: the lane of each hinted job
          heaps,    \* ReadyIndex._heaps: entries per lane, dead ones too
          loop,     \* where the dispatcher is
          op,       \* the index change each caller still has to make
          aged,     \* has reconcile_interval_s passed since the last rebuild?
          origin,   \* how a job last became queued, or that it was requeued before
          detours

vars  == <<rows, live, heaps, loop, op, aged, origin, detours>>
index == <<live, heaps>>

Lanes == Models \X {LaneOf[j] : j \in Jobs}
Worker == CHOOSE o \in Owners : TRUE

NoRow(s, n, d) ==
            [state |-> s, attempt_count |-> 0, max_attempts |-> n, lease_owner |-> Null,
             lease_expires_at |-> Null, not_before |-> Null, deadline_at |-> d,
             cancel_requested |-> FALSE, finished_at |-> FALSE,
             resolved_model |-> CHOOSE m \in Models : TRUE]

NoOp     == [kind |-> "none", job |-> 0, model |-> Null]
Away     == [NoOp EXCEPT !.kind = "away"]
IdleLoop == [pc |-> "idle", left |-> {}, model |-> Null, cand |-> 0, tries |-> 0, fin |-> {}, req |-> {}]

\* An absent row is a job to come.  A caller outside the scope never calls, a
\* job outside it never comes.
Init ==
    /\ \E s \in Scopes :
          /\ op = [c \in Callers |-> IF c \in s.callers THEN NoOp ELSE Away]
          /\ rows = [j \in Jobs |-> NoRow(IF j \in s.jobs THEN "absent" ELSE "deleted",
                                         s.attempts, s.deadline)]
    /\ live = [j \in Jobs |-> Null] /\ heaps = [l \in Lanes |-> {}]
    /\ loop = IdleLoop
    /\ aged = FALSE /\ origin = [j \in Jobs |-> "none"]
    /\ detours = 0

(***************************************************************************)
(* ReadyIndex.                                                             *)
(***************************************************************************)
LaneIn(j, m) == <<m, LaneOf[j]>>

\* Mutant of Pushed: no new entry for a job that had a hint before.
PushedOnce(l, j) == [heaps EXCEPT ![l] = IF live[j] = Null THEN @ \cup {j} ELSE @]

Pushed(l, j) == [heaps EXCEPT ![l] = @ \cup {j}]

\* add: a dead entry of the lane comes back to life, an entry elsewhere dies.
AddHint(j, m) ==
    /\ live'  = [live EXCEPT ![j] = LaneIn(j, m)]
    /\ heaps' = Pushed(LaneIn(j, m), j)

\* remove is lazy: the entries stay.
RemoveHints(S) == live' = [j \in Jobs |-> IF j \in S THEN Null ELSE live[j]] /\ UNCHANGED heaps

Alive(l)  == {j \in heaps[l] : live[j] = l}
HeadOf(l) == Min(Alive(l))

\* _pop_dead: entries before the first live one go.
Trimmed(l) == IF Alive(l) = {} THEN {} ELSE {j \in heaps[l] : j >= HeadOf(l)}

Ready == {j \in Jobs : rows[j].state = "queued"}

\* rebuild from ready_candidates.
Rebuild ==
    /\ live'  = [j \in Jobs |-> IF j \in Ready THEN LaneIn(j, rows[j].resolved_model) ELSE Null]
    /\ heaps' = [l \in Lanes |-> {j \in Ready : LaneIn(j, rows[j].resolved_model) = l}]
    /\ aged'  = FALSE

(***************************************************************************)
(* The callers: the transaction, then the change of the index.             *)
(***************************************************************************)
Later(c, kind, j) ==
    /\ op[c] = NoOp
    /\ op' = [op EXCEPT ![c] = [kind |-> kind, job |-> j, model |-> rows'[j].resolved_model]]
IndexStays == UNCHANGED <<live, heaps, aged, loop>>

\* enqueue; a replay of a queued job adds its hint again.
Enqueue(c, j) ==
    /\ j \notin BatchJobs /\ rows[j].state \in {"absent", "queued"}
    /\ \/ rows[j].state = "queued" /\ UNCHANGED <<rows, origin>>
       \/ /\ rows[j].state = "absent"
          /\ rows' = [rows EXCEPT ![j].state = "queued"]
          /\ origin' = [origin EXCEPT ![j] = "submitted"]
    /\ Later(c, "add", j)
    /\ IndexStays /\ UNCHANGED detours

\* stage_jobs leaves the index alone.
Stage ==
    /\ \A j \in BatchJobs : rows[j].state = "absent"
    /\ BatchJobs # {}
    /\ rows' = [j \in Jobs |-> IF j \in BatchJobs THEN [rows[j] EXCEPT !.state = "staged"] ELSE rows[j]]
    /\ IndexStays /\ UNCHANGED <<op, origin, detours>>

\* activate_batch, when it activates: the whole index is rebuilt.
Activate(c) ==
    LET staged == {j \in BatchJobs : rows[j].state = "staged"} IN
    /\ staged # {}
    /\ rows' = [j \in Jobs |-> IF j \in staged THEN [rows[j] EXCEPT !.state = "queued"] ELSE rows[j]]
    /\ origin' = [j \in Jobs |-> IF j \in staged THEN "submitted" ELSE origin[j]]
    /\ Later(c, "rebuild", CHOOSE j \in staged : TRUE)
    /\ IndexStays /\ UNCHANGED detours

CancelJob(c, j) ==
    /\ HasRow(rows[j])
    /\ rows' = [rows EXCEPT ![j] = Cancel(@)]
    /\ Later(c, "remove", j)
    /\ IndexStays /\ UNCHANGED <<origin, detours>>

CancelBatch(c) ==
    /\ \E j \in BatchJobs : HasRow(rows[j])
    /\ rows' = [j \in Jobs |-> IF j \in BatchJobs THEN Cancel(rows[j]) ELSE rows[j]]
    /\ Later(c, "rebuild", CHOOSE j \in BatchJobs : TRUE)
    /\ IndexStays /\ UNCHANGED <<origin, detours>>

RequeueJob(c, j) ==
    /\ Requeueable(rows[j]) /\ detours < MaxDetours
    /\ rows' = [rows EXCEPT ![j] = Requeue(@)]
    /\ origin' = [origin EXCEPT ![j] = "requeued"]
    /\ detours' = detours + 1
    /\ Later(c, "add", j)
    /\ IndexStays

ChangeIndex(c) ==
    LET o == op[c] IN
    /\ o # NoOp
    /\ \/ o.kind = "add" /\ AddHint(o.job, o.model) /\ UNCHANGED aged
       \/ o.kind = "remove" /\ RemoveHints({o.job}) /\ UNCHANGED aged
       \/ o.kind = "rebuild" /\ Rebuild
    /\ op' = [op EXCEPT ![c] = NoOp]
    /\ UNCHANGED <<rows, loop, origin, detours>>

(***************************************************************************)
(* The dispatcher: maintenance, then claim_next for each model until it     *)
(* finds nothing, with claim_compatible after each hit.                     *)
(***************************************************************************)
CallersStay == UNCHANGED <<op, detours>>

Maintain ==
    LET after == [j \in Jobs |-> Maintenance(rows[j])]
        \* report.requeued, and report.finished
        back  == {j \in Jobs : \/ ExpireSql(rows[j]).state = "queued" /\ rows[j].state # "queued"
                               \/ rows[j].state = "retry_wait" /\ Due(rows[j].not_before)}
        ended == {j \in Jobs : IsTerminal(after[j]) /\ ~IsTerminal(rows[j])}
    IN
    /\ loop.pc = "idle"
    /\ rows' = after
    /\ loop' = [IdleLoop EXCEPT !.pc = "report", !.left = Models, !.fin = ended, !.req = back]
    /\ origin' = [j \in Jobs |-> IF j \in back /\ origin[j] # "requeued" THEN "returned" ELSE origin[j]]
    /\ UNCHANGED <<live, heaps, aged>> /\ CallersStay

\* Mutant of Report: only what ended is taken from the report.
ReportEndedOnly ==
    /\ loop.pc = "report"
    /\ RemoveHints(loop.fin)
    /\ loop' = [loop EXCEPT !.pc = "visit", !.fin = {}, !.req = {}]
    /\ UNCHANGED <<rows, aged, origin>> /\ CallersStay

\* The index after maintenance: each job that came back is read again.
Report ==
    LET add == {j \in loop.req : rows[j].state = "queued"}
        lane(j) == LaneIn(j, rows[j].resolved_model)
    IN
    /\ loop.pc = "report"
    /\ live' = [j \in Jobs |-> IF j \in add THEN lane(j)
                               ELSE IF j \in loop.fin \cup loop.req THEN Null ELSE live[j]]
    /\ heaps' = [l \in Lanes |-> heaps[l] \cup {j \in add : lane(j) = l}]
    /\ loop' = [loop EXCEPT !.pc = "visit", !.fin = {}, !.req = {}]
    /\ UNCHANGED <<rows, aged, origin>> /\ CallersStay

\* Mutant of Reconcile: time alone is looked at, and reset.
ReconcileForgets ==
    /\ loop.pc = "visit" /\ loop.left # {} /\ aged
    /\ aged' = FALSE
    /\ UNCHANGED <<rows, live, heaps, loop, origin>> /\ CallersStay

\* maybe_reconcile, first thing in claim_next.
Reconcile ==
    /\ loop.pc = "visit" /\ loop.left # {} /\ aged
    /\ Rebuild
    /\ UNCHANGED <<rows, loop, origin>> /\ CallersStay

\* The models are visited in the order of the settings, whatever it is.
First(S) == CHOOSE m \in S : TRUE

NextModel(m) == IF loop.left = {m} THEN IdleLoop
                ELSE [IdleLoop EXCEPT !.pc = "visit", !.left = loop.left \ {m}]

\* propose: any lane's head may be the scheduler's choice.
Propose(m) ==
    /\ loop.left # {} /\ m = First(loop.left)
    /\ \/ loop.pc = "visit" /\ ~aged
       \/ loop.pc = "again"
    /\ heaps' = [l \in Lanes |-> IF l[1] = m THEN Trimmed(l) ELSE heaps[l]]
    /\ LET heads == {HeadOf(l) : l \in {x \in Lanes : x[1] = m /\ Alive(x) # {}}} IN
       \/ heads = {} /\ loop' = NextModel(m)
       \/ \E j \in heads : loop' = [loop EXCEPT !.pc = "claim", !.model = m, !.cand = j]
    /\ UNCHANGED <<rows, live, aged, origin>> /\ CallersStay

\* claim_by_id: the row decides, and its model is not compared with the lane's.
\* Nothing makes a claimed row ready again before the hint goes, so a claim that
\* succeeds and the removal of its hint are one step.
ClaimById ==
    LET j == loop.cand IN
    /\ loop.pc = "claim"
    /\ rows' = [rows EXCEPT ![j] = ClaimSql(@, Worker, TRUE)]
    /\ IF Claimable(rows[j], TRUE)
       THEN RemoveHints({j}) /\ loop' = [loop EXCEPT !.pc = "more", !.cand = 0, !.tries = 0]
       ELSE UNCHANGED <<live, heaps>> /\ loop' = [loop EXCEPT !.pc = "lost"]
    /\ UNCHANGED <<aged, origin>> /\ CallersStay

\* The claim failed: the hint goes all the same, and the next one is tried, up
\* to a limit; claim_next then answers that the model has nothing.
DropHint ==
    /\ loop.pc = "lost"
    /\ RemoveHints({loop.cand})
    /\ loop' = IF loop.tries + 1 < MaxTries
               THEN [loop EXCEPT !.pc = "again", !.cand = 0, !.tries = @ + 1]
               ELSE NextModel(loop.model)
    /\ UNCHANGED <<rows, aged, origin>> /\ CallersStay

\* claim_compatible takes rows from the database, hint or no hint.
ClaimMore ==
    LET fit == {j \in Jobs : Claimable(rows[j], TRUE) /\ rows[j].resolved_model = loop.model} IN
    /\ loop.pc = "more"
    /\ \E S \in SUBSET fit :
          /\ Cardinality(S) <= NativeBatch - 1
          /\ rows' = [j \in Jobs |-> IF j \in S THEN ClaimSql(rows[j], Worker, TRUE) ELSE rows[j]]
          /\ RemoveHints(S)
    /\ loop' = [loop EXCEPT !.pc = "visit", !.model = Null]
    /\ UNCHANGED <<aged, origin>> /\ CallersStay

(***************************************************************************)
(* The tasks run while the dispatcher waits.  None of their calls touches   *)
(* the index: HybridBackend passes them straight to SQLite.                 *)
(***************************************************************************)
TaskCall(j) == loop.pc = "idle" /\ UNCHANGED <<live, heaps, loop, op, aged>>

Start(j) ==
    /\ TaskCall(j) /\ rows[j].state = "leased"
    /\ rows' = [rows EXCEPT ![j] = MarkRunning(@, Worker)]
    /\ UNCHANGED <<origin, detours>>

Settle(j) ==
    /\ TaskCall(j) /\ rows[j].state = "running"
    /\ \/ rows' = [rows EXCEPT ![j] = Complete(@, Worker)]
       \/ rows' = [rows EXCEPT ![j] = Fail(@, Worker, FALSE)]
       \/ /\ rows[j].attempt_count < rows[j].max_attempts
          /\ \E d \in Delays, m \in Models : rows' = [rows EXCEPT ![j] = Retry(@, Worker, d, m)]
    /\ UNCHANGED <<origin, detours>>

\* release_to_queue: the job is to run on another model.
Release(j, m) ==
    /\ TaskCall(j) /\ rows[j].state = "running" /\ detours < MaxDetours
    /\ rows' = [rows EXCEPT ![j] = ReleaseSql(@, Worker, m)]
    /\ origin' = [origin EXCEPT ![j] = IF @ = "requeued" THEN @ ELSE "released"]
    /\ detours' = detours + 1

Tick ==
    /\ rows' = [j \in Jobs |-> IF HasRow(rows[j]) THEN Elapse(rows[j]) ELSE rows[j]]
    /\ aged' = TRUE
    /\ UNCHANGED <<live, heaps, loop, op, origin, detours>>

Dispatch == \/ Maintain \/ Report \/ Reconcile \/ ClaimById \/ DropHint \/ ClaimMore
            \/ \E m \in Models : Propose(m)

Next ==
    \/ Dispatch \/ Tick \/ Stage
    \/ \E c \in Callers : \/ Activate(c) \/ CancelBatch(c) \/ ChangeIndex(c)
                          \/ \E j \in Jobs : Enqueue(c, j) \/ CancelJob(c, j) \/ RequeueJob(c, j)
    \/ \E j \in Jobs : Start(j) \/ Settle(j) \/ \E m \in Models : Release(j, m)

\* The dispatcher keeps going round, callers finish their calls, time passes.
Spec == /\ Init /\ [][Next]_vars
        /\ WF_vars(Dispatch) /\ WF_vars(Tick) /\ \A c \in Callers : WF_vars(ChangeIndex(c))

(***************************************************************************)
(* Properties.                                                             *)
(***************************************************************************)
Op   == [kind : {"none", "away", "add", "remove", "rebuild"}, job : Jobs \cup {0},
         model : Models \cup {Null}]
Loop == [pc : {"idle", "report", "visit", "again", "claim", "lost", "more"},
         left : SUBSET Models, model : Models \cup {Null}, cand : Jobs \cup {0}, tries : Nat,
         fin : SUBSET Jobs, req : SUBSET Jobs]

\* Every variable has its type; a hint to come names a job and a model.
TypeOK ==
    /\ rows \in [Jobs -> Row] /\ live \in [Jobs -> Lanes \cup {Null}]
    /\ heaps \in [Lanes -> SUBSET Jobs] /\ loop \in Loop /\ op \in [Callers -> Op]
    /\ \A c \in Callers : op[c].kind = "add" => op[c].job \in Jobs /\ op[c].model \in Models
    /\ aged \in BOOLEAN /\ detours \in Nat
    /\ origin \in [Jobs -> {"none", "submitted", "returned", "released", "requeued"}]

\* Lazy deletion never loses a hint: a job the index holds to be live has an
\* entry in the heap of its lane.
LiveHasEntry == \A j \in Jobs : live[j] # Null => j \in heaps[live[j]]

\* A call in flight that will give the job its hint.
OnItsWay(j) == \/ \E c \in Callers : op[c].kind = "rebuild" \/ (op[c].kind = "add" /\ op[c].job = j)
               \/ loop.pc = "report" /\ j \in loop.req

\* A job that was submitted, activated, promoted or recovered has its hint, or
\* a call in flight will give it one, whatever claims, cancellations and rebuilds
\* come in between.  (A job that was released, or ever requeued, may have to wait for reconcile.)
HintOrOnItsWay ==
    \A j \in Jobs : Claimable(rows[j], TRUE) /\ origin[j] \in {"submitted", "returned"}
                    => live[j] # Null \/ OnItsWay(j)

\* No ready job stays out of the index for good: not even one that was
\* released, or whose new hint a failed claim took away.
HintsComeBack ==
    \A j \in Jobs : Claimable(rows[j], TRUE) ~> (live[j] # Null \/ ~Claimable(rows[j], TRUE))
=============================================================================
