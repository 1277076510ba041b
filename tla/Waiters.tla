------------------------------ MODULE Waiters ------------------------------
(***************************************************************************)
(* Who learns that a job has ended: wait(), in-process callbacks, and the   *)
(* _deliver() that wakes and calls them.                                    *)
(*                                                                         *)
(* Events and callbacks are kept per job, so one job is enough.  Callers'   *)
(* threads interleave at every access to the database, the event or the     *)
(* callback table.  How an attempt runs is Executor.tla; here the job is    *)
(* open ("queued" stands for every incomplete state) or has ended.          *)
(***************************************************************************)
EXTENDS KeziahTypes, Sequences

CONSTANTS Null,
          Waiters,      \* threads in wait()
          Submitters,   \* threads in submit() with a callback and the same idempotency key
          Cancellers,   \* threads in cancel()
          Loop,         \* the dispatcher's thread
          Endings,      \* terminal states an attempt or the sweep leads to
          MaxLost,      \* bound on attempts that end without their lease
          MaxRequeues, MaxBatchCancels  \* bounds on requeues and on cancel_batch

ASSUME WaitersAssumption ==
    /\ Endings \subseteq TerminalStates /\ Null \notin Submitters
    /\ MaxLost \in Nat /\ MaxRequeues \in Nat /\ MaxBatchCancels \in Nat

Threads == Waiters \cup Submitters \cup Cancellers \cup {Loop}

VARIABLES state,     \* the job's state in the database
          at,        \* where each thread is
          holds,     \* the callback a thread has popped
          event,     \* the job's threading.Event: not made yet, clear or set
          callback,  \* _callbacks[job_id]
          fired,     \* for each call of a callback, had the job ended?
          silent,    \* the job's last end was one that calls no _deliver
          losses, requeues, batchCancels

vars == <<state, at, holds, event, callback, fired, silent, losses, requeues, batchCancels>>

Ended == state \in TerminalStates

Init ==
    /\ state = "absent" /\ event = "none" /\ callback = Null /\ silent = FALSE
    /\ at = [t \in Threads |-> "idle"] /\ holds = [t \in Threads |-> Null]
    /\ fired = [s \in Submitters |-> <<>>]
    /\ losses = 0 /\ requeues = 0 /\ batchCancels = 0

Go(t, from, to) == at[t] = from /\ at' = [at EXCEPT ![t] = to]
Bounds     == UNCHANGED <<losses, requeues, batchCancels>>
JobStays   == UNCHANGED <<state, silent>> /\ Bounds
TableStays == UNCHANGED <<holds, callback, fired>>

(***************************************************************************)
(* _deliver: set the event if there is one, pop the callback, call it with  *)
(* what the database then says.  Setting an event frees all who block in    *)
(* it.  An event that exists stays, so looking it up and setting it is one  *)
(* step.                                                                   *)
(***************************************************************************)
SetEvent(t) ==
    /\ at[t] = "deliver"
    /\ event' = IF event = "none" THEN "none" ELSE "set"
    /\ at' = [u \in Threads |-> IF u = t THEN "pop" ELSE IF at[u] = "blocked" THEN "look" ELSE at[u]]
    /\ TableStays /\ JobStays

\* Mutant of Popped: the callback is read, not popped.
NotPopped == callback

Popped == Null

Pop(t) ==
    /\ Go(t, "pop", IF callback = Null THEN "idle" ELSE "call")
    /\ holds' = [holds EXCEPT ![t] = callback]
    /\ callback' = Popped
    /\ UNCHANGED <<event, fired>> /\ JobStays

CallBack(t) ==
    /\ Go(t, "call", "idle")
    /\ fired' = [fired EXCEPT ![holds[t]] = Append(@, Ended)]
    /\ holds' = [holds EXCEPT ![t] = Null]
    /\ UNCHANGED <<event, callback>> /\ JobStays

Deliver(t) == SetEvent(t) \/ Pop(t) \/ CallBack(t)

(***************************************************************************)
(* submit with a callback.  A replay of an ended job is answered at once.   *)
(***************************************************************************)
Enqueue(s) ==
    /\ fired[s] = <<>> /\ callback # s /\ \A t \in Threads : holds[t] # s
    /\ Go(s, "idle", IF Ended THEN "idle" ELSE "register")
    /\ state' = IF state = "absent" THEN "queued" ELSE state
    /\ fired' = [fired EXCEPT ![s] = IF Ended THEN <<TRUE>> ELSE @]
    /\ UNCHANGED <<event, callback, holds, silent>> /\ Bounds

Register(s) ==
    /\ Go(s, "register", "reread")
    /\ callback' = s
    /\ UNCHANGED <<event, holds, fired>> /\ JobStays

\* Mutants of Reread: the job is not looked at again, or its state is not tested.
RereadSkipped(s) == Go(s, "reread", "idle") /\ UNCHANGED event /\ TableStays /\ JobStays
RereadAlways(s)  == Go(s, "reread", "deliver") /\ UNCHANGED event /\ TableStays /\ JobStays

\* The job may have ended before the callback was in the table.
Reread(s) == /\ Go(s, "reread", IF Ended THEN "deliver" ELSE "idle")
             /\ UNCHANGED event /\ TableStays /\ JobStays

Submitting(s) == Register(s) \/ Reread(s)

(***************************************************************************)
(* How the job's state changes.                                            *)
(***************************************************************************)
\* An attempt or the maintenance sweep ends the job.
EndJob ==
    /\ state = "queued" /\ Go(Loop, "idle", "deliver")
    /\ state' \in Endings
    /\ silent' = FALSE
    /\ UNCHANGED event /\ TableStays /\ Bounds

\* A task that lost its lease settles nothing and delivers all the same.
SettleLost ==
    /\ state # "absent" /\ losses < MaxLost
    /\ Go(Loop, "idle", "deliver")
    /\ losses' = losses + 1
    /\ UNCHANGED <<state, silent, event, requeues, batchCancels>> /\ TableStays

\* cancel(): of a waiting job, or once more of a cancelled one.
CancelJob(c) ==
    /\ state \in {"queued", "cancelled"} /\ Go(c, "idle", "deliver")
    /\ state' = "cancelled" /\ silent' = FALSE
    /\ UNCHANGED event /\ TableStays /\ Bounds

\* cancel_batch() delivers nothing.
CancelBatch ==
    /\ state = "queued" /\ batchCancels < MaxBatchCancels
    /\ state' = "cancelled" /\ silent' = TRUE
    /\ batchCancels' = batchCancels + 1
    /\ UNCHANGED <<at, event, losses, requeues>> /\ TableStays

Requeue ==
    /\ state \in {"failed", "dead_letter"} /\ requeues < MaxRequeues
    /\ state' = "queued"
    /\ requeues' = requeues + 1
    /\ UNCHANGED <<at, event, silent, losses, batchCancels>> /\ TableStays

(***************************************************************************)
(* wait().  "returned" and "timed out" are both "idle".                     *)
(***************************************************************************)
WaitStays(e) == event' = e /\ TableStays /\ JobStays

BeginWait(w) == state # "absent" /\ Go(w, "idle", "look") /\ WaitStays(event)

Look(w)      == Go(w, "look", IF Ended THEN "idle" ELSE "clear") /\ WaitStays(event)

\* _event_for and event.clear(): nobody blocks in an event that was not there,
\* so nothing that happens between the two can be told from one step.
Clear(w)     == Go(w, "clear", "again") /\ WaitStays("clear")

\* Mutant of LookAgain: straight to the wait.
LookAgainSkipped(w) == Go(w, "again", "enter") /\ WaitStays(event)

\* The second read of the job.
LookAgain(w) == Go(w, "again", IF Ended THEN "idle" ELSE "enter") /\ WaitStays(event)

\* event.wait()
EnterWait(w) == Go(w, "enter", IF event = "set" THEN "look" ELSE "blocked") /\ WaitStays(event)

\* The caller's timeout, after the second read or in event.wait(): one more
\* look, then the result or Timeout.  A call without one never takes this step.
GiveUp(w)    == (Go(w, "enter", "idle") \/ Go(w, "blocked", "idle")) /\ WaitStays(event)

Waiting(w) == Look(w) \/ Clear(w) \/ LookAgain(w) \/ EnterWait(w)

Next ==
    \/ \E t \in Threads : Deliver(t)
    \/ \E s \in Submitters : Enqueue(s) \/ Submitting(s)
    \/ \E w \in Waiters : BeginWait(w) \/ Waiting(w) \/ GiveUp(w)
    \/ \E c \in Cancellers : CancelJob(c)
    \/ EndJob \/ SettleLost \/ CancelBatch \/ Requeue

\* A thread inside a call goes on; nobody has to make a call, end a job or be
\* timed out.
Spec == /\ Init /\ [][Next]_vars
        /\ \A t \in Threads : WF_vars(Deliver(t))
        /\ \A s \in Submitters : WF_vars(Submitting(s))
        /\ \A w \in Waiters : WF_vars(Waiting(w))

(***************************************************************************)
(* Properties.                                                             *)
(***************************************************************************)
\* submit() and the thread that ends the job may both try to deliver: the
\* callback still runs at most once.
CallbackOnce == \A s \in Submitters : Len(fired[s]) <= 1

\* A callback sees a job that has not ended only if a task delivered without
\* its lease or the job was requeued in between.
CallbackSeesTheEnd ==
    \A s \in Submitters : fired[s] = <<FALSE>> => losses > 0 \/ requeues > 0

\* The job has ended for good, by a path that calls _deliver.
EndedAloud == Ended /\ ~silent

\* wait() without a timeout returns once the job has ended, whatever the order
\* of the event's clear and set and the two reads; a cancel_batch, which
\* delivers nothing, is the exception.
WaitReturns == <>[]EndedAloud => \A w \in Waiters : []<>(at[w] = "idle")

\* The callback registered last runs, even when the job ended before submit()
\* had it in the table.
CallbackFires == <>[]EndedAloud => []<>(callback = Null /\ \A t \in Threads : holds[t] = Null)

\* The comment in wait(): the second look is there "so a completion that landed
\* during clear is not missed".  With one event for all who wait it can be.
CompletionNotMissed == <>[]EndedAloud => \A w \in Waiters : []<>(at[w] = "idle")
=============================================================================
