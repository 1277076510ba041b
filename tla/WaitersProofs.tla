--------------------------- MODULE WaitersProofs ---------------------------
(***************************************************************************)
(* Callbacks, for any number of threads that submit, cancel, wait and       *)
(* deliver at once.                                                        *)
(*                                                                         *)
(* That none runs twice is not inductive: it holds because a callback      *)
(* is in one place at a time, on its way into the table, in the table, in   *)
(* the hands of the one thread that popped it, or called (OnePlace).  That   *)
(* it sees a job that has ended holds because only an ended job is          *)
(* delivered, unless a lease was lost or a requeue came in (DeliversTheEnd). *)
(***************************************************************************)
EXTENDS Waiters, TLAPS

Places == {"idle", "register", "reread", "deliver", "pop", "call", "look", "clear", "again",
           "enter", "blocked"}

TypesOK == /\ state \in {"absent", "queued"} \cup TerminalStates
           /\ at \in [Threads -> Places]
           /\ holds \in [Threads -> Submitters \cup {Null}]
           /\ callback \in Submitters \cup {Null}
           /\ fired \in [Submitters -> {<<>>, <<FALSE>>, <<TRUE>>}]
           /\ losses \in Nat /\ requeues \in Nat

\* A thread has popped a callback.
Held(s) == \E t \in Threads : holds[t] = s

OnePlace ==
    /\ \A t \in Threads : at[t] = "call" <=> holds[t] # Null
    /\ \A t, u \in Threads : holds[t] # Null /\ holds[t] = holds[u] => t = u
    /\ \A s \in Submitters :
          /\ at[s] = "register" => callback # s
          /\ at[s] = "register" \/ callback = s => ~Held(s)
          /\ at[s] = "register" \/ callback = s \/ Held(s) => fired[s] = <<>>

DeliversTheEnd ==
    losses = 0 /\ requeues = 0 =>
        \A t \in Threads : at[t] \in {"deliver", "pop", "call"} => Ended

WInv == TypesOK /\ OnePlace /\ DeliversTheEnd /\ CallbackSeesTheEnd

LEMMA ThreadFacts ==
    /\ Submitters \subseteq Threads /\ Waiters \subseteq Threads /\ Cancellers \subseteq Threads
    /\ Loop \in Threads /\ Null \notin Submitters /\ Endings \subseteq TerminalStates
BY WaitersAssumption DEF Threads

LEMMA FiredFacts == <<FALSE>> # <<TRUE>> /\ <<FALSE>> # <<>>
<1>1. <<FALSE>>[1] = FALSE /\ <<TRUE>>[1] = TRUE /\ Len(<<FALSE>>) = 1 /\ Len(<<>>) = 0
  OBVIOUS
<1> QED BY <1>1

(***************************************************************************)
(* Steps that leave the callbacks where they are.                          *)
(***************************************************************************)
\* A thread moves on, and no callback with it.
LEMMA MoveStep ==
    ASSUME WInv, NEW t \in Threads, NEW to \in Places \ {"call", "register"}, at[t] # "call",
           at' = [at EXCEPT ![t] = to], TableStays
    PROVE  OnePlace' /\ at' \in [Threads -> Places]
<1>1. at' \in [Threads -> Places] /\ \A u \in Threads : at'[u] = IF u = t THEN to ELSE at[u]
  BY DEF WInv, TypesOK
<1>2. UNCHANGED <<holds, callback, fired>>
  BY DEF TableStays
<1>3. \A s \in Submitters : at'[s] = "register" => at[s] = "register"
  BY <1>1, ThreadFacts
<1>4. \A u \in Threads : at'[u] = "call" <=> at[u] = "call"
  BY <1>1
<1>5. OnePlace'
  BY <1>2, <1>3, <1>4 DEF WInv, OnePlace, Held
<1> QED BY <1>1, <1>5

\* The job stays as it is, or has ended, and nobody delivers who did not.
LEMMA QuietStep ==
    ASSUME WInv, NEW t \in Threads, NEW to \in Places \ {"call", "register"}, at[t] # "call",
           at' = [at EXCEPT ![t] = to], TableStays, UNCHANGED <<losses, requeues>>,
           state' \in {"absent", "queued"} \cup TerminalStates,
           Ended => Ended', to \in {"deliver", "pop"} => Ended' \/ at[t] \in {"deliver", "pop"}
    PROVE  WInv'
<1>1. OnePlace' /\ at' \in [Threads -> Places]
  BY MoveStep
<1>2. UNCHANGED <<holds, callback, fired>>
  BY DEF TableStays
<1>3. TypesOK'
  BY <1>1, <1>2 DEF WInv, TypesOK
<1>4. DeliversTheEnd'
  BY DEF WInv, TypesOK, DeliversTheEnd
<1>5. CallbackSeesTheEnd'
  BY <1>2 DEF WInv, CallbackSeesTheEnd
<1> QED BY <1>1, <1>3, <1>4, <1>5 DEF WInv

(***************************************************************************)
(* _deliver.                                                               *)
(***************************************************************************)
LEMMA SetEventStep ==
    ASSUME WInv, NEW t \in Threads, SetEvent(t)
    PROVE  WInv'
<1>1. /\ at[t] = "deliver" /\ UNCHANGED <<holds, callback, fired, state, losses, requeues>>
      /\ at' = [u \in Threads |-> IF u = t THEN "pop" ELSE IF at[u] = "blocked" THEN "look" ELSE at[u]]
  BY DEF SetEvent, TableStays, JobStays, Bounds
<1>2. at' \in [Threads -> Places]
      /\ \A u \in Threads : at'[u] = IF u = t THEN "pop" ELSE IF at[u] = "blocked" THEN "look" ELSE at[u]
  BY <1>1 DEF WInv, TypesOK, Places
<1>3. \A u \in Threads : /\ at'[u] = "register" <=> at[u] = "register"
                         /\ at'[u] = "call" <=> at[u] = "call"
                         /\ at'[u] \in {"deliver", "pop", "call"} => at[u] \in {"deliver", "pop", "call"}
  BY <1>1, <1>2
<1>4. TypesOK'
  BY <1>1, <1>2 DEF WInv, TypesOK
<1>5. OnePlace'
  BY <1>1, <1>3, ThreadFacts DEF WInv, OnePlace, Held
<1>6. DeliversTheEnd' /\ CallbackSeesTheEnd'
  BY <1>1, <1>3 DEF WInv, DeliversTheEnd, CallbackSeesTheEnd, Ended
<1> QED BY <1>4, <1>5, <1>6 DEF WInv

\* The callback goes from the table to the thread that pops it.
LEMMA PopStep ==
    ASSUME WInv, NEW t \in Threads, Pop(t)
    PROVE  WInv'
<1> DEFINE to == IF callback = Null THEN "idle" ELSE "call"
<1>1. /\ at[t] = "pop" /\ at' = [at EXCEPT ![t] = to]
      /\ holds' = [holds EXCEPT ![t] = callback] /\ callback' = Null
      /\ UNCHANGED <<fired, state, losses, requeues>>
  BY DEF Pop, Popped, Go, JobStays, Bounds
<1>2. /\ at \in [Threads -> Places] /\ holds \in [Threads -> Submitters \cup {Null}]
      /\ callback \in Submitters \cup {Null}
  BY DEF WInv, TypesOK
<1>3. /\ at' \in [Threads -> Places] /\ holds' \in [Threads -> Submitters \cup {Null}]
      /\ \A u \in Threads : /\ at'[u] = IF u = t THEN to ELSE at[u]
                            /\ holds'[u] = IF u = t THEN callback ELSE holds[u]
  BY <1>1, <1>2 DEF Places
<1>4. TypesOK'
  BY <1>1, <1>3 DEF WInv, TypesOK
<1>5. OnePlace'
  <2>1. \A u \in Threads : at'[u] = "call" <=> holds'[u] # Null
    BY <1>1, <1>3 DEF WInv, OnePlace
  <2>2. \A u \in Threads : callback # Null => holds[u] # callback
    BY <1>2 DEF WInv, OnePlace, Held
  <2>3. \A u, v \in Threads : holds'[u] # Null /\ holds'[u] = holds'[v] => u = v
    BY <1>3, <2>2 DEF WInv, OnePlace
  <2>4. \A s \in Submitters : /\ at'[s] = "register" => at[s] = "register"
                              /\ Held(s)' => Held(s) \/ callback = s
    BY <1>1, <1>3, ThreadFacts DEF Held
  <2>5. \A s \in Submitters : /\ at'[s] = "register" => ~Held(s)'
                              /\ Held(s)' => fired[s] = <<>>
    BY <2>4 DEF WInv, OnePlace
  <2>6. \A s \in Submitters : at'[s] = "register" => fired[s] = <<>>
    BY <2>4 DEF WInv, OnePlace
  <2>7. \A s \in Submitters : callback' # s
    BY <1>1, ThreadFacts
  <2> QED BY <1>1, <2>1, <2>3, <2>5, <2>6, <2>7 DEF OnePlace
<1>6. DeliversTheEnd' /\ CallbackSeesTheEnd'
  BY <1>1, <1>3 DEF WInv, DeliversTheEnd, CallbackSeesTheEnd, Ended
<1> QED BY <1>4, <1>5, <1>6 DEF WInv

\* The callback is called, and is nowhere else.
LEMMA CallBackStep ==
    ASSUME WInv, NEW t \in Threads, CallBack(t)
    PROVE  WInv'
<1> DEFINE s == holds[t]
           L == Append(fired[s], Ended)
<1>1. /\ at[t] = "call" /\ at' = [at EXCEPT ![t] = "idle"]
      /\ holds' = [holds EXCEPT ![t] = Null]
      /\ fired' = [fired EXCEPT ![s] = L]
      /\ UNCHANGED <<callback, state, losses, requeues>>
  BY DEF CallBack, Go, JobStays, Bounds
<1>2. /\ at \in [Threads -> Places] /\ holds \in [Threads -> Submitters \cup {Null}]
      /\ fired \in [Submitters -> {<<>>, <<FALSE>>, <<TRUE>>}]
  BY DEF WInv, TypesOK
<1>3. s \in Submitters /\ Held(s)
  BY <1>1, <1>2 DEF WInv, OnePlace, Held
<1>4. fired[s] = <<>> /\ at[s] # "register" /\ callback # s
  BY <1>3 DEF WInv, OnePlace
<1>5. L = <<Ended>>
  BY <1>4
<1>6. L \in {<<FALSE>>, <<TRUE>>} /\ (L = <<FALSE>> => ~Ended)
  <2>1. CASE Ended
    <3>1. Ended = TRUE
      BY <2>1 DEF Ended
    <3>2. L = <<TRUE>>
      BY <1>5, <3>1
    <3> QED BY <3>2, FiredFacts
  <2>2. CASE ~Ended
    <3>1. Ended = FALSE
      BY <2>2 DEF Ended
    <3>2. L = <<FALSE>>
      BY <1>5, <3>1
    <3> QED BY <2>2, <3>2
  <2> QED BY <2>1, <2>2
<1> HIDE DEF L
<1>7. /\ at' \in [Threads -> Places] /\ holds' \in [Threads -> Submitters \cup {Null}]
      /\ fired' \in [Submitters -> {<<>>, <<FALSE>>, <<TRUE>>}]
      /\ \A u \in Threads : /\ at'[u] = IF u = t THEN "idle" ELSE at[u]
                            /\ holds'[u] = IF u = t THEN Null ELSE holds[u]
      /\ \A r \in Submitters : fired'[r] = IF r = s THEN L ELSE fired[r]
  BY <1>1, <1>2, <1>3, <1>6 DEF Places
<1>8. TypesOK'
  BY <1>1, <1>7 DEF WInv, TypesOK
<1>9. OnePlace'
  <2>1. \A u \in Threads : at'[u] = "call" <=> holds'[u] # Null
    BY <1>7 DEF WInv, OnePlace
  <2>2. \A u, v \in Threads : holds'[u] # Null /\ holds'[u] = holds'[v] => u = v
    BY <1>7 DEF WInv, OnePlace
  <2>3. \A r \in Submitters : /\ at'[r] = "register" => at[r] = "register"
                              /\ Held(r)' => Held(r) /\ r # s
    BY <1>3, <1>7, ThreadFacts DEF Held, WInv, OnePlace
  <2>4. ASSUME NEW r \in Submitters
        PROVE  /\ at'[r] = "register" => callback' # r
               /\ at'[r] = "register" \/ callback' = r => ~Held(r)'
               /\ at'[r] = "register" \/ callback' = r \/ Held(r)' => fired'[r] = <<>>
    <3>1. callback' = callback
      BY <1>1
    <3>2. CASE r = s
      BY <1>4, <2>3, <3>1, <3>2
    <3>3. CASE r # s
      BY <1>7, <2>3, <3>1, <3>3 DEF WInv, OnePlace
    <3> QED BY <3>2, <3>3
  <2> QED BY <2>1, <2>2, <2>4 DEF OnePlace
<1>10. DeliversTheEnd'
  BY <1>1, <1>7 DEF WInv, DeliversTheEnd, Ended
<1>11. CallbackSeesTheEnd'
  <2>1. Ended \/ losses > 0 \/ requeues > 0
    BY <1>1 DEF WInv, DeliversTheEnd, TypesOK
  <2> QED BY <1>1, <1>6, <1>7, <2>1 DEF WInv, CallbackSeesTheEnd
<1> QED BY <1>8, <1>9, <1>10, <1>11 DEF WInv

(***************************************************************************)
(* submit.                                                                 *)
(***************************************************************************)
LEMMA EnqueueStep ==
    ASSUME WInv, NEW s \in Submitters, Enqueue(s)
    PROVE  WInv'
<1> DEFINE to == IF Ended THEN "idle" ELSE "register"
           L  == IF Ended THEN <<TRUE>> ELSE fired[s]
<1>1. /\ fired[s] = <<>> /\ callback # s /\ ~Held(s) /\ at[s] = "idle"
      /\ at' = [at EXCEPT ![s] = to] /\ fired' = [fired EXCEPT ![s] = L]
      /\ state' = IF state = "absent" THEN "queued" ELSE state
      /\ UNCHANGED <<callback, holds, losses, requeues>>
  BY DEF Enqueue, Go, Bounds, Held
<1>2. /\ at \in [Threads -> Places] /\ fired \in [Submitters -> {<<>>, <<FALSE>>, <<TRUE>>}]
      /\ s \in Threads
  BY ThreadFacts DEF WInv, TypesOK
<1>3. L \in {<<>>, <<TRUE>>} /\ (to = "register" => L = <<>>)
  BY <1>1
<1> HIDE DEF L
<1>4. /\ at' \in [Threads -> Places] /\ fired' \in [Submitters -> {<<>>, <<FALSE>>, <<TRUE>>}]
      /\ \A u \in Threads : at'[u] = IF u = s THEN to ELSE at[u]
      /\ \A r \in Submitters : fired'[r] = IF r = s THEN L ELSE fired[r]
  BY <1>1, <1>2, <1>3 DEF Places
<1>5. TypesOK'
  BY <1>1, <1>4 DEF WInv, TypesOK
<1>6. OnePlace'
  <2>1. \A u \in Threads : at'[u] = "call" <=> holds'[u] # Null
    BY <1>1, <1>4 DEF WInv, OnePlace
  <2>2. \A r \in Submitters : r # s => at'[r] = at[r] /\ fired'[r] = fired[r]
    BY <1>4, ThreadFacts
  <2>3. /\ at'[s] = "register" => callback' # s
        /\ ~Held(s)' /\ callback' # s
        /\ at'[s] = "register" => fired'[s] = <<>>
    BY <1>1, <1>2, <1>3, <1>4 DEF Held
  <2> QED BY <1>1, <2>1, <2>2, <2>3 DEF WInv, OnePlace, Held
<1>7. Ended' <=> Ended
  BY <1>1 DEF Ended, TerminalStates
<1>8. DeliversTheEnd'
  BY <1>1, <1>4, <1>7 DEF WInv, DeliversTheEnd
<1>9. CallbackSeesTheEnd'
  <2>1. L # <<FALSE>>
    BY <1>3, FiredFacts
  <2>2. UNCHANGED <<losses, requeues>>
    BY <1>1
  <2> QED BY <1>4, <2>1, <2>2 DEF WInv, CallbackSeesTheEnd
<1> QED BY <1>5, <1>6, <1>8, <1>9 DEF WInv

LEMMA RegisterStep ==
    ASSUME WInv, NEW s \in Submitters, Register(s)
    PROVE  WInv'
<1>1. /\ at[s] = "register" /\ at' = [at EXCEPT ![s] = "reread"] /\ callback' = s
      /\ UNCHANGED <<holds, fired, state, losses, requeues>>
  BY DEF Register, Go, JobStays, Bounds
<1>2. at \in [Threads -> Places] /\ s \in Threads
  BY ThreadFacts DEF WInv, TypesOK
<1>3. at' \in [Threads -> Places] /\ \A u \in Threads : at'[u] = IF u = s THEN "reread" ELSE at[u]
  BY <1>1, <1>2 DEF Places
<1>4. TypesOK'
  BY <1>1, <1>3 DEF WInv, TypesOK
<1>5. OnePlace'
  <2>1. \A u \in Threads : at'[u] = "call" <=> holds'[u] # Null
    BY <1>1, <1>3 DEF WInv, OnePlace
  <2>2. \A r \in Submitters : r # s => at'[r] = at[r]
    BY <1>3, ThreadFacts
  <2>3. ~Held(s) /\ fired[s] = <<>>
    BY <1>1 DEF WInv, OnePlace
  <2>4. at'[s] = "reread"
    BY <1>2, <1>3
  <2> QED BY <1>1, <2>1, <2>2, <2>3, <2>4 DEF WInv, OnePlace, Held
<1>6. DeliversTheEnd' /\ CallbackSeesTheEnd'
  BY <1>1, <1>3 DEF WInv, DeliversTheEnd, CallbackSeesTheEnd, Ended
<1> QED BY <1>4, <1>5, <1>6 DEF WInv

LEMMA RereadStep ==
    ASSUME WInv, NEW s \in Submitters, Reread(s)
    PROVE  WInv'
<1> DEFINE to == IF Ended THEN "deliver" ELSE "idle"
<1>1. /\ at[s] = "reread" /\ at' = [at EXCEPT ![s] = to] /\ TableStays
      /\ UNCHANGED <<state, losses, requeues>> /\ s \in Threads
  BY ThreadFacts DEF Reread, Go, JobStays, Bounds
<1>2. to \in Places \ {"call", "register"} /\ (to \in {"deliver", "pop"} => Ended)
  BY DEF Places
<1>3. Ended' = Ended /\ state' \in {"absent", "queued"} \cup TerminalStates
  BY <1>1 DEF Ended, WInv, TypesOK
<1> HIDE DEF to
<1> QED BY <1>1, <1>2, <1>3, QuietStep

(***************************************************************************)
(* The job's state.                                                        *)
(***************************************************************************)
LEMMA EndStep ==
    ASSUME WInv, EndJob \/ \E c \in Cancellers : CancelJob(c)
    PROVE  WInv'
<1>1. ASSUME NEW t \in Threads, at[t] = "idle", at' = [at EXCEPT ![t] = "deliver"], TableStays,
             UNCHANGED <<losses, requeues>>, state' \in TerminalStates
      PROVE  WInv'
  BY <1>1, QuietStep DEF Ended, Places
<1>2. CASE EndJob
  BY <1>1, <1>2, ThreadFacts DEF EndJob, Go, Bounds
<1>3. CASE \E c \in Cancellers : CancelJob(c)
  BY <1>1, <1>3, ThreadFacts DEF CancelJob, Go, Bounds, TerminalStates
<1> QED BY <1>2, <1>3

LEMMA SettleLostStep ==
    ASSUME WInv, SettleLost
    PROVE  WInv'
<1>1. /\ at[Loop] = "idle" /\ at' = [at EXCEPT ![Loop] = "deliver"] /\ losses' = losses + 1
      /\ UNCHANGED <<state, requeues>> /\ TableStays /\ losses \in Nat
  BY DEF SettleLost, Go, WInv, TypesOK
<1>2. OnePlace' /\ at' \in [Threads -> Places]
  BY <1>1, MoveStep, ThreadFacts DEF Places
<1>3. TypesOK'
  <2>1. UNCHANGED <<holds, callback, fired, state, requeues>> /\ losses' \in Nat
    BY <1>1 DEF TableStays
  <2> QED BY <1>2, <2>1 DEF WInv, TypesOK
<1>4. DeliversTheEnd' /\ CallbackSeesTheEnd'
  <2>1. losses' > 0 /\ losses' # 0
    BY <1>1
  <2> QED BY <2>1 DEF DeliversTheEnd, CallbackSeesTheEnd
<1> QED BY <1>2, <1>3, <1>4 DEF WInv

LEMMA StateStep ==
    ASSUME WInv, CancelBatch \/ Requeue
    PROVE  WInv'
<1>0. requeues \in Nat
  BY DEF WInv, TypesOK
<1>1. /\ UNCHANGED <<at, losses, holds, callback, fired>>
      /\ state' \in {"queued", "cancelled"} /\ requeues' \in Nat
      /\ \/ state' = "cancelled" /\ requeues' = requeues
         \/ requeues' > 0
  <2>1. CASE CancelBatch
    BY <1>0, <2>1 DEF CancelBatch, TableStays
  <2>2. CASE Requeue
    BY <1>0, <2>2 DEF Requeue, TableStays
  <2> QED BY <2>1, <2>2
<1>2. TypesOK'
  <2>1. state' \in {"absent", "queued"} \cup TerminalStates
    BY <1>1 DEF TerminalStates
  <2> QED BY <1>1, <2>1 DEF WInv, TypesOK
<1>3. OnePlace'
  BY <1>1 DEF WInv, OnePlace, Held
<1>4. DeliversTheEnd' /\ CallbackSeesTheEnd'
  <2>1. state' = "cancelled" => Ended'
    BY DEF Ended, TerminalStates
  <2>2. requeues' > 0 => requeues' # 0
    BY <1>1
  <2>3. DeliversTheEnd'
    BY <1>1, <2>1, <2>2 DEF DeliversTheEnd
  <2>4. CallbackSeesTheEnd'
    <3>1. CASE requeues' > 0
      BY <3>1 DEF CallbackSeesTheEnd
    <3>2. CASE requeues' = requeues
      BY <1>1, <3>2 DEF WInv, CallbackSeesTheEnd
    <3> QED BY <1>1, <3>1, <3>2
  <2> QED BY <2>3, <2>4
<1> QED BY <1>2, <1>3, <1>4 DEF WInv

(***************************************************************************)
(* wait().                                                                 *)
(***************************************************************************)
LEMMA WaitStep ==
    ASSUME WInv, NEW w \in Waiters, BeginWait(w) \/ Waiting(w) \/ GiveUp(w)
    PROVE  WInv'
<1>1. /\ TableStays /\ UNCHANGED <<state, losses, requeues>> /\ w \in Threads
      /\ \E to \in {"idle", "look", "clear", "again", "enter", "blocked"} : at' = [at EXCEPT ![w] = to]
      /\ at[w] # "call"
  BY ThreadFacts
     DEF BeginWait, Waiting, Look, Clear, LookAgain, EnterWait, GiveUp, Go, WaitStays, JobStays, Bounds
<1>2. Ended' = Ended /\ state' \in {"absent", "queued"} \cup TerminalStates
  BY <1>1 DEF Ended, WInv, TypesOK
<1> QED BY <1>1, <1>2, QuietStep DEF Places

(***************************************************************************)
(* The theorems.                                                           *)
(***************************************************************************)
LEMMA WaitersInit == Init => WInv
<1> SUFFICES ASSUME Init PROVE WInv
  OBVIOUS
<1>1. /\ \A t \in Threads : at[t] = "idle" /\ holds[t] = Null
      /\ \A s \in Submitters : fired[s] = <<>>
      /\ callback = Null /\ state = "absent" /\ losses = 0 /\ requeues = 0
  BY DEF Init
<1>2. TypesOK
  BY <1>1 DEF Init, TypesOK, Places
<1>3. OnePlace /\ DeliversTheEnd
  BY <1>1, ThreadFacts DEF OnePlace, DeliversTheEnd, Held
<1>4. CallbackSeesTheEnd
  BY <1>1, FiredFacts DEF CallbackSeesTheEnd
<1> QED BY <1>2, <1>3, <1>4 DEF WInv

LEMMA WaitersNext == WInv /\ [Next]_vars => WInv'
<1> SUFFICES ASSUME WInv, [Next]_vars PROVE WInv'
  OBVIOUS
<1>1. ASSUME NEW t \in Threads, Deliver(t) PROVE WInv'
  BY <1>1, SetEventStep, PopStep, CallBackStep DEF Deliver
<1>2. ASSUME NEW s \in Submitters, Enqueue(s) \/ Submitting(s) PROVE WInv'
  BY <1>2, EnqueueStep, RegisterStep, RereadStep DEF Submitting
<1>3. ASSUME NEW w \in Waiters, BeginWait(w) \/ Waiting(w) \/ GiveUp(w) PROVE WInv'
  BY <1>3, WaitStep
<1>4. CASE (\E c \in Cancellers : CancelJob(c)) \/ EndJob
  BY <1>4, EndStep
<1>5. CASE SettleLost
  BY <1>5, SettleLostStep
<1>6. CASE CancelBatch \/ Requeue
  BY <1>6, StateStep
<1>7. CASE UNCHANGED vars
  BY <1>7 DEF vars, WInv, TypesOK, OnePlace, DeliversTheEnd, CallbackSeesTheEnd, Held, Ended
<1> QED BY <1>1, <1>2, <1>3, <1>4, <1>5, <1>6, <1>7 DEF Next

\* The invariant the two properties rest on: a callback is in one place at a
\* time, and without lost leases and requeues only an ended job is delivered.
THEOREM WaitersInvariance == Spec => []WInv
<1> QED BY WaitersInit, WaitersNext, PTL DEF Spec

\* A callback runs at most once, however many threads deliver the job and
\* however many register a callback for it.
THEOREM CallbackOnceHolds == Spec => []CallbackOnce
<1>1. WInv => CallbackOnce
  <2>1. TypesOK => \A s \in Submitters : fired[s] \in {<<>>, <<FALSE>>, <<TRUE>>}
    BY DEF TypesOK
  <2>2. Len(<<>>) <= 1 /\ Len(<<FALSE>>) <= 1 /\ Len(<<TRUE>>) <= 1
    OBVIOUS
  <2> QED BY <2>1, <2>2 DEF WInv, CallbackOnce
<1> QED BY <1>1, WaitersInvariance, PTL

\* A callback sees a job that has not ended only when a task delivered without
\* its lease or the job was requeued in between.
THEOREM CallbackSeesTheEndHolds == Spec => []CallbackSeesTheEnd
<1>1. WInv => CallbackSeesTheEnd
  BY DEF WInv
<1> QED BY <1>1, WaitersInvariance, PTL
=============================================================================
