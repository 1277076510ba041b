------------------------------ MODULE Scheduler ------------------------------
(***************************************************************************)
(* The picker: which waiting job of one model is claimed next.  Classes     *)
(* share the turns by weighted credit; inside a class every client offers   *)
(* the head of its lane, scored by priority, by how often the client was    *)
(* skipped, and by age.  Models have pickers that never meet, so one model  *)
(* is enough.  The lanes are those of the ready index (memory and hybrid    *)
(* mode); what waits behind a head is not tracked: it arrives when the head  *)
(* is gone.                                                                *)
(*                                                                         *)
(* Weights and credits are in one integer unit, times in ticks.             *)
(***************************************************************************)
EXTENDS Integers

CONSTANTS Clients,
          Priorities,
          Uses,           \* the ways clients may use the classes: see offers
          MaxAge,         \* bound: time stands still while a head is this old
          Weight,         \* class_weights
          BoostPerTick, BoostCap,                \* 1/starvation_seconds, starvation_boost_cap
          PriorityWeight, SkipWeight, AgeWeight, \* weights of a job's score
          WaitBound, PassBound                   \* what TurnForEvery... claim, WaitBound per class

\* SCHEDULING_CLASSES by rank: interactive, normal, batch, bulk.
Classes == 1 .. 4

ASSUME UsesAssumption    ==
    /\ Priorities \subseteq Int
    /\ \A use \in Uses : /\ DOMAIN use # {} /\ DOMAIN use \subseteq Classes \X Clients
                        /\ \A l \in DOMAIN use : use[l] \subseteq Priorities
ASSUME WeightAssumption  == Weight \in [Classes -> Nat] /\ BoostCap \in Nat
ASSUME NumberAssumption  == /\ MaxAge \in Nat /\ BoostPerTick \in Nat /\ AgeWeight \in Nat
                            /\ PriorityWeight \in Int /\ SkipWeight \in Int
                            /\ WaitBound \in [Classes -> Nat] /\ PassBound \in Nat

\* What a lane offers.  Whether a head can still be claimed shows when it is tried.
Job   == [priority : Priorities, age : 0 .. MaxAge]
NoJob == [priority |-> 0, age |-> -1]

VARIABLES offers,   \* the priorities of the jobs of each lane, a (class, client) pair
          head,     \* the job each lane offers
          credit,   \* PickerState.credit of the model
          skips,    \* PickerState.skips of the model
          watched,  \* history: one lane, chosen at the start
          waits,    \* turns given to other classes while its head waits
          passes    \* turns its class gave to other clients meanwhile

vars == <<offers, head, credit, skips, watched, waits, passes>>

Lanes == DOMAIN offers

Init ==
    /\ offers \in Uses
    /\ head = [l \in Lanes |-> NoJob]
    /\ credit = [c \in Classes |-> 0] /\ skips = [k \in Clients |-> 0]
    /\ watched \in Lanes /\ waits = 0 /\ passes = 0

(***************************************************************************)
(* The class whose turn it is.                                             *)
(***************************************************************************)
Smaller(a, b) == IF a <= b THEN a ELSE b
Larger(a, b)  == IF a <= b THEN b ELSE a

Pool(c) == {l \in Lanes : l[1] = c /\ head[l] # NoJob}
Present == {c \in Classes : Pool(c) # {}}
Oldest(c) == head[CHOOSE l \in Pool(c) : \A m \in Pool(c) : head[m].age <= head[l].age].age

\* The smallest weight of the classes above c.
LeastHigher(c) == CHOOSE w \in {Weight[h] : h \in 1 .. c - 1} : \A h \in 1 .. c - 1 : w <= Weight[h]

Boost(c) == Smaller(Oldest(c) * BoostPerTick, BoostCap)

\* Mutant of Effective: the boost has no ceiling.
Unbounded(c) == Weight[c] + Boost(c)

\* The weight with the boost of age, held at three quarters of the classes above.
Effective(c) ==
    IF c = 1 THEN Weight[c] + Boost(c)
    ELSE Smaller(Weight[c] + Boost(c), Larger(Weight[c], (3 * LeastHigher(c)) \div 4))

Gain(c) == IF c \in Present THEN Effective(c) ELSE 0

\* Mutant of Raised: what the class had before is forgotten.
RaisedAnew(c) == Gain(c)

Raised(c) == credit[c] + Gain(c)

\* Mutant of Total: the boosts are left out of what the chosen class pays.
TotalOfWeights == LET Base(c) == IF c \in Present THEN Weight[c] ELSE 0
                  IN Base(1) + Base(2) + Base(3) + Base(4)

\* What all classes gained this turn; the chosen one pays it.
Total == Gain(1) + Gain(2) + Gain(3) + Gain(4)

\* Most credit; equal credit falls to the higher class.
Chosen == CHOOSE c \in Present : \A d \in Present \ {c} :
             Raised(c) > Raised(d) \/ (Raised(c) = Raised(d) /\ c < d)

(***************************************************************************)
(* The client inside the class.                                            *)
(***************************************************************************)
\* Mutant of Score: skips do not count.
ScoreWithoutSkips(l) == head[l].priority * PriorityWeight + head[l].age * AgeWeight

Score(l) == head[l].priority * PriorityWeight + skips[l[2]] * SkipWeight + head[l].age * AgeWeight

\* Ties are broken by job id, which says nothing about lanes.
Best(c) == {l \in Pool(c) : \A m \in Pool(c) : Score(m) <= Score(l)}

Skipped(l) == [k \in Clients |-> IF <<l[1], k>> \notin Pool(l[1]) THEN skips[k]
                                 ELSE IF k = l[2] THEN 0 ELSE skips[k] + 1]

(***************************************************************************)
(* Lanes.                                                                  *)
(***************************************************************************)
Outranks(j, i) == j.priority > i.priority \/ (j.priority = i.priority /\ j.age > i.age)

\* A lane offers a job: a new one, the next in the lane, or one back from a retry.
Arrive(l, job) ==
    /\ job.priority \in offers[l]
    /\ head[l] = NoJob \/ Outranks(job, head[l])
    /\ head' = [head EXCEPT ![l] = job]

\* The head is cancelled or expires.
Leave(l) == head[l] # NoJob /\ head' = [head EXCEPT ![l] = NoJob]

Tick ==
    /\ \A l \in Lanes : head[l].age < MaxAge
    /\ \E l \in Lanes : head[l] # NoJob
    /\ head' = [l \in Lanes |-> IF head[l] = NoJob THEN NoJob ELSE [head[l] EXCEPT !.age = @ + 1]]

(***************************************************************************)
(* claim_next: credits and skips change with a claim that succeeds.         *)
(***************************************************************************)
Committed(l) ==
    /\ credit' = [c \in Classes |-> Raised(c) - (IF c = l[1] THEN Total ELSE 0)]
    /\ skips' = Skipped(l)

Claim(l) ==
    /\ head[l] # NoJob /\ l \in Best(Chosen)
    /\ Committed(l) /\ head' = [head EXCEPT ![l] = NoJob]
    /\ waits'  = IF head[watched] = NoJob \/ watched[1] = l[1] THEN 0 ELSE waits + 1
    /\ passes' = IF head[watched] = NoJob \/ watched = l THEN 0
                 ELSE IF watched[1] = l[1] THEN passes + 1 ELSE passes

\* The best job turns out to be gone, claimed or cancelled elsewhere: it leaves
\* the index, and the picker tries again from the credit it had.
LostRace(l) ==
    /\ head[l] # NoJob /\ l \in Best(Chosen)
    /\ head' = [head EXCEPT ![l] = NoJob]
    /\ UNCHANGED <<credit, skips, waits, passes>>

Others == UNCHANGED <<credit, skips, waits, passes>>

Next ==
    /\ \/ \E l \in Lanes : \/ Claim(l) \/ LostRace(l)
                           \/ Leave(l) /\ Others
                           \/ \E job \in Job : Arrive(l, job) /\ Others
       \/ Tick /\ Others
    /\ UNCHANGED <<offers, watched>>

Spec == Init /\ [][Next]_vars

(***************************************************************************)
(* Properties.                                                             *)
(***************************************************************************)
TypeOK ==
    /\ offers \in Uses
    /\ head \in [Lanes -> Job \cup {NoJob}]
    /\ credit \in [Classes -> Int] /\ skips \in [Clients -> Nat]
    /\ watched \in Lanes /\ waits \in Nat /\ passes \in Nat

\* Turns are conserved: what a class gains beyond its share another has lost,
\* so that no sequence of arrivals and absences mints credit (scheduler.py:66-74).
CreditsBalance == credit[1] + credit[2] + credit[3] + credit[4] = 0

\* However old its jobs are, a class counts for less than any class above it
\* that was given a larger weight (config.py:73-74).
BoostKeepsOrder ==
    \A c \in Present : \A h \in 1 .. c - 1 :
        (\A g \in 1 .. c - 1 : Weight[c] < Weight[g]) => Effective(c) < Weight[h]

\* A class with a claimable job gets a turn after as many turns of the others as
\* its weight allows, whatever classes come and go, and whatever claims are lost.
TurnForEveryClass == waits <= WaitBound[watched[1]]

\* A client of one class is served after its class has passed it over a bounded
\* number of times, whatever the priorities and ages of its neighbours.
TurnForEveryClient == passes <= PassBound
=============================================================================
