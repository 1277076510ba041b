--------------------------- MODULE SchedulerProofs ---------------------------
(***************************************************************************)
(* For all weights, boosts, priorities and uses of the classes: the types,   *)
(* the conservation of credit, the order of the boosted weights, and bounds  *)
(* on how long a class and a client wait for their turn.                    *)
(***************************************************************************)
EXTENDS Scheduler, FiniteSetTheorems, TLAPS

\* Every non-empty set of naturals has a least element.  The prover has no
\* induction over naturals, so this rests on the well-foundedness of strict
\* inclusion: the least x is the one whose 0 .. x is smallest.
LEMMA LeastNat ==
    ASSUME NEW T \in SUBSET Nat, T # {}
    PROVE  \E x \in T : \A y \in T : x <= y
<1>1. PICK b \in T : TRUE
  OBVIOUS
<1>. DEFINE S == 0 .. b
            I == {s \in SUBSET S : \E x \in T : x <= b /\ s = 0 .. x}
<1>2. IsWellFoundedOn(StrictSubsetOrdering(S), SUBSET S)
  <2>1. IsFiniteSet(S)
    BY <1>1, FS_Interval
  <2>. HIDE DEF S
  <2>2. FiniteSubsetsOf(S) = SUBSET S
    BY <2>1, FS_FiniteSubsetsOfFinite
  <2>3. IsWellFoundedOn(StrictSubsetOrdering(S), FiniteSubsetsOf(S))
    BY FS_StrictSubsetOrderingWellFounded
  <2>. QED BY <2>2, <2>3
<1>3. I \subseteq SUBSET S /\ I # {}
  <2>1. 0 .. b \in I
    BY <1>1
  <2>. QED BY <2>1
<1>4. PICK s \in I : \A t \in I : ~ (<<t, s>> \in StrictSubsetOrdering(S))
  <2>. HIDE DEF I, S
  <2>. QED BY <1>2, <1>3, WFMin
<1>5. PICK x \in T : x <= b /\ s = 0 .. x
  OBVIOUS
<1>6. ASSUME NEW y \in T, y < x PROVE FALSE
  <2>1. 0 .. y \in I
    BY <1>1, <1>5, <1>6
  <2>2. <<0 .. y, s>> \in (SUBSET S) \X (SUBSET S)
    BY <2>1
  <2>3. 0 .. y \subseteq s /\ 0 .. y # s
    <3>1. x \in s /\ x \notin 0 .. y
      BY <1>5, <1>6
    <3>. QED BY <3>1, <1>5, <1>6
  <2>. QED BY <2>1, <2>2, <2>3, <1>4 DEF StrictSubsetOrdering
<1>. QED BY <1>6

\* A class above c exists for every class but the first, and the least of their
\* weights is one of them.
LEMMA LeastHigherType ==
    ASSUME NEW c \in Classes, c # 1
    PROVE  /\ LeastHigher(c) \in Nat
           /\ \A h \in 1 .. c - 1 : LeastHigher(c) <= Weight[h]
<1>. DEFINE W == {Weight[h] : h \in 1 .. c - 1}
<1>1. W \subseteq Nat /\ W # {}
  <2>1. \A h \in 1 .. c - 1 : Weight[h] \in Nat
    BY WeightAssumption DEF Classes
  <2>2. Weight[1] \in W
    BY DEF Classes
  <2>. QED BY <2>1, <2>2
<1>2. \E w \in W : \A h \in 1 .. c - 1 : w <= Weight[h]
  <2>1. PICK w \in W : \A v \in W : w <= v
    BY <1>1, LeastNat
  <2>. QED BY <2>1
<1>3. LeastHigher(c) \in W /\ \A h \in 1 .. c - 1 : LeastHigher(c) <= Weight[h]
  BY <1>2 DEF LeastHigher
<1>. QED BY <1>1, <1>3

\* A class with work has an oldest head.
LEMMA OldestType ==
    ASSUME TypeOK, NEW c \in Present
    PROVE  Oldest(c) \in 0 .. MaxAge
<1>. DEFINE D == {MaxAge - head[l].age : l \in Pool(c)}
<1>1. \A l \in Pool(c) : head[l] \in Job /\ head[l].age \in 0 .. MaxAge
  BY DEF TypeOK, Pool, Job
<1>2. D \subseteq Nat /\ D # {}
  BY <1>1, NumberAssumption DEF Present
<1>3. PICK d \in D : \A e \in D : d <= e
  BY <1>2, LeastNat
<1>4. PICK l \in Pool(c) : d = MaxAge - head[l].age
  BY <1>3
<1>5. \A m \in Pool(c) : head[m].age <= head[l].age
  <2>1. \A m \in Pool(c) : MaxAge - head[l].age <= MaxAge - head[m].age
    BY <1>3, <1>4
  <2>. QED BY <2>1, <1>1, NumberAssumption
<1>6. (CHOOSE x \in Pool(c) : \A m \in Pool(c) : head[m].age <= head[x].age) \in Pool(c)
  BY <1>5
<1>. QED BY <1>1, <1>6 DEF Oldest

\* A boost is a natural number.
LEMMA BoostType ==
    ASSUME TypeOK, NEW c \in Present
    PROVE  Boost(c) \in Nat
<1>1. Oldest(c) \in Nat
  BY OldestType, NumberAssumption
<1>2. Oldest(c) * BoostPerTick \in Nat
  BY <1>1, NumberAssumption
<1>. QED BY <1>2, WeightAssumption DEF Boost, Smaller

\* The weight in force is between the weight that was configured and a ceiling.
LEMMA EffectiveBounds ==
    ASSUME TypeOK, NEW c \in Present
    PROVE  /\ Effective(c) \in Nat
           /\ c # 1 => \/ Effective(c) <= Weight[c]
                       \/ Effective(c) <= (3 * LeastHigher(c)) \div 4
<1>1. Boost(c) \in Nat /\ c \in Classes /\ Weight[c] \in Nat
  BY BoostType, WeightAssumption DEF Present
<1>2. CASE c = 1
  BY <1>1, <1>2 DEF Effective
<1>3. CASE c # 1
  <2>1. LeastHigher(c) \in Nat
    BY <1>1, <1>3, LeastHigherType
  <2>2. (3 * LeastHigher(c)) \div 4 \in Nat
    BY <2>1
  <2>. HIDE DEF Boost, LeastHigher
  <2>. QED BY <1>1, <1>3, <2>2 DEF Effective, Smaller, Larger
<1>. QED BY <1>2, <1>3

\* Gains are natural numbers.
LEMMA GainType ==
    ASSUME TypeOK, NEW c \in Classes
    PROVE  Gain(c) \in Nat
BY EffectiveBounds DEF Gain

\* The chosen lane belongs to a class with work.
LEMMA BestClass ==
    ASSUME TypeOK, NEW l \in Lanes, head[l] # NoJob
    PROVE  l[1] \in Present /\ l[1] \in Classes /\ l[2] \in Clients
<1>1. l \in Classes \X Clients
  BY UsesAssumption DEF TypeOK, Lanes
<1>2. l \in Pool(l[1])
  BY DEF Pool
<1>. QED BY <1>1, <1>2 DEF Present

\* A commit keeps the types of the picker's state.
LEMMA CommitTypes ==
    ASSUME TypeOK, NEW l \in Lanes, head[l] # NoJob, Committed(l)
    PROVE  credit' \in [Classes -> Int] /\ skips' \in [Clients -> Nat]
<1>1. \A c \in Classes : Gain(c) \in Int /\ credit[c] \in Int
  BY GainType DEF TypeOK
<1>2. Total \in Int
  BY <1>1 DEF Total, Classes
<1>3. \A c \in Classes : Raised(c) - (IF c = l[1] THEN Total ELSE 0) \in Int
  BY <1>1, <1>2 DEF Raised
<1>4. credit' \in [Classes -> Int]
  BY <1>3 DEF Committed
<1>5. \A k \in Clients : skips[k] \in Nat
  BY DEF TypeOK
<1>6. skips' \in [Clients -> Nat]
  BY <1>5 DEF Committed, Skipped
<1>. QED BY <1>4, <1>6

\* One turn moves credit between the classes and makes none: the chosen class
\* pays what all of them gained.
LEMMA CommitBalance ==
    ASSUME TypeOK, CreditsBalance, NEW l \in Lanes, head[l] # NoJob, Committed(l)
    PROVE  CreditsBalance'
<1>1. \A c \in Classes : Gain(c) \in Int /\ credit[c] \in Int
  BY GainType DEF TypeOK
<1>2. l[1] \in Classes
  BY BestClass
<1>3. \A c \in Classes : credit'[c] = Raised(c) - (IF c = l[1] THEN Total ELSE 0)
  BY DEF Committed
<1>4. Gain(1) \in Int /\ Gain(2) \in Int /\ Gain(3) \in Int /\ Gain(4) \in Int
  BY <1>1 DEF Classes
<1>5. credit[1] \in Int /\ credit[2] \in Int /\ credit[3] \in Int /\ credit[4] \in Int
  BY <1>1 DEF Classes
<1>6. l[1] = 1 \/ l[1] = 2 \/ l[1] = 3 \/ l[1] = 4
  BY <1>2 DEF Classes
<1>7. /\ credit'[1] = Raised(1) - (IF l[1] = 1 THEN Total ELSE 0)
      /\ credit'[2] = Raised(2) - (IF l[1] = 2 THEN Total ELSE 0)
      /\ credit'[3] = Raised(3) - (IF l[1] = 3 THEN Total ELSE 0)
      /\ credit'[4] = Raised(4) - (IF l[1] = 4 THEN Total ELSE 0)
  BY <1>3 DEF Classes
<1>. QED BY <1>4, <1>5, <1>6, <1>7 DEF CreditsBalance, Total, Raised

\* The lanes keep their types when a job comes or goes.
LEMMA HeadTypes ==
    ASSUME TypeOK, NEW l \in Lanes, NEW job \in Job \cup {NoJob}
    PROVE  [head EXCEPT ![l] = job] \in [Lanes -> Job \cup {NoJob}]
BY DEF TypeOK

THEOREM TypeCorrect == Spec => []TypeOK
<1>1. Init => TypeOK
  BY DEF Init, TypeOK, Lanes
<1>2. TypeOK /\ [Next]_vars => TypeOK'
  <2>. SUFFICES ASSUME TypeOK, [Next]_vars
                PROVE  TypeOK'
    OBVIOUS
  <2>1. CASE UNCHANGED vars
    BY <2>1 DEF TypeOK, vars, Lanes
  <2>2. ASSUME NEW l \in Lanes, Claim(l), UNCHANGED <<offers, watched>>
        PROVE  TypeOK'
    <3>1. credit' \in [Classes -> Int] /\ skips' \in [Clients -> Nat]
      BY <2>2, CommitTypes DEF Claim
    <3>2. head' \in [Lanes -> Job \cup {NoJob}]
      BY <2>2, HeadTypes DEF Claim
    <3>3. waits' \in Nat /\ passes' \in Nat
      BY <2>2 DEF Claim, TypeOK
    <3>. QED BY <2>2, <3>1, <3>2, <3>3 DEF TypeOK, Lanes
  <2>3. ASSUME NEW l \in Lanes, LostRace(l), UNCHANGED <<offers, watched>>
        PROVE  TypeOK'
    <3>1. head' \in [Lanes -> Job \cup {NoJob}]
      BY <2>3, HeadTypes DEF LostRace
    <3>. QED BY <2>3, <3>1 DEF TypeOK, LostRace, Lanes
  <2>4. ASSUME NEW l \in Lanes, Leave(l), Others, UNCHANGED <<offers, watched>>
        PROVE  TypeOK'
    <3>1. head' \in [Lanes -> Job \cup {NoJob}]
      BY <2>4, HeadTypes DEF Leave
    <3>. QED BY <2>4, <3>1 DEF TypeOK, Others, Lanes
  <2>5. ASSUME NEW l \in Lanes, NEW job \in Job, Arrive(l, job), Others, UNCHANGED <<offers, watched>>
        PROVE  TypeOK'
    <3>1. head' \in [Lanes -> Job \cup {NoJob}]
      BY <2>5, HeadTypes DEF Arrive
    <3>. QED BY <2>5, <3>1 DEF TypeOK, Others, Lanes
  <2>6. ASSUME Tick, Others, UNCHANGED <<offers, watched>>
        PROVE  TypeOK'
    <3>1. ASSUME NEW l \in Lanes, head[l] # NoJob
          PROVE  [head[l] EXCEPT !.age = @ + 1] \in Job
      <4>1. head[l] \in Job /\ head[l].age < MaxAge
        BY <2>6, <3>1 DEF TypeOK, Tick
      <4>2. head[l].age + 1 \in 0 .. MaxAge
        BY <4>1, NumberAssumption DEF Job
      <4>. QED BY <4>1, <4>2 DEF Job
    <3>2. head' \in [Lanes -> Job \cup {NoJob}]
      BY <2>6, <3>1 DEF Tick
    <3>. QED BY <2>6, <3>2 DEF TypeOK, Others, Lanes
  <2>. QED BY <2>1, <2>2, <2>3, <2>4, <2>5, <2>6 DEF Next
<1>. QED BY <1>1, <1>2, PTL DEF Spec

\* No sequence of arrivals, absences, claims and lost races mints credit.
THEOREM CreditIsConserved == Spec => []CreditsBalance
<1>1. Init => CreditsBalance
  BY DEF Init, CreditsBalance, Classes
<1>2. TypeOK /\ CreditsBalance /\ [Next]_vars => CreditsBalance'
  <2>. SUFFICES ASSUME TypeOK, CreditsBalance, [Next]_vars
                PROVE  CreditsBalance'
    OBVIOUS
  <2>1. ASSUME NEW l \in Lanes, Claim(l) PROVE CreditsBalance'
    BY <2>1, CommitBalance DEF Claim
  <2>2. CASE UNCHANGED credit
    BY <2>2 DEF CreditsBalance
  <2>. QED BY <2>1, <2>2 DEF Next, vars, LostRace, Others
<1>. QED BY <1>1, <1>2, TypeCorrect, PTL DEF Spec

\* A boosted class stays below every class above it, whatever its jobs' ages.
THEOREM OrderIsKept == Spec => []BoostKeepsOrder
<1>1. TypeOK => BoostKeepsOrder
  <2>. SUFFICES ASSUME TypeOK, NEW c \in Present, NEW h \in 1 .. c - 1,
                       \A g \in 1 .. c - 1 : Weight[c] < Weight[g]
                PROVE  Effective(c) < Weight[h]
    BY DEF BoostKeepsOrder
  <2>1. c \in Classes /\ c # 1 /\ h \in Classes
    BY DEF Present, Classes
  <2>2. Weight[c] \in Nat /\ Weight[h] \in Nat /\ Weight[c] < Weight[h]
    BY <2>1, WeightAssumption
  <2>3. LeastHigher(c) \in Nat /\ LeastHigher(c) <= Weight[h]
    BY <2>1, LeastHigherType
  <2>4. (3 * LeastHigher(c)) \div 4 < Weight[h]
    BY <2>2, <2>3
  <2>5. /\ Effective(c) \in Nat
        /\ Effective(c) <= Weight[c] \/ Effective(c) <= (3 * LeastHigher(c)) \div 4
    BY <2>1, EffectiveBounds
  <2>. HIDE DEF Effective, LeastHigher
  <2>6. (3 * LeastHigher(c)) \div 4 \in Int
    BY <2>3
  <2>. QED BY <2>2, <2>4, <2>5, <2>6
<1>. QED BY <1>1, TypeCorrect, PTL

(***************************************************************************)
(* Turns of the classes.  What a class may gain in a turn bounds the credit  *)
(* of every class, from both sides, although classes come and go: the class  *)
(* that is served is never behind one that gains.  A class that waits gains   *)
(* its weight in every turn, so it cannot wait long.                        *)
(***************************************************************************)
\* The most that a class can gain in a turn.
Ceiling(c) ==
    IF c = 1 THEN Weight[c] + BoostCap
    ELSE Smaller(Weight[c] + BoostCap, Larger(Weight[c], (3 * LeastHigher(c)) \div 4))

\* P bounds what two classes gain together in a turn.
PairBound(P) == P \in Nat /\ \A c, d \in Classes : c # d => Ceiling(c) + Ceiling(d) <= P

\* Bounds on the credit of one and of two of the four classes, from both sides as
\* the sum is zero.  Neither is preserved without the other: two classes that are
\* level lift each other.
Level(P, a, x, y, z) ==
    /\ a + x + y + z = 0
    /\ 2 * a <= 3 * P /\ 2 * x <= 3 * P /\ 2 * y <= 3 * P /\ 2 * z <= 3 * P
    /\ -3 * P <= 2 * a /\ -3 * P <= 2 * x /\ -3 * P <= 2 * y /\ -3 * P <= 2 * z
    /\ a + x <= 2 * P /\ a + y <= 2 * P /\ a + z <= 2 * P
    /\ x + y <= 2 * P /\ x + z <= 2 * P /\ y + z <= 2 * P

\* A turn in which class a is served: the others gain, if they gain, only what
\* leaves them behind a, and a pays it all.
LEMMA TurnArithmetic ==
    ASSUME NEW P \in Nat, NEW a \in Int, NEW x \in Int, NEW y \in Int, NEW z \in Int,
           Level(P, a, x, y, z),
           NEW ga \in Nat, NEW gx \in Nat, NEW gy \in Nat, NEW gz \in Nat,
           ga + gx <= P, ga + gy <= P, ga + gz <= P, gx + gy <= P, gx + gz <= P, gy + gz <= P,
           gx = 0 \/ x + gx <= a + ga, gy = 0 \/ y + gy <= a + ga, gz = 0 \/ z + gz <= a + ga
    PROVE  Level(P, a + ga - (ga + gx + gy + gz), x + gx, y + gy, z + gz)
<1>1. 2 * (x + gx) <= 3 * P /\ 2 * (y + gy) <= 3 * P /\ 2 * (z + gz) <= 3 * P
  BY DEF Level
<1>2. (x + gx) + (y + gy) <= 2 * P
  BY DEF Level
<1>3. (x + gx) + (z + gz) <= 2 * P
  BY DEF Level
<1>4. (y + gy) + (z + gz) <= 2 * P
  BY DEF Level
<1>5. 2 * ((x + gx) + (y + gy) + (z + gz)) <= 3 * P
  BY DEF Level
<1>6. a + ga - (ga + gx + gy + gz) = a - gx - gy - gz
  OBVIOUS
<1> QED BY <1>1, <1>2, <1>3, <1>4, <1>5, <1>6 DEF Level

LEMMA LevelSymmetric ==
    ASSUME NEW P, NEW a \in Int, NEW x \in Int, NEW y \in Int, NEW z \in Int
    PROVE  /\ Level(P, a, x, y, z) <=> Level(P, x, a, y, z)
           /\ Level(P, a, x, y, z) <=> Level(P, y, a, x, z)
           /\ Level(P, a, x, y, z) <=> Level(P, z, a, x, y)
BY DEF Level

\* What a class with work gains is its weight at least.
LEMMA GainBounds ==
    ASSUME TypeOK, NEW c \in Classes
    PROVE  /\ Gain(c) \in Nat /\ Ceiling(c) \in Int /\ Gain(c) <= Ceiling(c)
           /\ c \in Present => Weight[c] <= Gain(c)
<1>1. Weight[c] \in Nat /\ BoostCap \in Nat
  BY WeightAssumption
<1>2. c # 1 => (3 * LeastHigher(c)) \div 4 \in Int
  <2>1. c # 1 => LeastHigher(c) \in Nat
    BY LeastHigherType
  <2> QED BY <2>1
<1>3. Ceiling(c) \in Int /\ Weight[c] <= Ceiling(c)
  <2> HIDE DEF LeastHigher
  <2> QED BY <1>1, <1>2 DEF Ceiling, Smaller, Larger
<1>4. CASE c \in Present
  <2>1. Boost(c) \in Nat
    BY <1>4, BoostType
  <2>2. Boost(c) <= BoostCap
    <3>1. Oldest(c) \in Nat
      BY <1>4, OldestType, NumberAssumption
    <3>2. Oldest(c) * BoostPerTick \in Nat
      BY <3>1, NumberAssumption
    <3> QED BY <1>1, <3>2 DEF Boost, Smaller
  <2> HIDE DEF Boost, LeastHigher
  <2>3. Effective(c) \in Nat /\ Weight[c] <= Effective(c) /\ Effective(c) <= Ceiling(c)
    BY <1>1, <1>2, <2>1, <2>2 DEF Effective, Ceiling, Smaller, Larger
  <2> QED BY <1>3, <1>4, <2>3 DEF Gain
<1>5. CASE c \notin Present
  BY <1>1, <1>3, <1>5 DEF Gain
<1> QED BY <1>4, <1>5

\* Two classes gain at most P.
LEMMA PairGains ==
    ASSUME TypeOK, NEW P, PairBound(P), NEW c \in Classes, NEW d \in Classes, c # d
    PROVE  Gain(c) + Gain(d) <= P
<1>1. Ceiling(c) + Ceiling(d) <= P /\ P \in Nat
  BY DEF PairBound
<1> QED BY <1>1, GainBounds

\* The class whose turn it is has work, and is behind no other that has.
LEMMA ChosenLeads ==
    ASSUME TypeOK, Present # {}
    PROVE  Chosen \in Present /\ \A c \in Present : Raised(c) <= Raised(Chosen)
<1> DEFINE Ahead(c, d) == Raised(c) > Raised(d) \/ (Raised(c) = Raised(d) /\ c < d)
           V(c) == 8 * Raised(c) - c
           M == 8 * (Larger(0, Raised(1)) + Larger(0, Raised(2)) + Larger(0, Raised(3)) + Larger(0, Raised(4)))
           T == {M - V(c) : c \in Present}
<1>1. /\ Raised(1) \in Int /\ Raised(2) \in Int /\ Raised(3) \in Int /\ Raised(4) \in Int
      /\ Present \subseteq {1, 2, 3, 4}
  <2>1. \A c \in Classes : Raised(c) \in Int
    BY GainType DEF Raised, TypeOK
  <2> QED BY <2>1 DEF Classes, Present
<1>2. \A c \in Present : Raised(c) \in Int /\ c \in Int /\ 1 <= c /\ c <= 4
  BY <1>1
<1> HIDE DEF Raised
<1>3. T \subseteq Nat /\ T # {}
  <2>1. M \in Int /\ \A c \in Present : 8 * Raised(c) <= M
    BY <1>1 DEF Larger
  <2> HIDE DEF M
  <2>2. \A c \in Present : M - V(c) \in Nat
    BY <1>2, <2>1
  <2> QED BY <2>2
<1>4. M \in Int
  BY <1>1 DEF Larger
<1> HIDE DEF M
<1>5. PICK t \in T : \A u \in T : t <= u
  BY <1>3, LeastNat
<1>6. PICK c \in Present : t = M - V(c)
  BY <1>5
<1>7. \A d \in Present : V(d) <= V(c)
  <2> TAKE d \in Present
  <2>1. M - V(c) <= M - V(d)
    BY <1>5, <1>6
  <2> QED BY <1>2, <1>4, <2>1
<1>8. \A d \in Present \ {c} : Ahead(c, d)
  <2> TAKE d \in Present \ {c}
  <2>1. 8 * Raised(d) - d <= 8 * Raised(c) - c
    BY <1>7
  <2> QED BY <1>2, <2>1
<1>9. Chosen \in Present /\ \A d \in Present \ {Chosen} : Ahead(Chosen, d)
  BY <1>8 DEF Chosen
<1>10. \A d \in Present : Raised(d) <= Raised(Chosen)
  BY <1>2, <1>9
<1> QED BY <1>9, <1>10

CreditLevel(P) == Level(P, credit[1], credit[2], credit[3], credit[4])

\* A claim from class d, the other classes being x, y and z.
LEMMA ClaimLevelOf ==
    ASSUME TypeOK, NEW P, PairBound(P), NEW l \in Lanes, Claim(l),
           NEW d \in Classes, NEW x \in Classes, NEW y \in Classes, NEW z \in Classes,
           l[1] = d, d # x, d # y, d # z, x # y, x # z, y # z, d = Chosen,
           Total = Gain(d) + Gain(x) + Gain(y) + Gain(z),
           Level(P, credit[d], credit[x], credit[y], credit[z])
    PROVE  Level(P, credit'[d], credit'[x], credit'[y], credit'[z])
<1>1. \A c \in Classes : Gain(c) \in Nat /\ credit[c] \in Int
  BY GainBounds DEF TypeOK
<1>2. head[l] # NoJob /\ Committed(l) /\ P \in Nat
  BY DEF Claim, PairBound
<1>3. Present # {}
  BY <1>2, BestClass
<1>4. \A c \in Classes : Gain(c) = 0 \/ Raised(c) <= Raised(d)
  BY <1>3, ChosenLeads DEF Gain
<1>5. \A c \in Classes : credit'[c] = Raised(c) - (IF c = d THEN Total ELSE 0)
  BY <1>2 DEF Committed
<1> DEFINE ga == Gain(d)
           gx == Gain(x)
           gy == Gain(y)
           gz == Gain(z)
<1>6. ga \in Nat /\ gx \in Nat /\ gy \in Nat /\ gz \in Nat
  BY <1>1
<1>7. /\ ga + gx <= P /\ ga + gy <= P /\ ga + gz <= P
       /\ gx + gy <= P /\ gx + gz <= P /\ gy + gz <= P
  BY PairGains
<1>8. credit[d] \in Int /\ credit[x] \in Int /\ credit[y] \in Int /\ credit[z] \in Int
  BY <1>1
<1>9. gx = 0 \/ credit[x] + gx <= credit[d] + ga
  BY <1>4 DEF Raised
<1>10. gy = 0 \/ credit[y] + gy <= credit[d] + ga
  BY <1>4 DEF Raised
<1>11. gz = 0 \/ credit[z] + gz <= credit[d] + ga
  BY <1>4 DEF Raised
<1>12. /\ credit'[d] = credit[d] + ga - (ga + gx + gy + gz)
       /\ credit'[x] = credit[x] + gx
       /\ credit'[y] = credit[y] + gy
       /\ credit'[z] = credit[z] + gz
  <2>1. credit'[d] = Raised(d) - Total
    BY <1>5
  <2>2. credit'[x] = Raised(x) - 0 /\ credit'[y] = Raised(y) - 0 /\ credit'[z] = Raised(z) - 0
    BY <1>5
  <2>3. /\ Raised(d) = credit[d] + ga /\ Raised(x) = credit[x] + gx
        /\ Raised(y) = credit[y] + gy /\ Raised(z) = credit[z] + gz
    BY DEF Raised
  <2>4. Total = ga + gx + gy + gz
    OBVIOUS
  <2> HIDE DEF ga, gx, gy, gz
  <2> QED BY <1>6, <1>8, <2>1, <2>2, <2>3, <2>4
<1> HIDE DEF ga, gx, gy, gz
<1>13. Level(P, credit[d] + ga - (ga + gx + gy + gz), credit[x] + gx, credit[y] + gy, credit[z] + gz)
  BY <1>2, <1>6, <1>7, <1>8, <1>9, <1>10, <1>11, TurnArithmetic
<1> QED BY <1>12, <1>13

\* A claim leaves the credits level.
LEMMA ClaimLevel ==
    ASSUME TypeOK, NEW P, PairBound(P), CreditLevel(P), NEW l \in Lanes, Claim(l)
    PROVE  CreditLevel(P)'
<1>1. head[l] # NoJob /\ l \in Best(Chosen)
  BY DEF Claim
<1>2. l[1] = Chosen /\ l[1] \in Classes
  BY <1>1, BestClass DEF Best, Pool
<1>3. /\ 1 \in Classes /\ 2 \in Classes /\ 3 \in Classes /\ 4 \in Classes
      /\ l[1] = 1 \/ l[1] = 2 \/ l[1] = 3 \/ l[1] = 4
  BY <1>2 DEF Classes
<1>4. credit[1] \in Int /\ credit[2] \in Int /\ credit[3] \in Int /\ credit[4] \in Int
  BY <1>3 DEF TypeOK
<1>5. credit'[1] \in Int /\ credit'[2] \in Int /\ credit'[3] \in Int /\ credit'[4] \in Int
  BY <1>1, <1>3, CommitTypes DEF Claim
<1>6. Gain(1) \in Int /\ Gain(2) \in Int /\ Gain(3) \in Int /\ Gain(4) \in Int
  BY <1>3, GainType
<1>7. Level(P, credit[1], credit[2], credit[3], credit[4])
  BY DEF CreditLevel
<1>8. CASE l[1] = 1
  <2>1. Total = Gain(1) + Gain(2) + Gain(3) + Gain(4)
    BY DEF Total
  <2>2. Level(P, credit'[1], credit'[2], credit'[3], credit'[4])
    BY <1>2, <1>3, <1>7, <1>8, <2>1, ClaimLevelOf
  <2> QED BY <2>2 DEF CreditLevel
<1>9. CASE l[1] = 2
  <2>1. Total = Gain(2) + Gain(1) + Gain(3) + Gain(4)
    BY <1>6 DEF Total
  <2>2. Level(P, credit[2], credit[1], credit[3], credit[4])
    BY <1>4, <1>7, LevelSymmetric
  <2>3. Level(P, credit'[2], credit'[1], credit'[3], credit'[4])
    BY <1>2, <1>3, <1>9, <2>1, <2>2, ClaimLevelOf
  <2>4. Level(P, credit'[1], credit'[2], credit'[3], credit'[4])
    BY <1>5, <2>3, LevelSymmetric
  <2> QED BY <2>4 DEF CreditLevel
<1>10. CASE l[1] = 3
  <2>1. Total = Gain(3) + Gain(1) + Gain(2) + Gain(4)
    BY <1>6 DEF Total
  <2>2. Level(P, credit[3], credit[1], credit[2], credit[4])
    BY <1>4, <1>7, LevelSymmetric
  <2>3. Level(P, credit'[3], credit'[1], credit'[2], credit'[4])
    BY <1>2, <1>3, <1>10, <2>1, <2>2, ClaimLevelOf
  <2>4. Level(P, credit'[1], credit'[2], credit'[3], credit'[4])
    BY <1>5, <2>3, LevelSymmetric
  <2> QED BY <2>4 DEF CreditLevel
<1>11. CASE l[1] = 4
  <2>1. Total = Gain(4) + Gain(1) + Gain(2) + Gain(3)
    BY <1>6 DEF Total
  <2>2. Level(P, credit[4], credit[1], credit[2], credit[3])
    BY <1>4, <1>7, LevelSymmetric
  <2>3. Level(P, credit'[4], credit'[1], credit'[2], credit'[3])
    BY <1>2, <1>3, <1>11, <2>1, <2>2, ClaimLevelOf
  <2>4. Level(P, credit'[1], credit'[2], credit'[3], credit'[4])
    BY <1>5, <2>3, LevelSymmetric
  <2> QED BY <2>4 DEF CreditLevel
<1> QED BY <1>3, <1>8, <1>9, <1>10, <1>11

\* The arithmetic of a turn given away: the class that waits gains its weight.
LEMMA WaitArithmetic ==
    ASSUME NEW n \in Nat, NEW w \in Nat, NEW c \in Int, NEW g \in Nat, NEW b \in Int,
           2 * (n * w) - b <= 2 * c, w <= g
    PROVE  2 * ((n + 1) * w) - b <= 2 * (c + g)
<1>1. (n + 1) * w = n * w + w /\ n * w \in Int
  OBVIOUS
<1> DEFINE p == n * w
<1>2. 2 * p - b <= 2 * c /\ p \in Int
  BY <1>1
<1> HIDE DEF p
<1>3. 2 * (p + w) - b <= 2 * (c + g)
  BY <1>2
<1> QED BY <1>1, <1>3 DEF p

\* A class that waits has gained its weight in every turn it waited for, from the
\* least credit a class can have.
WaitIsPaid(P) == 2 * (waits * Weight[watched[1]]) - 3 * P <= 2 * credit[watched[1]]

\* The bounds of one class.
LEMMA CreditBounds ==
    ASSUME NEW P \in Nat, NEW f \in [Classes -> Int], Level(P, f[1], f[2], f[3], f[4]), NEW c \in Classes
    PROVE  -3 * P <= 2 * f[c] /\ 2 * f[c] <= 3 * P
<1>1. f[1] \in Int /\ f[2] \in Int /\ f[3] \in Int /\ f[4] \in Int
  BY DEF Classes
<1>2. c = 1 \/ c = 2 \/ c = 3 \/ c = 4
  BY DEF Classes
<1> QED BY <1>1, <1>2 DEF Level

\* A class with claimable work waits for a number of turns that its own weight and
\* the largest gain of two classes settle, whatever classes come and go, and
\* whatever the ages of their jobs.
THEOREM ClassTurnBound ==
    ASSUME NEW P, PairBound(P)
    PROVE  Spec => [](waits * Weight[watched[1]] <= 3 * P)
<1> DEFINE Inv == CreditLevel(P) /\ WaitIsPaid(P)
<1>0. P \in Nat
  BY DEF PairBound
<1>1. TypeOK => /\ watched \in Lanes /\ watched[1] \in Classes /\ Weight[watched[1]] \in Nat
                /\ watched = <<watched[1], watched[2]>> /\ waits \in Nat
  BY UsesAssumption, WeightAssumption DEF TypeOK, Lanes
<1>2. TypeOK /\ Init => Inv
  <2> SUFFICES ASSUME TypeOK, Init PROVE Inv
    OBVIOUS
  <2>1. \A c \in Classes : credit[c] = 0
    BY DEF Init
  <2>2. CreditLevel(P)
    BY <1>0, <2>1 DEF CreditLevel, Level, Classes
  <2>3. WaitIsPaid(P)
    <3>1. credit[watched[1]] = 0 /\ waits = 0 /\ 0 * Weight[watched[1]] = 0
      BY <1>1, <2>1 DEF Init
    <3> QED BY <1>0, <3>1 DEF WaitIsPaid
  <2> QED BY <2>2, <2>3
<1>3. TypeOK /\ TypeOK' /\ Inv /\ [Next]_vars => Inv'
  <2> SUFFICES ASSUME TypeOK, TypeOK', Inv, [Next]_vars PROVE Inv'
    OBVIOUS
  <2>1. ASSUME NEW l \in Lanes, Claim(l), watched' = watched
        PROVE  Inv'
    <3>1. CreditLevel(P)'
      BY <2>1, ClaimLevel
    <3>2. head[l] # NoJob /\ Committed(l)
      BY <2>1 DEF Claim
    <3>3. credit' \in [Classes -> Int]
      BY DEF TypeOK
    <3>4. CASE waits' = 0
      <4>1. -3 * P <= 2 * credit'[watched[1]]
        BY <1>0, <1>1, <3>1, <3>3, CreditBounds DEF CreditLevel
      <4>2. 0 * Weight[watched[1]] = 0 /\ credit'[watched[1]] \in Int
        BY <1>1, <3>3
      <4> QED BY <1>0, <2>1, <3>1, <3>4, <4>1, <4>2 DEF WaitIsPaid
    <3>5. CASE waits' # 0
      <4> DEFINE k == watched[1]
      <4>1. head[watched] # NoJob /\ k # l[1] /\ waits' = waits + 1
        BY <2>1, <3>5 DEF Claim
      <4>2. k \in Present
        BY <1>1, <4>1 DEF Pool, Present
      <4>3. Gain(k) \in Nat /\ Weight[k] <= Gain(k)
        BY <1>1, <4>2, GainBounds, GainType
      <4>4. credit[k] \in Int /\ credit'[k] = credit[k] + Gain(k)
        <5>1. credit'[k] = Raised(k) - 0 /\ credit[k] \in Int
          BY <1>1, <3>2, <4>1 DEF Committed, TypeOK
        <5> QED BY <4>3, <5>1 DEF Raised
      <4>5. 2 * (waits * Weight[k]) - 3 * P <= 2 * credit[k]
        BY DEF WaitIsPaid
      <4> HIDE DEF k
      <4>6. waits \in Nat /\ Weight[k] \in Nat /\ 3 * P \in Int
        BY <1>0, <1>1 DEF k
      <4>7. 2 * ((waits + 1) * Weight[k]) - 3 * P <= 2 * (credit[k] + Gain(k))
        BY <4>3, <4>4, <4>5, <4>6, WaitArithmetic
      <4>8. 2 * (waits' * Weight[watched'[1]]) - 3 * P <= 2 * credit'[watched'[1]]
        BY <2>1, <4>1, <4>4, <4>7 DEF k
      <4> QED BY <3>1, <4>8 DEF WaitIsPaid
    <3> QED BY <3>4, <3>5
  <2>2. CASE UNCHANGED <<credit, waits, watched>>
    BY <2>2 DEF CreditLevel, WaitIsPaid
  <2> QED BY <2>1, <2>2 DEF Next, vars, LostRace, Others
<1>4. TypeOK /\ Inv => waits * Weight[watched[1]] <= 3 * P
  <2> SUFFICES ASSUME TypeOK, Inv PROVE waits * Weight[watched[1]] <= 3 * P
    OBVIOUS
  <2>1. 2 * credit[watched[1]] <= 3 * P /\ credit[watched[1]] \in Int
    BY <1>0, <1>1, CreditBounds DEF TypeOK, CreditLevel
  <2> DEFINE p == waits * Weight[watched[1]]
  <2>2. p \in Int /\ 2 * p - 3 * P <= 2 * credit[watched[1]]
    BY <1>1 DEF WaitIsPaid
  <2> HIDE DEF p
  <2>3. p <= 3 * P
    BY <1>0, <2>1, <2>2
  <2> QED BY <2>3 DEF p
<1> HIDE DEF Inv
<1> QED BY <1>2, <1>3, <1>4, TypeCorrect, PTL DEF Spec

\* With a bound that suits the weights no class waits longer: none is starved by
\* classes of more weight, by boosts, or by classes that come and go.
THEOREM TurnForEveryClassHolds ==
    ASSUME NEW P, PairBound(P), \A c \in Classes : 3 * P < (WaitBound[c] + 1) * Weight[c]
    PROVE  Spec => []TurnForEveryClass
<1>1. TypeOK /\ waits * Weight[watched[1]] <= 3 * P => TurnForEveryClass
  <2> SUFFICES ASSUME TypeOK, waits * Weight[watched[1]] <= 3 * P PROVE TurnForEveryClass
    OBVIOUS
  <2>1. /\ watched[1] \in Classes /\ Weight[watched[1]] \in Nat /\ waits \in Nat
        /\ WaitBound[watched[1]] \in Nat
    BY UsesAssumption, WeightAssumption, NumberAssumption DEF TypeOK, Lanes
  <2> DEFINE w == Weight[watched[1]]
             n == WaitBound[watched[1]]
             k == waits - (n + 1)
             p == k * w
             q == (n + 1) * w
  <2>2. ASSUME n < waits PROVE FALSE
    <3>1. k \in Nat /\ w \in Nat /\ n + 1 \in Nat /\ waits = k + (n + 1)
      BY <2>1, <2>2
    <3>2. 3 * P < q /\ P \in Nat /\ waits * w <= 3 * P
      BY <2>1 DEF PairBound
    <3> HIDE DEF k, w, n
    <3>3. waits * w = p + q /\ p \in Nat /\ q \in Nat
      BY <3>1
    <3> HIDE DEF p, q
    <3>4. p + q <= 3 * P
      BY <3>2, <3>3
    <3> QED BY <3>2, <3>3, <3>4
  <2> QED BY <2>1, <2>2 DEF TurnForEveryClass
<1> QED BY <1>1, TypeCorrect, ClassTurnBound, PTL

(***************************************************************************)
(* Turns of the clients inside a class.  A client served before the one that *)
(* waits was within D skips of it, and is far behind it afterwards: so each   *)
(* neighbour passes it once more than D turns allow.                        *)
(***************************************************************************)
\* What priority and age can be worth against D + 1 skips.
ScoreSpread(D) ==
    /\ D \in Nat
    /\ \A i, j \in Job : i.priority * PriorityWeight + i.age * AgeWeight
                           < j.priority * PriorityWeight + j.age * AgeWeight + (D + 1) * SkipWeight

\* Every client uses one class.  Skips are kept per client: those gained in one
\* class would be spent in another.
OneLaneEach == \A use \in Uses : \A l, m \in DOMAIN use : l[2] = m[2] => l = m

\* As often as its class passed the watched client over, so many skips count for it.
SkippingCounts == passes <= skips[watched[2]]

Neighbours(l) == {m \in Lanes : m[1] = l[1]} \ {l}

\* The neighbours that cannot be served before the watched lane is.
Behind(D) == {m \in Neighbours(watched) : skips[m[2]] + D < skips[watched[2]]}

\* The numbers of a job.
LEMMA JobNumbers ==
    ASSUME NEW j \in Job
    PROVE  /\ j.priority \in Int /\ j.age \in Int
           /\ j.priority * PriorityWeight \in Int /\ j.age * AgeWeight \in Int
<1>1. j.priority \in Priorities /\ j.age \in 0 .. MaxAge
  BY DEF Job
<1>2. j.priority \in Int
  BY <1>1, UsesAssumption
<1>3. j.age \in Int
  BY <1>1
<1>4. PriorityWeight \in Int /\ AgeWeight \in Int
  BY NumberAssumption
<1>5. j.priority * PriorityWeight \in Int
  BY <1>2, <1>4
<1>6. j.age * AgeWeight \in Int
  BY <1>3, <1>4
<1> QED BY <1>2, <1>3, <1>5, <1>6

\* Skips decide once they outweigh what priority and age are worth.
LEMMA SkipArithmetic ==
    ASSUME NEW a \in Nat, NEW b \in Nat, NEW D \in Nat, NEW S \in Int, 0 < S,
           NEW p \in Int, NEW q \in Int,
           p < q + (D + 1) * S, q + a * S <= p + b * S
    PROVE  a <= b + D
<1> SUFFICES ASSUME b + D < a PROVE FALSE
  OBVIOUS
<1> DEFINE k == a - (b + D + 1)
<1>1. k \in Nat /\ a = k + (b + (D + 1))
  OBVIOUS
<1> HIDE DEF k
<1>2. a * S = k * S + (b * S + (D + 1) * S) /\ k * S \in Nat /\ b * S \in Int /\ (D + 1) * S \in Int
  BY <1>1
<1> DEFINE x == a * S
           y == k * S
           z == b * S
           u == (D + 1) * S
<1>3. x = y + (z + u) /\ y \in Nat /\ z \in Int /\ u \in Int /\ p < q + u /\ q + x <= p + z
  BY <1>2
<1> HIDE DEF x, y, z, u
<1> QED BY <1>3

\* The lane that is served is not far behind a neighbour in skips.
LEMMA ServedIsClose ==
    ASSUME TypeOK, NEW D, ScoreSpread(D), NEW l \in Lanes, head[l] # NoJob, l \in Best(l[1]),
           NEW w \in Pool(l[1])
    PROVE  skips[w[2]] <= skips[l[2]] + D
<1>1. Score(w) <= Score(l) /\ w \in Lanes /\ head[w] # NoJob
  BY DEF Best, Pool
<1>2. head[l] \in Job /\ head[w] \in Job
  BY <1>1 DEF TypeOK
<1> DEFINE p == head[l].priority * PriorityWeight + head[l].age * AgeWeight
           q == head[w].priority * PriorityWeight + head[w].age * AgeWeight
           a == skips[w[2]]
           b == skips[l[2]]
<1>3. p < q + (D + 1) * SkipWeight /\ D \in Nat
  BY <1>2 DEF ScoreSpread
<1>4. 0 < SkipWeight
  <2>1. p < p + (D + 1) * SkipWeight
    BY <1>2 DEF ScoreSpread
  <2>2. p \in Int
    BY <1>2, JobNumbers
  <2> DEFINE u == (D + 1) * SkipWeight
  <2>3. u \in Int
    BY <1>3, NumberAssumption
  <2> HIDE DEF p
  <2>4. 0 < u
    <3> HIDE DEF u
    <3>1. p < p + u
      BY <2>1 DEF u
    <3> QED BY <2>2, <2>3, <3>1
  <2>5. ~ (SkipWeight <= 0)
    <3> SUFFICES ASSUME SkipWeight <= 0 PROVE FALSE
      OBVIOUS
    <3>1. (D + 1) * (0 - SkipWeight) \in Nat /\ (D + 1) * (0 - SkipWeight) = 0 - (D + 1) * SkipWeight
      BY <1>3, NumberAssumption
    <3> QED BY <2>3, <2>4, <3>1
  <2> QED BY <2>5, NumberAssumption
<1>5. a \in Nat /\ b \in Nat
  <2>1. l[2] \in Clients /\ w[2] \in Clients
    BY <1>1, BestClass
  <2> QED BY <2>1 DEF TypeOK
<1>6. p \in Int /\ q \in Int
  BY <1>2, JobNumbers
<1>7. q + a * SkipWeight <= p + b * SkipWeight
  <2>1. Score(w) = q + a * SkipWeight
    <3>1. head[w].priority * PriorityWeight \in Int /\ head[w].age * AgeWeight \in Int
      BY <1>2, JobNumbers
    <3>2. a * SkipWeight \in Int
      BY <1>5, NumberAssumption
    <3> QED BY <3>1, <3>2 DEF Score
  <2>2. Score(l) = p + b * SkipWeight
    <3>1. head[l].priority * PriorityWeight \in Int /\ head[l].age * AgeWeight \in Int
      BY <1>2, JobNumbers
    <3>2. b * SkipWeight \in Int
      BY <1>5, NumberAssumption
    <3> QED BY <3>1, <3>2 DEF Score
  <2> QED BY <1>1, <2>1, <2>2
<1> HIDE DEF p, q, a, b
<1>8. a <= b + D
  BY <1>3, <1>4, <1>5, <1>6, <1>7, NumberAssumption, SkipArithmetic
<1> QED BY <1>8 DEF a, b

\* A lane is found among the lanes of its own class only.
LEMMA LanesApart ==
    ASSUME TypeOK, OneLaneEach, NEW m \in Lanes
    PROVE  /\ m = <<m[1], m[2]>> /\ m[1] \in Classes /\ m[2] \in Clients
           /\ \A l \in Lanes : l[2] = m[2] => l = m
           /\ \A c : <<c, m[2]>> \in Lanes => c = m[1]
<1>1. m \in Classes \X Clients /\ offers \in Uses
  BY UsesAssumption DEF TypeOK, Lanes
<1>2. \A l \in Lanes : l[2] = m[2] => l = m
  BY <1>1 DEF OneLaneEach, Lanes
<1>3. ASSUME NEW c, <<c, m[2]>> \in Lanes PROVE c = m[1]
  <2>1. <<c, m[2]>>[2] = m[2]
    OBVIOUS
  <2>2. <<c, m[2]>> = m
    BY <1>2, <1>3, <2>1
  <2> QED BY <2>2
<1> QED BY <1>1, <1>2, <1>3

\* There are finitely many neighbours.
LEMMA BehindFinite ==
    ASSUME TypeOK, IsFiniteSet(Clients), NEW D
    PROVE  /\ IsFiniteSet(Neighbours(watched)) /\ IsFiniteSet(Behind(D))
           /\ Cardinality(Behind(D)) \in Nat /\ Cardinality(Neighbours(watched)) \in Nat
           /\ Cardinality(Behind(D)) <= Cardinality(Neighbours(watched))
<1>1. IsFiniteSet(Classes \X Clients)
  <2>1. IsFiniteSet(Classes)
    <3>0. 1 \in Int /\ 4 \in Int
      OBVIOUS
    <3>1. IsFiniteSet(1 .. 4)
      BY <3>0, FS_Interval, Zenon
    <3> QED BY <3>1 DEF Classes
  <2> QED BY <2>1, FS_Product
<1>2. Neighbours(watched) \subseteq Classes \X Clients /\ Behind(D) \subseteq Neighbours(watched)
  BY UsesAssumption DEF TypeOK, Lanes, Neighbours, Behind
<1> HIDE DEF Neighbours, Behind
<1>3. IsFiniteSet(Neighbours(watched))
  BY <1>1, <1>2, FS_Subset
<1> QED BY <1>2, <1>3, FS_Subset, FS_CardinalityType

\* The watched client was passed once more than D turns allow by none but the
\* neighbours behind it now.
PassesBounded(D) == passes <= D + Cardinality(Behind(D))

\* A claim in another class leaves the clients of this one as they were.
LEMMA ClaimElsewhere ==
    ASSUME TypeOK, OneLaneEach, NEW l \in Lanes, head[l] # NoJob, Committed(l),
           NEW m \in Lanes, m[1] # l[1]
    PROVE  skips'[m[2]] = skips[m[2]]
<1>1. m[2] \in Clients
  BY LanesApart
<1>2. <<l[1], m[2]>> \notin Pool(l[1])
  BY LanesApart DEF Pool
<1> QED BY <1>1, <1>2 DEF Committed, Skipped

\* A claim of a neighbour.
LEMMA ClaimNearby ==
    ASSUME TypeOK, OneLaneEach, NEW l \in Lanes, head[l] # NoJob, Committed(l),
           head[watched] # NoJob, watched[1] = l[1], watched # l
    PROVE  /\ skips'[watched[2]] = skips[watched[2]] + 1 /\ skips'[l[2]] = 0
           /\ \A m \in Lanes : skips'[m[2]] <= skips[m[2]] + 1
<1>1. watched \in Lanes
  BY DEF TypeOK
<1>2. watched = <<l[1], watched[2]>> /\ watched[2] \in Clients /\ watched[2] # l[2]
  BY <1>1, LanesApart
<1>3. <<l[1], watched[2]>> \in Pool(l[1])
  BY <1>1, <1>2 DEF Pool
<1>4. l = <<l[1], l[2]>> /\ l[2] \in Clients
  BY LanesApart
<1>5. <<l[1], l[2]>> \in Pool(l[1])
  BY <1>4 DEF Pool
<1>6. ASSUME NEW m \in Lanes PROVE skips'[m[2]] <= skips[m[2]] + 1
  <2>1. m[2] \in Clients
    BY LanesApart
  <2>2. skips[m[2]] \in Nat
    BY <2>1 DEF TypeOK
  <2>3. skips'[m[2]] \in {skips[m[2]], 0, skips[m[2]] + 1}
    BY <2>1 DEF Committed, Skipped
  <2> QED BY <2>2, <2>3
<1>7. skips'[watched[2]] = skips[watched[2]] + 1
  BY <1>2, <1>3 DEF Committed, Skipped
<1>8. skips'[l[2]] = 0
  BY <1>4, <1>5 DEF Committed, Skipped
<1> QED BY <1>6, <1>7, <1>8

\* A claim that passes the watched lane over is counted in its skips.
LEMMA ClaimSkips ==
    ASSUME TypeOK, TypeOK', OneLaneEach, SkippingCounts, NEW l \in Lanes, Claim(l), watched' = watched
    PROVE  SkippingCounts'
<1>1. head[l] # NoJob /\ Committed(l)
  BY DEF Claim
<1>2. watched \in Lanes /\ watched[2] \in Clients
  BY LanesApart DEF TypeOK
<1>3. /\ passes \in Nat /\ skips[watched[2]] \in Nat /\ skips'[watched[2]] \in Nat
      /\ passes <= skips[watched[2]]
  BY <1>2 DEF TypeOK, SkippingCounts
<1>4. CASE head[watched] = NoJob \/ watched = l
  <2>1. passes' = 0
    BY <1>4 DEF Claim
  <2> QED BY <1>3, <2>1 DEF SkippingCounts
<1>5. CASE head[watched] # NoJob /\ watched[1] # l[1]
  <2>1. passes' = passes
    BY <1>5 DEF Claim
  <2>2. skips'[watched[2]] = skips[watched[2]]
    BY <1>1, <1>2, <1>5, ClaimElsewhere
  <2> QED BY <1>3, <2>1, <2>2 DEF SkippingCounts
<1>6. CASE head[watched] # NoJob /\ watched # l /\ watched[1] = l[1]
  <2>1. passes' = passes + 1
    BY <1>6 DEF Claim
  <2>2. skips'[watched[2]] = skips[watched[2]] + 1
    BY <1>1, <1>6, ClaimNearby
  <2> QED BY <1>3, <2>1, <2>2 DEF SkippingCounts
<1> QED BY <1>4, <1>5, <1>6

\* What a client was passed over in its class counts in its score until it is
\* served, provided that it uses one class.
THEOREM SkippingCountsHolds ==
    ASSUME OneLaneEach
    PROVE  Spec => []SkippingCounts
<1>1. TypeOK /\ Init => SkippingCounts
  <2> SUFFICES ASSUME TypeOK, Init PROVE SkippingCounts
    OBVIOUS
  <2>1. watched[2] \in Clients
    BY LanesApart DEF TypeOK
  <2>2. skips[watched[2]] = 0 /\ passes = 0
    BY <2>1 DEF Init
  <2> QED BY <2>2 DEF SkippingCounts
<1>2. TypeOK /\ TypeOK' /\ SkippingCounts /\ [Next]_vars => SkippingCounts'
  <2> SUFFICES ASSUME TypeOK, TypeOK', SkippingCounts, [Next]_vars PROVE SkippingCounts'
    OBVIOUS
  <2>1. ASSUME NEW l \in Lanes, Claim(l), watched' = watched
        PROVE  SkippingCounts'
    BY <2>1, ClaimSkips
  <2>2. CASE UNCHANGED <<skips, passes, watched>>
    BY <2>2 DEF SkippingCounts
  <2> QED BY <2>1, <2>2 DEF Next, vars, LostRace, Others
<1> QED BY <1>1, <1>2, TypeCorrect, PTL DEF Spec

\* A claim keeps the count: the neighbour that is served falls behind.
LEMMA ClaimPasses ==
    ASSUME TypeOK, TypeOK', NEW D, ScoreSpread(D), OneLaneEach, IsFiniteSet(Clients),
           SkippingCounts, PassesBounded(D), NEW l \in Lanes, Claim(l), offers' = offers, watched' = watched
    PROVE  PassesBounded(D)'
<1>1. head[l] # NoJob /\ Committed(l) /\ l \in Best(Chosen) /\ l[1] = Chosen
  BY DEF Claim, Best, Pool
<1>2. /\ Cardinality(Behind(D)) \in Nat /\ IsFiniteSet(Behind(D))
      /\ Cardinality(Behind(D)') \in Nat /\ IsFiniteSet(Behind(D)')
  <2>1. /\ IsFiniteSet(Neighbours(watched))
        /\ Cardinality(Behind(D)) \in Nat /\ IsFiniteSet(Behind(D))
    BY BehindFinite
  <2>2. Behind(D)' \subseteq Neighbours(watched)
    BY DEF Behind, Neighbours, Lanes
  <2>3. IsFiniteSet(Behind(D)')
    BY <2>1, <2>2, FS_Subset
  <2> QED BY <2>1, <2>3, FS_CardinalityType
<1>3. watched \in Lanes /\ watched[2] \in Clients /\ watched[1] \in Classes
  BY LanesApart DEF TypeOK
<1>4. D \in Nat /\ passes \in Nat /\ skips[watched[2]] \in Nat /\ skips'[watched[2]] \in Nat
  BY <1>3 DEF ScoreSpread, TypeOK
<1>5. /\ passes <= skips[watched[2]]
      /\ passes <= D + Cardinality(Behind(D))
  BY DEF PassesBounded, SkippingCounts
<1>6. CASE head[watched] = NoJob \/ watched = l
  <2>1. passes' = 0
    BY <1>6 DEF Claim
  <2> QED BY <1>2, <1>4, <2>1 DEF PassesBounded
<1>7. CASE head[watched] # NoJob /\ watched[1] # l[1]
  <2>1. passes' = passes
    BY <1>7 DEF Claim
  <2>2. Neighbours(watched)' = Neighbours(watched)
    BY DEF Neighbours, Lanes
  <2>3. \A m \in Neighbours(watched) \cup {watched} : skips'[m[2]] = skips[m[2]]
    BY <1>1, <1>3, <1>7, ClaimElsewhere DEF Neighbours
  <2>4. Behind(D)' = Behind(D)
    BY <2>2, <2>3 DEF Behind
  <2> QED BY <1>5, <2>1, <2>4 DEF PassesBounded
<1>8. CASE head[watched] # NoJob /\ watched # l /\ watched[1] = l[1]
  <2>1. passes' = passes + 1
    BY <1>8 DEF Claim
  <2>2. Neighbours(watched)' = Neighbours(watched)
    BY DEF Neighbours, Lanes
  <2>3. /\ skips'[watched[2]] = skips[watched[2]] + 1 /\ skips'[l[2]] = 0
        /\ \A m \in Lanes : skips'[m[2]] <= skips[m[2]] + 1
    BY <1>1, <1>8, ClaimNearby
  <2>4. ASSUME NEW m \in Behind(D) PROVE m \in Behind(D)'
    <3>1. m \in Neighbours(watched) /\ m \in Lanes /\ skips[m[2]] + D < skips[watched[2]]
      BY DEF Behind, Neighbours
    <3>2. skips[m[2]] \in Nat /\ skips'[m[2]] \in Nat
      BY <3>1, LanesApart DEF TypeOK
    <3>3. skips'[m[2]] <= skips[m[2]] + 1
      BY <2>3, <3>1
    <3>4. skips'[m[2]] + D < skips'[watched[2]]
      BY <1>4, <2>3, <3>1, <3>2, <3>3
    <3> QED BY <2>2, <3>1, <3>4 DEF Behind
  <2>5. l \notin Behind(D)
    <3>1. watched \in Pool(l[1]) /\ l \in Best(l[1])
      BY <1>1, <1>3, <1>8 DEF Pool
    <3>2. skips[watched[2]] <= skips[l[2]] + D
      BY <1>1, <3>1, ServedIsClose
    <3>3. skips[l[2]] \in Nat
      BY LanesApart DEF TypeOK
    <3> QED BY <1>4, <3>2, <3>3 DEF Behind
  <2>6. passes' <= D + Cardinality(Behind(D)')
    <3>1. CASE passes < D
      BY <1>2, <1>4, <2>1, <3>1
    <3>2. CASE D <= passes
      <4>1. skips'[l[2]] + D < skips'[watched[2]]
        BY <1>4, <1>5, <2>3, <3>2
      <4>2. l \in Neighbours(watched)
        BY <1>8 DEF Neighbours
      <4>3. l \in Behind(D)'
        BY <2>2, <4>1, <4>2 DEF Behind
      <4>4. Behind(D) \cup {l} \subseteq Behind(D)'
        BY <2>4, <4>3
      <4> DEFINE A == Behind(D)
                 B == Behind(D)'
      <4>5. A \cup {l} \subseteq B /\ l \notin A /\ IsFiniteSet(A) /\ IsFiniteSet(B)
        BY <1>2, <2>5, <4>4
      <4>6. Cardinality(A) \in Nat /\ Cardinality(B) \in Nat
        BY <1>2
      <4>7. passes <= D + Cardinality(A)
        BY <1>5
      <4> HIDE DEF A, B
      <4>8. Cardinality(A \cup {l}) = Cardinality(A) + 1
        BY <4>5, FS_AddElement
      <4>9. Cardinality(A \cup {l}) <= Cardinality(B)
        BY <4>5, FS_Subset
      <4>10. passes + 1 <= D + Cardinality(B)
        BY <1>4, <4>6, <4>7, <4>8, <4>9
      <4> QED BY <2>1, <4>10 DEF B
    <3> QED BY <1>4, <3>1, <3>2
  <2> QED BY <2>6 DEF PassesBounded
<1> QED BY <1>6, <1>7, <1>8

\* A client that uses one class is served after its class has passed it over D
\* times and once for every neighbour, whatever their priorities and ages.
THEOREM ClientTurnBound ==
    ASSUME NEW D, ScoreSpread(D), OneLaneEach, IsFiniteSet(Clients)
    PROVE  Spec => [](passes <= D + Cardinality(Neighbours(watched)))
<1>1. TypeOK /\ Init => PassesBounded(D)
  <2> SUFFICES ASSUME TypeOK, Init PROVE PassesBounded(D)
    OBVIOUS
  <2>1. watched[2] \in Clients
    BY LanesApart DEF TypeOK
  <2>2. skips[watched[2]] = 0 /\ passes = 0
    BY <2>1 DEF Init
  <2>3. Cardinality(Behind(D)) \in Nat
    BY BehindFinite
  <2> QED BY <2>2, <2>3 DEF PassesBounded, ScoreSpread
<1>2. TypeOK /\ TypeOK' /\ SkippingCounts /\ PassesBounded(D) /\ [Next]_vars => PassesBounded(D)'
  <2> SUFFICES ASSUME TypeOK, TypeOK', SkippingCounts, PassesBounded(D), [Next]_vars PROVE PassesBounded(D)'
    OBVIOUS
  <2>1. ASSUME NEW l \in Lanes, Claim(l), offers' = offers, watched' = watched
        PROVE  PassesBounded(D)'
    BY <2>1, ClaimPasses
  <2>2. CASE UNCHANGED <<offers, skips, passes, watched>>
    BY <2>2 DEF PassesBounded, Behind, Neighbours, Lanes
  <2> QED BY <2>1, <2>2 DEF Next, vars, LostRace, Others
<1>3. TypeOK /\ PassesBounded(D) => passes <= D + Cardinality(Neighbours(watched))
  <2> SUFFICES ASSUME TypeOK, PassesBounded(D) PROVE passes <= D + Cardinality(Neighbours(watched))
    OBVIOUS
  <2>1. /\ Cardinality(Behind(D)) \in Nat /\ Cardinality(Neighbours(watched)) \in Nat
        /\ Cardinality(Behind(D)) <= Cardinality(Neighbours(watched))
    BY BehindFinite
  <2>2. D \in Nat /\ passes \in Nat /\ passes <= D + Cardinality(Behind(D))
    BY DEF PassesBounded, TypeOK, ScoreSpread
  <2> QED BY <2>1, <2>2
<1> QED BY <1>1, <1>2, <1>3, TypeCorrect, SkippingCountsHolds, PTL DEF Spec

\* With a bound that suits the score and the number of neighbours, no client is
\* starved by the others of its class.
THEOREM TurnForEveryClientHolds ==
    ASSUME NEW D, ScoreSpread(D), OneLaneEach, IsFiniteSet(Clients),
           \A use \in Uses : \A l \in DOMAIN use :
               D + Cardinality({m \in DOMAIN use : m[1] = l[1]} \ {l}) <= PassBound
    PROVE  Spec => []TurnForEveryClient
<1>1. TypeOK /\ passes <= D + Cardinality(Neighbours(watched)) => TurnForEveryClient
  <2> SUFFICES ASSUME TypeOK, passes <= D + Cardinality(Neighbours(watched)) PROVE TurnForEveryClient
    OBVIOUS
  <2>1. D + Cardinality(Neighbours(watched)) <= PassBound
    BY DEF TypeOK, Lanes, Neighbours
  <2>2. Cardinality(Neighbours(watched)) \in Nat
    BY BehindFinite
  <2> QED BY <2>1, <2>2, NumberAssumption DEF TypeOK, ScoreSpread, TurnForEveryClient
<1> QED BY <1>1, TypeCorrect, ClientTurnBound, PTL
=============================================================================
