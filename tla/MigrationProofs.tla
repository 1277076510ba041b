-------------------------- MODULE MigrationProofs --------------------------
(***************************************************************************)
(* Any number of processes, steps and statements: what an open file has,    *)
(* and that races alone never tear a step.                                  *)
(***************************************************************************)
EXTENDS SchemaMigration, TLAPS

N == Len(Statements)

\* Only one process is ever inside a step: the one that ran its first statement.
Begun(p) == /\ at[p] \in {"steps", "bump"} /\ Step(p) <= Target[p]
            /\ built[Step(p)] = done[p] /\ Recorded < Step(p)

Rows ==
    /\ \A v \in 1 .. Recorded : built[v] = Statements[v]
    /\ \A p \in Openers : at[p] \in {"steps", "bump", "open"} => versions # <<>>

ProcessOK(p) ==
    /\ current[p] <= Recorded
    /\ done[p] > 0 => Begun(p)
    /\ at[p] = "steps" /\ done[p] > 0 => done[p] < Statements[Step(p)]
    /\ at[p] = "bump" => done[p] > 0 /\ done[p] = Statements[Step(p)]
    /\ at[p] = "open" => current[p] >= Target[p]

Processes == \A p \in Openers : ProcessOK(p)

Alone ==
    \A p, q \in Openers : done[p] > 0 /\ done[q] > 0 /\ Step(p) = Step(q) => p = q

IInv == TypeOK /\ Rows /\ Processes /\ Alone /\ TornOnlyByInterruption

\* Where the version comes from: the first row.
LEMMA RecordedType == ASSUME TypeOK PROVE Recorded \in 0 .. N
  <1>1. CASE versions = <<>>  BY <1>1, StepsAssumption DEF Recorded, N
  <1>2. CASE versions # <<>>  BY <1>2 DEF Recorded, TypeOK, N
  <1> QED BY <1>1, <1>2

\* What a step list is.
LEMMA StepFacts == /\ N \in Nat /\ Steps = 1 .. N
                   /\ \A v \in Steps : Statements[v] \in Nat \ {0}
                   /\ \A p \in Openers : Target[p] \in 1 .. N
  BY StepsAssumption, TargetAssumption DEF N, Steps

LEMMA InitInv == Init => IInv
  <1> SUFFICES ASSUME Init PROVE IInv
    OBVIOUS
  <1> USE DEF Init
  <1>1. N \in Nat /\ Steps = 1 .. N  BY StepFacts
  <1>2. TypeOK
    <2>1. versions \in Seq(0 .. Len(Statements))  OBVIOUS
    <2>2. \A v \in Steps : built[v] <= Statements[v]  BY StepFacts
    <2>3. 0 \in 0 .. Len(Statements)  BY <1>1 DEF N
    <2>4. /\ table \in BOOLEAN /\ built \in [Steps -> Nat] /\ done \in [Openers -> Nat]
          /\ interruptions \in Nat
      OBVIOUS
    <2>5. at \in [Openers -> Places]  BY DEF Places
    <2>6. current \in [Openers -> 0 .. Len(Statements)]  BY <2>3
    <2> QED BY <2>1, <2>2, <2>4, <2>5, <2>6 DEF TypeOK
  <1>3. Recorded = 0  BY DEF Recorded
  <1>4. Rows /\ Processes /\ Alone  BY <1>3 DEF Rows, Processes, ProcessOK, Alone
  <1>5. TornOnlyByInterruption  BY DEF TornOnlyByInterruption, Torn
  <1> QED BY <1>2, <1>4, <1>5 DEF IInv

\* A process that leaves, or goes on to a place outside the steps, takes
\* nothing with it when it has no statement behind it.
LEMMA LeaveStep ==
  ASSUME IInv, NEW p \in Openers, NEW place \in Places,
         Go(p, place), place \notin {"steps", "bump"},
         UNCHANGED <<versions, built>>, table' \in BOOLEAN,
         current' = current \/ current' = [current EXCEPT ![p] = 0],
         done' = [done EXCEPT ![p] = 0],
         place = "open" => versions # <<>> /\ current'[p] >= Target[p],
         \/ done[p] = 0 /\ interruptions' = interruptions
         \/ interruptions' = interruptions + 1
  PROVE  IInv'
  <1> USE DEF Go
  <1>0. N \in Nat /\ Recorded \in 0 .. N  BY RecordedType, StepFacts DEF IInv
  <1>1. TypeOK /\ Rows /\ Processes /\ Alone  BY DEF IInv
  <1>2. Recorded' = Recorded  BY DEF Recorded
  <1>3. /\ at'[p] = place /\ done'[p] = 0 /\ current'[p] \in {0, current[p]}
        /\ \A q \in Openers \ {p} : at'[q] = at[q] /\ done'[q] = done[q] /\ current'[q] = current[q]
    BY <1>1 DEF TypeOK
  <1>4. TypeOK'
    <2>1. 0 \in 0 .. Len(Statements)  BY <1>0 DEF N
    <2>2. current' \in [Openers -> 0 .. Len(Statements)]  BY <2>1, <1>1 DEF TypeOK
    <2>3. done' \in [Openers -> Nat] /\ at' \in [Openers -> Places]  BY <1>1 DEF TypeOK
    <2>4. interruptions' \in Nat  BY <1>1 DEF TypeOK
    <2> QED BY <1>1, <2>2, <2>3, <2>4 DEF TypeOK
  <1>5. Rows'  BY <1>1, <1>2, <1>3 DEF Rows
  <1>6. Processes'
    <2> SUFFICES ASSUME NEW q \in Openers PROVE ProcessOK(q)'
      BY DEF Processes
    <2>1. CASE q = p  BY <2>1, <1>0, <1>1, <1>2, <1>3 DEF Processes, ProcessOK
    <2>2. CASE q # p  BY <2>2, <1>1, <1>2, <1>3 DEF Processes, ProcessOK, Begun, Step
    <2> QED BY <2>1, <2>2
  <1>7. Alone'  BY <1>1, <1>3 DEF Alone, Step
  <1>8. TornOnlyByInterruption'
    <2>1. CASE interruptions' = interruptions + 1
      BY <2>1, <1>1 DEF TornOnlyByInterruption, TypeOK
    <2>2. CASE done[p] = 0 /\ interruptions' = interruptions
      <3>1. \A q \in Openers, v \in Steps : InStep(q, v) => InStep(q, v)'
        BY <2>2, <1>3 DEF InStep, Step
      <3>2. Torn' => Torn  BY <3>1, <1>2 DEF Torn
      <3> QED BY <3>2, <2>2 DEF TornOnlyByInterruption, IInv
    <2> QED BY <2>1, <2>2
  <1> QED BY <1>4, <1>5, <1>6, <1>7, <1>8 DEF IInv

\* Outside the steps a process has no statement behind it.
LEMMA NothingDone ==
  ASSUME IInv, NEW p \in Openers, at[p] \notin {"steps", "bump"}
  PROVE  done[p] = 0 /\ done = [done EXCEPT ![p] = 0]
  BY DEF IInv, TypeOK, Processes, ProcessOK, Begun

\* The first row, or zero, is read: no statement behind the process yet.
LEMMA ReadInv == ASSUME IInv, NEW p \in Openers, ReadVersion(p) PROVE IInv'
  <1>1. done[p] = 0 /\ done = [done EXCEPT ![p] = 0]  BY NothingDone DEF ReadVersion
  <1>2. CASE versions = <<>>
    <2>1. Go(p, "insert") /\ current' = current  BY <1>2 DEF ReadVersion
    <2> QED BY <2>1, <1>1, LeaveStep DEF ReadVersion, File, IInv, TypeOK, Places
  <1>3. CASE versions # <<>>
    <2>0. N \in Nat /\ Recorded \in 0 .. N  BY RecordedType, StepFacts DEF IInv
    <2>1. /\ current' = [current EXCEPT ![p] = Recorded] /\ at' = [at EXCEPT ![p] = "steps"]
          /\ UNCHANGED <<table, versions, built, done, interruptions>>
      BY <1>3 DEF ReadVersion, Recorded, Go, File
    <2>2. Recorded' = Recorded  BY <2>1 DEF Recorded
    <2>3. TypeOK'
      <3>1. Recorded \in 0 .. Len(Statements)  BY <2>0 DEF N
      <3>2. at' \in [Openers -> Places]  BY <2>1 DEF IInv, TypeOK, Places
      <3>3. current' \in [Openers -> 0 .. Len(Statements)]  BY <3>1, <2>1 DEF IInv, TypeOK
      <3> QED BY <2>1, <3>2, <3>3 DEF IInv, TypeOK
    <2>4. /\ at'[p] = "steps" /\ done'[p] = 0 /\ current'[p] = Recorded
          /\ \A q \in Openers \ {p} : at'[q] = at[q] /\ done'[q] = done[q] /\ current'[q] = current[q]
      BY <2>1, <1>1 DEF IInv, TypeOK
    <2>5. Rows'  BY <2>1, <2>2, <2>4, <1>3 DEF IInv, Rows
    <2>6. Processes'
      <3> SUFFICES ASSUME NEW q \in Openers PROVE ProcessOK(q)'
        BY DEF Processes
      <3>1. CASE q = p  BY <3>1, <2>0, <2>2, <2>4 DEF ProcessOK
      <3>2. CASE q # p  BY <3>2, <2>1, <2>2, <2>4 DEF IInv, Processes, ProcessOK, Begun, Step
      <3> QED BY <3>1, <3>2
    <2>7. Alone'  BY <2>4 DEF IInv, Alone, Step
    <2>8. TornOnlyByInterruption'
      <3>1. \A q \in Openers, v \in Steps : InStep(q, v) => InStep(q, v)'
        BY <2>4, <1>1 DEF InStep, Step
      <3>2. Torn' => Torn  BY <3>1, <2>1, <2>2 DEF Torn
      <3> QED BY <3>2, <2>1 DEF TornOnlyByInterruption, IInv
    <2> QED BY <2>3, <2>5, <2>6, <2>7, <2>8 DEF IInv
  <1> QED BY <1>2, <1>3

LEMMA InsertInv ==
  ASSUME IInv, NEW p \in Openers, InsertZero(p)
  PROVE  IInv' /\ Recorded' = Recorded
  <1>0. N \in Nat /\ Recorded \in 0 .. N  BY RecordedType, StepFacts DEF IInv
  <1>1. done[p] = 0  BY NothingDone DEF InsertZero
  <1>2. /\ versions' = Append(versions, 0) /\ at' = [at EXCEPT ![p] = "steps"]
        /\ UNCHANGED <<table, built, current, done, interruptions>>
    BY DEF InsertZero, Go, Locals
  <1>3. versions \in Seq(0 .. N)  BY DEF IInv, TypeOK, N
  <1>4. versions' \in Seq(0 .. N)
    <2>1. 0 \in 0 .. N  BY <1>0
    <2> QED BY <2>1, <1>2, <1>3
  <1>5. versions' # <<>>  BY <1>2, <1>3
  <1>6. Recorded' = Recorded
    <2>1. CASE versions = <<>>  BY <2>1, <1>2, <1>5 DEF Recorded
    <2>2. CASE versions # <<>>  BY <2>2, <1>2, <1>3, <1>5 DEF Recorded
    <2> QED BY <2>1, <2>2
  <1>7. TypeOK'
    <2>1. at' \in [Openers -> Places]  BY <1>2 DEF IInv, TypeOK, Places
    <2> QED BY <2>1, <1>2, <1>4 DEF IInv, TypeOK, N
  <1>8. at'[p] = "steps" /\ \A q \in Openers \ {p} : at'[q] = at[q]  BY <1>2 DEF IInv, TypeOK
  <1>9. Rows'  BY <1>2, <1>5, <1>6 DEF IInv, Rows
  <1>10. Processes'
    <2> SUFFICES ASSUME NEW q \in Openers PROVE ProcessOK(q)'
      BY DEF Processes
    <2>1. CASE q = p  BY <2>1, <1>1, <1>2, <1>6, <1>8 DEF IInv, Processes, ProcessOK
    <2>2. CASE q # p  BY <2>2, <1>2, <1>6, <1>8 DEF IInv, Processes, ProcessOK, Begun, Step
    <2> QED BY <2>1, <2>2
  <1>11. Alone'  BY <1>2 DEF IInv, Alone, Step
  <1>12. TornOnlyByInterruption'
    <2>1. \A q \in Openers, v \in Steps : InStep(q, v) => InStep(q, v)'
      BY <1>1, <1>2, <1>8 DEF InStep, Step
    <2>2. Torn' => Torn  BY <2>1, <1>2, <1>6 DEF Torn
    <2> QED BY <2>2, <1>2 DEF TornOnlyByInterruption, IInv
  <1> QED BY <1>6, <1>7, <1>9, <1>10, <1>11, <1>12 DEF IInv

\* A statement that finds its table raises in a process that has run none; the
\* others have nobody in their step.
LEMMA StatementInv == ASSUME IInv, NEW p \in Openers, Statement(p) PROVE IInv'
  <1> DEFINE v == Step(p)
  <1>0. N \in Nat /\ Recorded \in 0 .. N  BY RecordedType, StepFacts DEF IInv
  <1>1. /\ at[p] = "steps" /\ v \in Steps /\ v <= Target[p] /\ v = current[p] + 1
        /\ current[p] \in Nat /\ done[p] \in Nat /\ Statements[v] \in Nat \ {0}
        /\ built[v] \in Nat
    BY StepFacts DEF IInv, TypeOK, Statement, Step, N
  <1>2. done[p] > 0 => built[v] = done[p] /\ Recorded < v /\ done[p] < Statements[v]
    BY <1>1 DEF IInv, Processes, ProcessOK, Begun
  <1>3. CASE built[v] > done[p]
    <2>1. done[p] = 0  BY <1>1, <1>2, <1>3
    <2>2. /\ Go(p, "closed") /\ current' = [current EXCEPT ![p] = 0]
          /\ done' = [done EXCEPT ![p] = 0]
          /\ UNCHANGED <<table, versions, built, interruptions>>
      BY <1>3 DEF Statement, Gone
    <2>3. table' \in BOOLEAN /\ "closed" \in Places  BY <2>2 DEF IInv, TypeOK, Places
    <2> QED BY <2>1, <2>2, <2>3, LeaveStep
  <1>4. CASE ~(built[v] > done[p])
    <2> DEFINE place == IF done[p] + 1 = Statements[v] THEN "bump" ELSE "steps"
    <2>1. /\ built' = [built EXCEPT ![v] = done[p] + 1]
          /\ done' = [done EXCEPT ![p] = done[p] + 1]
          /\ at' = [at EXCEPT ![p] = place]
          /\ UNCHANGED <<table, versions, current, interruptions>>
      BY <1>4 DEF Statement, Go
    <2>2. built[v] = done[p]  BY <1>1, <1>2, <1>4
    <2>3. Recorded < v
      <3>1. CASE done[p] > 0  BY <3>1, <1>2
      <3>2. CASE done[p] = 0 /\ v <= Recorded
        <4>1. v \in 1 .. Recorded  BY <3>2, <1>0, <1>1
        <4>2. built[v] = Statements[v]  BY <4>1 DEF IInv, Rows
        <4> QED BY <4>2, <3>2, <2>2, <1>1
      <3> QED BY <3>1, <3>2, <1>0, <1>1
    <2>4. done[p] + 1 <= Statements[v]  BY <1>1, <1>2
    <2>5. Recorded' = Recorded  BY <2>1 DEF Recorded
    <2>6. TypeOK'
      <3>1. built' \in [Steps -> Nat] /\ \A w \in Steps : built'[w] <= Statements[w]
        BY <2>1, <2>4, <1>1 DEF IInv, TypeOK
      <3>2. at' \in [Openers -> Places] /\ done' \in [Openers -> Nat]
        BY <2>1, <1>1 DEF IInv, TypeOK, Places
      <3> QED BY <2>1, <3>1, <3>2 DEF IInv, TypeOK
    <2>7. /\ at'[p] = place /\ done'[p] = done[p] + 1 /\ built'[v] = done[p] + 1
          /\ \A q \in Openers \ {p} : at'[q] = at[q] /\ done'[q] = done[q]
          /\ \A w \in Steps \ {v} : built'[w] = built[w]
      BY <2>1, <1>1 DEF IInv, TypeOK
    <2>8. Rows'
      <3>1. \A w \in 1 .. Recorded : w \in Steps \ {v}  BY <2>3, <1>0, StepFacts
      <3> QED BY <3>1, <2>1, <2>5, <2>7, <1>1 DEF IInv, Rows
    <2>9. \A q \in Openers \ {p} : done[q] > 0 => Step(q) # v
      BY <1>1, <2>2 DEF IInv, Alone, Processes, ProcessOK, Begun
    <2>10. Processes'
      <3> SUFFICES ASSUME NEW q \in Openers PROVE ProcessOK(q)'
        BY DEF Processes
      <3>1. CASE q = p
        <4>1. Begun(p)'
          BY <1>1, <2>1, <2>3, <2>5, <2>7, StepFacts DEF Begun, Step
        <4> QED BY <3>1, <4>1, <1>1, <2>1, <2>4, <2>5, <2>7
                DEF IInv, Processes, ProcessOK, Step
      <3>2. CASE q # p
        <4>1. ProcessOK(q) /\ at'[q] = at[q] /\ done'[q] = done[q] /\ current'[q] = current[q]
          BY <3>2, <2>1, <2>7 DEF IInv, Processes
        <4>2. ASSUME done[q] > 0 PROVE built'[Step(q)] = built[Step(q)]
          <5>1. Step(q) \in Steps  BY <4>1, <4>2, <1>0, StepFacts DEF ProcessOK, Begun, Step, IInv, TypeOK, N
          <5> QED BY <5>1, <4>2, <3>2, <2>7, <2>9
        <4> QED BY <4>1, <4>2, <2>5 DEF ProcessOK, Begun, Step
      <3> QED BY <3>1, <3>2
    <2>11. Alone'
      <3>1. Step(p)' = v /\ \A q \in Openers : Step(q)' = Step(q)  BY <2>1 DEF Step
      <3> QED BY <3>1, <2>7, <2>9 DEF IInv, Alone
    <2>12. TornOnlyByInterruption'
      <3>1. at'[p] \in {"steps", "bump"} /\ done'[p] > 0 /\ current'[p] + 1 = v
        BY <2>1, <2>7, <1>1
      <3>2. \A q \in Openers, w \in Steps : InStep(q, w) => InStep(q, w)'
        BY <2>1, <2>7, <1>1 DEF InStep, Step
      <3>3. ASSUME Torn' PROVE Torn
        <4>1. PICK w \in Steps : /\ built'[w] > 0 /\ Recorded < w
                                 /\ \A q \in Openers : ~InStep(q, w)'
          BY <3>3, <2>5 DEF Torn
        <4>2. w # v  BY <3>1, <4>1 DEF InStep, Step
        <4>3. built[w] > 0 /\ \A q \in Openers : ~InStep(q, w)  BY <4>1, <4>2, <3>2, <2>7
        <4> QED BY <4>1, <4>3 DEF Torn
      <3> QED BY <3>3, <2>1 DEF TornOnlyByInterruption, IInv
    <2> QED BY <2>6, <2>8, <2>10, <2>11, <2>12 DEF IInv
  <1> QED BY <1>3, <1>4

\* Whoever records a step is the only one inside any.
LEMMA BumpInv ==
  ASSUME IInv, NEW p \in Openers, Bump(p)
  PROVE  IInv' /\ Recorded <= Recorded'
  <1> DEFINE v == Step(p)
  <1>0. N \in Nat /\ Recorded \in 0 .. N  BY RecordedType, StepFacts DEF IInv
  <1>1. /\ at[p] = "bump" /\ v = current[p] + 1 /\ current[p] \in 0 .. N /\ done[p] > 0
        /\ built[v] = done[p] /\ done[p] = Statements[v] /\ v <= N
        /\ Recorded < v /\ current[p] <= Recorded /\ versions # <<>>
    BY StepFacts DEF Bump, IInv, TypeOK, Processes, ProcessOK, Begun, Rows, Step, N
  <1>2. v = Recorded + 1 /\ v \in Steps  BY <1>0, <1>1, StepFacts
  <1>3. /\ versions' = [i \in DOMAIN versions |-> v] /\ current' = [current EXCEPT ![p] = v]
        /\ done' = [done EXCEPT ![p] = 0] /\ at' = [at EXCEPT ![p] = "steps"]
        /\ UNCHANGED <<table, built, interruptions>>
    BY DEF Bump, Go
  <1>4. versions \in Seq(0 .. N) /\ v \in 0 .. N  BY <1>0, <1>1 DEF IInv, TypeOK, N
  <1>5. versions' \in Seq(0 .. N) /\ versions' # <<>> /\ Head(versions') = v
    <2>1. Len(versions) \in Nat \ {0} /\ DOMAIN versions = 1 .. Len(versions)
      BY <1>1, <1>4
    <2>2. versions' = [i \in 1 .. Len(versions) |-> v]  BY <2>1, <1>3
    <2>3. versions' \in Seq(0 .. N) /\ Len(versions') = Len(versions)  BY <2>1, <2>2, <1>4
    <2>4. versions'[1] = v  BY <2>1, <2>2
    <2> QED BY <2>1, <2>3, <2>4
  <1>6. Recorded' = v  BY <1>5 DEF Recorded
  <1>7. \A q \in Openers \ {p} : done[q] = 0
    <2> SUFFICES ASSUME NEW q \in Openers \ {p}, done[q] # 0 PROVE FALSE
      OBVIOUS
    <2>0. done[q] > 0  BY DEF IInv, TypeOK
    <2>1. Step(q) <= Recorded + 1 /\ Recorded < Step(q) /\ current[q] \in Nat
      BY <2>0, <1>0, StepFacts DEF IInv, TypeOK, Processes, ProcessOK, Begun, Step, N
    <2>2. Step(q) = v  BY <2>1, <1>0, <1>2 DEF Step
    <2> QED BY <2>0, <2>2, <1>1 DEF IInv, Alone
  <1>8. /\ at'[p] = "steps" /\ done'[p] = 0 /\ current'[p] = v
        /\ \A q \in Openers \ {p} : at'[q] = at[q] /\ done'[q] = done[q] /\ current'[q] = current[q]
    BY <1>3 DEF IInv, TypeOK
  <1>9. TypeOK'
    <2>1. at' \in [Openers -> Places] /\ done' \in [Openers -> Nat]
      BY <1>3 DEF IInv, TypeOK, Places
    <2>2. current' \in [Openers -> 0 .. Len(Statements)]  BY <1>3, <1>4 DEF IInv, TypeOK, N
    <2> QED BY <2>1, <2>2, <1>3, <1>5 DEF IInv, TypeOK, N
  <1>10. Rows'
    <2>1. \A w \in 1 .. v : built[w] = Statements[w]
      BY <1>0, <1>1, <1>2 DEF IInv, Rows
    <2> QED BY <2>1, <1>3, <1>5, <1>6 DEF Rows
  <1>11. Processes'
    <2> SUFFICES ASSUME NEW q \in Openers PROVE ProcessOK(q)'
      BY DEF Processes
    <2>1. CASE q = p  BY <2>1, <1>0, <1>6, <1>8, <1>2 DEF ProcessOK
    <2>2. CASE q # p
      <3>1. ProcessOK(q) /\ done[q] \in Nat /\ current[q] \in Nat
        BY <1>0 DEF IInv, Processes, TypeOK, N
      <3> QED BY <3>1, <2>2, <1>0, <1>2, <1>6, <1>7, <1>8 DEF ProcessOK
    <2> QED BY <2>1, <2>2
  <1>12. Alone'  BY <1>7, <1>8 DEF Alone
  <1>13. TornOnlyByInterruption'
    <2> SUFFICES ASSUME Torn', interruptions = 0 PROVE FALSE
      BY <1>3 DEF TornOnlyByInterruption, IInv, TypeOK
    <2>1. PICK w \in Steps : built[w] > 0 /\ v < w  BY <1>3, <1>6 DEF Torn
    <2>2. ~Torn  BY DEF TornOnlyByInterruption, IInv
    <2>3. PICK q \in Openers : InStep(q, w)  BY <2>1, <2>2, <1>0, <1>2, StepFacts DEF Torn
    <2>4. q = p  BY <2>3, <1>7 DEF InStep, IInv, TypeOK
    <2> QED BY <2>1, <2>3, <2>4, <1>0, <1>2, StepFacts DEF InStep
  <1> QED BY <1>0, <1>2, <1>6, <1>9, <1>10, <1>11, <1>12, <1>13 DEF IInv

LEMMA NextInv == IInv /\ [Next]_vars => IInv' /\ Recorded <= Recorded'
  <1> SUFFICES ASSUME IInv, [Next]_vars PROVE IInv' /\ Recorded <= Recorded'
    OBVIOUS
  <1>0. Recorded \in Nat  BY RecordedType, StepFacts DEF IInv
  <1>1. CASE UNCHANGED vars
    <2>1. Recorded' = Recorded  BY <1>1 DEF vars, Recorded
    <2>2. IInv'
      BY <1>1 DEF vars, IInv, TypeOK, Rows, Processes, ProcessOK, Alone, Begun, Step, Recorded,
                  TornOnlyByInterruption, Torn, InStep
    <2> QED BY <1>0, <2>1, <2>2
  <1>2. ASSUME NEW p \in Openers, Connect(p) PROVE IInv' /\ Recorded' = Recorded
    <2>1. done[p] = 0 /\ done = [done EXCEPT ![p] = 0]  BY <1>2, NothingDone DEF Connect
    <2>2. Go(p, "table") /\ UNCHANGED <<File, Locals, interruptions>>  BY <1>2 DEF Connect
    <2> QED BY <2>1, <2>2, LeaveStep DEF File, Locals, IInv, TypeOK, Places, Recorded
  <1>3. ASSUME NEW p \in Openers, CreateTable(p) PROVE IInv' /\ Recorded' = Recorded
    <2>1. done[p] = 0 /\ done = [done EXCEPT ![p] = 0]  BY <1>3, NothingDone DEF CreateTable
    <2>2. /\ Go(p, "read") /\ table' \in BOOLEAN
          /\ UNCHANGED <<versions, built, current, done, interruptions>>
      BY <1>3 DEF CreateTable, Locals
    <2> QED BY <2>1, <2>2, LeaveStep DEF Places, Recorded
  <1>4. ASSUME NEW p \in Openers, ReadVersion(p) PROVE IInv' /\ Recorded' = Recorded
    BY <1>4, ReadInv DEF ReadVersion, File, Recorded
  <1>5. ASSUME NEW p \in Openers, InsertZero(p) PROVE IInv' /\ Recorded' = Recorded
    BY <1>5, InsertInv
  <1>6. ASSUME NEW p \in Openers, Statement(p) PROVE IInv' /\ Recorded' = Recorded
    BY <1>6, StatementInv DEF Statement, Recorded
  <1>7. ASSUME NEW p \in Openers, Bump(p) PROVE IInv' /\ Recorded <= Recorded'
    BY <1>7, BumpInv
  <1>8. ASSUME NEW p \in Openers, Opened(p) PROVE IInv' /\ Recorded' = Recorded
    <2>1. /\ at[p] = "steps" /\ current[p] \in Nat /\ Target[p] \in Nat
          /\ Step(p) > Target[p] /\ current[p] <= N /\ N \in Nat
      BY <1>8, StepFacts DEF Opened, IInv, TypeOK, N
    <2>2. current[p] >= Target[p]  BY <2>1 DEF Step
    <2>3. /\ Go(p, "open") /\ UNCHANGED <<table, versions, built, current, done, interruptions>>
      BY <1>8 DEF Opened, File, Locals
    <2>4. versions # <<>>  BY <2>1 DEF IInv, Rows
    <2>5. done[p] = 0 /\ done = [done EXCEPT ![p] = 0]
      <3>1. done[p] = 0  BY <2>1 DEF IInv, TypeOK, Processes, ProcessOK, Begun, Step
      <3> QED BY <3>1 DEF IInv, TypeOK
    <2> QED BY <2>2, <2>3, <2>4, <2>5, LeaveStep DEF IInv, TypeOK, Places, Recorded
  <1>9. ASSUME NEW p \in Openers, Close(p) PROVE IInv' /\ Recorded' = Recorded
    <2>1. done[p] = 0  BY <1>9, NothingDone DEF Close
    <2>2. /\ Go(p, "closed") /\ current' = [current EXCEPT ![p] = 0]
          /\ done' = [done EXCEPT ![p] = 0] /\ UNCHANGED <<table, versions, built, interruptions>>
      BY <1>9 DEF Close, Gone, File
    <2> QED BY <2>1, <2>2, LeaveStep DEF IInv, TypeOK, Places, Recorded
  <1>10. ASSUME NEW p \in Openers, Interrupt(p) PROVE IInv' /\ Recorded' = Recorded
    <2>1. /\ Go(p, "closed") /\ current' = [current EXCEPT ![p] = 0]
          /\ done' = [done EXCEPT ![p] = 0] /\ UNCHANGED <<table, versions, built>>
          /\ interruptions' = interruptions + 1
      BY <1>10 DEF Interrupt, Gone, File
    <2> QED BY <2>1, LeaveStep DEF IInv, TypeOK, Places, Recorded
  <1> QED BY <1>0, <1>1, <1>2, <1>3, <1>4, <1>5, <1>6, <1>7, <1>8, <1>9, <1>10 DEF Next, Work

\* Every variable has its type, for any number of processes and steps.
THEOREM TypeCorrect == Spec => []TypeOK
  <1>1. Init => IInv  BY InitInv
  <1>2. IInv /\ [Next]_vars => IInv'  BY NextInv
  <1>3. IInv => TypeOK  BY DEF IInv
  <1> QED BY <1>1, <1>2, <1>3, PTL DEF Spec

\* Who has the file open finds every table and index of its version.
THEOREM OpenFileIsComplete == Spec => []SchemaIsThere
  <1>1. Init => IInv  BY InitInv
  <1>2. IInv /\ [Next]_vars => IInv'  BY NextInv
  <1>3. IInv => SchemaIsThere
    <2> SUFFICES ASSUME IInv, NEW p \in Openers, at[p] = "open", NEW v \in 1 .. Target[p]
                 PROVE  built[v] = Statements[v]
      BY DEF SchemaIsThere
    <2>1. Target[p] \in Nat /\ Recorded \in Nat /\ current[p] \in Nat
      BY RecordedType, StepFacts DEF IInv, TypeOK
    <2>2. Target[p] <= Recorded  BY <2>1 DEF IInv, Processes, ProcessOK
    <2> QED BY <2>1, <2>2 DEF IInv, Rows
  <1> QED BY <1>1, <1>2, <1>3, PTL DEF Spec

\* The recorded version never falls, whatever the processes do and wherever
\* they die.
THEOREM VersionGrows == Spec => VersionNeverFalls
  <1>1. Init => IInv  BY InitInv
  <1>2. IInv /\ [Next]_vars => IInv'  BY NextInv
  <1>3. IInv /\ [Next]_vars => [Recorded <= Recorded']_versions  BY NextInv
  <1> QED BY <1>1, <1>2, <1>3, PTL DEF Spec, VersionNeverFalls

\* Races alone tear no step.
THEOREM RacesAreHarmless == Spec => []TornOnlyByInterruption
  <1>1. Init => IInv  BY InitInv
  <1>2. IInv /\ [Next]_vars => IInv'  BY NextInv
  <1>3. IInv => TornOnlyByInterruption  BY DEF IInv
  <1> QED BY <1>1, <1>2, <1>3, PTL DEF Spec
=============================================================================
