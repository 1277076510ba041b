-------------------------- MODULE SchemaMigration --------------------------
(***************************************************************************)
(* Opening the database: __init__ and _migrate of the SQLite queue.  Every  *)
(* statement is a transaction of its own, so that a process may die between *)
(* any two, and so that processes that open one file at once take turns     *)
(* statement by statement.  What a step creates is its statements, counted  *)
(* in order; each fails when what it creates is there already.              *)
(***************************************************************************)
EXTENDS Integers, Sequences

CONSTANTS Openers,    \* processes that open the file
          Target,     \* the version each migrates to: its SCHEMA_VERSION, or migrate_to
          Statements, \* number of statements of each step of MIGRATIONS
          MaxInterruptions  \* bound on crashes and statements that find the file locked

Steps == DOMAIN Statements

ASSUME StepsAssumption  == Statements \in Seq(Nat \ {0})
ASSUME TargetAssumption == Target \in [Openers -> Steps]
ASSUME BoundAssumption  == MaxInterruptions \in Nat

VARIABLES table,     \* does the table schema_version exist?
          versions,  \* its rows
          built,     \* statements of each step whose tables and indexes exist
          at,        \* where each process is
          current,   \* its variable of that name
          done,      \* statements it ran of the step after current
          interruptions

vars == <<table, versions, built, at, current, done, interruptions>>

Init ==
    /\ table = FALSE /\ versions = <<>> /\ built = [v \in Steps |-> 0]
    /\ at = [p \in Openers |-> "closed"]
    /\ current = [p \in Openers |-> 0] /\ done = [p \in Openers |-> 0]
    /\ interruptions = 0

Places == {"closed", "table", "read", "insert", "steps", "bump", "open"}

Go(p, place) == at' = [at EXCEPT ![p] = place]

\* The constructor raises, or the process dies: its variables are gone.
Gone(p) == /\ Go(p, "closed")
           /\ current' = [current EXCEPT ![p] = 0] /\ done' = [done EXCEPT ![p] = 0]

File   == <<table, versions, built>>
Locals == <<current, done>>

(***************************************************************************)
(* The statements.                                                         *)
(***************************************************************************)
Connect(p) == at[p] = "closed" /\ Go(p, "table") /\ UNCHANGED <<File, Locals, interruptions>>

\* CREATE TABLE IF NOT EXISTS.
CreateTable(p) ==
    /\ at[p] = "table" /\ Go(p, "read")
    /\ table' = TRUE
    /\ UNCHANGED <<versions, built, Locals, interruptions>>

\* Mutant of ReadVersion: a table without a row is not expected.
ReadNeedsRow(p) ==
    /\ at[p] = "read"
    /\ IF versions = <<>> THEN Gone(p)
       ELSE current' = [current EXCEPT ![p] = Head(versions)] /\ Go(p, "steps") /\ UNCHANGED done
    /\ UNCHANGED <<File, interruptions>>

\* SELECT; without ORDER BY the first row is the answer.
ReadVersion(p) ==
    /\ at[p] = "read"
    /\ IF versions = <<>> THEN Go(p, "insert") /\ UNCHANGED current
       ELSE current' = [current EXCEPT ![p] = Head(versions)] /\ Go(p, "steps")
    /\ UNCHANGED <<File, done, interruptions>>

\* Mutant of InsertZero: the row takes the place of any other.
ReplaceWithZero(p) ==
    /\ at[p] = "insert" /\ Go(p, "steps")
    /\ versions' = <<0>>
    /\ UNCHANGED <<table, built, Locals, interruptions>>

\* Two processes that both found no row make two.
InsertZero(p) ==
    /\ at[p] = "insert" /\ Go(p, "steps")
    /\ versions' = Append(versions, 0)
    /\ UNCHANGED <<table, built, Locals, interruptions>>

Step(p) == current[p] + 1

\* A statement of the next step; what it creates may exist, and then it raises.
Statement(p) ==
    /\ at[p] = "steps" /\ Step(p) <= Target[p]
    /\ IF built[Step(p)] > done[p]
       THEN Gone(p) /\ UNCHANGED built
       ELSE /\ built' = [built EXCEPT ![Step(p)] = done[p] + 1]
            /\ done' = [done EXCEPT ![p] = @ + 1]
            /\ Go(p, IF done[p] + 1 = Statements[Step(p)] THEN "bump" ELSE "steps")
            /\ UNCHANGED current
    /\ UNCHANGED <<table, versions, interruptions>>

\* Mutant of Bump: the new version is remembered and not written.
BumpUnwritten(p) ==
    /\ at[p] = "bump" /\ Go(p, "steps")
    /\ current' = [current EXCEPT ![p] = Step(p)] /\ done' = [done EXCEPT ![p] = 0]
    /\ UNCHANGED <<File, interruptions>>

\* UPDATE without WHERE: every row.
Bump(p) ==
    /\ at[p] = "bump" /\ Go(p, "steps")
    /\ versions' = [i \in DOMAIN versions |-> Step(p)]
    /\ current' = [current EXCEPT ![p] = Step(p)] /\ done' = [done EXCEPT ![p] = 0]
    /\ UNCHANGED <<table, built, interruptions>>

\* Mutant of Opened: a file that has a version is taken as it is.
OpenedEarly(p) ==
    /\ at[p] = "steps" /\ current[p] > 0 /\ done[p] = 0 /\ Go(p, "open")
    /\ UNCHANGED <<File, Locals, interruptions>>

\* No step is missing: the file is open.  (A newer file counts as one.)
Opened(p) ==
    /\ at[p] = "steps" /\ Step(p) > Target[p] /\ Go(p, "open")
    /\ UNCHANGED <<File, Locals, interruptions>>

Close(p) == at[p] = "open" /\ Gone(p) /\ UNCHANGED <<File, interruptions>>

\* The process dies, or a statement waits for the lock in vain and raises.
Interrupt(p) ==
    /\ at[p] # "closed" /\ interruptions < MaxInterruptions
    /\ interruptions' = interruptions + 1
    /\ Gone(p) /\ UNCHANGED File

Work(p) == \/ Connect(p) \/ CreateTable(p) \/ ReadVersion(p) \/ InsertZero(p)
           \/ Statement(p) \/ Bump(p) \/ Opened(p)

Next == \E p \in Openers : Work(p) \/ Close(p) \/ Interrupt(p)

\* A constructor goes on, and who failed to open the file tries again.
Spec == Init /\ [][Next]_vars /\ \A p \in Openers : WF_vars(Work(p))

(***************************************************************************)
(* Properties.                                                             *)
(***************************************************************************)
Recorded == IF versions = <<>> THEN 0 ELSE Head(versions)

InStep(p, v) == at[p] \in {"steps", "bump"} /\ Step(p) = v /\ done[p] > 0

\* A step that was begun, is not recorded, and has nobody left to finish it.
Torn == \E v \in Steps : built[v] > 0 /\ Recorded < v /\ \A p \in Openers : ~InStep(p, v)

TypeOK ==
    /\ table \in BOOLEAN /\ versions \in Seq(0 .. Len(Statements))
    /\ built \in [Steps -> Nat] /\ \A v \in Steps : built[v] <= Statements[v]
    /\ at \in [Openers -> Places]
    /\ current \in [Openers -> 0 .. Len(Statements)] /\ done \in [Openers -> Nat]
    /\ interruptions \in Nat

\* A process that has opened the file finds all tables and indexes of its
\* version, whoever created them and whatever was interrupted before
\* (sqlite.py:1306-1320).
SchemaIsThere ==
    \A p \in Openers : at[p] = "open" => \A v \in 1 .. Target[p] : built[v] = Statements[v]

\* The version that the next process will read never goes down, not even when
\* several that saw an empty table insert a row each.
VersionNeverFalls == [][Recorded <= Recorded']_versions

\* Racing processes alone never leave a step half done: the one that began it
\* finishes and records it, the others fail.
TornOnlyByInterruption == Torn => interruptions > 0

\* Everyone who keeps trying to open the file succeeds, unless a crash or a lock
\* has cut a step from its record, which no later open mends.
OpensUnlessTorn ==
    \A p \in Openers : (at[p] # "open") ~> (at[p] = "open" \/ Torn)
=============================================================================
