----------------------------- MODULE MCHybrid -----------------------------
EXTENDS HybridQueue

CONSTANTS normal

\* All jobs have one scheduling class and one client.
OneLane == [j \in Jobs |-> normal]

\* Two jobs of one attempt with one caller, or one job of two attempts and
\* perhaps a deadline with two.
JobsOrCallers ==
    {[callers |-> {CHOOSE c \in Callers : TRUE}, jobs |-> Jobs, attempts |-> 1, deadline |-> Null]}
    \cup {[callers |-> Callers, jobs |-> {1}, attempts |-> 2, deadline |-> d] : d \in {Null, 1}}
=============================================================================
