----------------------------- MODULE MCScheduler -----------------------------
EXTENDS Scheduler, TLC

CONSTANTS ann, bob, dora

\* The default weights 8, 4, 2 and 1, in halves.  A tick is eighty seconds: it
\* takes every boost to its cap or ceiling, so a head is new or fully aged.
DefaultWeights == <<16, 8, 4, 2>>
\* For the two classes that gain most, at most 32 and 12: 3 * 44 < (n + 1) * Weight[c].
DefaultWaits == <<8, 16, 33, 66>>

UpperClasses == (<<1, ann>> :> {0}) @@ (<<2, bob>> :> {0}) @@ (<<3, dora>> :> {0})
TwoInBulk    == (<<3, ann>> :> {0}) @@ (<<4, bob>> :> {0}) @@ (<<4, dora>> :> {0, 1})
OneClassEach == {UpperClasses, TwoInBulk}
=============================================================================
