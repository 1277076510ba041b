------------------------------ MODULE MCWaiters ------------------------------
EXTENDS Waiters
=============================================================================
