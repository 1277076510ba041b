SPECIFICATION Spec
CONSTANTS
    Null = Null
    Waiters = {w1}
    Submitters = {s1, s2}
    Cancellers = {c1}
    Loop = loop
    Endings = {"failed"}
    MaxLost = 1
    MaxRequeues = 1
    MaxBatchCancels = 1
INVARIANTS
    CallbackOnce
    CallbackSeesTheEnd
PROPERTIES
    WaitReturns
    CallbackFires
CHECK_DEADLOCK FALSE
