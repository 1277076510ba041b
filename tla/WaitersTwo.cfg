SPECIFICATION Spec
CONSTANTS
    Null = Null
    Waiters = {w1, w2}
    Submitters = {s1}
    Cancellers = {}
    Loop = loop
    Endings = {"succeeded"}
    MaxLost = 0
    MaxRequeues = 0
    MaxBatchCancels = 0
PROPERTIES
    CompletionNotMissed
CHECK_DEADLOCK FALSE
