SPECIFICATION Spec
CONSTANTS
    Null = Null
    Jobs = {j1, j2}
    Keys = {k1}
    Models = {m1, m2}
    Owners = {o1, o2}
    LeaseTicks = 1
    MaxGroup = 2
    MaxTries = 1
    MaxAttemptsSet = {2}
    Deadlines <- NoneOrOne
    Delays = {0, 1}
SYMMETRY Interchangeable
INVARIANTS
    ReadyIsIndexed
    OfferedIsQueued
    KeysMatchJobs
    SweepsConverge
PROPERTIES
    ImplementsLifecycle
CHECK_DEADLOCK FALSE
