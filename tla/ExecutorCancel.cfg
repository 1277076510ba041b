SPECIFICATION Spec
CONSTANTS
    Null = Null
    m1 = m1
    m2 = m2
    j1 = j1
    j2 = j2
    Models = {m1}
    Jobs = {j1}
    Tasks = {t1}
    Owners = {o1, o2}
    Cap <- OneModelSolo
    NativeBatch <- OneModelSolo
    SameQuestions <- NoPairs
    GroupJobs = {}
    MaxAttemptsSet = {2}
    Deadlines <- NoDeadline
    Delays = {0, 1}
    LeaseTicks = 1
    StoreFaults = FALSE
    MaxRestarts = 0
    MaxRequeues = 0
PROPERTIES
    CancelRequestedEndsCancelled
CHECK_DEADLOCK FALSE
