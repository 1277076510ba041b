SPECIFICATION Spec
CONSTANTS
    Null = Null
    m1 = m1
    m2 = m2
    j1 = j1
    j2 = j2
    Models = {m1, m2}
    Jobs = {j1, j2}
    Tasks = {t1, t2}
    Owners = {o1, o2, o3}
    Cap <- TwoModelCap
    NativeBatch <- PairOnFirst
    SameQuestions <- AllPairs
    GroupJobs = {j1, j2}
    MaxAttemptsSet = {1}
    Deadlines <- MaybeDeadline
    Delays = {0}
    LeaseTicks = 1
    StoreFaults = TRUE
    MaxRestarts = 0
    MaxRequeues = 1
SYMMETRY Interchangeable
INVARIANTS
    TypeOK
    ConcurrencyCap
    RunsOnReservedModel
    FinishedMatchesState
    SlotsCoverTasks
PROPERTIES
    NeverRunsLate
CHECK_DEADLOCK FALSE
