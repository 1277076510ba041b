SPECIFICATION Spec
CONSTANTS
    Null = Null
    m1 = m1
    m2 = m2
    j1 = j1
    j2 = j2
    Models = {m1}
    Jobs = {j1, j2}
    Tasks = {t1, t2}
    Owners = {o1, o2, o3}
    Cap <- OneModelCap
    NativeBatch <- OneModelSolo
    SameQuestions <- NoPairs
    GroupJobs = {}
    MaxAttemptsSet = {2}
    Deadlines <- NoDeadline
    Delays = {0, 1}
    LeaseTicks = 1
    StoreFaults = FALSE
    MaxRestarts = 1
    MaxRequeues = 0
SYMMETRY Interchangeable
INVARIANTS
    LeaseMatchesState
    AttemptBudget
    LeasedNotCancelled
    LostStaysLost
    SlotAccounting
PROPERTIES
    OnlyOwnerSettles
    ImplementsLifecycle
CHECK_DEADLOCK FALSE
