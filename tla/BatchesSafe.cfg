SPECIFICATION Spec
CONSTANTS
    Null = Null
    ann = ann
    bob = bob
    key = key
    this = this
    that = that
    Models = {m}
    Owners = {w}
    LeaseTicks = 1
    Callers = {c1, c2}
    Clients = {ann, bob}
    Keys = {key}
    Payloads = {this, that}
    Requests <- KeysAndSizes
    Singles <- KeyedSingle
    MaxJobs = 4
    MaxBatches = 2
    MaxQueued = 2
    MaxPerClient = 3
    MaxBatchSize = 2
    MaxOpens = 1
    MaxRequeues = 1
    MaxRejects = 1
    MaxFaults = 1
SYMMETRY SameCallers
INVARIANTS
    TypeOK
    BatchVisibility
    AllOrNothing
    ReceiptsAgree
    StagingHasCaller
    QueueCapacity
CHECK_DEADLOCK FALSE
