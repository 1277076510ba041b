SPECIFICATION Spec
CONSTANTS
    Null = Null
    ann = ann
    bob = bob
    key = key
    this = this
    that = that
    Models = {m}
    Owners = {w}
    LeaseTicks = 1
    Callers = {c1}
    Clients = {ann, bob}
    Keys = {key}
    Payloads = {this, that}
    Requests <- MixedChunk
    Singles <- BobAlone
    MaxJobs = 4
    MaxBatches = 1
    MaxQueued = 4
    MaxPerClient = 2
    MaxBatchSize = 2
    MaxOpens = 0
    MaxRequeues = 0
    MaxRejects = 0
    MaxFaults = 0
INVARIANTS
    ClientCapacity
CHECK_DEADLOCK FALSE
