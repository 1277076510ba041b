SPECIFICATION Spec
CONSTANTS
    Null = Null
    normal = normal
    Models = {a, b}
    Owners = {w}
    LeaseTicks = 1
    Callers = {c1, c2}
    Scopes <- JobsOrCallers
    MaxTries = 2
    MaxJobs = 2
    BatchJobs = {2}
    LaneOf <- OneLane
    Delays = {0}
    NativeBatch = 2
    MaxDetours = 1
INVARIANTS
    LiveHasEntry
    HintOrOnItsWay
PROPERTIES
    HintsComeBack
CHECK_DEADLOCK FALSE
