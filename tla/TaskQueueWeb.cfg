SPECIFICATION Spec
CONSTANTS
    r1 = r1
    r2 = r2
    r3 = r3
    q1 = q1
    q2 = q2
    t1 = t1
    t2 = t2
    prune = prune
    archive = archive
    NoRunner = NoRunner
    NoTask = NoTask
    Runners = {r1, r2}
    ManualRunners = {r2}
    Requests = {q1}
    TaskIds = {t1, t2}
    Keys = {prune}
    PruneKeys = {prune}
    MaxSlots = 2
    MaxPerRun = 1
    TTL = 2
    HeartbeatInterval = 1
    MaxAge = 4
    MaxWait = 1
    MaxFaults = 1
    Priority <- MCPriority
SYMMETRY DrainSymmetry
INVARIANTS
    TypeOK
    LateCommands
    OwnedWhileExecuting
    KeyExclusion
PROPERTIES
    CapRespected
    LivesAsPromised
