SPECIFICATION BothSpec
CONSTANTS
    m1 = m1
    m2 = m2
    w1 = w1
    w2 = w2
    q1 = q1
    q2 = q2
    archive = archive
    delete = delete
    prune = prune
    NoTask = NoTask
    Msgs = {m1, m2}
    Incoming = {}
    Archived = {}
    Workers = {w1}
    Requests = {}
    TaskIds = {delete}
    Type <- MCType
    MaxErrors = 2
    MaxKills = 1
    Runners = {r1, r2}
    TaskRows = {t1}
    Keys = {jo}
    PruneKeys = {jo}
    NoRunner = NoRunner
    MaxSlots = 1
    MaxPerRun = 1
    TTL = 2
    HeartbeatInterval = 1
    MaxAge = 4
    MaxWait = 1
    MaxFaults = 1
INVARIANTS
    TypeOK
    MailKept
    DoneIsAudited
PROPERTIES
    DeleteCompletes
    LeaseRecovered
    RunningSettles
