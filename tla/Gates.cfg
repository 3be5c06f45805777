SPECIFICATION GatesSpec
CONSTANTS
    Calls = {c1, c2, c3}
    Window = 3
    Delay = 1
    MaxClock = 5
    Max = 2
    NoCall = NoCall
    Prefixes = {p1}
    Workers = {w1, w2, w3}
    MaxAttempts = 2
    FailWindow = 1
    Lockout = 2
    MaxEntries = 1
    MaxOthers = 1
    NoFile = NoFile
    NoWorker = NoWorker
    NoPrefix = NoPrefix
INVARIANTS
    GatesTypeOK
    FewVerifiedUnderLock
PROPERTIES
    ImplementsGate
    OnlyRefusedWhenFull
    OnePerInterval
    LockStands
    LockEnds
CHECK_DEADLOCK FALSE
