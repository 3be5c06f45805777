SPECIFICATION BothSpec
CONSTANTS
    NoTask = NoTask
    Msgs = {m1, m2}
    Incoming = {m2}
    Archived = {m1}
    Workers = {w1}
    Requests = {q1, q2}
    TaskIds = {prune}
    Type <- MCType
    MaxErrors = 1
    MaxKills = 1
    Users = {u1}
    Tasks = {t1, t2}
    For <- MCFor
    Runners = {r1, r2}
    NoRow = NoRow
    Real = Real
    Mails = 2
    MaxDomains = 3
    MaxFailures = 1
    MaxDeaths = 1
INVARIANTS
    Findable
    MailKept
PROPERTIES
    AccountStands
    TempGoes
CHECK_DEADLOCK FALSE
