SPECIFICATION PagesSpec
CONSTANTS
    m1 = m1
    m2 = m2
    w1 = w1
    w2 = w2
    q1 = q1
    q2 = q2
    archive = archive
    delete = delete
    prune = prune
    NoTask = NoTask
    Msgs = {m1, m2}
    Incoming = {m2}
    Archived = {m1}
    Workers = {w1, w2}
    Requests = {q1}
    TaskIds = {archive, delete, prune}
    Type <- MCType
    MaxErrors = 1
    MaxKills = 1
    Users = {jo, postmaster}
    Automatic = {postmaster}
    Catchall = Catchall
    Clients = {c1, c2}
    MailboxAliases = TRUE
    MaxMailboxes = 1
    MaxAliases = 1
    MaxCalls = 2
    Searches = {all, short}
    All = all
    Short = {short}
    Matches = {all}
    MaxDraws = 3
    MaxPosts = 2
    MaxForeign = 1
SYMMETRY Symmetric
INVARIANTS
    Restorable
    BackupStands
    RecordedBeforeEmptied
    DirectoryTypeOK
    MailboxCountRight
    AliasCountRight
    PageTrue
PROPERTIES
    PruneAfterToggle
    LimitKept
    GuardStands
CHECK_DEADLOCK FALSE
