SPECIFICATION Spec
CONSTANTS
    m1 = m1
    m2 = m2
    w1 = w1
    w2 = w2
    q1 = q1
    q2 = q2
    archive = archive
    delete = delete
    prune = prune
    NoTask = NoTask
    Msgs = {m1, m2}
    Incoming = {}
    Archived = {m1}
    Workers = {w1, w2}
    Requests = {}
    TaskIds = {archive, delete}
    Type <- MCType
    MaxErrors = 0
    MaxKills = 0
PROPERTIES
    EmptyNeverCopied
