SPECIFICATION Spec
CONSTANTS
    m1 = m1
    m2 = m2
    w1 = w1
    w2 = w2
    q1 = q1
    q2 = q2
    archive = archive
    delete = delete
    prune = prune
    NoTask = NoTask
    Msgs = {m1, m2}
    Incoming = {}
    Archived = {}
    Workers = {w1}
    Requests = {q1}
    TaskIds = {delete}
    Type <- MCType
    MaxErrors = 1
    MaxKills = 0
INVARIANTS
    DestinationProtected
