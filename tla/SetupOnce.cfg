SPECIFICATION Spec
CONSTANTS
    Admins = {a1, a2}
    Browsers = {b1, b2}
    Enrolled = {a1, a2}
    Recovered = {a1}
    NoAdmin = NoAdmin
    Null = Null
    BatchSize = 1
    MaxSlice = 2
    MaxMinted = 2
    MaxPasswords = 1
    MaxRequests = 3
SYMMETRY Symmetric
PROPERTIES
    SetupOnce
CHECK_DEADLOCK FALSE
