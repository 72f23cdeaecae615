SPECIFICATION Spec
CONSTANTS
    Users = {u1, u2}
    Clients = {}
    Kinds = {}
    MaxOps = 3
    MaxRequests = 0
    MaxReleases = 3
    MaxRaises = 1
    MaxKills = 0
INVARIANT StoppedStays
CHECK_DEADLOCK FALSE
