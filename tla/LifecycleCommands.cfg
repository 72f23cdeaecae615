SPECIFICATION MCSpec
CONSTANTS
    Users = {u1, u2}
    Clients = {c1, c2}
    Kinds = {"query", "refresh", "cli", "verify"}
    MaxOps = 3
    MaxRequests = 2
    MaxReleases = 3
    MaxRaises = 1
    MaxKills = 1
INVARIANTS
    OneGeneration TransitionIsOwned
PROPERTIES
    NothingOverwritten CommandsEnd
CHECK_DEADLOCK FALSE
