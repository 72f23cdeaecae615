SPECIFICATION MCSpec
CONSTANTS
    Sources = {"a", "b"}
    Tools = {"callers", "locate_files", "refresh_index"}
    AutoUpdate = "off"
    StalePolicy = "warn"
    Failures = FALSE
    MaxEdits = 2
    MaxGenerations = 3
    MaxRequests = 2
    Absent = Absent
INVARIANTS
    QueryOfOneGeneration AcceptedWasCurrent AnsweredBySelected
PROPERTIES
    StaleOnlyFromCache KeptIsWhole EveryRequestEnds
CHECK_DEADLOCK FALSE
