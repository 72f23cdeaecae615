SPECIFICATION MCSpec
CONSTANTS
    Procs = {"p", "q"}
    MaxGenerations = 3
    MaxEdits = 2
    MaxKills = 1
    MaxFaults = 1
    Reverts = FALSE
    KilledUndoing = TRUE
    Absent = Absent
INVARIANTS
    OwnAnswers NothingLeftBehind AnswersOfGeneration RestIsLastAccepted
    FactsOfTheirSource EmptyAfterDeadline
PROPERTIES
    AcceptedStays QueriesEnd
CHECK_DEADLOCK FALSE
