SPECIFICATION MCSpec
CONSTANTS
    Commands = {"enable", "update", "stop"}
    Missing = {"skill"}
    EditsInRestore = FALSE
    CutWrites = FALSE
    MaxOps = 2
    MaxKills = 2
    MaxRaises = 1
    MaxEdits = 1
    MaxRefreshes = 0
    Absent = Absent
INVARIANTS
    OwnWritesRecognized AllOrNothing ReportHonest
PROPERTIES
    UserEditKept NothingHalfDone CommandsSettle
CHECK_DEADLOCK FALSE
