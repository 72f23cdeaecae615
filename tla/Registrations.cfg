SPECIFICATION MCSpec
CONSTANTS
    Paths <- MCPaths
    ModuleOf <- MCModuleOf
    Names = {"f"}
    Reverts = FALSE
    MaxLine = 2
    MaxEdits = 2
    MaxDamage = 1
    Proc = {p1, p2}
    NoProc = NoProc
    Absent = Absent
INVARIANTS NothingStale PublishedTogether
PROPERTY NeverForgets
