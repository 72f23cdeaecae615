SPECIFICATION Spec
CONSTANTS
    Paths <- MCPaths
    Names = {"f"}
    ModuleOf <- MCModuleOf
    Reverts = FALSE
    MaxLine = 2
    MaxEdits = 2
    MaxDamage = 0
INVARIANT IncrementalIsClean
CHECK_DEADLOCK FALSE
