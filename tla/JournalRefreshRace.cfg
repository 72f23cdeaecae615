SPECIFICATION Spec
CONSTANTS
  Commands = {"enable"}
  Missing = {}
  EditsInRestore = FALSE
  CutWrites = FALSE
  MaxOps = 1
  MaxKills = 1
  MaxRaises = 0
  MaxEdits = 0
  MaxRefreshes = 1
INVARIANT OneIndexGeneration
CHECK_DEADLOCK FALSE
