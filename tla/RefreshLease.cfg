SPECIFICATION FairSpec
CONSTANTS
  Proc = {p1, p2}
  NoProc = NoProc
  Python = FALSE
  SharedCache = TRUE
  Raising = {"forward", "commit", "rollback", "recovery", "finally"}
  Killed = {}
  MaxGen = 2
  MaxKills = 0
PROPERTIES
  LeaseReleased
CHECK_DEADLOCK FALSE
