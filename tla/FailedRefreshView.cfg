SPECIFICATION Spec
CONSTANTS
  Proc = {p1, p2}
  NoProc = NoProc
  Python = TRUE
  SharedCache = FALSE
  Raising = {"forward"}
  Killed = {}
  MaxGen = 3
  MaxKills = 0
INVARIANTS
  RegistrationBound
