SPECIFICATION Spec
CONSTANTS
    Proc = {p1, p2}
    NoProc = NoProc
    Python = TRUE
    SharedCache = FALSE
    Raising = {"forward"}
    Killed = {"forward", "published", "commit"}
    MaxGen = 2
    MaxKills = 2
SYMMETRY Symmetry
INVARIANTS
    TypeOK PublishedUniform SnapshotBound LiveStagingSurvives RecoverableAtRest
PROPERTIES
    QueryReadsFrozenFiles ImplementsStore
