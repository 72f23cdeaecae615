SPECIFICATION MCSpec
CONSTANTS
    Absent = Absent
    Installers = {"a", "b"}
    Versions = {"v1", "v2"}
    HasDigests = TRUE
    MaxUploads = 1
    MaxDamaged = 1
    MaxKills = 1
INVARIANTS
    PublishedWhole MigrationWhole ReportTrue
PROPERTIES
    NeverReplaced AllEnd
CHECK_DEADLOCK FALSE
