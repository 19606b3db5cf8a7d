SPECIFICATION Spec
CONSTANTS
    n1 = n1
    n2 = n2
    n3 = n3
    d1 = d1
    d2 = d2
    Node = {n1, n2}
    Peers <- OtherNodes
    Origin = n1
    Copies <- NewestHere
    PostWorker = {w}
    GetWorker = {d1, d2}
    RetryCount = 3
    MaxMigrations = 3
    MaxFailures = 3
    MaxClock = 5
INVARIANTS
    TypeOK
    MigrationRepairs
CHECK_DEADLOCK FALSE
SYMMETRY Symmetry
