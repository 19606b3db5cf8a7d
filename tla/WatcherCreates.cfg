SPECIFICATION FairSpec
CONSTANTS
    File = {f1, f2, f3}
    Capacity = 2
    QueueSize = 1
    MinAge = 1
    Torn = Torn
    None = None
INVARIANTS
    TypeOK
    NeverStuck
PROPERTIES
    LastIsPosted
CHECK_DEADLOCK FALSE
