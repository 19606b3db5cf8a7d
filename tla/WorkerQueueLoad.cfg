SPECIFICATION FairSpec
CONSTANTS
    Worker = {w1, w2}
    Handler = {h1}
    QueueSize = 10
    RetryCount = 1
    MaxItems = 13
INVARIANTS
    TypeOK
    OverrunBounded
PROPERTIES
    SmallLoadDrains
CHECK_DEADLOCK FALSE
