SPECIFICATION Spec
CONSTANTS
    Node = {n1, n2, n3}
    Peers <- OtherNodes
    MaxFaults = 0
    NoUrl = NoUrl
INVARIANTS
    DeletedEverywhere
CHECK_DEADLOCK FALSE
