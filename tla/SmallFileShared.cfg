SPECIFICATION Spec
CONSTANTS
    n1 = n1
    n2 = n2
    big = big
    a = a
    b = b
    Node = {n1, n2}
    Hay = {big}
    Owner <- OneOwner
    File = {a, b}
    Length <- TwoLengths
    Uploader = {u1, u2}
    Getter = {d}
    MaxUploads = 3
    MaxFaults = 1
    MaxCrashes = 1
    None = None
INVARIANTS
    TypeOK
    ReadIsContent
    KnownIsFound
    AnsweredIsFound
SYMMETRY Symmetry
CHECK_DEADLOCK FALSE
