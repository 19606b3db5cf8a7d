SPECIFICATION DaySpec
CONSTANTS
    File = {a, b}
    Name = {x}
    Unique = {k1, k2}
    Sums = {}
    Uploader = {u1, u2}
    Deleter = {d1, d2}
    RenameFile = TRUE
    CustomNames = FALSE
    HasPeers = FALSE
    Checks = TRUE
    LogSize = 3
    MaxUploads = 2
    MaxNumber = 1
    None = None
    MaxRecounts = 1
    MaxCrashes = 1
    Torn = Torn
INVARIANTS
    DayTypeOK
    CountTrusted
    StatFileIsCount
    QuietIndexSurvives
    AnsweredIsStored
SYMMETRY Symmetry
CHECK_DEADLOCK FALSE
