SPECIFICATION Spec
CONSTANTS
    a = a
    b = b
    c = c
    s1 = s1
    s2 = s2
    s3 = s3
    s4 = s4
    Files = {a, b}
    FileLen <- Lengths
    Session <- TwoGets
    Reconnect = TRUE
    Servers = {s1, s2}
    Port = Port
    BlockMod = 3
    MaxTries = 1
    SavesMask = FALSE
    SuppressNaks = TRUE
    ReadErrors = TRUE
    DiskErrors = TRUE
    Duplicates = TRUE
    MaxLoss = 0
    TimelyTimers = FALSE
SYMMETRY Interchangeable
INVARIANTS TypeOK Integrity OkMeansComplete DoneMeansReceived LockStep
CHECK_DEADLOCK FALSE
