SPECIFICATION Spec
CONSTANTS
    a = a
    b = b
    s1 = s1
    s2 = s2
    s3 = s3
    s4 = s4
    Files = {a, b}
    FileLen <- Long
    Writable = {a, b}
    Session <- OnePut
    Servers = {s1}
    Port = Port
    BlockMod = 4
    MaxTries = 3
    SavesMask = FALSE
    ReadErrors = TRUE
    DiskErrors = TRUE
    Kills = TRUE
    Duplicates = TRUE
    MaxLoss = 0
    TimelyTimers = FALSE
INVARIANTS TypeOK Integrity OkMeansStored OneBlockBehind
CHECK_DEADLOCK FALSE
