SPECIFICATION FairSpec
CONSTANTS
    a = a
    b = b
    s1 = s1
    s2 = s2
    s3 = s3
    s4 = s4
    Files = {a, b}
    FileLen <- Short
    Writable = {a, b}
    Session <- OnePut
    Servers = {s1, s2, s3}
    Port = Port
    BlockMod = 4
    MaxTries = 3
    SavesMask = FALSE
    ReadErrors = FALSE
    DiskErrors = FALSE
    Kills = FALSE
    Duplicates = FALSE
    MaxLoss = 1
    TimelyTimers = TRUE
PROPERTIES Terminates
CHECK_DEADLOCK FALSE
