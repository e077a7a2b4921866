SPECIFICATION FairSpec
CONSTANTS
    a = a
    b = b
    c = c
    s1 = s1
    s2 = s2
    s3 = s3
    s4 = s4
    Files = {a, c}
    FileLen <- Long
    Session <- RefusedFirst
    Reconnect = TRUE
    Servers = {s1, s2, s3, s4}
    Port = Port
    BlockMod = 5
    MaxTries = 2
    SavesMask = FALSE
    SuppressNaks = FALSE
    ReadErrors = FALSE
    DiskErrors = TRUE
    Duplicates = FALSE
    MaxLoss = 1
    TimelyTimers = TRUE
PROPERTIES Terminates Delivered KeepsPromise
CHECK_DEADLOCK FALSE
