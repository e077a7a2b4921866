SPECIFICATION FairSpec
CONSTANTS
    a = a
    b = b
    s1 = s1
    s2 = s2
    s3 = s3
    s4 = s4
    Files = {a, b}
    FileLen <- Long
    Writable = {a}
    Session <- TwoPuts
    Servers = {s1, s2, s3, s4}
    Port = Port
    BlockMod = 5
    MaxTries = 2
    SavesMask = FALSE
    ReadErrors = FALSE
    DiskErrors = FALSE
    Kills = FALSE
    Duplicates = FALSE
    MaxLoss = 1
    TimelyTimers = TRUE
PROPERTIES Stored ServersExit KeepsPromise
CHECK_DEADLOCK FALSE
