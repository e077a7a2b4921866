SPECIFICATION FairSpec
CONSTANTS
    ntalk = ntalk
    finger = finger
    None = None
    Freed = Freed
    Services = {ntalk, finger}
    Streams = {finger}
    Pids <- TwoPids
    Configs <- AllConfigs
    TooMany = 2
    BindFails = TRUE
    ForkFails = TRUE
    MaxReloads = 2
INVARIANTS TypeOK HeldByServer SoleHolder NotOvercounted
CHECK_DEADLOCK FALSE
PROPERTIES Restored
