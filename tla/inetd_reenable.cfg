SPECIFICATION LiveSpec
CONSTANTS
    ntalk = ntalk
    finger = finger
    None = None
    Freed = Freed
    Services = {ntalk, finger}
    Streams = {finger}
    Pids <- TwoPids
    Configs <- OneConfig
    TooMany = 3
    BindFails = FALSE
    ForkFails = FALSE
    MaxReloads = 0
CHECK_DEADLOCK FALSE
PROPERTIES Reenabled
