CONSTANTS
    Clients = {k1, k2}
    Runs = {}
    Boot = boot
    Conns = {c1, c2}
    None = none
    MaxConnections = 1
    MinConnections = 1
    RetryAttempts = 1
    ReleaseMayFail = TRUE
SPECIFICATION FairSpec
PROPERTIES CallsSettle KeepsDesk
CHECK_DEADLOCK FALSE
