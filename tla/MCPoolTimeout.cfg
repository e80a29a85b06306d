CONSTANTS
    Clients = {k1, k2}
    Runs = {}
    Boot = boot
    Conns = {c1, c2}
    None = none
    MaxConnections = 1
    MinConnections = 1
    RetryAttempts = 0
    ReleaseMayFail = FALSE
SPECIFICATION Spec
INVARIANT QueuedCanTimeOut
CHECK_DEADLOCK FALSE
