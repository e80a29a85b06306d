CONSTANTS
    Clients = {k1, k2}
    Runs = {r1}
    Boot = boot
    Conns = {c1, c2}
    None = none
    MaxConnections = 1
    MinConnections = 1
    RetryAttempts = 0
    ReleaseMayFail = FALSE
SPECIFICATION Spec
INVARIANT WithinMaxConnections
CHECK_DEADLOCK FALSE
