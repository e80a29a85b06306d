CONSTANTS
    Clients = {k1, k2}
    Runs = {r1}
    Boot = boot
    Conns = {c1, c2}
    None = none
    MaxConnections = 1
    MinConnections = 1
    RetryAttempts = 0
    ReleaseMayFail = TRUE
SPECIFICATION Spec
SYMMETRY Symmetry
INVARIANTS TypeOK NoRequestLost IdleOnce
PROPERTIES OnlyFillStrands OnlyFailedCloseLeaks OnlyLateReturnUnlists OnlyPingedIsShared
CHECK_DEADLOCK FALSE
