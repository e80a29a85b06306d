CONSTANTS
    Requests = {r1, r2, r3}
    Passwords = {p1, weak}
    Weak = weak
    Shape <- MCShape
    MinLength = 8
    MaxLength = 128
    RequiredKinds <- MCRequired
    Secrets = {s1, s2}
    Codes = {c1, c2}
    CodeCount = 1
    HistoryCount = 1
    None = none
SPECIFICATION Spec
SYMMETRY Symmetry
INVARIANTS TypeOK AcceptedIsSpent
PROPERTIES KeepsLedger OnlyOutdatedUnhinge OnlySaversRevive
CHECK_DEADLOCK FALSE
