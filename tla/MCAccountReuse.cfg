CONSTANTS
    Requests = {r1, r2}
    Passwords = {p1, p2, weak}
    Weak = weak
    Shape <- MCShape
    MinLength = 8
    MaxLength = 128
    RequiredKinds <- MCRequired
    Secrets = {s1, s2}
    Codes = {c1, c2, c3}
    CodeCount = 1
    HistoryCount = 1
    None = none
SPECIFICATION FairSpec
PROPERTY NewPasswordIsNew
CHECK_DEADLOCK FALSE
