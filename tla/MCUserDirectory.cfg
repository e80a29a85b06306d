CONSTANTS
    a = a
    A = A
    b = b
    Ids = {i1, i2}
    Seeds = {i1}
    Emails <- MCEmails
    Lower <- MCLower
    Roles = {member, admin}
    Requests = {r1, r2}
    None = none
SPECIFICATION Spec
SYMMETRY Symmetry
INVARIANTS TypeOK IndexTrue
PROPERTIES OnlyOvertakenCollide
CHECK_DEADLOCK FALSE
