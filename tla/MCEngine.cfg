CONSTANTS
    a = a
    A = A
    b = b
    bad = bad
    t1 = t1
    t2 = t2
    FqdnIds = {i1, i2}
    CustomerIds = {i1, i2}
    FqdnRequests = {r1, r2}
    CustomerRequests = {r1, r2}
    TokenRequests = {r1, r2}
    SessionRequests = {r1, r2}
    None = none
    Names <- MCNames
    Normal <- MCNormal
    Labels <- MCLabels
    Clean <- MCNames
    Descriptions = {500, 501}
    Addresses <- MCAddresses
    LowerCase <- MCLowerCase
    WellFormed <- MCAddresses
    Details <- MCDetails
    TokenIds <- MCTokenIds
    Secret <- MCSecret
    Prefix <- MCPrefix
    Texts <- MCTexts
    MaxTime = 2
    Life = 2
    MaxClock = 2
    MaxTokens = 1
    Routes = {"logout", "admin"}
    Limits = {1, 2}
    Parts = {"fqdns", "customers"}
SPECIFICATION Spec
SYMMETRY Symmetry
INVARIANT EngineIsTold
CHECK_DEADLOCK FALSE
