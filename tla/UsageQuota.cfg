CONSTANTS
    Rows = {k1, k2}
    Requests = {r1, r2}
    UserLimit = 1
    PremiumLimit = 2
    Amounts = {1}
    MaxTotal = 2
    Overflowing = {0}
    MaxMonth = 1
    None = None
SPECIFICATION Spec
SYMMETRY Symmetry
INVARIANTS TypeOK UsedWithinPeak SerialRequestsAreCounted
CHECK_DEADLOCK FALSE
