CONSTANTS
    Rows = {k1}
    Requests = {r1, r2}
    UserLimit = 1
    PremiumLimit = 2
    Amounts = {}
    MaxTotal = 3
    Overflowing = {0}
    MaxMonth = 1
    None = None
SPECIFICATION Spec
INVARIANTS ResetsNextMonth
CHECK_DEADLOCK FALSE
