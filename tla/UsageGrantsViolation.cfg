CONSTANTS
    Rows = {k1}
    Requests = {r1, r2}
    UserLimit = 1
    PremiumLimit = 2
    Amounts = {}
    MaxTotal = 3
    Overflowing = {0}
    MaxMonth = 0
    None = None
SPECIFICATION Spec
INVARIANTS GrantsWithinAllowance
CHECK_DEADLOCK FALSE
