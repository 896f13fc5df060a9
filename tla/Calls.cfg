CONSTANTS
    Users = {u1, u2, u3}
    Sessions = {c1}
    Requests = {r1, r2, r3}
    None = None
SPECIFICATION FairSpec
INVARIANTS TypeOK DesertedCallHasEnded
PROPERTIES DesertedCallEnds
CHECK_DEADLOCK FALSE
