CONSTANTS
    Threads = {t1, t2}
    Messages = {m1, m2, m3, m4}
    Requests = {r1, r2}
    Changers = {r2}
    Second = 1
    MaxTime = 3
    MaxTurn = 2
    None = None
SPECIFICATION Spec
SYMMETRY Symmetry
INVARIANTS TypeOK ConversationInOrder AnswersKeepTheirQuestion
CHECK_DEADLOCK FALSE
