CONSTANTS
    Users = {u1}
    TwoFactorUsers = {u1}
    Sessions = {s1, s2}
    Resets = {e1, e2}
    Links = {l1}
    Passwords = {p1, p2}
    Agents = {a1}
    Requests = {r1, r2}
    MaxVersion = 2
    MaxSecond = 1
    None = None
SPECIFICATION MCSpec
SYMMETRY Symmetry
INVARIANTS TypeOK SessionProvesCurrentPassword OneMailPerReset MailedPasswordIsCurrent
PROPERTIES EndedSessionsStayEnded
CHECK_DEADLOCK FALSE
