CONSTANTS
    Owner = owner
    Members = {m1}
    Files = {f1, f2}
    Paths = {p1, p2}
    Contents = {c1, empty}
    Empty = empty
    Requests = {r1, r2}
    MaxVersion = 2
    None = None
SPECIFICATION Spec
SYMMETRY Symmetry
INVARIANTS TypeOK HistoryIsLinear DeletedProjectStaysEmpty
PROPERTIES ImplementsHistory
CHECK_DEADLOCK FALSE
