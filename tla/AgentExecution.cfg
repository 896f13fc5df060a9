CONSTANTS
    StepIds = {s1, s2}
    Targets = {None, s2}
    Orders = {1}
    Executions = {e1}
    Apps = {a1}
    MaxPath = 3
    None = None
SPECIFICATION FairSpec
INVARIANTS TypeOK RowTellsTheRun BilledAsReported
PROPERTIES ForwardExecutionsEnd ClosedRowsStayClosed
CHECK_DEADLOCK FALSE
