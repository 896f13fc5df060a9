CONSTANTS
    StepIds = {s1, s2}
    Targets = {None}
    Orders = {1}
    Executions = {e1}
    Apps = {}
    MaxPath = 3
    None = None
SPECIFICATION Spec
INVARIANTS FailureStops
CHECK_DEADLOCK FALSE
