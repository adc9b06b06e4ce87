SPECIFICATION Spec
CONSTANTS
    Node = node
    MaxKeys = 1
    Limit = 3
    Window = 18
    Interval = 10
    Attempts = 5
    MaxTime = 60
INVARIANTS
    ReportStoredOnce
CHECK_DEADLOCK FALSE
