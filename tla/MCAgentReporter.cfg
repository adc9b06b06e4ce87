SPECIFICATION FairSpec
CONSTANTS
    Node = node
    MaxKeys = 1
    Limit = 3
    Window = 18
    Interval = 10
    Attempts = 5
    MaxTime = 60
INVARIANTS
    TypeOK
PROPERTIES
    RetryAfterObeyed
    ReportEnds
    NeverRefusedTwice
CHECK_DEADLOCK FALSE
