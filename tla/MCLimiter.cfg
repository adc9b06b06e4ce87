SPECIFICATION Spec
CONSTANTS
    Keys = {a, b, c}
    MaxKeys = 2
    Limit = 2
    Window = 3
    Second = 2
    MaxTime = 5
INVARIANTS
    TypeOK
    KeysBounded
    RetryAfterSuffices
PROPERTIES
    ImplementsRateLimit
CHECK_DEADLOCK FALSE
