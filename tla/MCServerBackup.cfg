SPECIFICATION Spec
CONSTANTS
    KeyPairs = {k1, k2}
    None = None
    Keep = 2
    MaxDay = 2
INVARIANTS
    RetainsLatestBackups
