SPECIFICATION FairSpec
CONSTANTS
    Skews <- MCSkews
    Second = 2
    Backdate = 2
    CodeTTL = 4
    CertTTL = 8
    RenewWindow = 4
    CheckPeriod = 2
    MaxSerial = 3
    MaxTime = 13
INVARIANTS
    TypeOK
    FilesFit
    StaleIsRevoked
PROPERTIES
    EnrollmentNotStranded
    RefusedOnlyWhenEarly
CHECK_DEADLOCK FALSE
