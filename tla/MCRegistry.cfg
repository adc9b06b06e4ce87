SPECIFICATION Spec
CONSTANTS
    Nodes = {n1, n2}
    Codes = {c1, c2}
    Serials = {s1, s2, s3}
    Keys = {k1, k2}
    Requests = {p1, p2}
    MaxNodes = 1
    CodeTTL = 1
    CertTTL = 2
    RenewWindow = 1
    NoCode = NoCode
    None = None
    MaxTime = 2
SYMMETRY RequestSymmetry
INVARIANTS
    TypeOK
    OneLiveCertificate
    RegistryInvariant
    DisabledNodeHasNoLiveCertificate
    HandedCertificateIsPersisted
    CodeEarnsOneCertificate
    RowsBelongToNodes
    NodeLimitHolds
PROPERTIES
    RevocationIsFinal
    ImplementsLifecycle
CHECK_DEADLOCK FALSE
