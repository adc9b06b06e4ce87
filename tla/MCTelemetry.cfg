SPECIFICATION Spec
CONSTANTS
    Nodes = {n1, n2}
    Requests = {p1, p2}
    SampleIds = {1, 2}
    Retention = 2
    Day = 1
    MaxPages = 1
    MaxTime = 3
SYMMETRY TelemetrySymmetry
INVARIANTS
    TypeOK
    AckedSampleKept
    LastReportCoversSamples
PROPERTIES
    LastReportNeverGoesBack
    NoSampleAfterDisable
