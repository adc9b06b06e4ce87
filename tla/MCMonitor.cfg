SPECIFICATION MonitorSpec
CONSTANTS
    Nodes = {n1}
    Requests = {p1, p2}
    SampleIds = {1, 2}
    Retention = 1
    Day = 1
    MaxPages = 2
    MaxTime = 3
    OnlineFor = 0
    DelayedFor = 1
    ChartSpan = 1
SYMMETRY MonitorSymmetry
INVARIANTS
    MonitorTypeOK
    PageShowsAcknowledged
    PageNotBehindItsState
    ChartReachesLatest
