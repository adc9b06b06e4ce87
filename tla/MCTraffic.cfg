SPECIFICATION Spec
CONSTANTS
    MaximumPoints = 2
    Interfaces = 2
    Width = 2
    Window = 2
    Unit = 60
    Skews <- SmallSkews
    MaxMoved = 2
    MaxTime = 3
    MaxSamples = 3
INVARIANTS
    TypeOK
    TotalIsExact
    TotalNeverExceeds
    ChartFits
