CONSTANTS
    NoReading = NoReading
    GateEnabled = TRUE
    KickEnabled = TRUE
    Elapsed = {1, 3}
    IdleMin = 2
    Timeout = 1
    Settle = 2
    Reassert = 3
    Hysteresis = 2
    KnobBand = 10
    BandRange <- MCBandRange
    StopOffset = 4
    Deficit = 7
    SupplyMax = 26
    StepSize = 2
    EntityMin = 14
    EntityMax = 40
    Raise = 2
    Threshold = 1
    Curves <- MCCurves
    Outlets <- MCOutlets
    Bands <- MCBands
    Manual = {24}
    Links = {"up", "unknown", "down"}
    Rebuilds = TRUE
SPECIFICATION LiveSpec
INVARIANTS
    NeverLocksOut
    KickIsSingleAndWritten
PROPERTIES
    RaisedIsUndone
