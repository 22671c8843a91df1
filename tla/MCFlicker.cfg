CONSTANTS
    NoReading = NoReading
    CycleLen = 2
    Elapsed = {1, 2}
    GraceLen = 2
    StuckFor = 3
    MinOff = 3
    MaxStarts = 2
    Window = 7
    Band = 5
    StartOffset = 6
    Reserve = 4
    Base = 8
    StepSize = 2
    Threshold = 1
    Reassert = 2
    Dews <- MCDews
    Returns <- MCReturns
    Links = {"up", "down"}
    Rebuilds = TRUE
SPECIFICATION OwnedSpec
INVARIANTS
    FloorOnlyInPulse
    NeverBelowDew
    PulsesSpaced
    PulseIsEarned

    
