\* One manifold, three loops: one probe may slip, the main supply may fail.
CONSTANTS
    Probes = {"a", "b", "c"}
    Fragile = {"a"}
    Offset <- MCOffset
    Fault = 24
    Spread = 4
    Drift = 7
    Settle = 2
    Window = 2
    MinSamples = 2
    MinProbes = 3
    BaselineMin = 1
    BaselineMax = 2
    Spacing = 1
    Streak = 2
    Persist = 1
    Steps = {1}
    Rooms = {{"a", "b", "c"}}
    Opened <- MCOpened
    Readable <- MCReadable

SPECIFICATION
    ProbesSpec

INVARIANTS
    
    BaselineStaysClean
    FaultIsFlagged
