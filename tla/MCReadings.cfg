CONSTANTS
    None = None
    Gone = Gone
    Bad = Bad
    Roles = {"room", "water", "humidity"}
    Levels = {1, 2, 3, 9}
    Absurd = {9}
    Gaps = {0, 1, 2, 3}
    MaxAge <- MCMaxAge
    Fresh = 1
    Jump = 1
    Confirm = 2
    Cache = 2
    Hold = 2
    MaxDt = 2
    Timeout = 3
    Recovery = 2
    Grace = 2
    Rebuilds = TRUE
    Cap = 6
SPECIFICATION Spec
INVARIANTS
    JumpNeedsTime
    PadIsHonest
    TrendIsStraight
    RealChangeIsAdopted
PROPERTIES
    FaultClearsSlowly
