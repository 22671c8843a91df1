CONSTANTS
    r1 = r1
    r2 = r2
    Rooms <- MCRooms
    MinOn = 6
    MinOff = 3
    Hold = 6
    HalfCycle = 2
    TimerCap = 6
    Deadband = 1
    BoostOffset = 2
    Errors <- MCErrors
    DryEnabled = FALSE
    CoolingEnabled = TRUE
    Kind = "SPLIT"
    Margin = 1
    GroupModes = {"TRANSITIONAL"}
    Emergencies = TRUE
    Dt = 3
SPECIFICATION Spec
SYMMETRY MCSymmetry
INVARIANTS
    OneDirection
PROPERTIES
    TakeoverIsEarned
    GuardsKept
