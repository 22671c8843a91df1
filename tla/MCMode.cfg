CONSTANTS
    CycleGaps = {1, 2}
    DivergenceCycles = 2
    MinRewrite = 4
    Modes = {"HEATING", "COOLING", "OFF"}
    Moves <- MCMoves
    MaxFlight = 2
    Reloads = TRUE
SPECIFICATION LiveSpec
INVARIANTS
    NeverFlaps
PROPERTIES
    FollowsMode
