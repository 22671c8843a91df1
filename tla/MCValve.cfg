CONSTANTS
    None = None
    Modes = {"heating", "cooling", "off"}
    Temps = {17, 21, 24}
    Setpoints = {20, 21}
    Surroundings <- MCSurroundings
    Trims = {0}
    Pumped = {TRUE}
    Full = 4
    Floor = 1
    Kp = 1
    Ki = 1
    Unwind = 8
    Deadband = 0
    Margin = 2
    Ramp = 2
    Trip <- MCTrip
    Clear <- MCClear
    Decay = 2
    Optional = TRUE
SPECIFICATION Spec
INVARIANTS
    DrySafe
    HoldIsRegulated
    SeasonIsForgotten
    DemandOpensValve
