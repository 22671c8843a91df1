CONSTANTS
    MinOn = 2
    MinOff = 3
    Hold = 0
    HalfCycle = 1
    TimerCap = 3
    Deadband = 1
    BoostOffset = 2
    DryEnabled = FALSE
    CoolingEnabled = TRUE
    Kind = "SPLIT"
    CycleLen = 2
    Lag = 1
    Links = {"up", "down"}
    DryModes = TRUE
    Rebuilds = FALSE
    Promise = 0
    Units = {"off", "heat"}
    MaxFlight = 2
    Errors <- MCErrors
    Choices <- MCDemand
SPECIFICATION FairSpec
PROPERTIES
    DemandIsServed
    OffRoomStops
