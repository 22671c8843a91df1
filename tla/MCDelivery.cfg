CONSTANTS
    MinOn = 3
    MinOff = 4
    Hold = 4
    HalfCycle = 1
    TimerCap = 4
    Deadband = 1
    BoostOffset = 2
    DryEnabled = FALSE
    CoolingEnabled = TRUE
    Kind = "SPLIT"
    CycleLen = 2
    Lag = 1
    Links = {"up", "down"}
    DryModes = TRUE
    Rebuilds = TRUE
    Promise = 2
    Units = {"off", "heat"}
    MaxFlight = 2
    Errors <- MCErrors
    Choices <- MCHeating
SPECIFICATION DeliverySpec
INVARIANTS
    OffRoomIsStopped
PROPERTIES
    NoShortCycle
    NoFalseTouch
    TouchIsHonoured
