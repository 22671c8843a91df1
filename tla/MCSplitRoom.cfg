CONSTANTS
    MinOn = 6
    MinOff = 9
    Hold = 8
    HalfCycle = 2
    TimerCap = 9
    Deadband = 1
    BoostOffset = 2
    Errors <- MCErrors
    DryEnabled = TRUE
    CoolingEnabled = TRUE
    Kind = "SPLIT"
    Dts <- MCDts
    MaxDt = 4
    InputModes = {"HEATING", "COOLING", "TRANSITIONAL", "OFF"}
    InputPhys = {"gap", "off", "heat", "cool", "dry", "auto"}
SPECIFICATION Spec
INVARIANTS
    ReferenceIsDelivered
PROPERTIES
    GuardSpec
    HoldEndsVisibly
