CONSTANTS
    Rooms = {"r1"}
    Knobs <- KnobsMC
    GlobalOnly = {"curve", "min", "base", "max"}
    Hidden = {"kd"}
    Retired = {"flow"}
    Values <- ValuesMC
    Below <- BelowMC
    NotAbove <- NotAboveMC
    Default <- DefaultMC
    Superseded <- SupersededMC
    Retuned <- RetunedMC
    Snapshots <- SnapshotsMC
    Overrides <- OverridesMC
SPECIFICATION
    TuningSpec
INVARIANTS
    ChoiceStands
    OnlyMeantIsLive
    StoredIsAccepted
