--------------------------- MODULE RoomFastSource ---------------------------
(***************************************************************************)
(* The air side of one room's control step: core/controller.py,            *)
(* RoomController.step with everything it calls that reads or changes the  *)
(* fast-source machine.  Step is a pure operator; FastSourceRoom gives it  *)
(* an environment of its own, FastSourceDelivery the adapter and the unit, *)
(* FastSourceGroup the other rooms of a multisplit.                        *)
(*                                                                         *)
(* Temperatures are integer steps: err is setpoint - room, compared with   *)
(* the two knobs only.  dew places the room's dew point against the dry    *)
(* assist's engage and release thresholds.                                 *)
(***************************************************************************)
EXTENDS FastSourceMachine

CONSTANTS
    Deadband,        \* deadband_c
    BoostOffset,     \* boost_offset_c
    Errors,          \* the setpoint errors considered
    DryEnabled,      \* dry_enabled
    CoolingEnabled,  \* the room's cooling_enabled
    Kind             \* the room's fast_source_kind

ASSUME RoomAssumption ==
    /\ Deadband \in Nat /\ BoostOffset \in Nat /\ Deadband < BoostOffset
    /\ Errors \subseteq Int
    /\ DryEnabled \in BOOLEAN /\ CoolingEnabled \in BOOLEAN
    /\ Kind \in Kinds

\* What the safety rules ask for: S1/S2, S3, S4, S5.
Alarms == {"close", "heat", "cool", "fallback"}

Inputs ==
    [mode   : Modes,
     phys   : Readings,                             \* fast_source_on, hvac
     lost   : BOOLEAN,                              \* room_temperature_c None
     err    : Errors,                               \* meaningless when lost
     dew    : {"unknown", "low", "band", "high"},
     quiet  : BOOLEAN,                              \* not fast_source_allowed
     alarms : SUBSET Alarms]

----------------------------------------------------------------------------
(* Steps 2 to 14: what the room wants of its source.  Every operator       *)
(* returns the machine and the command, [m, cmd].                          *)

Emit(m) == [m |-> m, cmd |-> m.state]

\* TRANSITIONAL: the split alone keeps the room, in either direction; it
\* runs until the room has crossed the far edge of the comfort band.
Transitional(m, in) ==
    LET want == ~in.quiet /\
                CASE m.state = "HEATING" -> in.err > -Deadband
                  [] m.state = "COOLING" -> -in.err > -Deadband
                  [] OTHER -> in.err > BoostOffset \/ -in.err > BoostOffset
        dir  == IF m.state # "OFF" THEN m.state
                ELSE IF -in.err > BoostOffset THEN "COOLING" ELSE "HEATING"
        cannotCool == m.state = "OFF" /\ -in.err > BoostOffset
                      /\ Kind = "HEATER"
    IN  Emit(IF cannotCool THEN ForceOff(m) ELSE Decide(m, want, dir))

\* Was the last emitted command a dry run?
LastDry(m) == m.state # "OFF" /\ m.lastMode = "DRY"

\* Hysteretic temperature demand in direction dir.
TempWant(m, in, dir) ==
    LET demand == IF dir = "HEATING" THEN in.err ELSE -in.err
    IN  /\ ~in.quiet
        /\ demand > IF m.state = dir /\ ~LastDry(m) THEN Deadband
                                                    ELSE BoostOffset

\* Dry assist: a split in COOLING may also be called by humidity.
DryWant(m, in) ==
    /\ DryEnabled /\ in.mode = "COOLING" /\ Kind = "SPLIT" /\ ~in.quiet
    /\ in.dew = "high" \/ (LastDry(m) /\ in.dew = "band")
    /\ IF LastDry(m) THEN in.err < Deadband ELSE in.err <= 0

\* HEATING and COOLING: the source boosts the floor.
Coordinate(m, in) ==
    LET dir  == in.mode
        temp == TempWant(m, in, dir)
        dry  == DryWant(m, in)
        d    == Decide(m, temp \/ dry, dir)
        asDry == /\ in.mode = "COOLING" /\ d.state = "COOLING"
                 /\ ~temp /\ (dry \/ LastDry(m))
    IN  IF dir = "COOLING" /\ Kind = "HEATER"
        THEN Emit(ForceOff(m))
        ELSE [m |-> d, cmd |-> IF asDry THEN "DRY" ELSE d.state]

\* A room that is off, blind, opted out of cooling or without a source
\* stops it; a manual hold mirrors the unit; otherwise the mode decides.
Regulate(m, in) ==
    IF \/ in.lost \/ in.mode = "OFF" \/ Kind = "NONE"
       \/ in.mode = "COOLING" /\ ~CoolingEnabled
    THEN Emit(ForceOff(m))
    ELSE IF m.hold > 0 THEN Emit(Mirror(m))
    ELSE IF in.mode = "TRANSITIONAL" THEN Transitional(m, in)
    ELSE Coordinate(m, in)

\* The safety layer: emergency heat before emergency cool before the
\* watchdog's fallback; closing the valve leaves the air side alone.
ApplySafety(r, in) ==
    IF "heat" \in in.alarms
    THEN Emit(IF Kind # "NONE" THEN ForceOn(r.m, "HEATING")
                               ELSE ForceOff(r.m))
    ELSE IF "cool" \in in.alarms
    THEN Emit(IF Kind = "SPLIT" THEN ForceOn(r.m, "COOLING")
                                ELSE ForceOff(r.m))
    ELSE IF "fallback" \in in.alarms /\ "close" \notin in.alarms
    THEN Emit(ForceOff(r.m))
    ELSE r

\* The room holds a user's touch: the adapter must not write.
Manual(m) == m.hold > 0

Finalize(r) == [m |-> NoteCommand(r.m, r.cmd), cmd |-> r.cmd]

Entry(m, in) == Sync(m, in.phys, Kind, in.mode)

Step(m, in, dt) ==
    Finalize(ApplySafety(Regulate(Tick(Entry(m, in), dt), in), in))

----------------------------------------------------------------------------
(* Which interventions the step's inputs contain.                          *)

\* The step stops or starts the unit regardless of the dwell.
Forced(in) ==
    \/ in.lost \/ in.mode = "OFF" \/ Kind = "NONE"
    \/ in.alarms \cap {"heat", "cool", "fallback"} # {}
    \/ in.mode = "COOLING" /\ (~CoolingEnabled \/ Kind = "HEATER")

\* The step takes the unit's own state over.
Adopts(m, in) ==
    /\ Kind # "NONE" /\ in.phys # "gap"
    /\ ~m.synced \/ Touched(m, in.phys, Kind)

\* Inputs the adapter can produce: no feedback without a source, S5 only
\* for data so old that the room has no temperature, S3 and S4 never
\* together.  What the step does not read has one value.
ValidInput(in) ==
    /\ ~({"heat", "cool"} \subseteq in.alarms)
    /\ "fallback" \in in.alarms => in.lost
    /\ in.phys # "gap" => Kind # "NONE"
    /\ in.lost \/ in.mode = "OFF" => in.err = 0 /\ ~in.quiet
    /\ in.lost \/ in.mode # "COOLING" => in.dew = "unknown"
============================================================================
