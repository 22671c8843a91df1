--------------------------- MODULE FastSourceRoom ---------------------------
(***************************************************************************)
(* One room's fast source in an arbitrary environment: every control step  *)
(* takes any inputs the adapter can produce, the adapter may park the room *)
(* (farewell) or report that it wrote OFF instead of DRY.                  *)
(***************************************************************************)
EXTENDS RoomFastSource

CONSTANTS
    Dts,           \* the lengths of a control step
    MaxDt,         \* the longest of them: the adapter clamps at 900 s
    InputModes,    \* the modes and readings considered
    InputPhys

ASSUME EnvironmentAssumption ==
    /\ MaxDt \in Nat /\ Dts \subseteq 1 .. MaxDt
    /\ InputModes \subseteq Modes /\ InputPhys \subseteq Readings

VARIABLES
    m,      \* the machine
    cmd,    \* the command emitted last
    phys,   \* the reading of the last step
    cause   \* what the last step's inputs allowed it to do

vars == <<m, cmd, phys, cause>>

Considered ==
    {in \in [mode : InputModes, phys : InputPhys, lost : BOOLEAN,
             err : Errors, dew : {"unknown", "band", "high"},
             quiet : BOOLEAN,
             alarms : {{}, {"heat"}, {"cool"}, {"fallback"}}] :
        ValidInput(in)}

Init ==
    /\ m = ColdMachine
    /\ cmd = "OFF"
    /\ phys = "gap"
    /\ cause = "none"

CauseOf(in) ==
    IF Adopts(m, in) THEN "adopt" ELSE IF Forced(in) THEN "force" ELSE "none"

Cycle(in, dt) ==
    /\ LET r == Step(m, in, dt) IN m' = r.m /\ cmd' = r.cmd
    /\ phys' = in.phys
    /\ cause' = CauseOf(in)

\* notify_fast_source_farewell: the adapter stopped the unit by itself.
Parked(mm) == NoteCommand(ForceOff(mm), "OFF")

Farewell ==
    /\ m' = Parked(m)
    /\ cmd' = "OFF"
    /\ cause' = "force"
    /\ UNCHANGED phys

\* note_fast_source_written: the unit has no dry mode, OFF was written.
DryUnsupported ==
    /\ cmd = "DRY"
    /\ m' = NoteWritten(m, "OFF")
    /\ UNCHANGED <<cmd, phys, cause>>

Next ==
    \/ \E in \in Considered, dt \in Dts : Cycle(in, dt)
    \/ Farewell
    \/ DryUnsupported

Spec == Init /\ [][Next]_vars

----------------------------------------------------------------------------
(* Correctness.                                                            *)

TypeOK ==
    /\ m \in Machine
    /\ cmd \in Commands
    /\ phys \in Readings
    /\ cause \in {"none", "force", "adopt"}

\* The room's source keeps the compressor's promise (CompressorGuard): the
\* dwell clock advances once per step whatever path the step takes, and
\* only a force or an adoption cuts a dwell short or reverses the unit.
Guard == INSTANCE CompressorGuard WITH
            run <- m.state, clock <- m.timer, cause <- cause,
            Cap <- TimerCap, Dts <- Dts \cup {0}

GuardSpec == Guard!Spec

\* A heater is never in, or told to enter, a cooling direction, although
\* its feedback, the mode, S4 and a touch can all say "cool".
HeaterNeverCools ==
    Kind = "HEATER" => m.state # "COOLING" /\ cmd \notin {"COOLING", "DRY"}

\* During a manual hold the command mirrors the unit the step saw, in
\* on/off and in direction; the one exception is a second touch inside the
\* settle window, and it is flagged.
HoldMirrorsUnit ==
    Manual(m) /\ m.visible /\ ~m.mismatch =>
        /\ Running(phys) <=> cmd # "OFF"
        /\ Reported(phys) = "HEATING" => cmd = "HEATING"
        /\ Reported(phys) = "COOLING" /\ Kind = "SPLIT" => cmd = "COOLING"

\* The reference the next feedback is compared with is what was emitted to
\* a unit that could receive it: a command emitted blind is never held
\* against the user.
ReferenceIsDelivered ==
    m.prev # None =>
        /\ m.visible /\ m.synced
        /\ m.prev = cmd \/ (cmd = "DRY" /\ m.prev = "OFF")

\* The hold restarts itself on nothing: while it runs, the reference is the
\* state it mirrors, so only a new touch can disagree with it.
HoldKeepsReference ==
    Manual(m) /\ m.prev # None => m.prev = m.state

\* The multisplit arbiter and the panel read the remaining lock: while the
\* unit runs it is exactly what is left of the minimal run.
LockIsHonest ==
    m.state # "OFF" => m.dwell = Minus(MinOn, m.timer)

\* A hold ends by running out, or by a force that leaves a mismatch flag.
HoldEndsVisibly ==
    [][m.hold > MaxDt /\ m'.hold = 0 => m'.mismatch]_vars
============================================================================
