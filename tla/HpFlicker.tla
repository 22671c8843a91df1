------------------------------ MODULE HpFlicker ------------------------------
(***************************************************************************)
(* The cooling water setpoint of the heat pump: the setpoint-flicker, the  *)
(* cycle that feeds it and the writer with its cache.  When the idle pump  *)
(* sits in its dead band with unmet demand, one cycle writes a low "pulse  *)
(* floor" that trips the compressor and the next writes the safe target    *)
(* back.                                                                   *)
(***************************************************************************)
EXTENDS Integers, FiniteSets

CONSTANTS
    NoReading,   \* an absent temperature
    CycleLen,    \* cycle_seconds
    Elapsed,     \* the real time between two cycles
    GraceLen,    \* how long rooms that never reported are left alone
    StuckFor,    \* hp_flicker_stuck_minutes
    MinOff,      \* hp_flicker_min_off_minutes
    MaxStarts,   \* hp_flicker_max_starts_per_h
    Window,      \* the hour they are counted in
    Band,        \* hp_flicker_band_k
    StartOffset, \* FLICKER_START_OFFSET_K
    Reserve,     \* the dew margin, FLICKER_DEW_RESERVE_K
    Base,        \* cooling_supply_base_c
    StepSize,    \* the setpoint entity's step
    Threshold,   \* the smallest change the writer sends
    Reassert,    \* _FAST_REASSERT_SECONDS
    Dews,        \* the global safe dew points considered
    Returns,     \* the return temperatures considered
    Links,       \* the setpoint entity: "up", "down", "deaf"
    Rebuilds     \* reloads and restarts happen

ASSUME FlickerAssumption ==
    /\ NoReading \notin Int
    /\ NoReading \in Dews /\ Dews \subseteq Int \cup {NoReading}
    /\ Returns \subseteq Int \cup {NoReading}
    /\ Base \in Int /\ StepSize \in Nat \ {0} /\ Threshold \in 1 .. StepSize
    /\ StepSize \div 2 <= Reserve
    /\ CycleLen \in Nat \ {0} /\ Elapsed \subseteq Nat \ {0}
    /\ {GraceLen, StuckFor, MinOff, Window, Reassert, Reserve, Band,
        StartOffset} \subseteq Nat
    /\ MaxStarts \in Nat \ {0}
    /\ Links \subseteq {"up", "down", "deaf"} /\ "up" \in Links
    /\ Rebuilds \in BOOLEAN

----------------------------------------------------------------------------
(* SetpointFlicker.                                                        *)

Flicker ==
    [state    : {"idle", "pulse", "cooldown"},
     stuck    : 0 .. StuckFor,        \* capped at the thresholds
     cooldown : 0 .. MinOff,
     pulses   : SUBSET (0 .. Window)] \* ages of the starts still counted

\* A new machine owes the whole cooldown.
NewFlicker == [state |-> "cooldown", stuck |-> 0, cooldown |-> 0, pulses |-> {}]

Upto(a, b) == IF a <= b THEN a ELSE b
Atleast(a, b) == IF a >= b THEN a ELSE b

Tick(f, dt) ==
    [f EXCEPT !.stuck = Upto(@ + dt, StuckFor),
              !.cooldown = Upto(@ + dt, MinOff),
              !.pulses = {t + dt : t \in {u \in @ : u + dt < Window}}]

\* Mutant: the floor is rounded down.
PulseFloored(d) == ((d - Reserve) \div StepSize) * StepSize

\* The raw worst dew point, ceiled onto the entity's grid.
PulseFloor(d) == -((Reserve - d) \div StepSize) * StepSize

NormalTarget(d) == IF d = NoReading THEN Base ELSE Atleast(Base, d)

CoolingActive(in) == in.cooling /\ in.owned /\ ~in.dhw

\* The pump is stopped and its return water is warm enough to start it, was
\* the target the pulse floor.
Armed(in) ==
    /\ in.demand /\ in.freq = "idle" /\ in.ret # NoReading
    /\ in.ret >= Atleast(NormalTarget(in.dew) + Band,
                         PulseFloor(in.dew) + StartOffset)
    /\ PulseFloor(in.dew) <= NormalTarget(in.dew) - StepSize

\* Mutant: a cycle that is not cooling leaves the clocks alone.
StepKeepsStuck(f, in) ==
    IF f.state = "pulse" THEN [f EXCEPT !.state = "cooldown", !.cooldown = 0]
    ELSE IF in.dew = NoReading \/ ~CoolingActive(in) THEN f
    ELSE IF f.state = "cooldown"
    THEN IF f.cooldown >= MinOff THEN [f EXCEPT !.state = "idle", !.stuck = 0]
                                 ELSE f
    ELSE IF ~Armed(in) THEN [f EXCEPT !.stuck = 0]
    ELSE IF f.stuck >= StuckFor /\ Cardinality(f.pulses) < MaxStarts
    THEN [f EXCEPT !.state = "pulse", !.stuck = 0, !.pulses = @ \cup {0}]
    ELSE f

\* Mutant: the restore does not restart the cooldown.
StepKeepsCooldown(f, in) ==
    IF f.state = "pulse" THEN [f EXCEPT !.state = "cooldown"]
    ELSE StepKeepsStuck(f, in)

\* Mutant: the pulse is held until the compressor starts.
StepHoldsPulse(f, in) ==
    IF f.state = "pulse" /\ Armed(in) THEN f ELSE StepKeepsStuck(f, in)

\* A pulse lasts one step; without cooling nothing is stuck; the cooldown
\* ends in idle with the stuck clock restarted.
FlickerStep(f, in) ==
    IF f.state = "pulse" THEN [f EXCEPT !.state = "cooldown", !.cooldown = 0]
    ELSE IF in.dew = NoReading \/ ~CoolingActive(in)
    THEN [f EXCEPT !.stuck = 0]
    ELSE IF f.state = "cooldown"
    THEN IF f.cooldown >= MinOff THEN [f EXCEPT !.state = "idle", !.stuck = 0]
                                 ELSE f
    ELSE IF ~Armed(in) THEN [f EXCEPT !.stuck = 0]
    ELSE IF f.stuck >= StuckFor /\ Cardinality(f.pulses) < MaxStarts
    THEN [f EXCEPT !.state = "pulse", !.stuck = 0, !.pulses = @ \cup {0}]
    ELSE f

----------------------------------------------------------------------------
(* The cycle and the writer.                                               *)

VARIABLES
    flicker, \* the machine of the current coordinator
    cache,   \* the last value the writer sent, NoReading when none
    sent,    \* its age, saturating at Reassert
    first,   \* the coordinator has not stepped a room yet
    grace,   \* what is left of the start-up grace
    link,    \* the setpoint entity: reachable, not, or it ignores what it is sent
    target,  \* the setpoint the pump holds
    low,     \* the last cycle to reach it left it below the safe target
    dew,     \* the dew point of the last cycle
    owned,   \* the last cycle could write the target and did cooling
    missed,  \* a command taken for delivered or forgotten never reached it
    since,   \* time since the last pulse before the current one
    calm,    \* time since the last cycle in which the pump was not stuck
    lives    \* the coordinator has been rebuilt since that pulse

inner == <<flicker, cache, sent, first, grace>>
ghosts == <<low, dew, owned, missed, since, calm, lives>>
vars == <<inner, link, target, ghosts>>

Inputs ==
    {in \in [cooling : BOOLEAN, owned : BOOLEAN, dhw : BOOLEAN,
             demand : BOOLEAN, freq : {"none", "idle", "runs"},
             ret : Returns \cup {NoReading}, dew : Dews] :
        /\ ~in.cooling => in.dew = NoReading
        /\ in.dew = NoReading \/ ~in.owned => ~in.dhw
        /\ in.dew = NoReading \/ ~CoolingActive(in) => ~in.demand
        /\ ~in.demand => in.freq = "none" /\ in.ret = NoReading}

Rounded(v) == ((2 * v + StepSize) \div (2 * StepSize)) * StepSize

Distance(a, b) == IF a <= b THEN b - a ELSE a - b

\* write_hp_setpoint: rarely, and never to an entity that is unavailable.  A
\* call that raises leaves as much as one not made ("down" is either); one that
\* is dispatched is cached, whatever the pump makes of it.
Skipped(v, age) ==
    /\ cache # NoReading
    /\ Distance(Rounded(v), cache) < Threshold
    /\ age < Reassert

Write(v, age) ==
    IF link = "down" \/ Skipped(v, age)
    THEN sent' = age /\ UNCHANGED <<cache, target>>
    ELSE /\ sent' = 0 /\ cache' = Rounded(v)
         /\ target' = IF link = "deaf" THEN target ELSE Rounded(v)

\* Mutant: the restore is written only to an owned pump.
OwnedOnly(f, in) == in.cooling /\ in.owned

\* _sync_heat_pump: the restore is written whatever the mode; otherwise only
\* an owned pump in COOLING is written.
Writes(f, in) == f.state = "pulse" \/ (in.cooling /\ in.owned)

\* One cycle, e after the last.  Before any room has been stepped the
\* flicker's clock is given a whole nominal cycle, and so is the first step.
Cycle(in, e) ==
    LET waiting == first /\ grace > 0 /\ in.dew = NoReading
    IN \E stepped \in IF waiting THEN BOOLEAN ELSE {TRUE} :
        LET dt == IF first THEN CycleLen ELSE e
            f  == Tick(flicker, dt)
            g  == FlickerStep(f, in)
            v  == IF g.state = "pulse" THEN PulseFloor(in.dew)
                                       ELSE NormalTarget(in.dew)
            age == Upto(sent + e, Reassert)
        IN  /\ flicker' = g
            /\ first' = (first /\ ~stepped)
            /\ grace' = IF grace >= e THEN grace - e ELSE 0
            /\ IF Writes(f, in) THEN Write(v, age)
                                ELSE sent' = age /\ UNCHANGED <<cache, target>>
            /\ low' = IF Writes(f, in) /\ link = "up"
                      THEN target' < Rounded(NormalTarget(in.dew)) ELSE low
            /\ missed' = IF Writes(f, in) /\ link = "up" THEN target' # cache'
                         ELSE missed \/ (f.state = "pulse" /\ link # "up")
            /\ dew' = in.dew
            /\ owned' = (in.cooling /\ in.owned /\ link = "up")
            /\ since' = Upto((IF f.state = "pulse" THEN 0 ELSE since) + e,
                             MinOff + StuckFor)
            /\ lives' = (lives /\ f.state # "pulse")
            /\ calm' = IF CoolingActive(in) /\ in.dew # NoReading /\ Armed(in)
                       THEN Upto(calm + e, StuckFor) ELSE 0
            /\ UNCHANGED link

LinkChange == link' \in Links \ {link} /\ UNCHANGED <<inner, target, ghosts>>

\* A reload or a restart builds a new machine and an empty cache.
Rebuild ==
    /\ Rebuilds
    /\ flicker' = NewFlicker /\ cache' = NoReading /\ sent' = 0
    /\ first' = TRUE /\ grace' = GraceLen
    /\ missed' = (missed \/ flicker.state = "pulse") /\ lives' = TRUE
    /\ since' = IF flicker.state = "pulse" THEN 0 ELSE since
    /\ UNCHANGED <<link, target, low, dew, owned, calm>>

Init ==
    /\ flicker = NewFlicker /\ cache = NoReading /\ sent = 0
    /\ first = TRUE /\ grace = GraceLen /\ link \in Links
    /\ target = Rounded(Base) /\ low = FALSE
    /\ dew = NoReading /\ owned = FALSE /\ missed = FALSE
    /\ since = MinOff + StuckFor /\ calm = 0 /\ lives = FALSE

Next ==
    \/ \E in \in Inputs, e \in Elapsed : Cycle(in, e)
    \/ LinkChange
    \/ Rebuild

Spec == Init /\ [][Next]_vars

\* The update coordinator's timer keeps starting cycles.
Cycles == WF_vars(\E in \in Inputs, e \in Elapsed : Cycle(in, e))

\* In the end every cycle finds the pump Tortoise's to cool.
OwnedSpec == Spec /\ Cycles /\ <>[]owned

----------------------------------------------------------------------------
(* Correctness.                                                            *)

\* Every variable keeps its type.
TypeOK ==
    /\ flicker \in Flicker
    /\ cache \in Int \cup {NoReading} /\ sent \in 0 .. Reassert
    /\ first \in BOOLEAN /\ grace \in 0 .. GraceLen
    /\ link \in Links /\ target \in Int
    /\ {low, owned, missed, lives} \subseteq BOOLEAN
    /\ dew \in Dews
    /\ since \in 0 .. (MinOff + StuckFor) /\ calm \in 0 .. StuckFor

\* restore_pending in step and _sync_heat_pump, with the writer's threshold:
\* the pump holds the pulse floor for one cycle, whatever the mode, the room
\* states and the dew point do meanwhile, unless a command did not reach the
\* entity or the coordinator that owed the restore was replaced.
FloorOnlyInPulse == low => flicker.state = "pulse" \/ missed

\* cooling_setpoint_c, round_to_step_c, _pulse_floor_c and the writer's skip
\* together: after a cycle that owns the pump, its setpoint is not below the
\* raw dew point of the worst room, pulse or not, unless it was left there by
\* a command the pump ignored.
NeverBelowDew ==
    owned /\ ~missed /\ dew # NoReading => target >= dew - Reserve

\* The cooldown and stuck clocks: two pulses of one coordinator are at least
\* the cooldown and the stuck time apart in real time, however its cycles
\* and recomputes are spaced.
PulsesSpaced ==
    flicker.state = "pulse" /\ ~lives => since >= MinOff + StuckFor

\* stuck_s: the pulse follows an unbroken run of cycles in which the pump was
\* stuck; a gap in the sensors, the demand or the ownership starts it anew.
PulseIsEarned == flicker.state = "pulse" => calm >= StuckFor

\* The restore and the writer: a pump that stays Tortoise's is not left at
\* the pulse floor, also after lost and ignored restores and restarts.
FloorIsUndone == low ~> ~low
=============================================================================
