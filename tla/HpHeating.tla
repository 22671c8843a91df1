------------------------------ MODULE HpHeating ------------------------------
(***************************************************************************)
(* The heating water setpoint of the heat pump: the write gate, the        *)
(* compressor kick that feeds it an offset, the cycle that runs both and   *)
(* the confirming writer.  A step made while the compressor is idle can    *)
(* lock its restart out, so only step shapes known to be safe are written  *)
(* and the others wait.                                                    *)
(***************************************************************************)
EXTENDS Integers

CONSTANTS
    NoReading,   \* an absent value
    GateEnabled, KickEnabled,
    Elapsed,     \* the real time between two cycles
    IdleMin,     \* kick_idle_minutes
    Timeout,     \* kick_start_timeout_minutes
    Settle,      \* _HP_CONFIRM_SETTLE_S
    Reassert,    \* _FAST_REASSERT_SECONDS
    Hysteresis,  \* heating_curve_hysteresis_k
    KnobBand,    \* heating_restart_band_k
    BandRange,   \* the plausible restart bands
    StopOffset,  \* heating_stop_offset_k
    Deficit,     \* kick_deficit_k
    SupplyMax,   \* heating_supply_max_c
    StepSize,    \* the setpoint entity's step
    EntityMin, EntityMax,
    Raise,       \* kick_step_k of that step
    Threshold,   \* the smallest change the writer sends
    Curves,      \* the heating-curve values considered
    Outlets,     \* the outlet temperatures considered
    Bands,       \* the readings of the pump's own restart band
    Manual,      \* the setpoints a user gives the pump
    Links,       \* the setpoint entity: "up", "unknown", "down"
    Rebuilds     \* reloads and restarts happen

OnGrid(v) == v % StepSize = 0

ASSUME HeatingAssumption ==
    /\ NoReading \notin Int
    /\ {GateEnabled, KickEnabled, Rebuilds} \subseteq BOOLEAN
    /\ Elapsed \subseteq Nat \ {0}
    /\ {IdleMin, Timeout, Settle, Reassert, Hysteresis} \subseteq Nat
    /\ {KnobBand, StopOffset, Deficit, Raise} \subseteq Nat \ {0}
    /\ BandRange \subseteq Nat \ {0}
    /\ StepSize \in Nat \ {0} /\ Threshold \in 1 .. StepSize
    /\ {SupplyMax, EntityMin, EntityMax} \subseteq Int
    /\ EntityMin <= EntityMax
    /\ Curves \subseteq Int /\ Outlets \subseteq Int
    /\ Bands \subseteq Int \cup {NoReading} /\ Manual \subseteq Int
    /\ Links \subseteq {"up", "unknown", "down"} /\ "up" \in Links

\* The entity's limits, the raise and a user's choices lie on its grid.
ASSUME GridAssumption == \A v \in {EntityMin, EntityMax, Raise} \cup Manual : OnGrid(v)

----------------------------------------------------------------------------
(* HeatingSetpointGate.                                                    *)

Lesser(a, b) == IF a <= b THEN a ELSE b
Greater(a, b) == IF a >= b THEN a ELSE b
Distance(a, b) == IF a <= b THEN b - a ELSE a - b

Rounded(v) == ((2 * v + StepSize) \div (2 * StepSize)) * StepSize
Clamped(v) == Greater(Lesser(v, EntityMax), EntityMin)
BandOf(in) == IF in.band \in BandRange THEN in.band ELSE KnobBand

\* The backlash on the raw curve value.
Play(p, c) ==
    IF p = NoReading THEN c
    ELSE Lesser(Greater(p, c - Hysteresis), c + Hysteresis)

\* preview_target_c; the gate's own target adds the kick's offset before the
\* limits.
Preview(p, c) == Clamped(Rounded(Play(p, c)))
Target(p, c, off) == Clamped(Rounded(Play(p, c)) + off)

Differ(a, b) == 2 * Distance(a, b) >= StepSize

Gated(in) == GateEnabled /\ in.freq # "none" /\ in.outlet # NoReading

StopOk(in, q) == in.outlet < q + StopOffset
Starts(in, q) == in.outlet < q - BandOf(in)

\* The four rules, and the cautious one for an unknown reference.
Unknown(in, ref, q) ==
    /\ ref = NoReading
    /\ IF in.freq = "runs" THEN StopOk(in, q) ELSE Starts(in, q)
Increase(in, ref, q) ==
    /\ ref # NoReading /\ Differ(q, ref) /\ q > ref
    /\ in.freq = "runs" \/ Starts(in, q)
Decrease(in, ref, q) ==
    /\ ref # NoReading /\ Differ(q, ref) /\ q < ref
    /\ IF in.freq = "runs" THEN StopOk(in, q) ELSE in.outlet >= q

\* Mutant: an idle increase within the restart band is written as well.
WritesAnyIncrease(in, ref, q) ==
    \/ ~Gated(in) \/ Unknown(in, ref, q) \/ Decrease(in, ref, q)
    \/ ref # NoReading /\ Differ(q, ref) /\ q > ref

\* Mutant: no decrease is written while the compressor runs.
WritesIdleDecrease(in, ref, q) ==
    \/ ~Gated(in) \/ Unknown(in, ref, q) \/ Increase(in, ref, q)
    \/ Decrease(in, ref, q) /\ in.freq = "idle"

Writes(in, ref, q) ==
    \/ ~Gated(in)
    \/ Unknown(in, ref, q) \/ Increase(in, ref, q) \/ Decrease(in, ref, q)

----------------------------------------------------------------------------
(* HeatingCompressorKick.                                                  *)

Kick ==
    [idle   : (0 .. IdleMin) \cup {NoReading},  \* no idle period, or its length
     kicked : BOOLEAN,                          \* its one kick is spent
     flight : (0 .. Timeout) \cup {NoReading},  \* no kick in flight, or its age
     target : Int \cup {NoReading}]

NewKick == [idle |-> NoReading, kicked |-> FALSE, flight |-> NoReading,
            target |-> NoReading]

Aged(t, e, cap) == IF t = NoReading THEN t ELSE Lesser(t + e, cap)

TickKick(k, e) ==
    [k EXCEPT !.idle = Aged(@, e, IdleMin), !.flight = Aged(@, e, Timeout)]

\* Mutant: the end of a kick gives the idle period its kick back.
EndKickAnew(k) ==
    [k EXCEPT !.flight = NoReading, !.target = NoReading, !.kicked = FALSE]

EndKick(k) == [k EXCEPT !.flight = NoReading, !.target = NoReading]

Decision(k, off, fired) == [kick |-> k, off |-> off, fired |-> fired]

InputsOk(in, ref) ==
    in.freq # "none" /\ in.outlet # NoReading /\ ref # NoReading

HeatingActive(in) == in.enabled /\ in.curve # NoReading

\* A kick in flight ends on lost conditions, a start or the timeout.
InFlight(k, in, ref, base) ==
    IF ~(GateEnabled /\ HeatingActive(in) /\ InputsOk(in, ref))
    THEN Decision([EndKick(k) EXCEPT !.idle = NoReading], 0, FALSE)
    ELSE IF in.freq = "runs"
    THEN Decision([EndKick(k) EXCEPT !.idle = NoReading, !.kicked = FALSE], 0, FALSE)
    ELSE IF k.flight >= Timeout THEN Decision(EndKick(k), 0, FALSE)
    ELSE Decision(k, Greater(0, k.target - base), FALSE)

KickTarget(ref, base) == Greater(ref, base) + Raise

\* Stuck long enough below the pump's target, the gate will not raise it by
\* itself, and the raised target is within the limits and clears the band.
Fires(k, in, ref, base) ==
    /\ k.idle >= IdleMin /\ ~k.kicked
    /\ ref - in.outlet >= Deficit
    /\ ~(base > ref /\ Differ(base, ref) /\ Starts(in, base))
    /\ KickTarget(ref, base) <= Lesser(SupplyMax, EntityMax)
    /\ Starts(in, KickTarget(ref, base))

Watching(k, in, ref, base) ==
    IF ~(GateEnabled /\ HeatingActive(in) /\ InputsOk(in, ref))
    THEN Decision([k EXCEPT !.idle = NoReading], 0, FALSE)
    ELSE IF in.freq = "runs"
    THEN Decision([k EXCEPT !.idle = NoReading, !.kicked = FALSE], 0, FALSE)
    ELSE LET i == [k EXCEPT !.idle = IF @ = NoReading THEN 0 ELSE @]
         IN  IF Fires(i, in, ref, base)
             THEN Decision([i EXCEPT !.kicked = TRUE, !.flight = 0,
                                     !.target = KickTarget(ref, base)],
                           KickTarget(ref, base) - base, TRUE)
             ELSE Decision(i, 0, FALSE)

KickStep(k, in, ref, base) ==
    IF ~KickEnabled THEN Decision(k, 0, FALSE)
    ELSE IF k.flight # NoReading THEN InFlight(k, in, ref, base)
    ELSE Watching(k, in, ref, base)

----------------------------------------------------------------------------
(* The cycle, the writer and the pump.                                     *)

VARIABLES
    play,     \* the gate's backlash memory
    kick,     \* the kick machine
    cache,    \* the last value the writer sent, NoReading when none
    sent,     \* its age, saturating at Reassert
    link,     \* the setpoint entity as Home Assistant sees it
    shown,    \* the setpoint it shows when it is up
    pump,     \* the setpoint the pump holds
    kicks,    \* kicks of this coordinator since the compressor last ran
    lockout,  \* a gated step locked the restart out
    wasted,   \* a kick was fired that the gate did not let through
    last      \* the last event: a cycle that reads and writes everything, with
              \* the compressor running under any target ("runs") or not
              \* ("steady"), or anything else

inner == <<play, kick, cache, sent>>
ghosts == <<kicks, lockout, wasted, last>>
vars == <<inner, link, shown, pump, ghosts>>

\* Without a curve value nothing else of the cycle is looked at, and one
\* missing reading does what both do.
Inputs ==
    {in \in [enabled : BOOLEAN, curve : Curves \cup {NoReading},
             freq : {"none", "idle", "runs"},
             outlet : Outlets \cup {NoReading}, band : Bands \cup {NoReading}] :
        /\ in.curve = NoReading => ~in.enabled /\ in.freq = "none"
        /\ in.freq = "none" <=> in.outlet = NoReading
        /\ in.freq = "none" => in.band = NoReading}

\* The entity's state, else the last written value.
EntityState == IF link = "up" THEN shown ELSE NoReading
LastWritten == cache
Reference == IF EntityState # NoReading THEN EntityState ELSE LastWritten

\* A cached write that the entity does not show after the settle time.
Unconfirmed(age) == age >= Settle /\ link = "up" /\ Differ(shown, cache)

Skipped(v, age) ==
    /\ cache # NoReading
    /\ Distance(v, cache) < Threshold
    /\ ~Unconfirmed(age)
    /\ age < Reassert

\* What the pump does when a setpoint arrives: with the compressor idle a
\* step that leaves the outlet inside the restart band locks it out.
LocksOut(in, v) ==
    /\ v # pump /\ in.freq = "idle"
    /\ in.outlet < v /\ in.outlet >= v - BandOf(in)

\* write_hp_setpoint with confirm; the pump may not take the value over.
Write(in, v, age) ==
    IF link = "down" \/ Skipped(v, age)
    THEN sent' = age /\ UNCHANGED <<cache, pump, lockout>>
    ELSE /\ sent' = 0 /\ cache' = v
         /\ \/ pump' = v /\ lockout' = (lockout \/ (Gated(in) /\ LocksOut(in, v)))
            \/ UNCHANGED <<pump, lockout>>

\* _sync_heating_setpoint, e after the last cycle.
Cycle(in, e) ==
    LET ref  == Reference
        age  == Lesser(sent + e, Reassert)
        base == IF in.curve = NoReading THEN NoReading ELSE Preview(play, in.curve)
        d    == KickStep(TickKick(kick, e), in, ref, base)
        q    == IF in.curve = NoReading THEN NoReading
                ELSE Target(play, in.curve, d.off)
        go   == in.curve # NoReading /\ Writes(in, ref, q)
    IN  /\ kick' = d.kick
        /\ play' = IF in.curve = NoReading THEN NoReading
                                           ELSE Play(play, in.curve)
        /\ IF in.enabled /\ go THEN Write(in, Rounded(q), age)
           ELSE sent' = age /\ UNCHANGED <<cache, pump, lockout>>
        /\ kicks' = IF d.fired THEN Lesser(kicks + 1, 2)
                    ELSE IF in.freq = "runs" THEN 0 ELSE kicks
        /\ wasted' = (wasted \/ (d.fired /\ ~(go /\ q = d.kick.target)))
        /\ last' = IF ~(HeatingActive(in) /\ InputsOk(in, ref) /\ link = "up")
                       \/ (in.enabled /\ go /\ sent' = 0 /\ pump' # cache')
                    THEN "other"
                    ELSE IF in.freq = "runs" /\ \A c \in Curves : in.outlet < c
                    THEN "runs" ELSE "steady"
        /\ UNCHANGED <<link, shown>>

\* The entity shows what the pump holds, at once or later.
Report == shown' = pump /\ shown # pump /\ UNCHANGED <<inner, link, pump, ghosts>>

Adjust ==
    /\ pump' \in Manual \ {pump} /\ last' = "other"
    /\ UNCHANGED <<inner, link, shown, kicks, lockout, wasted>>

LinkChange ==
    /\ link' \in Links \ {link} /\ last' = "other"
    /\ UNCHANGED <<inner, shown, pump, kicks, lockout, wasted>>

\* A reload or a restart builds a new gate, a new kick and an empty cache.
Rebuild ==
    /\ Rebuilds
    /\ play' = NoReading /\ kick' = NewKick /\ cache' = NoReading /\ sent' = 0
    /\ kicks' = 0
    /\ last' = "other" /\ UNCHANGED <<link, shown, pump, lockout, wasted>>

Init ==
    /\ play = NoReading /\ kick = NewKick /\ cache = NoReading /\ sent = 0
    /\ link \in Links /\ pump \in Manual /\ shown = pump
    /\ kicks = 0 /\ lockout = FALSE /\ wasted = FALSE /\ last = "other"

Next ==
    \/ \E in \in Inputs, e \in Elapsed : Cycle(in, e)
    \/ Report
    \/ Adjust
    \/ LinkChange
    \/ Rebuild

Spec == Init /\ [][Next]_vars

\* In the end every cycle heats, reads everything and is taken over by the
\* pump, and again and again one finds the compressor running with an outlet
\* that no target would stop.
Steady ==
    <>[](last # "other") /\ []<><<last' = "runs">>_vars /\ WF_vars(Report)
LiveSpec == Spec /\ Steady

----------------------------------------------------------------------------
(* Correctness.                                                            *)

\* Every variable keeps its type.
TypeOK ==
    /\ play \in Int \cup {NoReading} /\ kick \in Kick
    /\ cache \in Int \cup {NoReading} /\ sent \in 0 .. Reassert
    /\ link \in Links /\ shown \in Int /\ pump \in Int
    /\ kicks \in 0 .. 2 /\ {lockout, wasted} \subseteq BOOLEAN
    /\ last \in {"other", "steady", "runs"}

\* The gate, the kick's offset and the writer's rounding together: as long as
\* the compressor and the outlet can be read, no step that reaches an idle
\* pump leaves the outlet inside its restart band, however stale the
\* setpoint the entity shows.
NeverLocksOut == ~lockout

\* HeatingCompressorKick and "makes the gate see K and write it": between two
\* runs of the compressor there is at most one kick, also when readings, mode
\* or rights come and go; and as kick and gate judge the band, the limits and
\* the tolerance alike, a kick that fires is written in the same cycle.
KickIsSingleAndWritten == kicks <= 1 /\ ~wasted

\* The gate's decrease rule and the confirming writer: a raised target, from
\* a kick that timed out, a rejected write or a user, is taken back.
Raised == play # NoReading /\ pump > Clamped(Rounded(play))
RaisedIsUndone == Raised ~> ~Raised
=============================================================================
