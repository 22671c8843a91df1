------------------------------ MODULE RoomValve ------------------------------
(***************************************************************************)
(* The water side of one room: the PI loop that positions the valve, the   *)
(* local dew-point throttle, the hard safety rules laid over both, and the *)
(* room's share in the building's safe dew point.                          *)
(*                                                                         *)
(* Temperatures, positions and times are integers in units of the model's  *)
(* own; one step of the module is one control cycle of the room.           *)
(***************************************************************************)
EXTENDS Integers, FiniteSets

CONSTANTS
    None,          \* an absent value
    Modes,         \* the modes the home is put in
    Temps,         \* room temperatures the sensor reports
    Setpoints,
    Surroundings,  \* [lo, hi: coldest and hottest supply, dew, pad, age]
    Trims,         \* trend damping and feedforward, added up
    Pumped,        \* whether the heat pump serves the floor
    Full,          \* the fully open valve
    Floor,         \* valve_floor_pct
    Kp, Ki, Unwind, Deadband,
    Margin, Ramp,  \* dew_margin_k, dew_ramp_k
    Trip, Clear,   \* threshold_on and threshold_off of each rule
    Decay,         \* _INTEGRATOR_DECAY_AFTER_S in cycles
    Optional       \* rooms may opt out of cooling

AllModes == {"heating", "cooling", "transitional", "off"}
Rules == {"S1", "S2", "S3", "S4", "S5"}
Above == {"S1", "S4", "S5"}          \* the rules that trip above a threshold

ASSUME RoomAssumption ==
    /\ None \notin Int /\ None \notin AllModes
    /\ Modes \subseteq AllModes
    /\ Temps \subseteq Int /\ Setpoints \subseteq Int /\ Trims \subseteq Int
    /\ Surroundings \subseteq [lo : Int \cup {None}, hi : Int \cup {None},
                               dew : Int \cup {None}, pad : Nat, age : Nat]
    /\ \A s \in Surroundings : /\ s.lo = None <=> s.hi = None
                               /\ s.lo # None => s.lo <= s.hi
    /\ Full \in Nat \ {0} /\ Floor \in 0 .. Full
    /\ {Kp, Deadband, Margin} \subseteq Nat
    /\ {Ki, Unwind, Ramp, Decay} \subseteq Nat \ {0}
    /\ Optional \in BOOLEAN /\ Pumped \subseteq BOOLEAN /\ Pumped # {}

ASSUME RulesAssumption ==
    /\ Trip \in [Rules -> Int] /\ Clear \in [Rules -> Int]
    /\ \A r \in Rules : IF r \in Above THEN Clear[r] <= Trip[r]
                                       ELSE Trip[r] <= Clear[r]
    /\ Trip["S2"] = 0

Greater(a, b) == IF a >= b THEN a ELSE b
Size(v) == IF v < 0 THEN -v ELSE v
Clip(v) == IF v < 0 THEN 0 ELSE IF v > Full THEN Full ELSE v

----------------------------------------------------------------------------
(* The PI loop: an integral and the part of a setpoint shift its clamp cut *)
(* off.                                                                    *)

Cleared == [i |-> 0, debt |-> 0]

Opposed(a, b) == (a > 0 /\ b < 0) \/ (a < 0 /\ b > 0)

\* A counter-shift pays the debt of an earlier one before it moves the
\* integral.
Shift(p, d) ==
    LET pays == Opposed(d, p.debt)
        rest == IF pays THEN d + p.debt ELSE d
        target == p.i + rest
    IN  IF pays /\ Size(d) <= Size(p.debt)
        THEN [p EXCEPT !.debt = @ + d]
        ELSE [i    |-> Clip(target),
              debt |-> (IF pays THEN 0 ELSE p.debt) + target - Clip(target)]

\* An integral of the other sign unwinds faster, up to zero; the rest of the
\* interval counts at the normal rate.
Accumulated(i, e) ==
    LET d == Ki * e
    IN  IF ~Opposed(e, i) THEN i + d
        ELSE IF Unwind * Size(d) < Size(i) THEN i + Unwind * d
        ELSE IF d > 0 THEN d - Size(i) \div Unwind
        ELSE d + Size(i) \div Unwind

\* Back-calculation is withheld while a debt of the other sign stands.
Unwound(p, fix) ==
    IF Opposed(fix, p.debt) THEN [p EXCEPT !.i = Clip(@)]
                            ELSE [p EXCEPT !.i = @ + fix]

Compute(p, e, frozen) ==
    LET q == IF frozen THEN p ELSE [p EXCEPT !.i = Accumulated(@, e)]
        raw == Kp * e + q.i
    IN  [pid |-> Unwound(q, Clip(raw) - raw), out |-> Clip(raw)]

----------------------------------------------------------------------------
(* The inputs of a cycle.                                                  *)

Readings ==
    [mode : Modes,
     cools : IF Optional THEN BOOLEAN ELSE {TRUE},  \* cooling_enabled
     temp : Temps \cup {None}, around : Surroundings, sp : Setpoints,
     pumped : Pumped,       \* hp_active_for_ufh is not False
     boosted : BOOLEAN,     \* the split ran in cooling when the step began
     trim : Trims]
Inputs == {in \in Readings : ~in.cools \/ in.boosted => in.mode = "cooling"}

\* A cycle that does not regulate reads only the first four of them.
PassiveInputs ==
    {in \in Inputs : /\ in.sp = CHOOSE s \in Setpoints : TRUE
                     /\ in.trim = CHOOSE t \in Trims : TRUE
                     /\ in.pumped = CHOOSE h \in Pumped : TRUE
                     /\ ~in.boosted}

Heats(in) == in.mode = "heating"
Cools(in) == in.mode = "cooling"

ErrorOf(in) == IF Heats(in) THEN in.sp - in.temp ELSE in.temp - in.sp
Debanded(e) ==
    IF e > Deadband THEN e - Deadband ELSE IF e < -Deadband THEN e + Deadband ELSE 0

\* What keeps a room out of the building's safe dew point, and what it
\* contributes otherwise.
Eligible(in) == Cools(in) /\ in.cools /\ in.temp # None /\ in.around.dew # None

\* The throttle in steps of a ramp Whole steps wide.
RampFoot == Greater(0, Margin - Ramp)
Whole == Greater(1, Margin - RampFoot)
Factor(gap) ==
    IF gap <= RampFoot THEN 0 ELSE IF gap >= Margin THEN Whole ELSE gap - RampFoot
Throttle(in) ==
    IF in.around.dew = None \/ in.around.lo = None THEN 0
    ELSE Factor(in.around.lo - (in.around.dew + in.around.pad))
Throttled(v, f) == (v * f + Whole - 1) \div Whole   \* zero only if v or f is

----------------------------------------------------------------------------
(* The safety rules.  A rule that cannot be computed keeps its state.      *)

Governing(in) == IF Heats(in) THEN in.around.hi ELSE in.around.lo

Measured(in, r) ==
    CASE r = "S1" -> Governing(in)
      [] r = "S2" -> IF None \in {Governing(in), in.temp, in.around.dew} THEN None
                     ELSE Governing(in) - in.around.dew
      [] r \in {"S3", "S4"} -> in.temp
      [] r = "S5" -> in.around.age

LatchedForGood(held, in, r) ==
    LET m == Measured(in, r)
    IN  held \/ (m # None /\ IF r \in Above THEN m > Trip[r] ELSE m < Trip[r])

Latched(held, in, r) ==
    LET m == Measured(in, r)
    IN  IF m = None THEN held
        ELSE IF r \in Above THEN m > Trip[r] \/ (held /\ m >= Clear[r])
        ELSE m < Trip[r] \/ (held /\ m <= Clear[r])

SafeOpens(in, active, v) ==
    LET closes == active \cap {"S1", "S2"} # {}
    IN  IF "S3" \in active THEN IF closes THEN 0 ELSE Full
        ELSE IF "S4" \in active \/ closes THEN 0
        ELSE IF "S5" \in active THEN IF Heats(in) THEN Floor ELSE 0
        ELSE v

\* Water and air side are decided apart; here is the water side.
Safe(in, active, v) ==
    LET closes == active \cap {"S1", "S2"} # {}
    IN  IF "S3" \in active THEN IF closes \/ Cools(in) THEN 0 ELSE Full
        ELSE IF "S4" \in active \/ closes THEN 0
        ELSE IF "S5" \in active THEN IF Heats(in) THEN Floor ELSE 0
        ELSE v

----------------------------------------------------------------------------
VARIABLES
    pid,        \* _pid
    lastMode,   \* _last_pid_mode
    lastSp,     \* _last_pid_setpoint_c
    idle,       \* _inactive_s in cycles, counted up to Decay
    lastValve,  \* _last_valve_pct
    seeded,     \* _seeded
    hold,       \* _boost_hold_pct
    lastRaw,    \* _last_raw_valve_pct
    latches,    \* SafetyEvaluator._active
    seen        \* the step just made, with what the properties compare it to

vars == <<pid, lastMode, lastSp, idle, lastValve, seeded, hold, lastRaw,
          latches, seen>>

\* The controller of a room that starts, restarts or is reconfigured.
Fresh ==
    /\ pid = Cleared
    /\ lastMode = None /\ lastSp = None
    /\ idle = 0
    /\ lastValve = Floor
    /\ seeded = FALSE
    /\ hold = None
    /\ lastRaw = 0
    /\ latches = {}

Nothing ==
    [path |-> "start", mode |-> "off", valve |-> 0, dry |-> TRUE, counted |-> FALSE,
     healthy |-> FALSE, regulated |-> None, banked |-> {}]

Init == Fresh /\ seen = Nothing

----------------------------------------------------------------------------
(* One cycle of a room whose sensor answers in a mode that regulates.      *)

Regulates(in) == in.temp # None /\ (Heats(in) \/ (Cools(in) /\ in.cools))

\* A change of season empties the loop; a change of the setpoint moves the
\* integral along.
Flips(in) == lastMode \notin {None, in.mode}
CarriedOver(in) == pid
Carried(in) == IF Flips(in) THEN Cleared ELSE pid
Reference(in) == IF Flips(in) THEN None ELSE lastSp
Shifted(in, p, from) ==
    IF from \in {None, in.sp} THEN p
    ELSE Shift(p, Kp * (IF Heats(in) THEN in.sp - from ELSE from - in.sp))

Loop(in, p, from) ==
    LET f == IF Cools(in) THEN Throttle(in) ELSE Whole
    IN  Compute(Shifted(in, p, from), Debanded(ErrorOf(in)), ~in.pumped \/ f < Whole)

Floored(in, raw) ==
    IF Heats(in) /\ Debanded(ErrorOf(in)) > 0 /\ raw < Floor THEN Floor ELSE raw

\* The floor keeps the position it had when the split came to help.
Held(in) ==
    IF ~(Cools(in) /\ in.boosted) THEN None ELSE IF hold = None THEN lastRaw ELSE hold
Lifted(in, raw) ==
    IF Held(in) = None THEN Floored(in, raw) ELSE Greater(Floored(in, raw), Held(in))

Position(in, raw) ==
    Clip(IF Cools(in) THEN Throttled(Lifted(in, raw), Throttle(in)) ELSE Lifted(in, raw))

\* What the properties read of a step that ends in position v, before and
\* after the safety layer.
Dry(in) ==
    /\ None \notin {in.temp, in.around.dew, in.around.lo}
    /\ in.around.lo > in.around.dew + in.around.pad
Recovered(in, r) ==
    LET m == Measured(in, r)
    IN  m # None /\ IF r \in Above THEN m < Clear[r] ELSE m > Clear[r]
Healthy(in) ==
    /\ Regulates(in) /\ Debanded(ErrorOf(in)) > 0
    /\ in.trim >= 0 /\ in.pumped
    /\ \A r \in Rules : Recovered(in, r)
    /\ Cools(in) => /\ Dry(in)
                    /\ in.around.lo - in.around.dew - in.around.pad >= Margin
Seen(in, path, v, banked) ==
    [path |-> path, mode |-> in.mode,
     valve |-> Safe(in, latches', v), dry |-> Dry(in),
     counted |-> Eligible(in),
     healthy |-> Healthy(in),
     regulated |-> IF path = "lost" THEN seen.regulated ELSE v,
     banked |-> banked]

Evaluate(in) == latches' = {r \in Rules : Latched(r \in latches, in, r)}

Regulate(in) ==
    LET c == Loop(in, Carried(in), Reference(in))
        raw == c.out + in.trim
        v == Position(in, raw)
    IN  /\ Regulates(in)
        /\ pid' = c.pid
        /\ lastMode' = in.mode /\ lastSp' = in.sp
        /\ idle' = 0
        /\ hold' = Held(in)
        /\ lastRaw' = Clip(raw)
        /\ lastValve' = v /\ seeded' = TRUE
        /\ Evaluate(in)
        /\ seen' = Seen(in, "regulated", v,
                         IF c.pid.i = 0 THEN {}
                         ELSE {in.mode} \cup (IF Carried(in).i = 0 THEN {} ELSE seen.banked))

\* _note_inactive: a cycle in which the loop does not run.
Rest ==
    LET rested == IF idle < Decay THEN idle + 1 ELSE idle
        decays == rested >= Decay /\ pid.i # 0
    IN  /\ idle' = rested
        /\ hold' = None
        /\ pid' = IF decays THEN Cleared ELSE pid
        /\ lastSp' = IF decays THEN None ELSE lastSp
        /\ UNCHANGED <<lastMode, lastRaw>>

Banked == IF pid'.i = 0 THEN {} ELSE seen.banked

\* Off, transitional, or a room that takes no part in cooling.
Park(in) ==
    /\ in.temp # None /\ ~Regulates(in)
    /\ Rest
    /\ lastValve' = 0 /\ seeded' = TRUE
    /\ Evaluate(in)
    /\ seen' = Seen(in, "parked", 0, Banked)

LoseSensorForgets(in) ==
    LET v == IF ~Heats(in) THEN 0 ELSE IF seeded THEN lastValve ELSE Floor
    IN  /\ in.temp = None
        /\ Rest
        /\ lastValve' = v
        /\ Evaluate(in)
        /\ seen' = Seen(in, "lost", v, Banked)
        /\ UNCHANGED seeded

\* _safe_degrade: heating keeps its last position, every other mode closes.
LoseSensor(in) ==
    LET v == IF ~Heats(in) THEN 0 ELSE IF seeded THEN lastValve ELSE Floor
    IN  /\ in.temp = None
        /\ Rest
        /\ lastValve' = IF Heats(in) THEN v ELSE lastValve
        /\ Evaluate(in)
        /\ seen' = Seen(in, "lost", v, Banked)
        /\ UNCHANGED seeded

\* The step of the room raised before it changed anything: the building answers for it.
Fail(in) ==
    /\ seen' = [seen EXCEPT !.path = "failed", !.mode = in.mode, !.dry = Dry(in),
                            !.counted = Eligible(in), !.healthy = FALSE,
                            !.valve = IF Heats(in) THEN lastValve ELSE 0]
    /\ UNCHANGED <<pid, lastMode, lastSp, idle, lastValve, seeded, hold, lastRaw,
                   latches>>

\* A reload or a restart builds the controller anew.
Rebuild ==
    /\ pid' = Cleared /\ lastMode' = None /\ lastSp' = None /\ idle' = 0
    /\ lastValve' = Floor /\ seeded' = FALSE /\ hold' = None /\ lastRaw' = 0
    /\ latches' = {} /\ seen' = Nothing

Cycle ==
    \/ \E in \in Inputs : Regulate(in)
    \/ \E in \in PassiveInputs : Park(in) \/ LoseSensor(in) \/ Fail(in)

Next == Cycle \/ Rebuild

Spec == Init /\ [][Next]_vars

----------------------------------------------------------------------------
(* The state has its type: the integral stays inside the span that the     *)
(* clamp of the output and the largest proportional term leave it.         *)
TypeOK ==
    /\ pid.i \in Int /\ pid.debt \in Int
    /\ lastMode \in {None, "heating", "cooling"}
    /\ lastSp \in Setpoints \cup {None}
    /\ idle \in 0 .. Decay
    /\ lastValve \in 0 .. Full /\ lastRaw \in 0 .. Full
    /\ hold \in 0 .. Full \cup {None}
    /\ seeded \in BOOLEAN
    /\ latches \subseteq Rules
    /\ seen.valve \in 0 .. Full

(* Whatever path a cycle took (the loop, the split's hold, a safety rule,  *)
(* a lost sensor, an error), a valve left open in cooling has water above  *)
(* the padded dew point of a room that the building's safe dew point       *)
(* counts: _cooling_throttle, _apply_safety and classify_dew_eligibility   *)
(* agree.                                                                  *)
DrySafe ==
    seen.mode = "cooling" /\ seen.valve > 0 => seen.dry /\ seen.counted

(* A heating room whose sensor is lost or whose step raised holds the      *)
(* position of the last step that knew the temperature, never the extreme  *)
(* a safety rule put over it (_apply_safety leaves _last_valve_pct alone). *)
HoldIsRegulated ==
    /\ seen.mode = "heating"
    /\ seen.path = "failed" \/ (seen.path = "lost" /\ latches = {})
    => seen.valve = IF seen.regulated = None THEN Floor ELSE seen.regulated

(* The integral of one season never reaches the other, nor outlives twelve *)
(* hours without regulation (_active_result, _note_inactive).              *)
SeasonIsForgotten ==
    pid.i # 0 => seen.banked = {lastMode} /\ idle < Decay

(* A regulated room that calls gets water in the very cycle in which every *)
(* reading is healthy again, whatever latched, was held or wound down      *)
(* before; with a proportional term inside the range of the output.        *)
DemandOpensValve == seen.healthy => seen.valve > 0

=============================================================================
