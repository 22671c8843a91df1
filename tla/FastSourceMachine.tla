------------------------- MODULE FastSourceMachine -------------------------
(***************************************************************************)
(* The direction machine of one room's fast source (a split or a heater):  *)
(* core/fast_source.py, class FastSourceMachine.  Every method is an       *)
(* operator from a machine record to a machine record; the modules that    *)
(* give the room, the adapter and the multisplit group their behaviours    *)
(* compose these operators in the order RoomController.step calls them.    *)
(*                                                                         *)
(* Time is counted in integer units.  A clock that the code only compares  *)
(* with a threshold saturates: the dwell clock at TimerCap (which is also  *)
(* the code's "unlocked" start value of 1e9 s) and the settle counter at   *)
(* HalfCycle.                                                              *)
(***************************************************************************)
EXTENDS Integers

CONSTANTS
    MinOn,      \* fast_min_on_minutes: the shortest run of the unit
    MinOff,     \* fast_min_off_minutes: the shortest pause of the unit
    Hold,       \* fast_manual_hold_minutes; 0 disables the manual hold
    HalfCycle,  \* 0.5 * cycle_seconds: the settle rule's threshold
    TimerCap    \* where the dwell clock saturates

ASSUME MachineAssumption ==
    /\ MinOn \in Nat /\ MinOff \in Nat /\ Hold \in Nat
    /\ HalfCycle \in Nat \ {0}
    /\ TimerCap \in Nat /\ TimerCap >= MinOn /\ TimerCap >= MinOff

None == "none"
Directions == {"OFF", "HEATING", "COOLING"}
Commands == Directions \cup {"DRY"}
Kinds == {"NONE", "SPLIT", "HEATER"}
Modes == {"HEATING", "COOLING", "TRANSITIONAL", "OFF"}

\* What the climate entity shows: no reading, stopped, or running in a mode
\* ("auto" stands for every running mode that has no single direction).
Readings == {"gap", "off", "heat", "cool", "dry", "auto"}

DirectionOf(c) == IF c = "DRY" THEN "COOLING" ELSE c

Reported(p) ==
    IF p = "heat" THEN "HEATING"
    ELSE IF p \in {"cool", "dry"} THEN "COOLING" ELSE None

Running(p) == p \notin {"gap", "off"}

Machine ==
    [state    : Directions,            \* the direction, part of the state
     timer    : 0 .. TimerCap,         \* time in the current state
     synced   : BOOLEAN,               \* the last cycle saw the unit
     mismatch : BOOLEAN,               \* this cycle's divergence flag
     visible  : BOOLEAN,               \* the last sync saw the unit
     prev     : Commands \cup {None},  \* last command emitted while visible
     lastMode : Commands \cup {None},  \* last command emitted at all
     lastPair : Directions \cup {None},\* last (on, direction) while visible
     since    : 0 .. HalfCycle,        \* settle counter
     dwell    : 0 .. TimerCap,         \* remaining lock, 0 for None
     hold     : 0 .. Hold]             \* remaining manual hold

ColdMachine ==
    [state |-> "OFF", timer |-> TimerCap, synced |-> FALSE,
     mismatch |-> FALSE, visible |-> FALSE, prev |-> None,
     lastMode |-> None, lastPair |-> None, since |-> 0, dwell |-> 0,
     hold |-> 0]

Least(a, b) == IF a <= b THEN a ELSE b
Minus(a, b) == IF a >= b THEN a - b ELSE 0

----------------------------------------------------------------------------
(* Reconciliation with the physical unit.                                  *)

Diverges(m, p) ==
    /\ m.prev # None
    /\ \/ Running(p) # (m.prev # "OFF")
       \/ /\ Running(p)
          /\ Reported(p) # None
          /\ Reported(p) # DirectionOf(m.prev)

RunningDirection(p, kind, mode) ==
    IF Reported(p) = "HEATING" \/ (Reported(p) # None /\ kind = "SPLIT")
    THEN Reported(p)
    ELSE IF mode = "COOLING" /\ kind = "SPLIT" THEN "COOLING" ELSE "HEATING"

\* Mutants: the adopted unit's dwell is not started, or the machine forgets
\* that it has seen the unit.
FirstSightKeepsClock(m, p, kind, mode) ==
    [m EXCEPT !.synced = TRUE,
              !.state = IF Running(p) THEN RunningDirection(p, kind, mode)
                                      ELSE "OFF"]

FirstSightForgets(m, p, kind, mode) ==
    [m EXCEPT !.state = IF Running(p) THEN RunningDirection(p, kind, mode)
                                      ELSE "OFF",
              !.timer = 0]

\* The first reading after a start or a gap: the unit is adopted as found
\* and a dwell starts.
FirstSight(m, p, kind, mode) ==
    [m EXCEPT
        !.synced = TRUE,
        !.state = IF ~Running(p) THEN "OFF"
                  ELSE IF Reported(p) # None \/ m.state = "OFF"
                       THEN RunningDirection(p, kind, mode)
                       ELSE @,
        !.lastMode = IF p = "dry" THEN "DRY" ELSE @,
        !.timer = 0]

\* Mutant: a touch is adopted without a hold.
AdoptUnheld(m, p, kind, mode) ==
    [m EXCEPT !.state = IF Running(p) THEN RunningDirection(p, kind, mode)
                                      ELSE "OFF"]

\* A settled divergence: the user touched the unit.
AdoptTouch(m, p, kind, mode) ==
    LET adopted == IF Running(p) THEN RunningDirection(p, kind, mode)
                                 ELSE "OFF"
    IN  [m EXCEPT !.state = adopted,
                  !.timer = IF adopted = m.state THEN @ ELSE 0,
                  !.hold = Hold]

Touched(m, p, kind) ==
    /\ kind # "NONE" /\ p # "gap" /\ m.synced
    /\ Diverges(m, p)
    /\ Hold > 0 /\ m.since >= HalfCycle

Sync(m, p, kind, mode) ==
    LET seen == [m EXCEPT !.mismatch = FALSE,
                          !.visible = kind # "NONE" /\ p # "gap"]
    IN  IF kind = "NONE" THEN seen
        ELSE IF p = "gap"
             THEN [seen EXCEPT !.synced = FALSE, !.prev = None,
                               !.lastPair = None]
        ELSE IF ~m.synced THEN FirstSight(seen, p, kind, mode)
        ELSE IF ~Diverges(m, p) THEN seen
        ELSE IF Touched(m, p, kind) THEN AdoptTouch(seen, p, kind, mode)
        ELSE [seen EXCEPT !.mismatch = TRUE]

\* The clocks advance exactly once per control step.
Tick(m, dt) ==
    [m EXCEPT !.timer = Least(@ + dt, TimerCap),
              !.since = Least(@ + dt, HalfCycle),
              !.hold = Minus(@, dt)]

----------------------------------------------------------------------------
(* Decisions: each leaves in state the direction of the command it emits.  *)

Lock(state) == IF state = "OFF" THEN MinOff ELSE MinOn

Mirror(m) == [m EXCEPT !.dwell = Minus(Lock(m.state), m.timer)]

Turn(m, state) ==
    [m EXCEPT !.state = state, !.timer = IF state = m.state THEN @ ELSE 0]

Decide(m, want, dir) ==
    Mirror(IF m.state = "OFF"
           THEN IF want /\ m.timer >= MinOff THEN Turn(m, dir) ELSE m
           ELSE IF ~(want /\ dir = m.state) /\ m.timer >= MinOn
                THEN Turn(m, "OFF") ELSE m)

\* Mutant: the hold ends in silence.
EndHoldSilently(m) == [m EXCEPT !.hold = 0]

\* A force ends a hold and says so, unless the unit was not seen.
EndHold(m) ==
    IF m.hold > 0 /\ m.visible THEN [m EXCEPT !.mismatch = TRUE, !.hold = 0]
                               ELSE m

ForceOn(m, dir) == Mirror(Turn(EndHold(m), dir))

ForceOff(m) == [Turn(EndHold(m), "OFF") EXCEPT !.dwell = 0]

\* Mutant: a command emitted blind becomes the reference.
NoteBlind(m, c) ==
    [m EXCEPT !.lastMode = c, !.prev = c,
              !.since = IF DirectionOf(c) = m.lastPair THEN @ ELSE 0,
              !.lastPair = DirectionOf(c)]

\* The emitted command becomes the reference of the next reconciliation,
\* if the unit was seen; a changed pair restarts the settle counter.
NoteCommand(m, c) ==
    LET noted == [m EXCEPT !.lastMode = c]
    IN  IF ~m.visible THEN noted
        ELSE [noted EXCEPT
                !.since = IF DirectionOf(c) = m.lastPair THEN @ ELSE 0,
                !.lastPair = DirectionOf(c),
                !.prev = c]

\* What the adapter wrote instead of the command replaces the reference.
NoteWritten(m, c) ==
    LET noted == [m EXCEPT !.lastMode = c]
    IN  IF m.visible THEN [noted EXCEPT !.prev = c] ELSE noted
============================================================================
