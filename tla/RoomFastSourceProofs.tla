------------------------ MODULE RoomFastSourceProofs ------------------------
(***************************************************************************)
(* Lemmas about the operators of FastSourceMachine and RoomFastSource:     *)
(* first that each keeps the machine well typed, then what each does to    *)
(* the fields the invariants speak of, and last what one control step does *)
(* (StepEffect), which is all the proofs about specifications cite.        *)
(***************************************************************************)
EXTENDS RoomFastSource, TLAPS

\* The clocks' reset values lie in their ranges.
LEMMA Clocks ==
    /\ 0 \in 0 .. TimerCap /\ 0 \in 0 .. HalfCycle
    /\ 0 \in 0 .. Hold /\ Hold \in 0 .. Hold
  BY MachineAssumption

\* A running unit is adopted in one of two directions, a heater only in one.
LEMMA Adopted ==
    ASSUME NEW p \in Readings, NEW mode \in Modes
    PROVE  /\ RunningDirection(p, Kind, mode) \in {"HEATING", "COOLING"}
           /\ Kind = "HEATER" => RunningDirection(p, Kind, mode) = "HEATING"
  BY DEF RunningDirection, Reported, None

\* Adopting a unit at first sight keeps the machine well typed.
LEMMA FirstSightType ==
    ASSUME NEW a \in Machine, NEW p \in Readings, NEW mode \in Modes
    PROVE  FirstSight(a, p, Kind, mode) \in Machine
  BY Clocks, Adopted DEF FirstSight, Machine, Directions, Commands

\* So does adopting a touch.
LEMMA AdoptTouchType ==
    ASSUME NEW a \in Machine, NEW p \in Readings, NEW mode \in Modes
    PROVE  AdoptTouch(a, p, Kind, mode) \in Machine
  BY Clocks, Adopted DEF AdoptTouch, Machine, Directions

\* So does changing the flags a sync sets.
LEMMA FlagTypes ==
    ASSUME NEW a \in Machine, NEW b \in BOOLEAN, NEW v \in BOOLEAN
    PROVE  /\ [a EXCEPT !.mismatch = b] \in Machine
           /\ [a EXCEPT !.mismatch = b, !.visible = v] \in Machine
           /\ [a EXCEPT !.synced = FALSE, !.prev = None, !.lastPair = None]
                \in Machine
  BY DEF Machine

\* Reconciliation keeps the machine well typed on every path.
LEMMA SyncType ==
    ASSUME NEW a \in Machine, NEW p \in Readings, NEW mode \in Modes
    PROVE  Sync(a, p, Kind, mode) \in Machine
<1> DEFINE seen == [a EXCEPT !.mismatch = FALSE,
                             !.visible = Kind # "NONE" /\ p # "gap"]
<1>1. seen \in Machine
  BY FlagTypes
<1> HIDE DEF seen
<1>2. /\ [seen EXCEPT !.synced = FALSE, !.prev = None, !.lastPair = None]
            \in Machine
      /\ [seen EXCEPT !.mismatch = TRUE] \in Machine
      /\ FirstSight(seen, p, Kind, mode) \in Machine
      /\ AdoptTouch(seen, p, Kind, mode) \in Machine
  BY <1>1, FlagTypes, FirstSightType, AdoptTouchType
<1> QED
  BY <1>1, <1>2 DEF Sync, seen

\* The saturating clocks stay in their ranges.
LEMMA TickType ==
    ASSUME NEW a \in Machine, NEW dt \in Nat
    PROVE  Tick(a, dt) \in Machine
<1>1. /\ a.timer \in 0 .. TimerCap
      /\ a.since \in 0 .. HalfCycle
      /\ a.hold \in 0 .. Hold
  BY DEF Machine
<1>2. /\ Least(a.timer + dt, TimerCap) \in 0 .. TimerCap
      /\ Least(a.since + dt, HalfCycle) \in 0 .. HalfCycle
      /\ Minus(a.hold, dt) \in 0 .. Hold
  BY <1>1, MachineAssumption DEF Least, Minus
<1> QED
  BY <1>2 DEF Tick, Machine

\* The surfaced lock is bounded by the dwell clock's cap.
LEMMA MirrorType ==
    ASSUME NEW a \in Machine
    PROVE  Mirror(a) \in Machine
<1>1. a.state \in Directions /\ a.timer \in 0 .. TimerCap
  BY DEF Machine
<1>2. Minus(Lock(a.state), a.timer) \in 0 .. TimerCap
  BY <1>1, MachineAssumption DEF Lock, Minus
<1> QED
  BY <1>2 DEF Mirror, Machine

\* Turning to any direction keeps the machine well typed.
LEMMA TurnType ==
    ASSUME NEW a \in Machine, NEW d \in Directions
    PROVE  Turn(a, d) \in Machine
  BY Clocks DEF Turn, Machine

\* So does every decision,
LEMMA DecideType ==
    ASSUME NEW a \in Machine, NEW want \in BOOLEAN, NEW d \in Directions
    PROVE  Decide(a, want, d) \in Machine
  BY MirrorType, TurnType DEF Decide, Directions

\* and ending a hold,
LEMMA EndHoldType ==
    ASSUME NEW a \in Machine
    PROVE  EndHold(a) \in Machine
  BY Clocks DEF EndHold, Machine

\* and a forced start,
LEMMA ForceOnType ==
    ASSUME NEW a \in Machine, NEW d \in Directions
    PROVE  ForceOn(a, d) \in Machine
  BY EndHoldType, TurnType, MirrorType DEF ForceOn

\* and a forced stop,
LEMMA ForceOffType ==
    ASSUME NEW a \in Machine
    PROVE  ForceOff(a) \in Machine
<1>1. Turn(EndHold(a), "OFF") \in Machine
  BY EndHoldType, TurnType DEF Directions
<1> QED
  BY <1>1, Clocks DEF ForceOff, Machine

\* and recording an emitted or a written command.
LEMMA NoteType ==
    ASSUME NEW a \in Machine, NEW c \in Commands
    PROVE  NoteCommand(a, c) \in Machine /\ NoteWritten(a, c) \in Machine
<1>1. DirectionOf(c) \in Directions
  BY DEF DirectionOf, Commands, Directions
<1> QED
  BY <1>1, Clocks DEF NoteCommand, NoteWritten, Machine

----------------------------------------------------------------------------
(* What each operator does to the fields others rely on: the direction and *)
(* its clock, what is known of the unit, the hold and its flag.            *)

Kept(a, b) == b.state = a.state /\ b.timer = a.timer

FreeMove(a, b) ==
    \/ Kept(a, b)
    \/ a.state = "OFF" /\ b.state \in {"HEATING", "COOLING"}
       /\ a.timer >= MinOff /\ b.timer = 0
    \/ a.state # "OFF" /\ b.state = "OFF" /\ a.timer >= MinOn /\ b.timer = 0

AnyMove(a, b) == Kept(a, b) \/ b.timer = 0

SameSight(a, b) ==
    b.visible = a.visible /\ b.synced = a.synced /\ b.prev = a.prev

HoldMove(a, b) ==
    \/ b.hold = a.hold /\ b.mismatch = a.mismatch
    \/ b.hold = 0 /\ b.mismatch

Honest(b) == b.state # "OFF" => b.dwell = Minus(MinOn, b.timer)

\* What a turn changes: the direction, and the clock on an edge.
LEMMA TurnEffect ==
    ASSUME NEW a \in Machine, NEW d \in Directions
    PROVE  LET b == Turn(a, d)
           IN  /\ b.state = d
               /\ b.timer = IF d = a.state THEN a.timer ELSE 0
               /\ SameSight(a, b)
               /\ b.hold = a.hold /\ b.mismatch = a.mismatch
  BY DEF Turn, Machine, SameSight

\* A mirror changes nothing but the surfaced lock.
LEMMA MirrorEffect ==
    ASSUME NEW a \in Machine
    PROVE  LET b == Mirror(a)
           IN  /\ Kept(a, b) /\ SameSight(a, b) /\ Honest(b)
               /\ b.hold = a.hold /\ b.mismatch = a.mismatch
  BY DEF Mirror, Machine, SameSight, Kept, Honest, Lock

\* A hold ends, with a flag, only for a unit that is seen.
LEMMA EndHoldEffect ==
    ASSUME NEW a \in Machine
    PROVE  LET b == EndHold(a)
           IN  /\ Kept(a, b) /\ SameSight(a, b) /\ HoldMove(a, b)
               /\ a.visible => b.hold = 0
  BY DEF EndHold, Machine, SameSight, Kept, HoldMove

\* A decision moves only with the dwell elapsed, never to a third direction,
\* and never starts without a want.
LEMMA DecideEffect ==
    ASSUME NEW a \in Machine, NEW want \in BOOLEAN,
           NEW d \in {"HEATING", "COOLING"}
    PROVE  LET b == Decide(a, want, d)
           IN  /\ FreeMove(a, b) /\ SameSight(a, b) /\ Honest(b)
               /\ b.hold = a.hold /\ b.mismatch = a.mismatch
               /\ b.state \in {a.state, "OFF", d}
               /\ a.state = "OFF" /\ ~want => b.state = "OFF"
<1>1. PICK c \in Machine :
        /\ Decide(a, want, d) = Mirror(c)
        /\ FreeMove(a, c) /\ SameSight(a, c)
        /\ c.hold = a.hold /\ c.mismatch = a.mismatch
        /\ c.state \in {a.state, "OFF", d}
        /\ a.state = "OFF" /\ ~want => c.state = "OFF"
  <2>1. /\ Turn(a, d) \in Machine /\ Turn(a, "OFF") \in Machine
        /\ a.state \in Directions
    BY TurnType DEF Directions, Machine
  <2> QED
    BY <2>1, TurnEffect DEF Decide, FreeMove, Kept, SameSight, Directions
<1> QED
  BY <1>1, MirrorEffect DEF FreeMove, Kept, SameSight

\* A forced start leaves the unit running in its direction, without a hold
\* if the unit is seen.
LEMMA ForceOnEffect ==
    ASSUME NEW a \in Machine, NEW d \in {"HEATING", "COOLING"}
    PROVE  LET b == ForceOn(a, d)
           IN  /\ AnyMove(a, b) /\ SameSight(a, b) /\ Honest(b)
               /\ HoldMove(a, b) /\ (a.visible => b.hold = 0)
               /\ b.state = d
<1> DEFINE c == EndHold(a)
           t == Turn(c, d)
<1>1. c \in Machine /\ d \in Directions
  BY EndHoldType DEF Directions
<1>2. t \in Machine
  BY <1>1, TurnType
<1>3. Kept(a, c) /\ SameSight(a, c) /\ HoldMove(a, c) /\ (a.visible => c.hold = 0)
  BY EndHoldEffect
<1>4. /\ t.state = d /\ SameSight(c, t)
      /\ t.timer = IF d = c.state THEN c.timer ELSE 0
      /\ t.hold = c.hold /\ t.mismatch = c.mismatch
  BY <1>1, TurnEffect
<1>5. LET b == Mirror(t)
      IN  /\ Kept(t, b) /\ SameSight(t, b) /\ Honest(b)
          /\ b.hold = t.hold /\ b.mismatch = t.mismatch
  BY <1>2, MirrorEffect
<1> HIDE DEF c, t
<1>6. ForceOn(a, d) = Mirror(t)
  BY DEF ForceOn, c, t
<1> QED
  BY <1>3, <1>4, <1>5, <1>6 DEF AnyMove, Kept, SameSight, HoldMove

\* A forced stop leaves it stopped, without a hold if the unit is seen.
LEMMA ForceOffEffect ==
    ASSUME NEW a \in Machine
    PROVE  LET b == ForceOff(a)
           IN  /\ AnyMove(a, b) /\ SameSight(a, b)
               /\ HoldMove(a, b) /\ (a.visible => b.hold = 0)
               /\ b.state = "OFF"
<1> DEFINE c == EndHold(a)
           t == Turn(c, "OFF")
<1>1. c \in Machine /\ "OFF" \in Directions
  BY EndHoldType DEF Directions
<1>2. t \in Machine
  BY <1>1, TurnType
<1>3. Kept(a, c) /\ SameSight(a, c) /\ HoldMove(a, c) /\ (a.visible => c.hold = 0)
  BY EndHoldEffect
<1>4. /\ t.state = "OFF" /\ SameSight(c, t)
      /\ t.timer = IF "OFF" = c.state THEN c.timer ELSE 0
      /\ t.hold = c.hold /\ t.mismatch = c.mismatch
  BY <1>1, TurnEffect
<1> HIDE DEF c, t
<1>5. ForceOff(a) = [t EXCEPT !.dwell = 0]
  BY DEF ForceOff, c, t
<1>6. LET b == [t EXCEPT !.dwell = 0]
      IN  /\ Kept(t, b) /\ SameSight(t, b)
          /\ b.hold = t.hold /\ b.mismatch = t.mismatch
  BY <1>2 DEF Machine, Kept, SameSight
<1> QED
  BY <1>3, <1>4, <1>5, <1>6 DEF AnyMove, Kept, SameSight, HoldMove

----------------------------------------------------------------------------
(* A legal decision of a step: r = [m, cmd] is what machine a was turned   *)
(* into and the command emitted.                                           *)

Decided(a, r, in) ==
    /\ r.m \in Machine /\ r.cmd \in Commands
    /\ DirectionOf(r.cmd) = r.m.state
    /\ AnyMove(a, r.m) /\ (~Forced(in) => FreeMove(a, r.m))
    /\ SameSight(a, r.m) /\ HoldMove(a, r.m) /\ Honest(r.m)
    /\ r.m.hold > 0 /\ a.visible =>
          Kept(a, r.m) /\ r.cmd = a.state /\ r.m.mismatch = a.mismatch
    /\ r.cmd = "DRY" => r.m.hold = 0 /\ Kind = "SPLIT"
    /\ Kind = "HEATER" /\ a.state # "COOLING" => r.m.state # "COOLING"

\* A forced stop is a legal decision of a forced step.
LEMMA EmitForceOff ==
    ASSUME NEW a \in Machine, NEW in \in Inputs, Forced(in)
    PROVE  Decided(a, Emit(ForceOff(a)), in)
<1> DEFINE b == ForceOff(a)
<1>1. b \in Machine /\ b.hold \in 0 .. Hold
  BY ForceOffType DEF Machine
<1>2. /\ AnyMove(a, b) /\ SameSight(a, b)
      /\ HoldMove(a, b) /\ (a.visible => b.hold = 0)
      /\ b.state = "OFF"
  BY ForceOffEffect
<1> HIDE DEF b
<1>3. Emit(b) = [m |-> b, cmd |-> "OFF"]
  BY <1>2 DEF Emit
<1> QED
  BY <1>1, <1>2, <1>3
  DEF Decided, b, Honest, DirectionOf, Commands, Directions

\* A forced start too, in a direction the source has.
LEMMA EmitForceOn ==
    ASSUME NEW a \in Machine, NEW in \in Inputs, Forced(in),
           NEW d \in {"HEATING", "COOLING"},
           d = "COOLING" => Kind = "SPLIT"
    PROVE  Decided(a, Emit(ForceOn(a, d)), in)
<1> DEFINE b == ForceOn(a, d)
<1>1. b \in Machine /\ b.hold \in 0 .. Hold
  BY ForceOnType DEF Machine, Directions
<1>2. /\ AnyMove(a, b) /\ SameSight(a, b) /\ Honest(b)
      /\ HoldMove(a, b) /\ (a.visible => b.hold = 0)
      /\ b.state = d
  BY ForceOnEffect
<1> HIDE DEF b
<1>3. Emit(b) = [m |-> b, cmd |-> d]
  BY <1>2 DEF Emit
<1> QED
  BY <1>1, <1>2, <1>3
  DEF Decided, b, DirectionOf, Commands, Directions

\* Mirroring is a legal decision of any step.
LEMMA EmitMirror ==
    ASSUME NEW a \in Machine, NEW in \in Inputs
    PROVE  Decided(a, Emit(Mirror(a)), in)
<1> DEFINE b == Mirror(a)
<1>1. b \in Machine /\ a.state \in Directions
  BY MirrorType DEF Machine
<1>2. /\ Kept(a, b) /\ SameSight(a, b) /\ Honest(b)
      /\ b.hold = a.hold /\ b.mismatch = a.mismatch
  BY MirrorEffect
<1> HIDE DEF b
<1>3. Emit(b) = [m |-> b, cmd |-> a.state]
  BY <1>2 DEF Emit, Kept
<1> QED
  BY <1>1, <1>2, <1>3
  DEF Decided, b, DirectionOf, Commands, Directions, AnyMove, FreeMove,
      HoldMove, Kept

\* A demand, whatever its origin, presented as the direction or as a dry run.
LEMMA EmitDecide ==
    ASSUME NEW a \in Machine, NEW in \in Inputs, NEW want \in BOOLEAN,
           NEW d \in {"HEATING", "COOLING"}, a.hold = 0,
           NEW c \in Commands,
           \/ c = Decide(a, want, d).state
           \/ c = "DRY" /\ Decide(a, want, d).state = "COOLING"
              /\ (a.state # "COOLING" => Kind = "SPLIT"),
           Kind = "HEATER" /\ d = "COOLING" => a.state = "COOLING",
           Kind = "HEATER" => c # "DRY",
           Kind # "NONE"
    PROVE  Decided(a, [m |-> Decide(a, want, d), cmd |-> c], in)
<1> DEFINE b == Decide(a, want, d)
<1>1. b \in Machine /\ b.state \in Directions
  BY DecideType DEF Machine, Directions
<1>2. /\ FreeMove(a, b) /\ SameSight(a, b) /\ Honest(b)
      /\ b.hold = a.hold /\ b.mismatch = a.mismatch
      /\ b.state \in {a.state, "OFF", d}
      /\ a.state = "OFF" /\ ~want => b.state = "OFF"
  BY DecideEffect
<1> HIDE DEF b
<1>3. [m |-> b, cmd |-> c].m = b /\ [m |-> b, cmd |-> c].cmd = c
  OBVIOUS
<1>4. DirectionOf(c) = b.state /\ (c = "DRY" => Kind = "SPLIT")
  BY <1>1, RoomAssumption DEF DirectionOf, Directions, Kinds, b
<1>5. AnyMove(a, b)
  BY <1>2 DEF AnyMove, FreeMove
<1>6. Kind = "HEATER" /\ a.state # "COOLING" => b.state # "COOLING"
  BY <1>2
<1> QED
  BY <1>1, <1>2, <1>3, <1>4, <1>5, <1>6
  DEF Decided, b, HoldMove


\* Stopping an idle source is a legal decision of any step.
LEMMA EmitIdle ==
    ASSUME NEW a \in Machine, NEW in \in Inputs, a.state = "OFF", a.hold = 0
    PROVE  Decided(a, Emit(ForceOff(a)), in)
<1> DEFINE b == [a EXCEPT !.dwell = 0]
<1>1. ForceOff(a) = b
  <2>1. EndHold(a) = a
    BY DEF EndHold
  <2>2. Turn(a, "OFF") = a
    BY DEF Turn, Machine
  <2> QED
    BY <2>1, <2>2 DEF ForceOff
<1>2. b \in Machine
  BY Clocks DEF Machine
<1>3. /\ Kept(a, b) /\ SameSight(a, b) /\ b.state = "OFF" /\ b.hold = 0
      /\ b.hold = a.hold /\ b.mismatch = a.mismatch
  BY DEF Machine, Kept, SameSight
<1> HIDE DEF b
<1>4. Emit(b) = [m |-> b, cmd |-> "OFF"]
  BY <1>3 DEF Emit
<1> QED
  BY <1>1, <1>2, <1>3, <1>4
  DEF Decided, DirectionOf, Commands, Directions, AnyMove, FreeMove,
      HoldMove, Honest

\* The transitional season decides legally: a heater is never asked to cool.
LEMMA TransitionalDecided ==
    ASSUME NEW a \in Machine, NEW in \in Inputs, a.hold = 0, Kind # "NONE"
    PROVE  Decided(a, Transitional(a, in), in)
<1> DEFINE want == ~in.quiet /\
                CASE a.state = "HEATING" -> in.err > -Deadband
                  [] a.state = "COOLING" -> -in.err > -Deadband
                  [] OTHER -> in.err > BoostOffset \/ -in.err > BoostOffset
           dir  == IF a.state # "OFF" THEN a.state
                   ELSE IF -in.err > BoostOffset THEN "COOLING" ELSE "HEATING"
           cannotCool == a.state = "OFF" /\ -in.err > BoostOffset
                         /\ Kind = "HEATER"
           b == Decide(a, want, dir)
<1>1. a.state \in Directions
  BY DEF Machine
<1>2. /\ want \in BOOLEAN
      /\ dir \in {"HEATING", "COOLING"}
      /\ ~cannotCool => (Kind = "HEATER" /\ dir = "COOLING"
                            => a.state = "COOLING")
  BY <1>1 DEF Directions
<1>3. Transitional(a, in) = IF cannotCool THEN Emit(ForceOff(a))
                            ELSE [m |-> b, cmd |-> b.state]
  BY DEF Transitional, Emit
<1> HIDE DEF want, dir
<1>4. b.state \in Commands /\ b.state # "DRY"
  BY <1>1, <1>2, DecideType DEF Machine, Commands, Directions
<1>5. CASE cannotCool
  BY <1>3, <1>5, EmitIdle
<1>6. CASE ~cannotCool
  BY <1>2, <1>3, <1>4, <1>6, EmitDecide
<1> QED
  BY <1>5, <1>6

\* So does the boost of the floor, dry assist included.
LEMMA CoordinateDecided ==
    ASSUME NEW a \in Machine, NEW in \in Inputs, a.hold = 0, Kind # "NONE",
           in.mode \in {"HEATING", "COOLING"}
    PROVE  Decided(a, Coordinate(a, in), in)
<1> DEFINE temp == TempWant(a, in, in.mode)
           dry  == DryWant(a, in)
           d    == Decide(a, temp \/ dry, in.mode)
           asDry == /\ in.mode = "COOLING" /\ d.state = "COOLING"
                    /\ ~temp /\ (dry \/ LastDry(a))
           c    == IF asDry THEN "DRY" ELSE d.state
<1>1. CASE in.mode = "COOLING" /\ Kind = "HEATER"
  <2>1. Forced(in)
    BY <1>1 DEF Forced
  <2> QED
    BY <1>1, <2>1, EmitForceOff DEF Coordinate
<1>2. CASE ~(in.mode = "COOLING" /\ Kind = "HEATER")
  <2>1. Coordinate(a, in) = [m |-> d, cmd |-> c]
    BY <1>2 DEF Coordinate
  <2>2. (temp \/ dry) \in BOOLEAN
    BY DEF TempWant, DryWant
  <2>3. d.state \in Directions
    BY <2>2, DecideType DEF Machine, Directions
  <2>4. in.mode = "COOLING" => Kind = "SPLIT"
    BY <1>2, RoomAssumption DEF Kinds
  <2> HIDE DEF temp, dry
  <2>5. /\ c \in Commands
        /\ c = d.state \/ (c = "DRY" /\ d.state = "COOLING"
                             /\ in.mode = "COOLING")
    BY <2>3 DEF Commands, Directions
  <2>6. c = "DRY" => in.mode = "COOLING"
    BY <2>3, <2>5 DEF Directions
  <2> HIDE DEF c
  <2> QED
    BY <1>2, <2>1, <2>2, <2>4, <2>5, <2>6, EmitDecide
<1> QED
  BY <1>1, <1>2

\* So does the step as a whole, before the safety layer.
LEMMA RegulateDecided ==
    ASSUME NEW a \in Machine, NEW in \in Inputs
    PROVE  Decided(a, Regulate(a, in), in)
<1> DEFINE stopped == \/ in.lost \/ in.mode = "OFF" \/ Kind = "NONE"
                      \/ in.mode = "COOLING" /\ ~CoolingEnabled
<1>0. a.hold \in 0 .. Hold /\ in.mode \in Modes
  BY DEF Machine, Inputs
<1>1. CASE stopped
  <2>1. Forced(in)
    BY <1>1 DEF Forced
  <2> QED
    BY <1>1, <2>1, EmitForceOff DEF Regulate
<1>2. CASE ~stopped /\ a.hold > 0
  BY <1>2, EmitMirror DEF Regulate
<1>3. CASE ~stopped /\ ~(a.hold > 0) /\ in.mode = "TRANSITIONAL"
  BY <1>0, <1>3, MachineAssumption, TransitionalDecided DEF Regulate
<1>4. CASE ~stopped /\ ~(a.hold > 0) /\ in.mode # "TRANSITIONAL"
  BY <1>0, <1>4, MachineAssumption, CoordinateDecided DEF Regulate, Modes
<1> QED
  BY <1>1, <1>2, <1>3, <1>4

\* Two decisions of one step, the second one a force, are one legal decision.
LEMMA ForceAfter ==
    ASSUME NEW a \in Machine, NEW in \in Inputs, NEW r, NEW s, Forced(in),
           Decided(a, r, in), Decided(r.m, s, in)
    PROVE  Decided(a, s, in)
<1>1. r.m \in Machine /\ s.m \in Machine
  BY DEF Decided
<1>2. AnyMove(a, s.m) /\ SameSight(a, s.m) /\ HoldMove(a, s.m)
  BY <1>1 DEF Decided, AnyMove, Kept, SameSight, HoldMove
<1>3. s.m.hold > 0 /\ a.visible =>
          Kept(a, s.m) /\ s.cmd = a.state /\ s.m.mismatch = a.mismatch
  <2> SUFFICES ASSUME s.m.hold > 0, a.visible
               PROVE  Kept(a, s.m) /\ s.cmd = a.state
                      /\ s.m.mismatch = a.mismatch
    OBVIOUS
  <2>1. r.m.visible /\ r.m.hold = s.m.hold
    BY DEF Decided, SameSight, HoldMove
  <2> QED
    BY <2>1 DEF Decided, Kept
<1> QED
  BY <1>1, <1>2, <1>3 DEF Decided

\* The safety layer on top keeps the decision legal.
LEMMA SafetyDecided ==
    ASSUME NEW a \in Machine, NEW in \in Inputs, NEW r, Decided(a, r, in)
    PROVE  Decided(a, ApplySafety(r, in), in)
<1>0. r.m \in Machine /\ Kind \in Kinds
  BY RoomAssumption DEF Decided
<1>1. CASE "heat" \in in.alarms
  <2>1. Forced(in)
    BY <1>1 DEF Forced
  <2>2. Decided(r.m, ApplySafety(r, in), in)
    BY <1>0, <1>1, <2>1, EmitForceOn, EmitForceOff DEF ApplySafety
  <2> QED
    BY <2>1, <2>2, ForceAfter
<1>2. CASE "heat" \notin in.alarms /\ "cool" \in in.alarms
  <2>1. Forced(in)
    BY <1>2 DEF Forced
  <2>2. Decided(r.m, ApplySafety(r, in), in)
    BY <1>0, <1>2, <2>1, EmitForceOn, EmitForceOff DEF ApplySafety
  <2> QED
    BY <2>1, <2>2, ForceAfter
<1>3. CASE "heat" \notin in.alarms /\ "cool" \notin in.alarms
           /\ "fallback" \in in.alarms /\ "close" \notin in.alarms
  <2>1. Forced(in)
    BY <1>3 DEF Forced
  <2>2. Decided(r.m, ApplySafety(r, in), in)
    BY <1>0, <1>3, <2>1, EmitForceOff DEF ApplySafety
  <2> QED
    BY <2>1, <2>2, ForceAfter
<1> QED
  BY <1>1, <1>2, <1>3 DEF ApplySafety

----------------------------------------------------------------------------
(* What the reconciliation and the clocks do before the decision.          *)

Agrees(state, p) ==
    /\ Running(p) <=> state # "OFF"
    /\ Reported(p) = "HEATING" => state = "HEATING"
    /\ Reported(p) = "COOLING" /\ Kind = "SPLIT" => state = "COOLING"

\* Setting the flags of a sync changes nothing else.
LEMMA SeenEffect ==
    ASSUME NEW a \in Machine, NEW v \in BOOLEAN
    PROVE  LET s == [a EXCEPT !.mismatch = FALSE, !.visible = v]
           IN  /\ Kept(a, s) /\ s.hold = a.hold /\ s.prev = a.prev
               /\ (s.synced <=> a.synced) /\ (s.visible <=> v) /\ ~s.mismatch
               /\ s.lastMode = a.lastMode
  BY DEF Machine, Kept

\* At first sight the machine agrees with the unit and restarts the dwell.
LEMMA FirstSightEffect ==
    ASSUME NEW a \in Machine, NEW p \in Readings \ {"gap"}, NEW mode \in Modes
    PROVE  LET s == FirstSight(a, p, Kind, mode)
           IN  /\ s.timer = 0 /\ s.hold = a.hold /\ s.prev = a.prev
               /\ s.synced /\ s.visible = a.visible
               /\ s.mismatch = a.mismatch
               /\ Kind = "HEATER" /\ a.state # "COOLING"
                    => s.state # "COOLING"
               /\ Agrees(s.state, p)
<1>1. /\ RunningDirection(p, Kind, mode) \in {"HEATING", "COOLING"}
      /\ Kind = "HEATER" => RunningDirection(p, Kind, mode) = "HEATING"
      /\ Reported(p) = "HEATING" => RunningDirection(p, Kind, mode) = "HEATING"
      /\ Reported(p) = "COOLING" /\ Kind = "SPLIT"
            => RunningDirection(p, Kind, mode) = "COOLING"
  BY Adopted DEF RunningDirection, None
<1>2. p = "off" => Reported(p) = None
  BY DEF Reported
<1> QED
  BY <1>1, <1>2 DEF FirstSight, Machine, Agrees, Running, None, Directions

\* After a touch the machine agrees with the unit and holds.
LEMMA AdoptTouchEffect ==
    ASSUME NEW a \in Machine, NEW p \in Readings \ {"gap"}, NEW mode \in Modes
    PROVE  LET s == AdoptTouch(a, p, Kind, mode)
           IN  /\ AnyMove(a, s) /\ s.hold = Hold /\ s.prev = a.prev
               /\ s.synced = a.synced /\ s.visible = a.visible
               /\ s.mismatch = a.mismatch
               /\ Kind = "HEATER" => s.state # "COOLING"
               /\ Agrees(s.state, p)
<1>1. /\ RunningDirection(p, Kind, mode) \in {"HEATING", "COOLING"}
      /\ Kind = "HEATER" => RunningDirection(p, Kind, mode) = "HEATING"
      /\ Reported(p) = "HEATING" => RunningDirection(p, Kind, mode) = "HEATING"
      /\ Reported(p) = "COOLING" /\ Kind = "SPLIT"
            => RunningDirection(p, Kind, mode) = "COOLING"
  BY Adopted DEF RunningDirection, None
<1>2. p = "off" => Reported(p) = None
  BY DEF Reported
<1> QED
  BY <1>1, <1>2
  DEF AdoptTouch, Machine, Agrees, Running, None, Directions, AnyMove, Kept

\* The reference of a held machine is the state it mirrors.
Referenced(a) ==
    /\ a.hold > 0 /\ a.prev # None => a.prev = a.state
    /\ a.synced => a.visible
    /\ a.visible => a.synced /\ a.prev # None /\ Kind # "NONE"
    /\ a.prev # None => a.visible

\* The reference names the machine's direction (a dry run is one of cooling).
Recorded(a) == a.prev # None => DirectionOf(a.prev) = a.state

\* A held machine that sees no divergence agrees with the unit.
LEMMA NoDivergence ==
    ASSUME NEW a \in Machine, NEW p \in Readings \ {"gap"},
           Referenced(a), a.synced, a.hold > 0, ~Diverges(a, p)
    PROVE  Agrees(a.state, p)
<1>1. a.prev = a.state /\ a.prev # None /\ a.state \in Directions
  BY DEF Referenced, Machine
<1>2. DirectionOf(a.prev) = a.state
  BY <1>1 DEF DirectionOf, Directions
<1>3. p = "off" => Reported(p) = None
  BY DEF Reported
<1> QED
  BY <1>1, <1>2, <1>3 DEF Diverges, Agrees, Running, Reported, None, Directions

SyncResult(a, s, in) ==
    /\ s \in Machine
    /\ s.visible <=> Kind # "NONE" /\ in.phys # "gap"
    /\ s.hold = IF Touched(a, in.phys, Kind) THEN Hold ELSE a.hold
    /\ AnyMove(a, s) /\ (~Adopts(a, in) => Kept(a, s))
    /\ Kind = "HEATER" /\ a.state # "COOLING" => s.state # "COOLING"
    /\ s.synced <=> s.visible
    /\ ~s.visible => s.prev = None
    /\ s.visible /\ s.hold > 0 /\ ~s.mismatch => Agrees(s.state, in.phys)

\* What reconciliation does to a machine whose reference is consistent.
LEMMA SyncEffect ==
    ASSUME NEW a \in Machine, NEW in \in Inputs, Referenced(a)
    PROVE  SyncResult(a, Entry(a, in), in)
<1> DEFINE p == in.phys
           v == Kind # "NONE" /\ p # "gap"
           seen == [a EXCEPT !.mismatch = FALSE, !.visible = v]
           s == Entry(a, in)
<1> SUFFICES SyncResult(a, s, in)
  OBVIOUS
<1>0. p \in Readings /\ in.mode \in Modes /\ v \in BOOLEAN
  BY DEF Inputs
<1>1. s \in Machine
  BY <1>0, SyncType DEF Entry
<1>2. seen \in Machine
  BY <1>0, FlagTypes
<1>3. /\ Kept(a, seen) /\ seen.hold = a.hold /\ seen.prev = a.prev
      /\ (seen.synced <=> a.synced) /\ (seen.visible <=> v)
      /\ ~seen.mismatch
  BY <1>0, SeenEffect
<1>4. s = IF Kind = "NONE" THEN seen
          ELSE IF p = "gap"
               THEN [seen EXCEPT !.synced = FALSE, !.prev = None,
                                 !.lastPair = None]
          ELSE IF ~a.synced THEN FirstSight(seen, p, Kind, in.mode)
          ELSE IF ~Diverges(a, p) THEN seen
          ELSE IF Touched(a, p, Kind) THEN AdoptTouch(seen, p, Kind, in.mode)
          ELSE [seen EXCEPT !.mismatch = TRUE]
  BY DEF Entry, Sync
<1> HIDE DEF seen, s
<1>5. CASE Kind = "NONE"
  BY <1>1, <1>3, <1>4, <1>5
  DEF SyncResult, Touched, AnyMove, Adopts, Kept, Referenced
<1>6. CASE Kind # "NONE" /\ p = "gap"
  <2>1. /\ Kept(seen, s) /\ s.hold = seen.hold /\ (s.visible <=> seen.visible)
        /\ ~s.synced /\ s.prev = None
    BY <1>2, <1>4, <1>6 DEF Machine, Kept
  <2> QED
    BY <1>1, <1>3, <1>6, <2>1
    DEF SyncResult, Touched, AnyMove, Adopts, Kept
<1>7. CASE v /\ ~a.synced
  BY <1>0, <1>1, <1>2, <1>3, <1>4, <1>7, FirstSightEffect
  DEF SyncResult, Touched, AnyMove, Adopts, Kept
<1>8. CASE v /\ a.synced /\ ~Diverges(a, p)
  BY <1>0, <1>1, <1>3, <1>4, <1>8, NoDivergence
  DEF SyncResult, Touched, AnyMove, Adopts, Kept
<1>9. CASE v /\ a.synced /\ Diverges(a, p) /\ Touched(a, p, Kind)
  BY <1>0, <1>1, <1>2, <1>3, <1>4, <1>9, AdoptTouchEffect
  DEF SyncResult, Touched, AnyMove, Adopts, Kept
<1>10. CASE v /\ a.synced /\ Diverges(a, p) /\ ~Touched(a, p, Kind)
  <2>1. /\ Kept(seen, s) /\ s.hold = seen.hold /\ (s.visible <=> seen.visible)
        /\ (s.synced <=> seen.synced) /\ s.mismatch
    BY <1>2, <1>4, <1>10 DEF Machine, Kept
  <2> QED
    BY <1>1, <1>3, <1>10, <2>1
    DEF SyncResult, Touched, AnyMove, Adopts, Kept
<1> QED
  BY <1>5, <1>6, <1>7, <1>8, <1>9, <1>10

----------------------------------------------------------------------------
(* The step as a whole.                                                    *)

\* The tick moves the three clocks and nothing else.
LEMMA TickEffect ==
    ASSUME NEW a \in Machine, NEW dt \in Nat
    PROVE  LET t == Tick(a, dt)
           IN  /\ t.state = a.state /\ t.prev = a.prev
               /\ (t.visible <=> a.visible) /\ (t.synced <=> a.synced)
               /\ (t.mismatch <=> a.mismatch)
               /\ t.timer = Least(a.timer + dt, TimerCap)
               /\ t.hold = Minus(a.hold, dt)
  BY DEF Tick, Machine

\* Recording a command moves the reference and nothing the guard sees.
LEMMA NoteEffect ==
    ASSUME NEW a \in Machine, NEW c \in Commands
    PROVE  LET b == NoteCommand(a, c)
               w == NoteWritten(a, c)
           IN  /\ Kept(a, b) /\ Kept(a, w)
               /\ b.hold = a.hold /\ w.hold = a.hold
               /\ b.dwell = a.dwell /\ w.dwell = a.dwell
               /\ (b.mismatch <=> a.mismatch) /\ (w.mismatch <=> a.mismatch)
               /\ (b.visible <=> a.visible) /\ (w.visible <=> a.visible)
               /\ (b.synced <=> a.synced) /\ (w.synced <=> a.synced)
               /\ b.prev = IF a.visible THEN c ELSE a.prev
               /\ w.prev = IF a.visible THEN c ELSE a.prev
<1>1. DirectionOf(c) \in Directions
  BY DEF DirectionOf, Commands, Directions
<1> QED
  BY <1>1 DEF NoteCommand, NoteWritten, Machine, Kept

\* One control step from a machine whose reference is consistent.
StepResult(a, in, dt, s, t, d, r) ==
    /\ SyncResult(a, s, in)
    /\ t \in Machine /\ t.state = s.state /\ t.prev = s.prev
    /\ (t.visible <=> s.visible) /\ (t.synced <=> s.synced)
    /\ (t.mismatch <=> s.mismatch)
    /\ t.timer = Least(s.timer + dt, TimerCap)
    /\ t.hold = Minus(s.hold, dt)
    /\ Decided(t, d, in)
    /\ r.m \in Machine /\ r.cmd = d.cmd
    /\ Kept(d.m, r.m) /\ r.m.hold = d.m.hold /\ r.m.dwell = d.m.dwell
    /\ (r.m.mismatch <=> d.m.mismatch) /\ (r.m.visible <=> d.m.visible)
    /\ (r.m.synced <=> d.m.synced)
    /\ r.m.prev = IF d.m.visible THEN d.cmd ELSE d.m.prev

\* One control step: reconciliation, clocks, a legal decision, the record.
LEMMA StepParts ==
    ASSUME NEW a \in Machine, NEW in \in Inputs, NEW dt \in Nat, Referenced(a)
    PROVE  \E t, d : StepResult(a, in, dt, Entry(a, in), t, d, Step(a, in, dt))
<1> DEFINE s == Entry(a, in)
           t == Tick(s, dt)
           d == ApplySafety(Regulate(t, in), in)
           r == Step(a, in, dt)
<1>1. SyncResult(a, s, in) /\ s \in Machine
  BY SyncEffect DEF SyncResult
<1>2. r = [m |-> NoteCommand(d.m, d.cmd), cmd |-> d.cmd]
  BY DEF Step, Finalize
<1> HIDE DEF s, r
<1>3. /\ t \in Machine /\ t.state = s.state /\ t.prev = s.prev
      /\ (t.visible <=> s.visible) /\ (t.synced <=> s.synced)
      /\ (t.mismatch <=> s.mismatch)
      /\ t.timer = Least(s.timer + dt, TimerCap)
      /\ t.hold = Minus(s.hold, dt)
  BY <1>1, TickType, TickEffect
<1> HIDE DEF t
<1>4. Decided(t, d, in)
  BY <1>3, RegulateDecided, SafetyDecided
<1> HIDE DEF d
<1>5. d.m \in Machine /\ d.cmd \in Commands
  BY <1>4 DEF Decided
<1>6. /\ r.m \in Machine /\ r.cmd = d.cmd
      /\ Kept(d.m, r.m) /\ r.m.hold = d.m.hold /\ r.m.dwell = d.m.dwell
      /\ (r.m.mismatch <=> d.m.mismatch) /\ (r.m.visible <=> d.m.visible)
      /\ (r.m.synced <=> d.m.synced)
      /\ r.m.prev = IF d.m.visible THEN d.cmd ELSE d.m.prev
  BY <1>2, <1>5, NoteType, NoteEffect
<1>7. StepResult(a, in, dt, s, t, d, r)
  BY <1>1, <1>3, <1>4, <1>6 DEF StepResult
<1> QED
  BY <1>7 DEF r, s

LEMMA StepEffect ==
    ASSUME NEW a \in Machine, NEW in \in Inputs, NEW dt \in Nat, Referenced(a)
    PROVE  \E s, t, d : StepResult(a, in, dt, s, t, d, Step(a, in, dt))
  BY StepParts

\* A step leaves a consistent reference, and commands the direction that its
\* machine is in.
LEMMA StepReferenced ==
    ASSUME NEW a \in Machine, NEW in \in Inputs, NEW dt \in Nat, Referenced(a)
    PROVE  LET r == Step(a, in, dt)
           IN  /\ r.m \in Machine /\ r.cmd \in Commands
               /\ DirectionOf(r.cmd) = r.m.state
               /\ Referenced(r.m) /\ Recorded(r.m) /\ Honest(r.m)
<1> DEFINE r == Step(a, in, dt)
<1>1. PICK s, t, d : StepResult(a, in, dt, s, t, d, r)
  BY StepEffect
<1> HIDE DEF r
<1>2. /\ r.m \in Machine /\ r.cmd \in Commands
      /\ DirectionOf(r.cmd) = r.m.state /\ Honest(r.m)
  BY <1>1 DEF StepResult, Decided, Kept, Honest
<1>3. /\ r.m.synced <=> r.m.visible
      /\ r.m.prev = IF r.m.visible THEN r.cmd ELSE None
      /\ r.m.visible => Kind # "NONE"
  BY <1>1 DEF StepResult, SyncResult, Decided, SameSight
<1>4. r.m.hold > 0 /\ r.m.visible => r.cmd = r.m.state
  BY <1>1 DEF StepResult, SyncResult, Decided, Kept, SameSight
<1>5. Referenced(r.m)
  BY <1>2, <1>3, <1>4 DEF Referenced, Commands, Directions, None
<1>6. Recorded(r.m)
  BY <1>2, <1>3 DEF Recorded
<1> QED
  BY <1>2, <1>5, <1>6 DEF r

\* Parking a source (the farewell, a lost arbitration) does too.
LEMMA ParkReferenced ==
    ASSUME NEW a \in Machine, Referenced(a)
    PROVE  LET b == NoteCommand(ForceOff(a), "OFF")
           IN  /\ b \in Machine /\ b.state = "OFF"
               /\ Referenced(b) /\ Recorded(b) /\ AnyMove(a, b)
<1> DEFINE f == ForceOff(a)
           b == NoteCommand(f, "OFF")
<1>1. f \in Machine /\ "OFF" \in Commands
  BY ForceOffType DEF Commands, Directions
<1>2. /\ AnyMove(a, f) /\ SameSight(a, f)
      /\ (a.visible => f.hold = 0) /\ f.state = "OFF"
  BY ForceOffEffect
<1> HIDE DEF f
<1>3. /\ b \in Machine /\ Kept(f, b) /\ b.hold = f.hold
      /\ (b.visible <=> f.visible) /\ (b.synced <=> f.synced)
      /\ b.prev = IF f.visible THEN "OFF" ELSE f.prev
  BY <1>1, NoteType, NoteEffect
<1> HIDE DEF b
<1>4. Referenced(b)
  BY <1>2, <1>3 DEF Referenced, SameSight, Kept, None
<1>5. Recorded(b)
  BY <1>2, <1>3 DEF Recorded, Referenced, SameSight, Kept, DirectionOf
<1> QED
  BY <1>2, <1>3, <1>4, <1>5 DEF AnyMove, Kept, b, f

----------------------------------------------------------------------------
(* What a step without alarms does to the clocks of a touch and of a turn. *)

(* A step without alarms, as the delivery makes it: what it does to the    *)
(* settle counter, and which moves are left to it.                         *)

\* The settle counter and the pair it compares with.
SameSettle(a, b) == b.since = a.since /\ b.lastPair = a.lastPair

\* No decision touches the settle counter or the pair it compares with.
LEMMA TurnSettles ==
    ASSUME NEW a \in Machine, NEW d
    PROVE  /\ SameSettle(a, Turn(a, d)) /\ SameSettle(a, Mirror(a))
           /\ SameSettle(a, EndHold(a))
  BY DEF Turn, Mirror, EndHold, Machine, SameSettle

\* Nor does a forced stop.
LEMMA ForceOffSettles ==
    ASSUME NEW a \in Machine
    PROVE  SameSettle(a, ForceOff(a))
<1> DEFINE c == EndHold(a)
           t == Turn(c, "OFF")
<1>1. c \in Machine /\ t \in Machine
  BY EndHoldType, TurnType DEF Directions
<1>2. SameSettle(a, c) /\ SameSettle(c, t)
  BY <1>1, TurnSettles
<1> HIDE DEF c, t
<1>3. ForceOff(a) = [t EXCEPT !.dwell = 0]
  BY DEF ForceOff, c, t
<1> QED
  BY <1>1, <1>2, <1>3 DEF SameSettle, Machine

\* Nor a decision of the dwell-guarded machine.
LEMMA DecideSettles ==
    ASSUME NEW a \in Machine, NEW want \in BOOLEAN,
           NEW d \in {"HEATING", "COOLING"}
    PROVE  SameSettle(a, Decide(a, want, d))
<1>1. PICK c \in Machine : Decide(a, want, d) = Mirror(c) /\ SameSettle(a, c)
  <2>1. Turn(a, d) \in Machine /\ Turn(a, "OFF") \in Machine
    BY TurnType DEF Directions
  <2>2. SameSettle(a, a)
    BY DEF SameSettle
  <2> QED
    BY <2>1, <2>2, TurnSettles DEF Decide
<1> QED
  BY <1>1, TurnSettles DEF SameSettle

\* Without alarms a decision is a forced stop, a mirror, or an unforced call
\* for a direction.
LEMMA RegulateForms ==
    ASSUME NEW a \in Machine, NEW in \in Inputs, in.alarms = {}
    PROVE  LET r == Regulate(a, in)
           IN  \/ r = Emit(ForceOff(a)) /\ (Forced(in) \/ a.hold = 0)
               \/ r = Emit(Mirror(a)) /\ in.mode # "OFF"
               \/ /\ ~Forced(in) /\ a.hold = 0
                  /\ \E want \in BOOLEAN, d \in {"HEATING", "COOLING"} :
                        r.m = Decide(a, want, d)
<1> DEFINE r == Regulate(a, in)
           stopped == \/ in.lost \/ in.mode = "OFF" \/ Kind = "NONE"
                      \/ in.mode = "COOLING" /\ ~CoolingEnabled
<1>0. a.hold \in 0 .. Hold /\ in.mode \in Modes /\ a.state \in Directions
  BY DEF Machine, Inputs
<1>1. CASE stopped
  BY <1>1 DEF Regulate, Forced
<1>2. CASE ~stopped /\ a.hold > 0
  BY <1>2 DEF Regulate
<1>3. CASE ~stopped /\ ~(a.hold > 0) /\ in.mode = "TRANSITIONAL"
  <2> DEFINE want == ~in.quiet /\
                CASE a.state = "HEATING" -> in.err > -Deadband
                  [] a.state = "COOLING" -> -in.err > -Deadband
                  [] OTHER -> in.err > BoostOffset \/ -in.err > BoostOffset
             dir  == IF a.state # "OFF" THEN a.state
                     ELSE IF -in.err > BoostOffset THEN "COOLING"
                                                   ELSE "HEATING"
             cannotCool == a.state = "OFF" /\ -in.err > BoostOffset
                           /\ Kind = "HEATER"
  <2>1. r = Transitional(a, in) /\ ~Forced(in) /\ a.hold = 0
    BY <1>0, <1>3, MachineAssumption DEF Regulate, Forced
  <2>2. r = Emit(IF cannotCool THEN ForceOff(a) ELSE Decide(a, want, dir))
    BY <2>1 DEF Transitional
  <2>3. want \in BOOLEAN /\ dir \in {"HEATING", "COOLING"}
    BY <1>0 DEF Directions
  <2> HIDE DEF want, dir, r
  <2>4. CASE cannotCool
    BY <2>1, <2>2, <2>4 DEF r
  <2>5. CASE ~cannotCool
    <3>1. r.m = Decide(a, want, dir)
      BY <2>2, <2>5 DEF Emit
    <3> QED
      BY <2>1, <2>3, <3>1 DEF r
  <2> QED
    BY <2>4, <2>5
<1>4. CASE ~stopped /\ ~(a.hold > 0) /\ in.mode # "TRANSITIONAL"
  <2> DEFINE want == TempWant(a, in, in.mode) \/ DryWant(a, in)
  <2>1. r = Coordinate(a, in) /\ a.hold = 0
        /\ in.mode \in {"HEATING", "COOLING"}
    BY <1>0, <1>4, MachineAssumption DEF Regulate, Modes
  <2>2. CASE in.mode = "COOLING" /\ Kind = "HEATER"
    BY <2>1, <2>2 DEF Coordinate, Forced
  <2>3. CASE ~(in.mode = "COOLING" /\ Kind = "HEATER")
    <3>1. ~Forced(in)
      BY <1>4, <2>3 DEF Forced
    <3>2. r.m = Decide(a, want, in.mode)
      BY <2>1, <2>3 DEF Coordinate
    <3>3. want \in BOOLEAN
      BY DEF TempWant, DryWant
    <3> HIDE DEF want, r
    <3> QED
      BY <2>1, <3>1, <3>2, <3>3 DEF r
  <2> QED
    BY <2>2, <2>3
<1> QED
  BY <1>1, <1>2, <1>3, <1>4

\* So it leaves the settle counter, turns only a waited dwell or stops, and
\* keeps an unforced hold.
LEMMA RegulateCalm ==
    ASSUME NEW a \in Machine, NEW in \in Inputs, in.alarms = {}
    PROVE  LET r == Regulate(a, in)
           IN  /\ SameSettle(a, r.m)
               /\ FreeMove(a, r.m) \/ r.m.state = "OFF"
               /\ in.mode = "OFF" => r.m.state = "OFF"
               /\ a.hold > 0 /\ ~Forced(in) => r.m.hold = a.hold
<1> DEFINE r == Regulate(a, in)
<1>1. CASE r = Emit(ForceOff(a)) /\ (Forced(in) \/ a.hold = 0)
  <2>1. r.m = ForceOff(a) /\ r.m.state = "OFF"
    BY <1>1, ForceOffEffect DEF Emit
  <2> QED
    BY <1>1, <2>1, ForceOffSettles
<1>2. CASE r = Emit(Mirror(a)) /\ in.mode # "OFF"
  <2>1. r.m = Mirror(a)
    BY <1>2 DEF Emit
  <2> QED
    BY <1>2, <2>1, MirrorEffect, TurnSettles DEF FreeMove
<1>3. CASE /\ ~Forced(in) /\ a.hold = 0
           /\ \E want \in BOOLEAN, d \in {"HEATING", "COOLING"} :
                 r.m = Decide(a, want, d)
  <2>1. PICK want \in BOOLEAN, d \in {"HEATING", "COOLING"} :
           r.m = Decide(a, want, d)
    BY <1>3
  <2>2. in.mode # "OFF"
    BY <1>3 DEF Forced
  <2> QED
    BY <1>3, <2>1, <2>2, DecideSettles, DecideEffect
<1> QED
  BY <1>1, <1>2, <1>3, RegulateForms

\* The reconciliation keeps the settle counter; only a gap forgets the pair,
\* what is adopted agrees with the unit, and at first sight the dwell starts.
LEMMA SyncCalm ==
    ASSUME NEW a \in Machine, NEW in \in Inputs
    PROVE  LET s == Entry(a, in)
           IN  /\ s.since = a.since
               /\ s.lastPair = IF Kind # "NONE" /\ in.phys = "gap"
                               THEN None ELSE a.lastPair
               /\ Adopts(a, in) => Agrees(s.state, in.phys)
               /\ Adopts(a, in) /\ ~a.synced => s.timer = 0
<1> DEFINE p == in.phys
           v == Kind # "NONE" /\ p # "gap"
           seen == [a EXCEPT !.mismatch = FALSE, !.visible = v]
           s == Entry(a, in)
<1>0. p \in Readings /\ in.mode \in Modes /\ v \in BOOLEAN
  BY DEF Inputs
<1>1. seen \in Machine /\ seen.since = a.since /\ seen.lastPair = a.lastPair
  <2> HIDE DEF v
  <2>1. seen \in Machine
    BY <1>0, FlagTypes
  <2>2. seen.since = a.since /\ seen.lastPair = a.lastPair
    BY DEF Machine
  <2> QED
    BY <2>1, <2>2
<1>2. s = IF Kind = "NONE" THEN seen
          ELSE IF p = "gap"
               THEN [seen EXCEPT !.synced = FALSE, !.prev = None,
                                 !.lastPair = None]
          ELSE IF ~a.synced THEN FirstSight(seen, p, Kind, in.mode)
          ELSE IF ~Diverges(a, p) THEN seen
          ELSE IF Touched(a, p, Kind) THEN AdoptTouch(seen, p, Kind, in.mode)
          ELSE [seen EXCEPT !.mismatch = TRUE]
  BY DEF Entry, Sync
<1> HIDE DEF seen, s
<1>3. /\ [seen EXCEPT !.synced = FALSE, !.prev = None, !.lastPair = None].since
            = seen.since
      /\ [seen EXCEPT !.synced = FALSE, !.prev = None,
                      !.lastPair = None].lastPair = None
      /\ SameSettle(seen, [seen EXCEPT !.mismatch = TRUE])
      /\ SameSettle(seen, FirstSight(seen, p, Kind, in.mode))
      /\ SameSettle(seen, AdoptTouch(seen, p, Kind, in.mode))
  BY <1>1 DEF Machine, SameSettle, FirstSight, AdoptTouch
<1>4. /\ Adopts(a, in) => Agrees(s.state, p)
      /\ Adopts(a, in) /\ ~a.synced => s.timer = 0
  <2>1. CASE Adopts(a, in) /\ ~a.synced
    <3>1. s = FirstSight(seen, p, Kind, in.mode)
      BY <1>2, <2>1 DEF Adopts
    <3> QED
      BY <1>0, <1>1, <2>1, <3>1, FirstSightEffect DEF Adopts
  <2>2. CASE Adopts(a, in) /\ a.synced
    <3>1. s = AdoptTouch(seen, p, Kind, in.mode)
      BY <1>2, <2>2 DEF Adopts, Touched
    <3> QED
      BY <1>0, <1>1, <2>2, <3>1, AdoptTouchEffect DEF Adopts
  <2> QED
    BY <2>1, <2>2
<1>5. s.since = a.since
      /\ s.lastPair = IF Kind # "NONE" /\ p = "gap" THEN None ELSE a.lastPair
  BY <1>1, <1>2, <1>3 DEF SameSettle
<1> QED
  BY <1>4, <1>5 DEF s

\* What the delivery needs to know of a step without alarms.
Delivers(a, in, dt, r) ==
    /\ r.m \in Machine /\ r.cmd \in Commands
    /\ DirectionOf(r.cmd) = r.m.state
    /\ Referenced(r.m) /\ Recorded(r.m)
    /\ r.m.visible <=> in.phys # "gap"
    /\ r.m.synced <=> in.phys # "gap"
    /\ r.m.prev = IF in.phys # "gap" THEN r.cmd ELSE None
    /\ r.m.lastPair = IF in.phys # "gap" THEN r.m.state ELSE None
    /\ in.mode = "OFF" => r.m.state = "OFF"
    /\ Kind = "HEATER" /\ a.state # "COOLING" => r.m.state # "COOLING"

\* The settle counter restarts with every change of direction, and runs on
\* otherwise.
SettlesFrom(a, in, dt, r) ==
    in.phys # "gap" =>
        r.m.since = IF r.m.state = a.lastPair
                    THEN Least(a.since + dt, HalfCycle) ELSE 0

\* A hold begins with a touch, and an unforced one lasts.
HoldsFrom(a, in, dt, r) ==
    /\ r.m.hold > 0 => a.hold > 0 \/ Touched(a, in.phys, Kind)
    /\ LET h == Minus(IF Touched(a, in.phys, Kind) THEN Hold ELSE a.hold, dt)
       IN  h > 0 /\ ~Forced(in) => r.m.hold = h

\* A machine under a hold mirrors the unit.
MirrorsFrom(a, in, r) ==
    in.phys # "gap" /\ r.m.hold > 0 =>
        IF Adopts(a, in) THEN Agrees(r.m.state, in.phys)
                         ELSE r.m.state = a.state

\* The directions a step may take, and the clock it shows for it.
TurnsFrom(a, in, dt, r) ==
    in.phys # "gap" =>
    /\ r.m.state = "OFF" =>
          \/ r.m.timer <= dt
          \/ a.synced /\ a.state = "OFF" /\ r.m.timer <= a.timer + dt
    /\ r.m.state # "OFF" /\ ~Adopts(a, in) =>
          \/ r.m.state = a.state
          \/ a.state = "OFF" /\ a.timer + dt >= MinOff
    /\ r.m.state # "OFF" /\ ~a.synced =>
          \/ Agrees(r.m.state, in.phys)
          \/ in.phys = "off" /\ dt >= MinOff

\* All of it holds of every step without alarms.
LEMMA CalmStep ==
    ASSUME NEW a \in Machine, NEW in \in Inputs, NEW dt \in Nat,
           Referenced(a), in.alarms = {}, Kind # "NONE"
    PROVE  LET r == Step(a, in, dt)
           IN  /\ Delivers(a, in, dt, r) /\ SettlesFrom(a, in, dt, r)
               /\ HoldsFrom(a, in, dt, r) /\ MirrorsFrom(a, in, r)
               /\ TurnsFrom(a, in, dt, r)
<1> DEFINE r == Step(a, in, dt)
           s == Entry(a, in)
           t == Tick(s, dt)
           d == Regulate(t, in)
           v == in.phys # "gap"
<1>1. SyncResult(a, s, in) /\ s \in Machine
  BY SyncEffect DEF SyncResult
<1>2. t \in Machine
  BY <1>1, TickType
<1>3. /\ s.since = a.since
      /\ s.lastPair = IF v THEN a.lastPair ELSE None
      /\ Adopts(a, in) => Agrees(s.state, in.phys)
      /\ Adopts(a, in) /\ ~a.synced => s.timer = 0
  BY SyncCalm
<1>4. /\ r = [m |-> NoteCommand(d.m, d.cmd), cmd |-> d.cmd]
  BY DEF Step, Finalize, ApplySafety
<1>5. Decided(t, d, in) /\ d.m \in Machine /\ d.cmd \in Commands
  BY <1>2, RegulateDecided DEF Decided
<1>6. /\ SameSettle(t, d.m)
      /\ FreeMove(t, d.m) \/ d.m.state = "OFF"
      /\ in.mode = "OFF" => d.m.state = "OFF"
      /\ t.hold > 0 /\ ~Forced(in) => d.m.hold = t.hold
  BY <1>2, RegulateCalm
<1>7. /\ t.state = s.state /\ (t.visible <=> s.visible)
      /\ t.timer = Least(s.timer + dt, TimerCap)
      /\ t.hold = Minus(s.hold, dt)
      /\ t.since = Least(s.since + dt, HalfCycle) /\ t.lastPair = s.lastPair
  <2>1. t.since = Least(s.since + dt, HalfCycle) /\ t.lastPair = s.lastPair
    BY <1>1 DEF Tick, Machine
  <2> QED
    BY <1>1, <2>1, TickEffect
<1>8. /\ r.m \in Machine /\ r.cmd \in Commands
      /\ DirectionOf(r.cmd) = r.m.state /\ Referenced(r.m) /\ Recorded(r.m)
  BY StepReferenced
<1>9. /\ Kept(d.m, r.m) /\ r.m.hold = d.m.hold
      /\ (r.m.visible <=> d.m.visible) /\ (r.m.synced <=> d.m.synced)
      /\ r.m.prev = IF d.m.visible THEN d.cmd ELSE d.m.prev
  BY <1>4, <1>5, NoteEffect
<1>10. /\ r.m.lastPair = IF d.m.visible THEN r.m.state ELSE d.m.lastPair
       /\ r.m.since = IF ~d.m.visible \/ r.m.state = d.m.lastPair
                      THEN d.m.since ELSE 0
  <2>1. r.m = NoteCommand(d.m, d.cmd) /\ DirectionOf(d.cmd) = d.m.state
    BY <1>4, <1>5 DEF Decided
  <2>2. d.m.state \in Directions
    BY <1>5 DEF Machine
  <2>3. r.m.state = d.m.state
    BY <1>9 DEF Kept
  <2> HIDE DEF d, r
  <2> QED
    BY <1>5, <2>1, <2>2, <2>3 DEF NoteCommand, Machine
<1> HIDE DEF r, s, t, d
<1>11. (t.visible <=> v) /\ (d.m.visible <=> v) /\ (r.m.visible <=> v)
  BY <1>1, <1>5, <1>7, <1>9 DEF SyncResult, Decided, SameSight
<1>12. Delivers(a, in, dt, r)
  <2>1. r.m.synced <=> v
    BY <1>8, <1>11 DEF Referenced
  <2>2. r.m.prev = IF v THEN r.cmd ELSE None
    <3>1. ~v => r.m.prev = None
      BY <1>8, <1>11 DEF Referenced
    <3>2. r.cmd = d.cmd
      BY <1>4
    <3> QED
      BY <1>9, <1>11, <3>1, <3>2
  <2>3. r.m.lastPair = IF v THEN r.m.state ELSE None
    BY <1>3, <1>6, <1>7, <1>10, <1>11 DEF SameSettle
  <2>4. in.mode = "OFF" => r.m.state = "OFF"
    BY <1>6, <1>9 DEF Kept
  <2>5. Kind = "HEATER" /\ a.state # "COOLING" => r.m.state # "COOLING"
    BY <1>1, <1>5, <1>7, <1>9 DEF SyncResult, Decided, Kept
  <2> QED
    BY <1>8, <1>11, <2>1, <2>2, <2>3, <2>4, <2>5 DEF Delivers
<1>13. SettlesFrom(a, in, dt, r)
  BY <1>3, <1>6, <1>7, <1>10, <1>11 DEF SettlesFrom, SameSettle
<1>14. s.hold = IF Touched(a, in.phys, Kind) THEN Hold ELSE a.hold
  BY <1>1 DEF SyncResult
<1>15. a.hold \in Nat /\ Hold \in Nat /\ a.timer \in Nat /\ s.timer \in Nat
       /\ TimerCap \in Nat /\ MinOff \in Nat /\ d.m.hold \in Nat
       /\ s.hold \in Nat /\ d.m.timer \in Nat
  BY <1>1, <1>5, MachineAssumption DEF Machine
<1>16. HoldsFrom(a, in, dt, r)
  <2>1. d.m.hold > 0 => s.hold > 0
    BY <1>5, <1>7, <1>15 DEF Decided, HoldMove, Minus
  <2> QED
    BY <1>6, <1>7, <1>9, <1>14, <1>15, <2>1 DEF HoldsFrom
<1>17. MirrorsFrom(a, in, r)
  <2> SUFFICES ASSUME v, r.m.hold > 0
               PROVE  IF Adopts(a, in) THEN Agrees(r.m.state, in.phys)
                                       ELSE r.m.state = a.state
    BY DEF MirrorsFrom
  <2>1. r.m.state = s.state
    BY <1>5, <1>7, <1>9, <1>11 DEF Decided, Kept
  <2>2. ~Adopts(a, in) => s.state = a.state
    BY <1>1 DEF SyncResult, Kept
  <2> QED
    BY <1>3, <2>1, <2>2
<1>18. TurnsFrom(a, in, dt, r)
  <2> SUFFICES ASSUME v
               PROVE  TurnsFrom(a, in, dt, r)
    BY DEF TurnsFrom
  <2>1. /\ AnyMove(a, s) /\ (~Adopts(a, in) => Kept(a, s))
        /\ AnyMove(t, d.m) /\ (~a.synced => Adopts(a, in))
    BY <1>1, <1>5 DEF SyncResult, Decided, Adopts
  <2>2. t.timer \in Nat /\ t.timer <= s.timer + dt
    BY <1>7, <1>15 DEF Least
  <2>3. r.m.state = "OFF" =>
          \/ r.m.timer <= dt
          \/ a.synced /\ a.state = "OFF" /\ r.m.timer <= a.timer + dt
    BY <1>3, <1>7, <1>9, <1>15, <2>1, <2>2 DEF AnyMove, Kept
  <2>4. r.m.state # "OFF" =>
          \/ r.m.state = s.state
          \/ s.state = "OFF" /\ s.timer + dt >= MinOff
    BY <1>6, <1>7, <1>9, <1>15, <2>2 DEF FreeMove, Kept
  <2>5. r.m.state # "OFF" /\ ~Adopts(a, in) =>
          \/ r.m.state = a.state
          \/ a.state = "OFF" /\ a.timer + dt >= MinOff
    BY <2>1, <2>4 DEF Kept
  <2>6. r.m.state # "OFF" /\ ~a.synced =>
          \/ Agrees(r.m.state, in.phys)
          \/ in.phys = "off" /\ dt >= MinOff
    BY <1>3, <1>15, <2>1, <2>4 DEF Agrees, Running
  <2> QED
    BY <2>3, <2>5, <2>6 DEF TurnsFrom
<1> QED
  BY <1>12, <1>13, <1>16, <1>17, <1>18 DEF r

=============================================================================
