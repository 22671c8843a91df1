---------------------------- MODULE RoomValveProofs ----------------------------
(***************************************************************************)
(* Proofs about the water side of a room.  The dew-point property of a     *)
(* step needs only the types of the loop's numbers; the two properties     *)
(* about what is kept from one step to the next need an inductive          *)
(* invariant that ties the ghost "seen" to the controller's own fields.    *)
(* The last part is about the writer that carries the command to the valve *)
(* and the farewell that lets it go (ValveWrites).                         *)
(***************************************************************************)
EXTENDS RoomValve, ValveWrites, TLAPS

----------------------------------------------------------------------------
(* Constants.                                                              *)

\* What the assumption says of the constants, one fact at a time.
LEMMA Constant ==
    /\ None \notin Int /\ None \notin AllModes
    /\ Full \in Int /\ Full > 0 /\ Floor \in 0 .. Full
    /\ Kp \in Nat /\ Deadband \in Nat /\ Margin \in Nat
    /\ Ki \in Nat /\ Unwind \in Nat /\ Unwind > 0
    /\ Ramp \in Nat /\ Decay \in Nat /\ Decay > 0
    /\ Setpoints \subseteq Int /\ Temps \subseteq Int /\ Trims \subseteq Int
  BY RoomAssumption

\* The readings of a cycle have their type.
LEMMA InputType ==
    ASSUME NEW in \in Inputs
    PROVE  /\ in.mode \in Modes /\ in.cools \in BOOLEAN
           /\ in.temp \in Int \cup {None} /\ in.sp \in Setpoints /\ in.sp \in Int
           /\ in.trim \in Int
           /\ in.around.lo \in Int \cup {None} /\ in.around.dew \in Int \cup {None}
           /\ in.around.pad \in Nat
  BY RoomAssumption DEF Inputs, Readings

\* A cycle that does not regulate reads a part of the same inputs.
LEMMA PassiveIsInput == PassiveInputs \subseteq Inputs
  BY DEF PassiveInputs

\* A clipped position is a position.
LEMMA ClipType == ASSUME NEW v \in Int PROVE Clip(v) \in 0 .. Full
  BY Constant DEF Clip

----------------------------------------------------------------------------
(* The loop keeps to integers.                                             *)

Loops == [i : Int, debt : Int]

\* PIController.apply_setpoint_shift
LEMMA ShiftType ==
    ASSUME NEW p \in Loops, NEW d \in Int
    PROVE  Shift(p, d) \in Loops
  <1>. DEFINE pays == Opposed(d, p.debt)
              rest == IF pays THEN d + p.debt ELSE d
              target == p.i + rest
  <1>1. p.i \in Int /\ p.debt \in Int
    BY DEF Loops
  <1>2. rest \in Int
    BY <1>1
  <1>3. target \in Int
    BY <1>1, <1>2
  <1>4. Clip(target) \in Int
    BY <1>3, ClipType
  <1>5. CASE pays /\ Size(d) <= Size(p.debt)
    <2>1. Shift(p, d) = [p EXCEPT !.debt = @ + d]
      BY <1>5 DEF Shift
    <2>. QED  BY <2>1, <1>1 DEF Loops
  <1>6. CASE ~(pays /\ Size(d) <= Size(p.debt))
    <2>1. Shift(p, d) = [i |-> Clip(target),
                         debt |-> (IF pays THEN 0 ELSE p.debt) + target - Clip(target)]
      BY <1>6 DEF Shift
    <2>2. (IF pays THEN 0 ELSE p.debt) \in Int
      BY <1>1
    <2>. HIDE DEF pays, target, rest
    <2>. QED  BY <2>1, <2>2, <1>3, <1>4 DEF Loops
  <1>. QED  BY <1>5, <1>6

\* The unwinding of the accumulation divides only by the positive boost.
LEMMA AccumulatedType ==
    ASSUME NEW i \in Int, NEW e \in Int
    PROVE  Accumulated(i, e) \in Int
  <1>. DEFINE d == Ki * e
  <1>1. d \in Int
    BY Constant
  <1>2. Size(i) \in Int
    BY DEF Size
  <1>3. Size(i) \div Unwind \in Int
    BY <1>2, Constant
  <1>4. Unwind * d \in Int
    BY <1>1, Constant
  <1>5. Accumulated(i, e) \in {i + d, i + Unwind * d, d - Size(i) \div Unwind,
                               d + Size(i) \div Unwind}
    BY DEF Accumulated
  <1>. HIDE DEF d
  <1>. QED  BY <1>1, <1>3, <1>4, <1>5

\* PIController.compute
LEMMA ComputeType ==
    ASSUME NEW p \in Loops, NEW e \in Int, NEW frozen \in BOOLEAN
    PROVE  /\ Compute(p, e, frozen).pid \in Loops
           /\ Compute(p, e, frozen).out \in 0 .. Full
  <1>. DEFINE q == IF frozen THEN p ELSE [p EXCEPT !.i = Accumulated(@, e)]
              raw == Kp * e + q.i
              fix == Clip(raw) - raw
  <1>1. q \in Loops
    <2>1. Accumulated(p.i, e) \in Int
      BY AccumulatedType DEF Loops
    <2>. QED  BY <2>1 DEF Loops
  <1>2. raw \in Int
    <2>1. Kp * e \in Int /\ q.i \in Int
      BY <1>1, Constant DEF Loops
    <2>. HIDE DEF q
    <2>. QED  BY <2>1
  <1>3. Clip(raw) \in 0 .. Full
    BY <1>2, ClipType
  <1>4. Unwound(q, fix) \in Loops
    <2>1. q.i \in Int /\ q.debt \in Int /\ Clip(q.i) \in Int
      BY <1>1, ClipType DEF Loops
    <2>2. fix \in Int
      BY <1>2, <1>3, Constant
    <2>. HIDE DEF q, fix
    <2>. QED  BY <1>1, <2>1, <2>2 DEF Unwound, Loops
  <1>5. Compute(p, e, frozen) = [pid |-> Unwound(q, fix), out |-> Clip(raw)]
    BY DEF Compute
  <1>. QED  BY <1>3, <1>4, <1>5

----------------------------------------------------------------------------
(* The dew-point throttle.                                                 *)

\* The ramp has at least one step, and starts at or above zero.
LEMMA RampType ==
    /\ RampFoot \in Nat /\ Whole \in Nat /\ Whole >= 1
  BY Constant DEF RampFoot, Whole, Greater

\* _cooling_throttle: a factor above zero means that the coldest water is
\* above the padded dew point.
LEMMA ThrottleMeansDry ==
    ASSUME NEW in \in Inputs
    PROVE  /\ Throttle(in) \in Nat
           /\ Throttle(in) # 0 =>
                /\ in.around.dew # None /\ in.around.lo # None
                /\ in.around.lo > in.around.dew + in.around.pad
  <1>1. CASE in.around.dew = None \/ in.around.lo = None
    BY <1>1 DEF Throttle
  <1>2. CASE in.around.dew # None /\ in.around.lo # None
    <2>. DEFINE gap == in.around.lo - (in.around.dew + in.around.pad)
    <2>1. /\ in.around.lo \in Int /\ in.around.dew \in Int /\ in.around.pad \in Nat
          /\ gap \in Int
      BY <1>2, InputType
    <2>2. Throttle(in) = Factor(gap)
      BY <1>2 DEF Throttle
    <2>3. Factor(gap) \in Nat /\ (Factor(gap) # 0 => gap > 0)
      <3>. HIDE DEF gap
      <3>. QED  BY <2>1, RampType, Constant DEF Factor
    <2>. QED  BY <1>2, <2>1, <2>2, <2>3
  <1>. QED  BY <1>1, <1>2

\* The rounding up of a throttled position keeps zero at zero.
LEMMA ThrottledType ==
    ASSUME NEW v \in Int, NEW f \in Nat
    PROVE  /\ Throttled(v, f) \in Int
           /\ f = 0 => Throttled(v, f) = 0
  <1>1. v * f \in Int
    OBVIOUS
  <1>2. v * f + Whole - 1 \in Int
    BY <1>1, RampType
  <1>3. Throttled(v, f) \in Int
    BY <1>2, RampType DEF Throttled
  <1>4. ASSUME f = 0 PROVE Throttled(v, f) = 0
    <2>1. v * f = 0
      BY <1>4
    <2>2. Throttled(v, f) = (Whole - 1) \div Whole
      BY <2>1, RampType DEF Throttled
    <2>. QED  BY <2>2, RampType
  <1>. QED  BY <1>3, <1>4

----------------------------------------------------------------------------
(* A regulating cycle.                                                     *)

\* The state of the controller has its type.
Typed ==
    /\ pid \in Loops
    /\ lastMode \in {None, "heating", "cooling"}
    /\ lastSp \in Setpoints \cup {None}
    /\ idle \in 0 .. Decay
    /\ lastValve \in 0 .. Full /\ lastRaw \in 0 .. Full
    /\ hold \in 0 .. Full \cup {None}
    /\ seeded \in BOOLEAN

\* The parts of Regulate, named as in the action.
C(in) == Loop(in, Carried(in), Reference(in))
Raw(in) == C(in).out + in.trim

LEMMA LoopType ==
    ASSUME Typed, NEW in \in Inputs, Regulates(in)
    PROVE  C(in).pid \in Loops /\ C(in).out \in 0 .. Full /\ Raw(in) \in Int
  <1>. DEFINE d(from) == IF Heats(in) THEN in.sp - from ELSE from - in.sp
              p == Shifted(in, Carried(in), Reference(in))
              e == Debanded(ErrorOf(in))
              frozen == ~in.pumped \/ (IF Cools(in) THEN Throttle(in) ELSE Whole) < Whole
  <1>1. Carried(in) \in Loops
    BY DEF Typed, Carried, Cleared, Loops
  <1>2. Reference(in) \in Int \cup {None}
    BY Constant DEF Typed, Reference
  <1>3. p \in Loops
    <2>1. CASE Reference(in) \in {None, in.sp}
      BY <1>1, <2>1 DEF Shifted
    <2>2. CASE Reference(in) \notin {None, in.sp}
      <3>1. d(Reference(in)) \in Int
        BY <1>2, <2>2, InputType
      <3>2. Kp * d(Reference(in)) \in Int
        <4>. HIDE DEF d
        <4>. QED  BY <3>1, Constant
      <3>3. p = Shift(Carried(in), Kp * d(Reference(in)))
        BY <2>2 DEF Shifted
      <3>. HIDE DEF d, p
      <3>. QED  BY <1>1, <3>2, <3>3, ShiftType
    <2>. QED  BY <2>1, <2>2
  <1>4. e \in Int
    <2>1. ErrorOf(in) \in Int
      BY InputType DEF ErrorOf, Regulates
    <2>. QED  BY <2>1, Constant DEF Debanded
  <1>5. frozen \in BOOLEAN
    OBVIOUS
  <1>6. C(in) = Compute(p, e, frozen)
    BY DEF C, Loop
  <1>7. C(in).pid \in Loops /\ C(in).out \in 0 .. Full
    <2>. HIDE DEF p, e, frozen
    <2>. QED  BY <1>3, <1>4, <1>5, <1>6, ComputeType
  <1>. QED  BY <1>7, InputType, Constant DEF Raw

\* A position in cooling stands above zero only when the room is dry.
LEMMA PositionType ==
    ASSUME Typed, NEW in \in Inputs, NEW raw \in Int
    PROVE  /\ Held(in) \in 0 .. Full \cup {None}
           /\ Position(in, raw) \in 0 .. Full
           /\ Cools(in) /\ Throttle(in) = 0 => Position(in, raw) = 0
  <1>1. Held(in) \in 0 .. Full \cup {None}
    BY DEF Held, Typed
  <1>2. Floored(in, raw) \in Int
    BY Constant DEF Floored
  <1>3. Lifted(in, raw) \in Int
    BY <1>1, <1>2, Constant DEF Lifted, Greater
  <1>4. CASE Cools(in)
    <2>1. /\ Throttled(Lifted(in, raw), Throttle(in)) \in Int
          /\ Throttle(in) = 0 => Throttled(Lifted(in, raw), Throttle(in)) = 0
      BY <1>3, ThrottleMeansDry, ThrottledType
    <2>2. Position(in, raw) = Clip(Throttled(Lifted(in, raw), Throttle(in)))
      BY <1>4 DEF Position
    <2>3. Clip(0) = 0
      BY Constant DEF Clip
    <2>. QED  BY <1>1, <2>1, <2>2, <2>3, ClipType
  <1>5. CASE ~Cools(in)
    BY <1>1, <1>3, <1>5, ClipType DEF Position
  <1>. QED  BY <1>4, <1>5

----------------------------------------------------------------------------
(* The inductive invariant.                                                *)

\* What is kept from one step to the next: the last position is the one of
\* the last step that knew the temperature, and a charged integral belongs
\* to the mode that charged it and to less than twelve hours ago.
Kept ==
    /\ lastValve = IF seen.regulated = None THEN Floor ELSE seen.regulated
    /\ seeded <=> seen.regulated # None

Banks ==
    pid.i # 0 =>
        lastMode # None /\ seen.banked = {lastMode} /\ idle < Decay

IInv == Typed /\ Kept /\ Banks

\* The fields of a controller built anew have their type.
LEMMA FreshType ==
    /\ Cleared \in Loops
    /\ 0 \in 0 .. Decay /\ 0 \in 0 .. Full /\ Floor \in 0 .. Full
  BY Constant DEF Cleared, Loops

LEMMA InitInv == Init => IInv
  <1>. SUFFICES ASSUME Init PROVE IInv
    OBVIOUS
  <1>1. Typed
    BY FreshType DEF Init, Fresh, Typed
  <1>2. Kept
    BY DEF Init, Fresh, Nothing, Kept
  <1>3. Banks
    BY DEF Init, Fresh, Cleared, Banks
  <1>. QED  BY <1>1, <1>2, <1>3 DEF IInv

\* _active_result: the position is recorded before the safety rules; a loop
\* that changed season starts from nothing.
LEMMA RegulateInv ==
    ASSUME IInv, NEW in \in Inputs, Regulate(in)
    PROVE  IInv'
  <1>. DEFINE v == Position(in, Raw(in))
  <1>1. /\ Regulates(in)
        /\ pid' = C(in).pid
        /\ lastMode' = in.mode /\ lastSp' = in.sp /\ idle' = 0
        /\ hold' = Held(in) /\ lastRaw' = Clip(Raw(in))
        /\ lastValve' = v /\ seeded' = TRUE
        /\ seen' = Seen(in, "regulated", v,
                        IF C(in).pid.i = 0 THEN {}
                        ELSE {in.mode} \cup (IF Carried(in).i = 0 THEN {}
                                             ELSE seen.banked))
    BY DEF Regulate, C, Raw
  <1>2. C(in).pid \in Loops /\ C(in).out \in 0 .. Full /\ Raw(in) \in Int
    BY <1>1, LoopType DEF IInv
  <1>3. Held(in) \in 0 .. Full \cup {None} /\ v \in 0 .. Full
    BY <1>2, PositionType DEF IInv
  <1>4. Typed'
    <2>1. in.mode \in {"heating", "cooling"}
      BY <1>1 DEF Regulates, Heats, Cools
    <2>2. Clip(Raw(in)) \in 0 .. Full
      BY <1>2, ClipType
    <2>. HIDE DEF v
    <2>. QED  BY <1>1, <1>2, <1>3, <2>1, <2>2, InputType, Constant DEF Typed
  <1>5. Kept'
    <2>1. seen'.regulated = v /\ v # None
      BY <1>1, <1>3, Constant DEF Seen
    <2>. HIDE DEF v
    <2>. QED  BY <1>1, <2>1 DEF Kept
  <1>6. Banks'
    <2>. SUFFICES ASSUME pid'.i # 0
                  PROVE  /\ lastMode' # None /\ seen'.banked = {lastMode'}
                         /\ idle' < Decay
      BY DEF Banks
    <2>1. in.mode # None
      BY <1>1, RoomAssumption DEF Regulates, Heats, Cools, AllModes
    <2>2. seen'.banked = {in.mode} \cup (IF Carried(in).i = 0 THEN {} ELSE seen.banked)
      BY <1>1 DEF Seen
    <2>3. Carried(in).i # 0 => seen.banked = {in.mode}
      <3>1. CASE Flips(in)
        BY <3>1 DEF Carried, Cleared
      <3>2. CASE ~Flips(in)
        BY <3>2 DEF Carried, Flips, IInv, Banks
      <3>. QED  BY <3>1, <3>2
    <2>. QED  BY <1>1, <2>1, <2>2, <2>3, Constant
  <1>. QED  BY <1>4, <1>5, <1>6 DEF IInv

\* _note_inactive keeps the loop's type and its bank.
LEMMA RestInv ==
    ASSUME IInv, Rest, seen'.banked = Banked
    PROVE  /\ Banks'
           /\ pid' \in Loops /\ idle' \in 0 .. Decay
           /\ lastSp' \in Setpoints \cup {None} /\ hold' \in 0 .. Full \cup {None}
           /\ lastMode' = lastMode /\ lastRaw' = lastRaw
  <1>. DEFINE rested == IF idle < Decay THEN idle + 1 ELSE idle
              decays == rested >= Decay /\ pid.i # 0
  <1>1. /\ idle' = rested /\ hold' = None
        /\ pid' = IF decays THEN Cleared ELSE pid
        /\ lastSp' = IF decays THEN None ELSE lastSp
        /\ lastMode' = lastMode /\ lastRaw' = lastRaw
    BY DEF Rest
  <1>2. rested \in 0 .. Decay
    BY Constant DEF IInv, Typed
  <1>3. Banks'
    <2>. SUFFICES ASSUME pid'.i # 0
                  PROVE  /\ lastMode' # None /\ seen'.banked = {lastMode'}
                         /\ idle' < Decay
      BY DEF Banks
    <2>1. ~decays /\ pid' = pid
      BY <1>1 DEF Cleared
    <2>2. rested < Decay
      <3>1. ~(rested >= Decay)
        BY <2>1
      <3>. HIDE DEF rested
      <3>. QED  BY <3>1, <1>2, Constant
    <2>3. seen'.banked = seen.banked
      BY DEF Banked
    <2>. QED  BY <1>1, <2>1, <2>2, <2>3 DEF IInv, Banks
  <1>4. pid' \in Loops
    BY <1>1 DEF IInv, Typed, Cleared, Loops
  <1>. QED  BY <1>1, <1>2, <1>3, <1>4 DEF IInv, Typed

\* _inactive_result: the valve is closed and recorded as closed.
LEMMA ParkInv ==
    ASSUME IInv, NEW in \in Inputs, Park(in)
    PROVE  IInv'
  <1>1. /\ Rest /\ lastValve' = 0 /\ seeded' = TRUE
        /\ seen' = Seen(in, "parked", 0, Banked)
    BY DEF Park
  <1>2. seen'.regulated = 0 /\ seen'.banked = Banked
    BY <1>1 DEF Seen
  <1>3. Kept'
    BY <1>1, <1>2, Constant DEF Kept
  <1>4. Typed'
    BY <1>1, <1>2, RestInv, Constant DEF IInv, Typed
  <1>. QED  BY <1>1, <1>2, <1>3, <1>4, RestInv DEF IInv

\* _safe_degrade: heating repeats the last position, and nothing is recorded
\* anew.
LEMMA LoseSensorInv ==
    ASSUME IInv, NEW in \in Inputs, LoseSensor(in)
    PROVE  IInv'
  <1>. DEFINE v == IF ~Heats(in) THEN 0 ELSE IF seeded THEN lastValve ELSE Floor
  <1>1. /\ Rest /\ lastValve' = IF Heats(in) THEN v ELSE lastValve
        /\ seeded' = seeded
        /\ seen' = Seen(in, "lost", v, Banked)
    BY DEF LoseSensor
  <1>2. seen'.regulated = seen.regulated /\ seen'.banked = Banked
    BY <1>1 DEF Seen
  <1>3. lastValve' = lastValve
    <2>1. CASE seeded
      BY <1>1, <2>1
    <2>2. CASE ~seeded
      BY <1>1, <2>2 DEF IInv, Kept
    <2>. QED  BY <2>1, <2>2
  <1>4. Kept'
    BY <1>1, <1>2, <1>3 DEF IInv, Kept
  <1>5. Typed'
    <2>. HIDE DEF v
    <2>. QED  BY <1>1, <1>2, <1>3, RestInv DEF IInv, Typed
  <1>. QED  BY <1>1, <1>2, <1>4, <1>5, RestInv DEF IInv

\* A step that raised changes no field of the controller.
LEMMA FailInv ==
    ASSUME IInv, NEW in \in Inputs, Fail(in)
    PROVE  IInv'
  <1>1. UNCHANGED <<pid, lastMode, lastSp, idle, lastValve, seeded, hold, lastRaw>>
    BY DEF Fail
  <1>2. seen'.regulated = seen.regulated /\ seen'.banked = seen.banked
    BY DEF Fail
  <1>. QED  BY <1>1, <1>2 DEF IInv, Typed, Kept, Banks

LEMMA NextInv == IInv /\ [Next]_vars => IInv'
  <1>. SUFFICES ASSUME IInv, [Next]_vars PROVE IInv'
    OBVIOUS
  <1>1. CASE \E in \in Inputs : Regulate(in)
    BY <1>1, RegulateInv
  <1>2. CASE \E in \in PassiveInputs : Park(in) \/ LoseSensor(in) \/ Fail(in)
    BY <1>2, PassiveIsInput, ParkInv, LoseSensorInv, FailInv
  <1>3. CASE Rebuild
    <2>1. Typed'
      BY <1>3, FreshType DEF Rebuild, Typed
    <2>2. Kept'
      BY <1>3 DEF Rebuild, Nothing, Kept
    <2>3. Banks'
      BY <1>3 DEF Rebuild, Cleared, Banks
    <2>. QED  BY <2>1, <2>2, <2>3 DEF IInv
  <1>4. CASE UNCHANGED vars
    BY <1>4 DEF vars, IInv, Typed, Kept, Banks
  <1>. QED  BY <1>1, <1>2, <1>3, <1>4 DEF Next, Cycle

LEMMA Invariant == Spec => []IInv
  BY InitInv, NextInv, PTL DEF Spec

----------------------------------------------------------------------------
(* What a step shows.                                                      *)

\* The latches and the position of the last step have their type.
Shown == latches \subseteq Rules /\ seen.valve \in 0 .. Full

\* apply_safety moves a position to an end, to the floor or not at all; in
\* cooling it never opens a valve.
LEMMA SafeType ==
    ASSUME NEW in \in Inputs, NEW active, NEW v \in 0 .. Full
    PROVE  /\ Safe(in, active, v) \in 0 .. Full
           /\ in.mode = "cooling" => Safe(in, active, v) \in {0, v}
  <1>1. 0 \in 0 .. Full /\ Full \in 0 .. Full /\ Floor \in 0 .. Full
    BY Constant
  <1>2. Safe(in, active, v) \in {0, Full, Floor, v}
    BY DEF Safe
  <1>3. in.mode = "cooling" => Safe(in, active, v) \in {0, v}
    BY DEF Safe, Heats, Cools
  <1>. QED  BY <1>1, <1>2, <1>3

\* A position of zero stays closed in cooling, and an open valve is one the
\* building counts.
LEMMA RegulateDry ==
    ASSUME IInv, NEW in \in Inputs, Regulate(in)
    PROVE  Shown' /\ DrySafe'
  <1>. DEFINE v == Position(in, Raw(in))
  <1>1. Regulates(in) /\ Evaluate(in)
    BY DEF Regulate
  <1>2. /\ seen'.mode = in.mode /\ seen'.valve = Safe(in, latches', v)
        /\ seen'.dry = Dry(in) /\ seen'.counted = Eligible(in)
    BY DEF Regulate, Seen, C, Raw
  <1>3. Raw(in) \in Int
    BY <1>1, LoopType DEF IInv
  <1>4. /\ v \in 0 .. Full
        /\ Cools(in) /\ Throttle(in) = 0 => v = 0
    BY <1>3, PositionType DEF IInv
  <1>. HIDE DEF v
  <1>5. /\ Safe(in, latches', v) \in 0 .. Full
        /\ in.mode = "cooling" => Safe(in, latches', v) \in {0, v}
    BY <1>4, SafeType
  <1>6. Shown'
    BY <1>1, <1>2, <1>5 DEF Shown, Evaluate
  <1>7. ASSUME in.mode = "cooling", seen'.valve > 0
        PROVE  Dry(in) /\ Eligible(in)
    <2>1. v # 0
      BY <1>2, <1>5, <1>7
    <2>2. Throttle(in) # 0
      BY <1>4, <1>7, <2>1 DEF Cools
    <2>3. in.temp # None /\ in.cools
      BY <1>1, <1>7 DEF Regulates, Heats, Cools
    <2>. QED  BY <1>7, <2>2, <2>3, ThrottleMeansDry DEF Dry, Eligible, Cools
  <1>. QED  BY <1>2, <1>6, <1>7 DEF DrySafe

\* A room that rests, whose sensor is lost or whose step raised is closed in
\* cooling.
LEMMA PassiveDry ==
    ASSUME IInv, Shown, NEW in \in Inputs, Park(in) \/ LoseSensor(in) \/ Fail(in)
    PROVE  Shown' /\ DrySafe'
  <1>. DEFINE v == IF ~Heats(in) THEN 0 ELSE IF seeded THEN lastValve ELSE Floor
  <1>1. 0 \in 0 .. Full /\ v \in 0 .. Full /\ (in.mode = "cooling" => v = 0)
    BY Constant DEF IInv, Typed, Heats
  <1>2. CASE Park(in)
    <2>1. Evaluate(in) /\ seen'.mode = in.mode /\ seen'.valve = Safe(in, latches', 0)
      BY <1>2 DEF Park, Seen
    <2>2. /\ Safe(in, latches', 0) \in 0 .. Full
          /\ in.mode = "cooling" => Safe(in, latches', 0) = 0
      BY <1>1, SafeType
    <2>. QED  BY <2>1, <2>2 DEF Shown, DrySafe, Evaluate
  <1>3. CASE LoseSensor(in)
    <2>1. Evaluate(in) /\ seen'.mode = in.mode /\ seen'.valve = Safe(in, latches', v)
      BY <1>3 DEF LoseSensor, Seen
    <2>2. /\ Safe(in, latches', v) \in 0 .. Full
          /\ in.mode = "cooling" => Safe(in, latches', v) = 0
      BY <1>1, SafeType
    <2>. HIDE DEF v
    <2>. QED  BY <2>1, <2>2 DEF Shown, DrySafe, Evaluate
  <1>4. CASE Fail(in)
    <2>1. /\ seen' = [seen EXCEPT !.path = "failed", !.mode = in.mode,
                                  !.dry = Dry(in), !.counted = Eligible(in),
                                  !.healthy = FALSE,
                                  !.valve = IF Heats(in) THEN lastValve ELSE 0]
          /\ latches' = latches
      BY <1>4 DEF Fail
    <2>. QED  BY <2>1, <1>1 DEF Shown, DrySafe, IInv, Typed, Heats
  <1>. QED  BY <1>2, <1>3, <1>4

\* Every step, the rebuild and the stutter included.
LEMMA StepDry == IInv /\ Shown /\ DrySafe /\ [Next]_vars => Shown' /\ DrySafe'
  <1>. SUFFICES ASSUME IInv, Shown, DrySafe, [Next]_vars
                PROVE  Shown' /\ DrySafe'
    OBVIOUS
  <1>1. CASE \E in \in Inputs : Regulate(in)
    BY <1>1, RegulateDry
  <1>2. CASE \E in \in PassiveInputs : Park(in) \/ LoseSensor(in) \/ Fail(in)
    BY <1>2, PassiveIsInput, PassiveDry
  <1>3. CASE Rebuild
    BY <1>3, Constant DEF Rebuild, Nothing, Shown, DrySafe
  <1>4. CASE UNCHANGED vars
    BY <1>4 DEF vars, Shown, DrySafe
  <1>. QED  BY <1>1, <1>2, <1>3, <1>4 DEF Next, Cycle

LEMMA InitDry == Init => Shown /\ DrySafe
  BY Constant DEF Init, Fresh, Nothing, Shown, DrySafe

----------------------------------------------------------------------------
(* A heating room that lost its sensor.                                    *)

\* What an emergency shows is the position kept; a safety rule comes over it
\* only while one is latched.
LEMMA StepHolds ==
    ASSUME IInv, HoldIsRegulated, [Next]_vars
    PROVE  HoldIsRegulated'
  <1>. SUFFICES ASSUME seen'.mode = "heating",
                       \/ seen'.path = "failed"
                       \/ seen'.path = "lost" /\ latches' = {}
                PROVE  seen'.valve = IF seen'.regulated = None THEN Floor
                                                               ELSE seen'.regulated
    BY DEF HoldIsRegulated
  <1>1. CASE \E in \in Inputs : Regulate(in)
    <2>1. seen'.path = "regulated"
      BY <1>1 DEF Regulate, Seen
    <2>. QED  BY <2>1
  <1>2. CASE \E in \in PassiveInputs : Park(in)
    <2>1. seen'.path = "parked"
      BY <1>2 DEF Park, Seen
    <2>. QED  BY <2>1
  <1>3. CASE \E in \in PassiveInputs : LoseSensor(in)
    <2>1. PICK in \in PassiveInputs : LoseSensor(in)
      BY <1>3
    <2>. DEFINE v == IF ~Heats(in) THEN 0 ELSE IF seeded THEN lastValve ELSE Floor
    <2>2. /\ seen'.path = "lost" /\ seen'.mode = in.mode
          /\ seen'.regulated = seen.regulated
          /\ seen'.valve = Safe(in, latches', v)
      BY <2>1 DEF LoseSensor, Seen
    <2>3. seen'.valve = v
      BY <2>2 DEF Safe
    <2>4. v = lastValve
      BY <2>2 DEF Heats, IInv, Kept
    <2>. QED  BY <2>2, <2>3, <2>4 DEF IInv, Kept
  <1>4. CASE \E in \in PassiveInputs : Fail(in)
    <2>1. PICK in \in PassiveInputs : Fail(in)
      BY <1>4
    <2>2. /\ seen'.mode = in.mode /\ seen'.regulated = seen.regulated
          /\ seen'.valve = IF Heats(in) THEN lastValve ELSE 0
      BY <2>1 DEF Fail
    <2>. QED  BY <2>2 DEF Heats, IInv, Kept
  <1>5. CASE Rebuild
    BY <1>5 DEF Rebuild, Nothing
  <1>6. CASE UNCHANGED vars
    BY <1>6 DEF vars, HoldIsRegulated
  <1>. QED  BY <1>1, <1>2, <1>3, <1>4, <1>5, <1>6 DEF Next, Cycle

LEMMA InitHolds == Init => HoldIsRegulated
  BY DEF Init, Nothing, HoldIsRegulated

----------------------------------------------------------------------------
(* A room that calls.                                                      *)

\* The proportional term of no reading and setpoint exceeds the output's
\* range.  Beyond it the back-calculation leaves a negative integral, which a
\* small gain may take more than a cycle to unwind.
ProportionalFits ==
    \A t \in Temps, s \in Setpoints : Kp * Size(t - s) <= Full

\* The clamp of the output never leaves a negative integral behind.
Charged == pid.i >= 0

\* The error the loop sees is an integer, and fits whenever it calls.
LEMMA ErrorFits ==
    ASSUME ProportionalFits, NEW in \in Inputs, Regulates(in)
    PROVE  LET e == Debanded(ErrorOf(in))
           IN  e \in Int /\ Kp * e \in Int /\ Kp * e <= Full
  <1>. DEFINE e == Debanded(ErrorOf(in))
              z == Size(in.temp - in.sp)
  <1>1. in.temp \in Temps /\ in.temp \in Int /\ in.sp \in Setpoints /\ in.sp \in Int
    BY Constant, InputType DEF Inputs, Readings, Regulates
  <1>2. Kp * z <= Full /\ z \in Nat
    BY <1>1 DEF ProportionalFits, Size
  <1>3. e \in Int /\ e <= z
    BY <1>1, Constant DEF Debanded, ErrorOf, Size
  <1>. HIDE DEF e, z
  <1>4. Kp * e <= Kp * z /\ Kp * e \in Int /\ Kp * z \in Int
    BY <1>2, <1>3, Constant, SMT
  <1>5. Kp * e <= Full
    BY <1>2, <1>4, Constant
  <1>. QED  BY <1>3, <1>4, <1>5 DEF e

\* apply_setpoint_shift clamps whatever it moves.
LEMMA ShiftCharged ==
    ASSUME NEW p \in Loops, NEW d \in Int, p.i >= 0
    PROVE  Shift(p, d).i >= 0
  <1>. DEFINE pays == Opposed(d, p.debt)
              target == p.i + (IF pays THEN d + p.debt ELSE d)
  <1>1. target \in Int
    BY DEF Loops
  <1>2. Clip(target) >= 0
    BY <1>1, ClipType
  <1>3. CASE pays /\ Size(d) <= Size(p.debt)
    BY <1>3 DEF Shift, Loops
  <1>4. CASE ~(pays /\ Size(d) <= Size(p.debt))
    <2>1. Shift(p, d).i = Clip(target)
      BY <1>4 DEF Shift
    <2>. QED  BY <1>2, <2>1
  <1>. QED  BY <1>3, <1>4

\* An error of the integral's own sign charges it by the whole interval.
LEMMA AccumulatedCharges ==
    ASSUME NEW i \in Int, NEW e \in Int, i >= 0, e > 0
    PROVE  Accumulated(i, e) >= i + 1
  <1>1. ~Opposed(e, i)
    BY DEF Opposed
  <1>2. Accumulated(i, e) = i + Ki * e
    BY <1>1 DEF Accumulated
  <1>3. Ki \in Nat /\ Ki >= 1
    BY RoomAssumption
  <1>4. Ki * e >= 1 /\ Ki * e \in Int
    BY <1>3, SMT
  <1>. QED  BY <1>2, <1>4

\* PIController.compute leaves a non-negative integral, and a loop that runs
\* and calls opens.
LEMMA ComputeCharged ==
    ASSUME NEW p \in Loops, NEW e \in Int, NEW frozen \in BOOLEAN,
           p.i >= 0, Kp * e \in Int, Kp * e <= Full
    PROVE  /\ Compute(p, e, frozen).pid.i >= 0
           /\ e > 0 /\ ~frozen => Compute(p, e, frozen).out > 0
  <1>. DEFINE q == IF frozen THEN p ELSE [p EXCEPT !.i = Accumulated(@, e)]
              k == Kp * e
              raw == k + q.i
              fix == Clip(raw) - raw
  <1>1. p.i \in Int /\ q \in Loops /\ q.i \in Int /\ q.debt \in Int
    <2>1. Accumulated(p.i, e) \in Int
      BY AccumulatedType DEF Loops
    <2>. QED  BY <2>1 DEF Loops
  <1>2. /\ q.debt = p.debt
        /\ frozen => q.i = p.i
        /\ e > 0 /\ ~frozen => q.i >= p.i + 1
        /\ e = 0 => q.i = p.i
    <2>1. ~frozen => q.i = Accumulated(p.i, e)
      BY DEF Loops
    <2>2. e = 0 => Accumulated(p.i, e) = p.i
      BY Constant, <1>1 DEF Accumulated, Opposed
    <2>3. q.debt = p.debt
      BY DEF Loops
    <2>4. frozen => q.i = p.i
      OBVIOUS
    <2>5. e > 0 /\ ~frozen => q.i >= p.i + 1
      BY <2>1, <1>1, AccumulatedCharges
    <2>. HIDE DEF q
    <2>. QED  BY <2>1, <2>2, <2>3, <2>4, <2>5
  <1>3. k \in Int /\ k <= Full /\ (e >= 0 => k >= 0) /\ (e <= 0 => k <= 0)
    BY Constant, SMT
  <1>4. Compute(p, e, frozen) = [pid |-> Unwound(q, fix), out |-> Clip(raw)]
    BY DEF Compute
  <1>. HIDE DEF q, k
  <1>5. raw \in Int /\ Clip(raw) \in 0 .. Full /\ fix \in Int
    BY <1>1, <1>3, ClipType, Constant
  <1>6. Unwound(q, fix).i = IF Opposed(fix, q.debt) THEN Clip(q.i) ELSE q.i + fix
    BY <1>1 DEF Unwound, Loops
  <1>7. Clip(q.i) >= 0
    BY <1>1, ClipType
  <1>8. q.i + fix = Clip(raw) - k
    BY <1>1, <1>3, <1>5
  <1>9. Clip(raw) - k >= 0
    <2>1. CASE raw < 0 \/ raw > Full
      <3>1. e >= 0 => q.i >= 0
        BY <1>1, <1>2
      <3>. QED  BY <2>1, <3>1, <1>1, <1>3, <1>5, Constant DEF Clip
    <2>2. CASE 0 <= raw /\ raw <= Full
      <3>1. Clip(raw) = raw
        BY <2>2, <1>5, Constant DEF Clip
      <3>2. e >= 0 => q.i >= 0
        BY <1>1, <1>2
      <3>. QED  BY <2>2, <3>1, <3>2, <1>1, <1>3, <1>5
    <2>. QED  BY <2>1, <2>2, <1>5, Constant
  <1>10. Unwound(q, fix).i >= 0
    <2>. HIDE DEF fix
    <2>. QED  BY <1>6, <1>7, <1>8, <1>9
  <1>11. ASSUME e > 0, ~frozen PROVE Clip(raw) > 0
    BY <1>1, <1>2, <1>3, <1>5, <1>11, Constant DEF Clip
  <1>. QED  BY <1>4, <1>10, <1>11

\* Water a full margin above the dew point is not throttled, at a margin of
\* zero too, where only water above it is.
LEMMA HealthyIsWide ==
    ASSUME NEW in \in Inputs, Healthy(in), Cools(in)
    PROVE  Throttle(in) = Whole
  <1>. DEFINE gap == in.around.lo - (in.around.dew + in.around.pad)
  <1>1. Dry(in) /\ in.around.lo - in.around.dew - in.around.pad >= Margin
    BY DEF Healthy
  <1>2. in.around.dew # None /\ in.around.lo # None
    BY <1>1 DEF Dry
  <1>3. gap \in Int /\ gap >= Margin /\ gap > 0
    BY <1>1, <1>2, InputType, Constant DEF Dry
  <1>4. Throttle(in) = Factor(gap)
    BY <1>2 DEF Throttle
  <1>5. Ramp > 0
    BY RoomAssumption
  <1>. HIDE DEF gap
  <1>. QED  BY <1>3, <1>4, <1>5, RampType, Constant DEF Factor, RampFoot, Greater

\* One cycle of the loop, from the integral it finds.
LEMMA LoopCharged ==
    ASSUME ProportionalFits, Typed, Charged, NEW in \in Inputs, Regulates(in)
    PROVE  /\ C(in).pid.i >= 0
           /\ Healthy(in) => C(in).out > 0
  <1>. DEFINE d(from) == IF Heats(in) THEN in.sp - from ELSE from - in.sp
              p == Shifted(in, Carried(in), Reference(in))
              e == Debanded(ErrorOf(in))
              frozen == ~in.pumped \/ (IF Cools(in) THEN Throttle(in) ELSE Whole) < Whole
  <1>1. Carried(in) \in Loops /\ Carried(in).i >= 0
    BY DEF Typed, Charged, Carried, Cleared, Loops
  <1>2. Reference(in) \in Int \cup {None}
    BY Constant DEF Typed, Reference
  <1>3. p \in Loops /\ p.i >= 0
    <2>1. CASE Reference(in) \in {None, in.sp}
      BY <1>1, <2>1 DEF Shifted
    <2>2. CASE Reference(in) \notin {None, in.sp}
      <3>1. d(Reference(in)) \in Int
        BY <1>2, <2>2, InputType
      <3>2. Kp * d(Reference(in)) \in Int
        <4>. HIDE DEF d
        <4>. QED  BY <3>1, Constant
      <3>3. p = Shift(Carried(in), Kp * d(Reference(in)))
        BY <2>2 DEF Shifted
      <3>. HIDE DEF d, p
      <3>. QED  BY <1>1, <3>2, <3>3, ShiftType, ShiftCharged
    <2>. QED  BY <2>1, <2>2
  <1>4. e \in Int /\ Kp * e \in Int /\ Kp * e <= Full
    BY ErrorFits
  <1>5. frozen \in BOOLEAN
    OBVIOUS
  <1>6. C(in) = Compute(p, e, frozen)
    BY DEF C, Loop
  <1>7. Healthy(in) => e > 0 /\ ~frozen
    <2>. SUFFICES ASSUME Healthy(in) PROVE e > 0 /\ ~frozen
      OBVIOUS
    <2>1. e > 0 /\ in.pumped
      BY DEF Healthy
    <2>2. ~Cools(in) => ~frozen
      BY <2>1, RampType
    <2>3. Cools(in) => ~frozen
      BY <2>1, HealthyIsWide, RampType
    <2>. QED  BY <2>1, <2>2, <2>3
  <1>. HIDE DEF p, e, frozen
  <1>. QED  BY <1>3, <1>4, <1>5, <1>6, <1>7, ComputeCharged

\* No cycle leaves a negative integral.
LEMMA ChargedInv ==
    ASSUME ProportionalFits
    PROVE  IInv /\ Charged /\ [Next]_vars => Charged'
  <1>. SUFFICES ASSUME IInv, Charged, [Next]_vars PROVE Charged'
    OBVIOUS
  <1>1. CASE \E in \in Inputs : Regulate(in)
    <2>1. PICK in \in Inputs : Regulate(in)
      BY <1>1
    <2>2. Regulates(in) /\ pid' = C(in).pid
      BY <2>1 DEF Regulate, C
    <2>. QED  BY <2>2, LoopCharged DEF Charged, IInv
  <1>2. CASE \E in \in PassiveInputs : Park(in) \/ LoseSensor(in) \/ Fail(in)
    <2>1. pid' \in {pid, Cleared}
      BY <1>2 DEF Park, LoseSensor, Fail, Rest
    <2>. QED  BY <2>1 DEF Charged, Cleared
  <1>3. CASE Rebuild
    BY <1>3 DEF Rebuild, Charged, Cleared
  <1>4. CASE UNCHANGED vars
    BY <1>4 DEF vars, Charged
  <1>. QED  BY <1>1, <1>2, <1>3, <1>4 DEF Next, Cycle

\* Nothing is latched once every rule has recovered.
LEMMA HealthyUnlatches ==
    ASSUME NEW in \in Inputs, Healthy(in), Evaluate(in)
    PROVE  latches' = {}
  <1>. SUFFICES ASSUME NEW r \in Rules PROVE ~Latched(r \in latches, in, r)
    BY DEF Evaluate
  <1>1. Recovered(in, r) /\ in.temp \in Int
    BY InputType DEF Healthy, Regulates
  <1>2. /\ Trip[r] \in Int /\ Clear[r] \in Int
        /\ IF r \in Above THEN Clear[r] <= Trip[r] ELSE Trip[r] <= Clear[r]
    BY RulesAssumption
  <1>3. Measured(in, r) \in Int
    <2>1. in.around \in Surroundings
      BY DEF Inputs, Readings
    <2>2. /\ in.around.hi \in Int \cup {None} /\ in.around.lo \in Int \cup {None}
          /\ in.around.dew \in Int \cup {None} /\ in.around.age \in Int
      BY <2>1, RoomAssumption
    <2>3. Governing(in) \in Int \cup {None}
      BY <2>2 DEF Governing
    <2>4. Measured(in, r) # None
      BY <1>1 DEF Recovered
    <2>. QED  BY <1>1, <2>2, <2>3, <2>4 DEF Measured, Rules
  <1>. QED  BY <1>1, <1>2, <1>3, Constant DEF Recovered, Latched

\* The throttle at its full width leaves an open position open.
LEMMA ThrottledOpen ==
    ASSUME NEW v \in Int, v > 0
    PROVE  Throttled(v, Whole) >= v
  <1>. DEFINE n == v * Whole + Whole - 1
  <1>1. Whole \in Int /\ Whole >= 1
    BY RampType
  <1>2. n \in Int /\ n >= v * Whole
    BY <1>1
  <1>. HIDE DEF n
  <1>3. n \div Whole >= v
    BY <1>1, <1>2, SMT
  <1>. QED  BY <1>3 DEF Throttled, n

\* A healthy calling room is open after its cycle.
LEMMA RegulateOpens ==
    ASSUME ProportionalFits, IInv, Charged, NEW in \in Inputs, Regulate(in)
    PROVE  DemandOpensValve'
  <1>. DEFINE v == Position(in, Raw(in))
  <1>1. /\ Regulates(in) /\ Evaluate(in)
        /\ seen'.healthy = Healthy(in) /\ seen'.valve = Safe(in, latches', v)
    BY DEF Regulate, Seen, C, Raw
  <1>. SUFFICES ASSUME Healthy(in) PROVE seen'.valve > 0
    BY <1>1 DEF DemandOpensValve
  <1>2. C(in).out > 0 /\ C(in).out \in Int /\ in.trim >= 0 /\ in.trim \in Int
    BY <1>1, LoopType, LoopCharged, InputType DEF Healthy, IInv
  <1>3. Raw(in) \in Int /\ Raw(in) > 0
    BY <1>2 DEF Raw
  <1>4. Floored(in, Raw(in)) \in Int /\ Floored(in, Raw(in)) > 0
    BY <1>3, Constant DEF Floored
  <1>5. Lifted(in, Raw(in)) \in Int /\ Lifted(in, Raw(in)) > 0
    <2>1. Held(in) \in 0 .. Full \cup {None}
      BY <1>3, PositionType DEF IInv
    <2>. QED  BY <1>4, <2>1, Constant DEF Lifted, Greater
  <1>6. v > 0
    <2>1. CASE Cools(in)
      <3>1. Throttle(in) = Whole
        BY <2>1, HealthyIsWide
      <3>2. Throttled(Lifted(in, Raw(in)), Throttle(in)) \in Int
            /\ Throttled(Lifted(in, Raw(in)), Throttle(in)) > 0
        BY <1>5, <3>1, RampType, ThrottledOpen, ThrottledType
      <3>. QED  BY <2>1, <3>2, Constant DEF Position, Clip
    <2>2. CASE ~Cools(in)
      BY <1>5, <2>2, Constant DEF Position, Clip
    <2>. QED  BY <2>1, <2>2
  <1>7. latches' = {}
    BY <1>1, HealthyUnlatches
  <1>8. Safe(in, latches', v) = v
    BY <1>7 DEF Safe
  <1>. HIDE DEF v
  <1>. QED  BY <1>1, <1>6, <1>8

\* Only a regulating step is healthy.
LEMMA StepOpens ==
    ASSUME ProportionalFits
    PROVE  IInv /\ Charged /\ DemandOpensValve /\ [Next]_vars => DemandOpensValve'
  <1>. SUFFICES ASSUME IInv, Charged, DemandOpensValve, [Next]_vars
                PROVE  DemandOpensValve'
    OBVIOUS
  <1>1. CASE \E in \in Inputs : Regulate(in)
    BY <1>1, RegulateOpens
  <1>2. CASE \E in \in PassiveInputs : Park(in) \/ LoseSensor(in) \/ Fail(in)
    <2>1. PICK in \in PassiveInputs : Park(in) \/ LoseSensor(in) \/ Fail(in)
      BY <1>2
    <2>2. Park(in) \/ LoseSensor(in) => seen'.healthy = FALSE
      <3>1. Park(in) \/ LoseSensor(in) => ~Regulates(in)
        BY DEF Park, LoseSensor, Regulates
      <3>2. Park(in) \/ LoseSensor(in) => seen'.healthy = Healthy(in)
        BY DEF Park, LoseSensor, Seen
      <3>. QED  BY <3>1, <3>2 DEF Healthy
    <2>3. Fail(in) => seen'.healthy = FALSE
      BY DEF Fail
    <2>. QED  BY <2>1, <2>2, <2>3 DEF DemandOpensValve
  <1>3. CASE Rebuild
    BY <1>3 DEF Rebuild, Nothing, DemandOpensValve
  <1>4. CASE UNCHANGED vars
    BY <1>4 DEF vars, DemandOpensValve
  <1>. QED  BY <1>1, <1>2, <1>3, <1>4 DEF Next, Cycle

----------------------------------------------------------------------------
(* The results.                                                            *)

\* The water side of a room keeps its types: positions between closed and
\* fully open whatever the trims, the safety rules and the held position add
\* up to.
THEOREM WaterTyped == Spec => []TypeOK
  <1>1. IInv /\ Shown => TypeOK
    BY DEF IInv, Typed, Shown, TypeOK, Loops
  <1>. QED  BY <1>1, Invariant, InitDry, StepDry, PTL DEF Spec

\* A valve left open in cooling passes water above the padded dew point of a
\* room that the building's safe dew point counts, for every margin and
\* ramp, every reading that comes or goes, and every state of the rules.
THEOREM OpenValveIsDry == Spec => []DrySafe
  BY Invariant, InitDry, StepDry, PTL DEF Spec

\* A heating room without a temperature holds the position of the last step
\* that had one, or the floor before the first.
THEOREM LostSensorHolds == Spec => []HoldIsRegulated
  BY Invariant, InitHolds, StepHolds, PTL DEF Spec

\* A charged integral belongs to the last mode regulated in and is younger
\* than the decay time.
THEOREM IntegralOfOneSeason == Spec => []SeasonIsForgotten
  <1>1. IInv => SeasonIsForgotten
    BY DEF IInv, Banks, SeasonIsForgotten
  <1>. QED  BY <1>1, Invariant, PTL

\* Whatever latched, was held or wound down before, a room that calls with
\* healthy readings gets water in that very cycle, as long as the
\* proportional term of no error exceeds the output's range.
THEOREM CallGetsWater ==
    ASSUME ProportionalFits
    PROVE  Spec => []DemandOpensValve
  <1>1. Init => Charged /\ DemandOpensValve
    BY DEF Init, Fresh, Cleared, Nothing, Charged, DemandOpensValve
  <1>2. IInv /\ Charged /\ [Next]_vars => Charged'
    BY ChargedInv
  <1>3. IInv /\ Charged /\ DemandOpensValve /\ [Next]_vars => DemandOpensValve'
    BY StepOpens
  <1>. QED  BY <1>1, <1>2, <1>3, Invariant, PTL DEF Spec

----------------------------------------------------------------------------
(* How the commands reach the valve and how it is let go (ValveWrites), for *)
(* every threshold, tolerance, period, actuator resolution and timing.      *)

\* What is cached reached the device, unless something strayed.
CacheIsDelivered == cache # NotSent /\ ~stray => pos \in Landed(cache)

\* A command the last cycle left standing.
Near == cache # NotSent /\ (want = cache \/ Distance(want, cache) < Threshold)

Sure == sure => Near /\ Distance(pos, cache) <= Tolerance

\* A valve let go while cooling was sent its close, or is still to be sent it.
Owed == owed /\ ~pending => cache = 0

\* The parts hold each other up: Sure bounds the position through the cache,
\* which TracksTarget does not mention, and Owed knows of the close even
\* while the command may be lost.
WInv ==
    /\ WritesTypeOK /\ CacheIsDelivered /\ Obeyed /\ Sure /\ Owed
    /\ NoFalseMismatch

----------------------------------------------------------------------------
\* The numbers' part of the assumption.
LEMMA Numbers ==
    ASSUME ValveAssumption
    PROVE  /\ 0 \in Positions /\ 0 \in Grid
           /\ 0 \in 0 .. ReassertAge /\ 0 < ReassertAge
           /\ 0 \in 0 .. MismatchCycles
BY DEF ValveAssumption, Positions

\* A device lands within the tolerance, and exactly at its own positions.
LEMMA LandedIsNear ==
    ASSUME ValveAssumption, NEW v \in Positions, NEW g \in Landed(v)
    PROVE  g \in Grid /\ g \in Positions /\ Distance(g, v) <= Tolerance
<1>1. PICK h \in Grid : Distance(h, v) <= Tolerance BY DEF ValveAssumption
<1>2. g \in Grid /\ Distance(g, v) <= Distance(h, v) BY DEF Landed
<1>3. g \in Positions /\ h \in Positions BY <1>2 DEF ValveAssumption
<1>. QED BY <1>1, <1>2, <1>3 DEF Positions, Distance, ValveAssumption

LEMMA ZeroIsTaken ==
    ASSUME ValveAssumption, NEW g \in Landed(0)
    PROVE  g = 0
<1>1. 0 \in Grid /\ g \in Grid /\ Grid \subseteq Nat
  BY DEF ValveAssumption, Positions, Landed
<1>2. Distance(g, 0) <= Distance(0, 0) BY <1>1 DEF Landed
<1>. QED BY <1>1, <1>2 DEF Distance

\* One service call keeps the types and delivers what it caches.
LEMMA SendWorks ==
    ASSUME ValveAssumption, WritesTypeOK, NEW v \in Positions,
           NEW o \in Outcomes, Send(v, o)
    PROVE  /\ cache' = v /\ age' = 0 /\ pos' \in Grid /\ stray' \in BOOLEAN
           /\ ~stray' => pos' \in Landed(v)
           /\ o = "lands" => Distance(pos', v) <= Tolerance
<1>1. CASE o = "lands"
  <2>1. pos' \in Landed(v) /\ stray' = FALSE BY <1>1 DEF Send
  <2>2. pos' \in Grid /\ Distance(pos', v) <= Tolerance
    BY <2>1, LandedIsNear
  <2>. QED BY <2>1, <2>2 DEF Send
<1>2. CASE o # "lands"
  BY <1>2 DEF Send, WritesTypeOK
<1>. QED BY <1>1, <1>2

LEMMA AgedType ==
    ASSUME ValveAssumption, WritesTypeOK, NEW e \in Elapsed
    PROVE  Aged(e) \in 0 .. ReassertAge
BY DEF ValveAssumption, WritesTypeOK, Aged

LEMMA ReadType ==
    ASSUME ValveAssumption, WritesTypeOK, NEW f \in Feedback
    PROVE  Read(f) \in Positions \cup {NotSent}
BY DEF ValveAssumption, WritesTypeOK, Read, Feedback

\* The tracker's count stays typed and blamed: with a delivered cache a fresh
\* reading never counts, and an echo never does.
LEMMA TrackedWorks ==
    ASSUME ValveAssumption, WInv, NEW f \in Feedback, Tracked(f)
    PROVE  /\ mismatch' \in 0 .. MismatchCycles /\ blamed' \in BOOLEAN
           /\ mismatch' > 0 => blamed'
<1>1. CASE cache = NotSent \/ Read(f) = NotSent
  BY <1>1 DEF Tracked, WInv, WritesTypeOK, NoFalseMismatch
<1>2. CASE /\ cache # NotSent /\ Read(f) # NotSent
           /\ ~(Distance(Read(f), cache) > Tolerance)
  <2>1. mismatch' = 0 /\ blamed' = FALSE BY <1>2 DEF Tracked
  <2>2. ~(mismatch' > 0) BY <2>1
  <2>3. mismatch' \in 0 .. MismatchCycles BY <2>1, Numbers
  <2>4. blamed' \in BOOLEAN BY <2>1
  <2>. QED BY <2>2, <2>3, <2>4
<1>3. CASE /\ cache # NotSent /\ Read(f) # NotSent
           /\ Distance(Read(f), cache) > Tolerance
  <2>1. stray \/ f # "fresh"
    <3>1. SUFFICES ASSUME ~stray, f = "fresh" PROVE FALSE OBVIOUS
    <3>2. pos \in Landed(cache) /\ cache \in Positions
      BY <1>3, <3>1 DEF WInv, CacheIsDelivered, WritesTypeOK
    <3>3. pos \in Positions /\ Distance(pos, cache) <= Tolerance
      BY <3>2, LandedIsNear
    <3>. QED BY <3>1, <3>2, <3>3, <1>3 DEF Read, Distance, Positions,
                ValveAssumption
  <2>2. /\ mismatch' = IF mismatch < MismatchCycles THEN mismatch + 1
                        ELSE MismatchCycles
        /\ blamed' = (blamed \/ stray \/ f # "fresh")
    BY <1>3 DEF Tracked
  <2>3. blamed' = TRUE BY <2>1, <2>2
  <2>4. mismatch' \in 0 .. MismatchCycles
    BY <2>2 DEF WInv, WritesTypeOK, ValveAssumption
  <2>. QED BY <2>3, <2>4
<1>. QED BY <1>1, <1>2, <1>3

----------------------------------------------------------------------------
LEMMA Initial ==
    ASSUME ValveAssumption, WritesInit
    PROVE  WInv
<1>1. WritesTypeOK BY Numbers DEF WritesInit, WritesTypeOK
<1>2. CacheIsDelivered /\ Obeyed /\ Sure /\ Owed
  BY DEF WritesInit, CacheIsDelivered, Obeyed, Sure, Owed
<1>3. NoFalseMismatch BY DEF WritesInit, NoFalseMismatch
<1>. QED BY <1>1, <1>2, <1>3 DEF WInv

\* A live room's cycle: parked, nothing to write, written, not reached.
LEMMA LiveCycleKeeps ==
    ASSUME ValveAssumption, WInv, NEW e \in Elapsed, NEW v \in Positions,
           NEW f \in Feedback, NEW o \in Outcomes, LiveCycle(e, v, f, o)
    PROVE  WInv'
<1>1. /\ mismatch' \in 0 .. MismatchCycles /\ blamed' \in BOOLEAN
      /\ mismatch' > 0 => blamed'
  BY TrackedWorks DEF LiveCycle
<1>2. lastRead' \in Positions \cup {NotSent} /\ Aged(e) \in 0 .. ReassertAge
  BY AgedType DEF LiveCycle, WInv, WritesTypeOK, ValveAssumption
<1>3. /\ room' = room /\ mode' = mode /\ pending' = pending /\ due' = due
      /\ parked' = parked
  BY DEF LiveCycle
<1>4. CASE parked
  <2>1. /\ age' = Aged(e) /\ met' = FALSE
        /\ UNCHANGED <<cache, pos, stray, want, sure, owed>>
    BY <1>4 DEF LiveCycle
  <2>. QED BY <1>1, <1>2, <1>3, <2>1 DEF WInv, WritesTypeOK, CacheIsDelivered,
              Obeyed, Sure, Near, Owed, NoFalseMismatch, Landed
<1>5. CASE ~parked /\ o # "unreachable" /\ ~MustWrite(v, e, f)
  <2>1. /\ want' = v /\ owed' = FALSE /\ age' = Aged(e) /\ met' = TRUE
        /\ sure' = (f = "fresh") /\ UNCHANGED <<cache, pos, stray>>
    BY <1>5 DEF LiveCycle
  <2>2. /\ cache # NotSent /\ ~(Distance(v, cache) >= Threshold)
        /\ v \in {0, FullyOpen} => v = cache
        /\ ~(Aged(e) >= ReassertAge)
        /\ Read(f) = NotSent \/ ~(Distance(Read(f), cache) > Tolerance)
    BY <1>5 DEF MustWrite
  <2>3. /\ cache \in Positions /\ pos \in Grid /\ pos \in Positions
        /\ Positions \subseteq Nat
    BY <2>2 DEF WInv, WritesTypeOK, ValveAssumption, Positions
  <2>4. Distance(v, cache) < Threshold /\ Aged(e) < ReassertAge
    BY <2>2, <2>3, <1>2 DEF Distance, ValveAssumption
  <2>5. f = "fresh" => Distance(pos, cache) <= Tolerance
    BY <2>2, <2>3 DEF Read, NotSent, Distance, ValveAssumption
  <2>6. WritesTypeOK'
    BY <1>1, <1>2, <1>3, <2>1 DEF WInv, WritesTypeOK
  <2>7. (CacheIsDelivered /\ Owed /\ NoFalseMismatch)'
    BY <1>1, <2>1 DEF WInv, CacheIsDelivered, Owed, NoFalseMismatch, Landed
  <2>8. (Obeyed /\ Sure)'
    BY <2>1, <2>2, <2>4, <2>5 DEF Obeyed, Sure, Near
  <2>. QED BY <2>6, <2>7, <2>8 DEF WInv
<1>6. CASE ~parked /\ ~(o # "unreachable" /\ ~MustWrite(v, e, f))
  <2>1. CASE Dispatched(o)
    <3>1. /\ want' = v /\ owed' = FALSE /\ Send(v, o) /\ met' = TRUE
          /\ sure' = (o = "lands")
      BY <1>6, <2>1 DEF LiveCycle
    <3>2. /\ cache' = v /\ age' = 0 /\ pos' \in Grid /\ stray' \in BOOLEAN
          /\ ~stray' => pos' \in Landed(v)
          /\ o = "lands" => Distance(pos', v) <= Tolerance
      BY <3>1, SendWorks DEF WInv
    <3>3. v # NotSent /\ 0 < ReassertAge /\ 0 \in 0 .. ReassertAge
      BY DEF Positions, NotSent, ValveAssumption
    <3>4. WritesTypeOK'
      BY <1>1, <1>2, <1>3, <3>1, <3>2, <3>3 DEF WInv, WritesTypeOK
    <3>5. (CacheIsDelivered /\ Owed /\ NoFalseMismatch)'
      BY <1>1, <3>1, <3>2 DEF CacheIsDelivered, Owed, NoFalseMismatch, Landed
    <3>6. (Obeyed /\ Sure)'
      BY <3>1, <3>2, <3>3 DEF Obeyed, Sure, Near
    <3>. QED BY <3>4, <3>5, <3>6 DEF WInv
  <2>2. CASE ~Dispatched(o)
    <3>1. /\ want' = v /\ owed' = FALSE /\ age' = Aged(e) /\ met' = FALSE
          /\ sure' = FALSE /\ UNCHANGED <<cache, pos, stray>>
      BY <1>6, <2>2 DEF LiveCycle
    <3>. QED BY <1>1, <1>2, <1>3, <3>1 DEF WInv, WritesTypeOK,
                CacheIsDelivered, Obeyed, Sure, Near, Owed, NoFalseMismatch, Landed
  <2>. QED BY <2>1, <2>2
<1>. QED BY <1>4, <1>5, <1>6

LEMMA SilentCycleKeeps ==
    ASSUME ValveAssumption, WInv, NEW e \in Elapsed, SilentCycle(e)
    PROVE  WInv'
<1>1. Aged(e) \in 0 .. ReassertAge BY AgedType DEF WInv
<1>. QED BY <1>1 DEF SilentCycle, WInv, WritesTypeOK, CacheIsDelivered, Obeyed,
            Sure, Near, Owed, NoFalseMismatch, Landed

\* An off room's cycle: a close dispatched, kept pending, given up outside
\* COOLING, or nothing pending.
LEMMA OffCycleKeeps ==
    ASSUME ValveAssumption, WInv, NEW e \in Elapsed, NEW o \in Outcomes,
           OffCycle(e, o)
    PROVE  WInv'
<1>1. /\ mismatch' = 0 /\ blamed' = FALSE /\ met' = FALSE /\ sure' = FALSE
      /\ UNCHANGED <<room, mode, due, parked, lastRead, want>>
  BY DEF OffCycle
<1>2. Aged(e) \in 0 .. ReassertAge /\ 0 \in Positions /\ 0 \in 0 .. ReassertAge
  BY AgedType DEF WInv, ValveAssumption, Positions
<1>3. 0 \in 0 .. MismatchCycles /\ ~(0 > 0) BY DEF ValveAssumption
<1>4. CASE pending /\ ~parked /\ mode = "cooling" /\ Dispatched(o)
  <2>1. Send(0, o) /\ pending' = FALSE /\ owed' \in BOOLEAN
    BY <1>4 DEF OffCycle, CloseValve, WInv, WritesTypeOK
  <2>2. /\ cache' = 0 /\ age' = 0 /\ pos' \in Grid /\ stray' \in BOOLEAN
        /\ ~stray' => pos' \in Landed(0)
    BY <1>2, <2>1, SendWorks DEF WInv
  <2>. QED BY <1>1, <1>2, <1>3, <2>1, <2>2 DEF WInv, WritesTypeOK,
              CacheIsDelivered, Obeyed, Sure, Owed, NoFalseMismatch, Landed
<1>5. CASE pending /\ ~parked /\ ~(mode = "cooling" /\ Dispatched(o))
  <2>1. /\ owed' = (owed /\ mode = "cooling") /\ pending' = (mode = "cooling")
        /\ age' = Aged(e) /\ UNCHANGED <<cache, pos, stray>>
    BY <1>5 DEF OffCycle
  <2>. QED BY <1>1, <1>2, <1>3, <2>1 DEF WInv, WritesTypeOK, CacheIsDelivered,
              Obeyed, Sure, Owed, NoFalseMismatch, Landed
<1>6. CASE ~(pending /\ ~parked)
  <2>1. age' = Aged(e) /\ UNCHANGED <<owed, pending, cache, pos, stray>>
    BY <1>6 DEF OffCycle
  <2>. QED BY <1>1, <1>2, <1>3, <2>1 DEF WInv, WritesTypeOK, CacheIsDelivered,
              Obeyed, Sure, Owed, NoFalseMismatch, Landed
<1>. QED BY <1>4, <1>5, <1>6

\* The farewell, run as a task or by the unload.
LEMMA FarewellKeeps ==
    ASSUME ValveAssumption, WInv, NEW o \in Outcomes, FarewellRoom(o),
           room' = room, mode' = mode, due' \in Nat, parked' \in BOOLEAN,
           UNCHANGED <<mismatch, lastRead, want, blamed>>
    PROVE  WInv'
<1>1. /\ met' = FALSE /\ sure' = FALSE /\ pending' \in BOOLEAN
      /\ owed' \in BOOLEAN
  BY DEF FarewellRoom
<1>2. 0 \in Positions /\ 0 \in 0 .. ReassertAge
  BY DEF ValveAssumption, Positions
<1>3. CASE mode = "cooling" /\ Dispatched(o)
  <2>1. Send(0, o) BY <1>3 DEF FarewellRoom, CloseValve
  <2>2. /\ cache' = 0 /\ age' = 0 /\ pos' \in Grid /\ stray' \in BOOLEAN
        /\ ~stray' => pos' \in Landed(0)
    BY <1>2, <2>1, SendWorks DEF WInv
  <2>. QED BY <1>1, <1>2, <2>2 DEF WInv, WritesTypeOK,
              CacheIsDelivered, Obeyed, Sure, Owed, NoFalseMismatch, Landed
<1>4. CASE ~(mode = "cooling" /\ Dispatched(o))
  <2>1. UNCHANGED <<cache, age, pos, stray>> BY <1>4 DEF FarewellRoom
  <2>2. owed' => pending'
    <3>1. room \in {"live", "off"} BY DEF WInv, WritesTypeOK
    <3>. QED BY <1>4, <3>1 DEF FarewellRoom
  <2>. QED BY <1>1, <2>1, <2>2 DEF WInv, WritesTypeOK,
              CacheIsDelivered, Obeyed, Sure, Owed, NoFalseMismatch, Landed
<1>. QED BY <1>3, <1>4

\* A rebuilt coordinator starts from nothing.
LEMMA FreshKeeps ==
    ASSUME ValveAssumption, WInv, Rebuilt, due' \in Nat
    PROVE  WInv'
<1>1. WritesTypeOK' BY Numbers DEF Rebuilt, WInv, WritesTypeOK
<1>2. (CacheIsDelivered /\ Obeyed /\ Sure /\ Owed)'
  BY DEF Rebuilt, CacheIsDelivered, Obeyed, Sure, Owed
<1>3. NoFalseMismatch' BY DEF Rebuilt, NoFalseMismatch
<1>. QED BY <1>1, <1>2, <1>3 DEF WInv

----------------------------------------------------------------------------
LEMMA Inductive ==
    ASSUME ValveAssumption, WInv, [WritesNext]_writesVars
    PROVE  WInv'
<1>. USE DEF WInv
<1>1. ASSUME NEW e \in Elapsed, NEW v \in Positions, NEW f \in Feedback,
             NEW o \in Outcomes, LiveCycle(e, v, f, o)
      PROVE  WInv'
  BY <1>1, LiveCycleKeeps
<1>2. ASSUME NEW e \in Elapsed, SilentCycle(e) PROVE WInv'
  BY <1>2, SilentCycleKeeps
<1>3. ASSUME NEW e \in Elapsed, NEW o \in Outcomes, OffCycle(e, o)
      PROVE  WInv'
  BY <1>3, OffCycleKeeps
<1>4. ASSUME NEW o \in Outcomes, Farewell(o) PROVE WInv'
  <2>1. due' \in Nat BY <1>4 DEF Farewell, WritesTypeOK
  <2>2. parked' \in BOOLEAN BY <1>4 DEF Farewell, WritesTypeOK
  <2>. QED BY <1>4, <2>1, <2>2, FarewellKeeps DEF Farewell
<1>5. ASSUME NEW o \in Outcomes, Unload(o) PROVE WInv'
  <2>1. due' \in Nat /\ parked' \in BOOLEAN BY <1>5 DEF Unload, WritesTypeOK
  <2>2. CASE room = "live"
    BY <1>5, <2>1, <2>2, FarewellKeeps DEF Unload
  <2>3. CASE room # "live"
    BY <1>5, <2>1, <2>3 DEF Unload, WritesTypeOK, CacheIsDelivered, Obeyed,
       Sure, Near, Owed, NoFalseMismatch, Landed
  <2>. QED BY <2>2, <2>3
<1>6. CASE SwitchOff \/ SwitchOn \/ SetMode
  <2>1. WritesTypeOK'
    <3>1. CASE SwitchOff
      <4>1. due' \in Nat BY <3>1 DEF SwitchOff, WritesTypeOK
      <4>. QED BY <3>1, <4>1 DEF SwitchOff, WritesTypeOK
    <3>2. CASE SwitchOn BY <3>2 DEF SwitchOn, WritesTypeOK
    <3>3. CASE SetMode BY <3>3 DEF SetMode, WritesTypeOK
    <3>. QED BY <1>6, <3>1, <3>2, <3>3
  <2>. QED BY <1>6, <2>1 DEF SwitchOff, SwitchOn, SetMode, CacheIsDelivered,
              Obeyed, Sure, Near, Owed, NoFalseMismatch, Landed
<1>7. CASE Move
  BY <1>7 DEF Move, WritesTypeOK, CacheIsDelivered, Obeyed, Sure, Owed,
     NoFalseMismatch
<1>8. CASE Build \/ Restart
  <2>1. Rebuilt /\ due' \in Nat BY <1>8 DEF Build, Restart, WritesTypeOK
  <2>. QED BY <2>1, FreshKeeps
<1>9. CASE UNCHANGED writesVars
  BY <1>9 DEF writesVars, WritesTypeOK, CacheIsDelivered, Obeyed, Sure, Near,
     Owed, NoFalseMismatch, Landed
<1>. QED
  BY <1>1, <1>2, <1>3, <1>4, <1>5, <1>6, <1>7, <1>8, <1>9 DEF WritesNext

LEMMA WritesInvariant ==
    ASSUME ValveAssumption
    PROVE  WritesSpec => []WInv
<1>1. WritesInit => WInv BY Initial
<1>2. WInv /\ [WritesNext]_writesVars => WInv' BY Inductive
<1>. QED BY <1>1, <1>2, PTL DEF WritesSpec

\* The variables keep their types.
THEOREM ValveTyped ==
    ASSUME ValveAssumption
    PROVE  WritesSpec => []WritesTypeOK
BY WritesInvariant, PTL DEF WInv

\* write_valves' triggers leave no live valve that was reached with a command
\* other than the controller's last one, up to the threshold and the period.
THEOREM CommandsObeyed ==
    ASSUME ValveAssumption
    PROVE  WritesSpec => []Obeyed
BY WritesInvariant, PTL DEF WInv

\* A valve read back or commanded in the last cycle stands where the
\* controller wants it, whatever was lost or overridden before.
THEOREM ValveTracksTarget ==
    ASSUME ValveAssumption
    PROVE  WritesSpec => []TracksTarget
<1>1. WInv => TracksTarget
  <2>1. SUFFICES ASSUME WInv, sure
                 PROVE  Distance(pos, want) <= Threshold + Tolerance
    BY DEF TracksTarget
  <2>2. Near /\ Distance(pos, cache) <= Tolerance BY <2>1 DEF WInv, Sure
  <2>3. /\ cache \in Nat /\ pos \in Nat /\ want \in Nat
        /\ Threshold \in Nat /\ Tolerance \in Nat
    BY <2>1, <2>2 DEF WInv, WritesTypeOK, ValveAssumption, Near, Positions
  <2>. QED BY <2>2, <2>3 DEF Near, Distance
<1>. QED BY <1>1, WritesInvariant, PTL

\* A valve let go while the home cools is closed, or still to be closed.
THEOREM ReleasedValveCloses ==
    ASSUME ValveAssumption
    PROVE  WritesSpec => []ParkedInCooling
<1>1. WInv => ParkedInCooling
  <2>1. SUFFICES ASSUME WInv, owed, ~pending, ~stray PROVE pos = 0
    BY DEF ParkedInCooling
  <2>2. cache = 0 BY <2>1 DEF WInv, Owed
  <2>3. pos \in Landed(0) BY <2>1, <2>2 DEF WInv, CacheIsDelivered, NotSent
  <2>. QED BY <2>3, ZeroIsTaken
<1>. QED BY <1>1, WritesInvariant, PTL

\* A valve that took its commands is never counted as not listening.
THEOREM MismatchIsReal ==
    ASSUME ValveAssumption
    PROVE  WritesSpec => []NoFalseMismatch
BY WritesInvariant, PTL DEF WInv
=============================================================================
