------------------------ MODULE FastSourceRoomProofs ------------------------
(***************************************************************************)
(* Theorems about one room's fast source in an arbitrary environment, for  *)
(* every value of the dwells, the hold, the settle threshold, the demand   *)
(* thresholds, the kind of source and the lengths of a step; about the     *)
(* quiet hours that may withhold it, for every minute of the day; and      *)
(* about the delivery of its commands, for every cycle length, lag, set of *)
(* inputs and number of commands in flight.                                *)
(***************************************************************************)
EXTENDS FastSourceRoom, FastSourceDelivery, RoomFastSourceProofs, QuietHours,
        SequenceTheorems

(***************************************************************************)
(* The inductive invariant.  The properties of FastSourceRoom need two     *)
(* facts more: the reference exists exactly while the unit is seen and is, *)
(* under a hold, the mirrored state (Referenced); and a dry run never      *)
(* coexists with a hold, so a demoted dry run cannot damage a held         *)
(* reference.                                                              *)
(***************************************************************************)
IInv ==
    /\ TypeOK
    /\ HeaterNeverCools
    /\ HoldMirrorsUnit
    /\ ReferenceIsDelivered
    /\ HoldKeepsReference
    /\ LockIsHonest
    /\ Referenced(m)
    /\ cmd = "DRY" => m.hold = 0

\* The considered inputs are inputs, and a step takes at most MaxDt.
LEMMA Environment ==
    /\ Considered \subseteq Inputs
    /\ \A dt \in Dts : dt \in Nat /\ dt > 0 /\ dt <= MaxDt
  BY EnvironmentAssumption DEF Considered, Inputs, Alarms

\* The cold machine satisfies the inductive invariant.
LEMMA InitInv == Init => IInv
<1> SUFFICES ASSUME Init
             PROVE  IInv
  OBVIOUS
<1>1. ColdMachine \in Machine
  BY Clocks, MachineAssumption
  DEF ColdMachine, Machine, Directions, Commands
<1> QED
  BY <1>1
  DEF Init, IInv, TypeOK, HeaterNeverCools, HoldMirrorsUnit,
      ReferenceIsDelivered, HoldKeepsReference, LockIsHonest, Referenced,
      Manual, ColdMachine, Commands, Directions, Readings

\* A control step preserves it,
LEMMA CycleInv ==
    ASSUME IInv, NEW in \in Considered, NEW dt \in Dts, Cycle(in, dt)
    PROVE  IInv'
<1>1. /\ in \in Inputs /\ dt \in Nat /\ in.phys \in Readings
      /\ m \in Machine /\ Referenced(m)
  BY Environment DEF IInv, TypeOK, Inputs
<1>2. PICK s, t, d : StepResult(m, in, dt, s, t, d, Step(m, in, dt))
  BY <1>1, StepEffect
<1>3. /\ m' = Step(m, in, dt).m /\ cmd' = Step(m, in, dt).cmd
      /\ phys' = in.phys /\ cause' \in {"none", "force", "adopt"}
  BY DEF Cycle, CauseOf
<1>4. StepResult(m, in, dt, s, t, d, [m |-> m', cmd |-> cmd'])
  BY <1>2, <1>3 DEF StepResult
<1>5. /\ m' \in Machine /\ cmd' = d.cmd /\ cmd' \in Commands
      /\ DirectionOf(cmd') = m'.state
      /\ m'.hold \in 0 .. Hold
  BY <1>4 DEF StepResult, Decided, Kept, Machine
<1>6. TypeOK'
  BY <1>1, <1>3, <1>5 DEF TypeOK
<1>7. /\ m'.visible <=> s.visible
      /\ m'.synced <=> m'.visible
      /\ m'.prev = IF m'.visible THEN cmd' ELSE None
      /\ m'.visible => Kind # "NONE"
  BY <1>4 DEF StepResult, SyncResult, Decided, SameSight
<1>8. m'.hold > 0 /\ m'.visible => cmd' = s.state /\ m'.state = s.state
  BY <1>4 DEF StepResult, Decided, Kept, SameSight
<1>9. Referenced(m)' /\ HoldKeepsReference' /\ ReferenceIsDelivered'
  BY <1>5, <1>7, <1>8
  DEF Referenced, HoldKeepsReference, ReferenceIsDelivered, Manual,
      Commands, Directions, None
<1>10. HeaterNeverCools'
  BY <1>4, <1>5
  DEF StepResult, SyncResult, Decided, Kept, IInv, HeaterNeverCools,
      DirectionOf
<1>11. LockIsHonest'
  BY <1>4 DEF StepResult, Decided, Kept, Honest, LockIsHonest
<1>12. cmd' = "DRY" => m'.hold = 0
  BY <1>4 DEF StepResult, Decided
<1>13. HoldMirrorsUnit'
  <2> SUFFICES ASSUME m'.hold > 0, m'.visible, ~m'.mismatch
               PROVE  Agrees(cmd', phys')
    BY DEF HoldMirrorsUnit, Manual, Agrees
  <2>1. s.visible /\ ~s.mismatch /\ t.hold = d.m.hold
    BY <1>4, <1>7 DEF StepResult, Decided, HoldMove, SameSight
  <2>2. s.hold > 0
    BY <1>1, <1>4, <1>5, <2>1, Environment
    DEF StepResult, SyncResult, Machine, Minus
  <2> QED
    BY <1>3, <1>4, <1>8, <2>1, <2>2 DEF StepResult, SyncResult
<1> QED
  BY <1>6, <1>9, <1>10, <1>11, <1>12, <1>13 DEF IInv

\* a farewell preserves it,
LEMMA FarewellInv ==
    ASSUME IInv, Farewell
    PROVE  IInv'
<1> DEFINE b == ForceOff(m)
<1>1. m \in Machine /\ b \in Machine /\ "OFF" \in Commands
  BY ForceOffType DEF IInv, TypeOK, Commands, Directions
<1>2. /\ SameSight(m, b) /\ (m.visible => b.hold = 0) /\ b.state = "OFF"
      /\ HoldMove(m, b)
  BY <1>1, ForceOffEffect
<1>3. m' = NoteCommand(b, "OFF") /\ cmd' = "OFF" /\ phys' = phys
      /\ cause' = "force"
  BY DEF Farewell, Parked
<1> HIDE DEF b
<1>4. /\ m' \in Machine /\ m'.state = "OFF" /\ m'.hold = b.hold
      /\ (m'.visible <=> b.visible) /\ (m'.synced <=> b.synced)
      /\ m'.prev = IF b.visible THEN "OFF" ELSE b.prev
  BY <1>1, <1>2, <1>3, NoteType, NoteEffect DEF Kept
<1>5. b.visible = m.visible /\ b.synced = m.synced /\ b.prev = m.prev
  BY <1>2 DEF SameSight
<1>6. Referenced(m)' /\ HoldKeepsReference' /\ ReferenceIsDelivered'
  BY <1>2, <1>3, <1>4, <1>5
  DEF IInv, Referenced, HoldKeepsReference, ReferenceIsDelivered, Manual,
      None
<1>7. HoldMirrorsUnit'
  BY <1>2, <1>4, <1>5 DEF HoldMirrorsUnit, Manual
<1> QED
  BY <1>1, <1>3, <1>4, <1>6, <1>7
  DEF IInv, TypeOK, HeaterNeverCools, LockIsHonest

\* and so does the report of a written OFF.
LEMMA DryUnsupportedInv ==
    ASSUME IInv, DryUnsupported
    PROVE  IInv'
<1>1. m \in Machine /\ m.hold = 0 /\ "OFF" \in Commands
  BY DEF IInv, TypeOK, DryUnsupported, Commands, Directions
<1>2. m' = NoteWritten(m, "OFF") /\ cmd = "DRY"
      /\ cmd' = cmd /\ phys' = phys /\ cause' = cause
  BY DEF DryUnsupported
<1>3. /\ m' \in Machine /\ m'.state = m.state /\ m'.timer = m.timer
      /\ m'.hold = 0 /\ m'.dwell = m.dwell
      /\ (m'.visible <=> m.visible) /\ (m'.synced <=> m.synced)
      /\ m'.prev = IF m.visible THEN "OFF" ELSE m.prev
  BY <1>1, <1>2, NoteType, NoteEffect DEF Kept
<1>4. Referenced(m)' /\ HoldKeepsReference' /\ ReferenceIsDelivered'
      /\ HoldMirrorsUnit'
  BY <1>2, <1>3
  DEF IInv, Referenced, HoldKeepsReference, ReferenceIsDelivered,
      HoldMirrorsUnit, Manual, None
<1> QED
  BY <1>2, <1>3, <1>4
  DEF IInv, TypeOK, HeaterNeverCools, LockIsHonest

\* The inductive invariant holds in every reachable state: whatever the
\* sensors, the mode, the safety rules and the user do to the room.
THEOREM Invariance == Spec => []IInv
<1>1. IInv /\ [Next]_vars => IInv'
  <2> SUFFICES ASSUME IInv, [Next]_vars
               PROVE  IInv'
    OBVIOUS
  <2>1. CASE \E in \in Considered, dt \in Dts : Cycle(in, dt)
    BY <2>1, CycleInv
  <2>2. CASE Farewell
    BY <2>2, FarewellInv
  <2>3. CASE DryUnsupported
    BY <2>3, DryUnsupportedInv
  <2>4. CASE UNCHANGED vars
    BY <2>4
    DEF vars, IInv, TypeOK, HeaterNeverCools, HoldMirrorsUnit,
        ReferenceIsDelivered, HoldKeepsReference, LockIsHonest, Referenced,
        Manual
  <2> QED
    BY <2>1, <2>2, <2>3, <2>4 DEF Next
<1> QED
  BY <1>1, InitInv, PTL DEF Spec

\* Every clock of the machine stays in its range and every command is one
\* the adapter can write (FastSourceMachine, whole class).
THEOREM TypeCorrect == Spec => []TypeOK
<1>1. IInv => TypeOK
  BY DEF IInv
<1> QED
  BY <1>1, Invariance, PTL

\* During a manual hold the emitted command and the recorded reference are
\* the state the unit was found in (sync, mirror, note_command).
THEOREM HoldMirrors == Spec => [](HoldMirrorsUnit /\ HoldKeepsReference)
<1>1. IInv => HoldMirrorsUnit /\ HoldKeepsReference
  BY DEF IInv
<1> QED
  BY <1>1, Invariance, PTL

\* Feedback is only ever compared with a command emitted to a visible unit
\* (note_command, note_written, the gap branch of sync).
THEOREM ReferenceDelivered == Spec => []ReferenceIsDelivered
<1>1. IInv => ReferenceIsDelivered
  BY DEF IInv
<1> QED
  BY <1>1, Invariance, PTL

\* A heater is never commanded to cool, whatever its feedback claims
\* (_running_direction, _coordinate_fast_source, _transitional_result).
THEOREM HeaterSafe == Spec => []HeaterNeverCools
<1>1. IInv => HeaterNeverCools
  BY DEF IInv
<1> QED
  BY <1>1, Invariance, PTL

\* A running unit's surfaced lock is what is left of its minimal run
\* (mirror, decide, force_on).
THEOREM LockHonest == Spec => []LockIsHonest
<1>1. IInv => LockIsHonest
  BY DEF IInv
<1> QED
  BY <1>1, Invariance, PTL

----------------------------------------------------------------------------
(* The refinement of CompressorGuard.                                      *)

\* The machine's clock and the guard's saturate alike.
LEMMA Clocked ==
    ASSUME NEW a \in Machine, NEW dt \in Nat
    PROVE  /\ Least(a.timer + dt, TimerCap) = Guard!Capped(a.timer + dt)
           /\ a.timer = Guard!Capped(a.timer + 0)
  BY MachineAssumption DEF Least, Guard!Capped, Machine

\* A control step is a step of the guard,
LEMMA CycleGuarded ==
    ASSUME IInv, NEW in \in Considered, NEW dt \in Dts, Cycle(in, dt)
    PROVE  Guard!Next
<1>1. /\ in \in Inputs /\ dt \in Nat /\ dt \in Dts \cup {0}
      /\ m \in Machine /\ Referenced(m)
  BY Environment DEF IInv, TypeOK
<1>2. PICK s, t, d : StepResult(m, in, dt, s, t, d, Step(m, in, dt))
  BY <1>1, StepEffect
<1>3. m' = Step(m, in, dt).m /\ cause' = CauseOf(in)
  BY DEF Cycle
<1>4. /\ s \in Machine /\ t \in Machine /\ m' \in Machine
      /\ m.state \in Directions /\ m'.state \in Directions
  BY <1>1, <1>2, <1>3 DEF StepResult, SyncResult, Machine
<1>5. t.state = s.state /\ t.timer = Guard!Capped(s.timer + dt)
  BY <1>1, <1>2, <1>4, Clocked DEF StepResult
<1>6. AnyMove(t, m') /\ (~Forced(in) => FreeMove(t, m'))
  BY <1>2, <1>3 DEF StepResult, Decided, AnyMove, FreeMove, Kept
<1>7. AnyMove(m, s) /\ (~Adopts(m, in) => Kept(m, s))
  BY <1>2 DEF StepResult, SyncResult
<1>8. CASE Adopts(m, in)
  <2>1. m'.timer = 0 \/ m'.timer = Guard!Capped(dt) \/ Guard!Keep(dt)
    <3>1. s.timer = 0 => Guard!Capped(s.timer + dt) = Guard!Capped(dt)
      BY <1>1
    <3> QED
      BY <1>5, <1>6, <1>7, <3>1 DEF AnyMove, Kept, Guard!Keep
  <2>2. Guard!Adopt(dt)
    BY <1>3, <1>4, <1>8, <2>1
    DEF Guard!Adopt, Guard!Dirs, Directions, CauseOf
  <2> QED
    BY <1>1, <2>2 DEF Guard!Next
<1>9. CASE ~Adopts(m, in) /\ Forced(in)
  <2>1. Guard!Force(dt)
    BY <1>3, <1>4, <1>5, <1>6, <1>7, <1>9
    DEF Guard!Force, Guard!Keep, Guard!Dirs, Directions, CauseOf, AnyMove,
        Kept
  <2> QED
    BY <1>1, <2>1 DEF Guard!Next
<1>10. CASE ~Adopts(m, in) /\ ~Forced(in)
  <2>1. Guard!Free(dt)
    BY <1>3, <1>4, <1>5, <1>6, <1>7, <1>10
    DEF Guard!Free, Guard!Keep, Guard!Start, Guard!Stop, Guard!Dirs,
        Directions, CauseOf, FreeMove, Kept
  <2> QED
    BY <1>1, <2>1 DEF Guard!Next
<1> QED
  BY <1>8, <1>9, <1>10

\* and so is a farewell.
LEMMA FarewellGuarded ==
    ASSUME IInv, Farewell
    PROVE  Guard!Next
<1> DEFINE b == ForceOff(m)
<1>1. m \in Machine /\ b \in Machine /\ "OFF" \in Commands
  BY ForceOffType DEF IInv, TypeOK, Commands, Directions
<1>2. AnyMove(m, b) /\ b.state = "OFF"
  BY <1>1, ForceOffEffect
<1>3. Kept(b, m') /\ cause' = "force"
  BY <1>1, NoteEffect DEF Farewell, Parked
<1> HIDE DEF b
<1>4. Guard!Force(0)
  BY <1>1, <1>2, <1>3, Clocked
  DEF Guard!Force, Guard!Keep, Guard!Dirs, AnyMove, Kept
<1> QED
  BY <1>4 DEF Guard!Next

\* The room implements the compressor guard: RoomController.step advances the
\* dwell clock once, and only a force or an adoption cuts a dwell short.
THEOREM GuardImplemented == Spec => GuardSpec
<1>1. Init => Guard!Init
  BY DEF Init, Guard!Init, ColdMachine
<1>2. IInv /\ [Next]_vars => [Guard!Next]_(Guard!vars)
  <2> SUFFICES ASSUME IInv, [Next]_vars
               PROVE  Guard!Next \/ UNCHANGED Guard!vars
    OBVIOUS
  <2>1. CASE \E in \in Considered, dt \in Dts : Cycle(in, dt)
    BY <2>1, CycleGuarded
  <2>2. CASE Farewell
    BY <2>2, FarewellGuarded
  <2>3. CASE DryUnsupported
    <3>1. m \in Machine /\ "OFF" \in Commands
      BY DEF IInv, TypeOK, Commands, Directions
    <3>2. Kept(m, m') /\ cause' = cause
      BY <2>3, <3>1, NoteEffect DEF DryUnsupported
    <3> QED
      BY <3>2 DEF Guard!vars, Kept
  <2>4. CASE UNCHANGED vars
    BY <2>4 DEF vars, Guard!vars
  <2> QED
    BY <2>1, <2>2, <2>3, <2>4 DEF Next
<1> QED
  BY <1>1, <1>2, Invariance, PTL DEF Spec, GuardSpec, Guard!Spec

\* A hold that has not run out ends only with a mismatch flag
\* (_end_hold), never silently.
THEOREM HoldsEndVisibly == Spec => HoldEndsVisibly
<1> DEFINE Visibly == m.hold > MaxDt /\ m'.hold = 0 => m'.mismatch
<1>1. IInv /\ [Next]_vars => [Visibly]_vars
  <2> SUFFICES ASSUME IInv, Next, m.hold > MaxDt, m'.hold = 0
               PROVE  m'.mismatch
    OBVIOUS
  <2>0. m \in Machine /\ m.hold \in 0 .. Hold /\ MaxDt \in Nat
    BY EnvironmentAssumption DEF IInv, TypeOK, Machine
  <2>1. CASE \E in \in Considered, dt \in Dts : Cycle(in, dt)
    <3>1. PICK in \in Considered, dt \in Dts : Cycle(in, dt)
      BY <2>1
    <3>2. in \in Inputs /\ dt \in Nat /\ dt <= MaxDt /\ Referenced(m)
      BY Environment DEF IInv
    <3>3. PICK s, t, d : StepResult(m, in, dt, s, t, d, Step(m, in, dt))
      BY <2>0, <3>2, StepEffect
    <3>4. m' = Step(m, in, dt).m
      BY <3>1 DEF Cycle
    <3>5. t.hold > 0
      BY <2>0, <3>2, <3>3, MachineAssumption
      DEF StepResult, SyncResult, Minus
    <3> QED
      BY <3>3, <3>4, <3>5 DEF StepResult, Decided, HoldMove
  <2>2. CASE Farewell
    <3>1. ForceOff(m) \in Machine /\ "OFF" \in Commands
      BY <2>0, ForceOffType DEF Commands, Directions
    <3>2. HoldMove(m, ForceOff(m))
      BY <2>0, ForceOffEffect
    <3> QED
      BY <2>0, <2>2, <3>1, <3>2, NoteEffect DEF Farewell, Parked, HoldMove
  <2>3. CASE DryUnsupported
    BY <2>0, <2>3, NoteEffect
    DEF DryUnsupported, Commands, Directions
  <2> QED
    BY <2>1, <2>2, <2>3 DEF Next
<1> QED
  BY <1>1, Invariance, PTL DEF Spec, HoldEndsVisibly

----------------------------------------------------------------------------
(* The window of the quiet hours.                                          *)

\* How long after s a minute t comes round the clock.
After(t, s) == (t - s) % MinutesPerDay

LEMMA AfterIs ==
    ASSUME NEW t \in Minutes, NEW s \in Minutes
    PROVE  After(t, s) = IF t >= s THEN t - s ELSE t - s + MinutesPerDay
BY DEF After, Minutes, MinutesPerDay

\* What is parsed is a minute of the day, or nothing.
LEMMA ParsedIsMinute ==
    ASSUME NEW raw \in Seq(Int)
    PROVE  ParsedMinute(raw) \in Minutes \cup {NoTime}
<1>1. CASE Len(raw) >= 2 /\ raw[1] \in 0 .. 23 /\ raw[2] \in 0 .. 59
  <2>1. ParsedMinute(raw) = raw[1] * 60 + raw[2] BY <1>1 DEF ParsedMinute
  <2>2. \A h \in 0 .. 23, n \in 0 .. 59 : h * 60 + n \in 0 .. 1439
    OBVIOUS
  <2>3. raw[1] * 60 + raw[2] \in 0 .. 1439
    <3>. DEFINE h == raw[1]
                n == raw[2]
    <3>1. h \in 0 .. 23 /\ n \in 0 .. 59 BY <1>1
    <3>. HIDE DEF h, n
    <3>2. h * 60 + n \in 0 .. 1439 BY <3>1, <2>2
    <3>. QED BY <3>2 DEF h, n
  <2>. QED BY <2>1, <2>3 DEF Minutes, MinutesPerDay
<1>2. CASE ~(Len(raw) >= 2 /\ raw[1] \in 0 .. 23 /\ raw[2] \in 0 .. 59)
  BY <1>2 DEF ParsedMinute
<1>. QED BY <1>1, <1>2

\* window_allows, its midnight case included, is one arc of the clock: the
\* minutes reached from the start before the end is.
THEOREM WindowIsAnArc ==
    ASSUME NEW t \in Minutes, NEW start \in Minutes, NEW end \in Minutes
    PROVE  WindowAllows(t, start, end) <=> After(t, start) < After(end, start)
<1>1. After(t, start) = IF t >= start THEN t - start
                        ELSE t - start + MinutesPerDay
  BY AfterIs
<1>2. After(end, start) = IF end >= start THEN end - start
                          ELSE end - start + MinutesPerDay
  BY AfterIs
<1>3. t \in 0 .. 1439 /\ start \in 0 .. 1439 /\ end \in 0 .. 1439
      /\ MinutesPerDay = 1440
  BY DEF Minutes, MinutesPerDay
<1>. QED BY <1>1, <1>2, <1>3 DEF WindowAllows

\* The two windows between two times share no minute and miss none: swapping
\* start and end of the form turns the allowed hours into the quiet ones.
THEOREM SwappedWindowIsTheRest ==
    ASSUME NEW t \in Minutes, NEW start \in Minutes, NEW end \in Minutes,
           start # end
    PROVE  WindowAllows(t, start, end) <=> ~WindowAllows(t, end, start)
BY DEF WindowAllows, Minutes

\* _fast_source_allowed silences a source only outside a window that both
\* ends really name, and such a window leaves it some minute to run in.
THEOREM NeverSilentForGood ==
    ASSUME NEW rawStart \in Seq(Int), NEW rawEnd \in Seq(Int)
    PROVE  \E now \in Minutes : Allowed(rawStart, rawEnd, now)
<1>. DEFINE start == ParsedMinute(rawStart)
            end   == ParsedMinute(rawEnd)
<1>1. start \in Minutes \cup {NoTime} /\ end \in Minutes \cup {NoTime}
  BY ParsedIsMinute
<1>2. CASE NoTime \in {start, end} \/ start = end
  <2>1. 0 \in Minutes BY DEF Minutes, MinutesPerDay
  <2>2. Allowed(rawStart, rawEnd, 0) BY <1>2 DEF Allowed
  <2>. QED BY <2>1, <2>2
<1>3. CASE ~(NoTime \in {start, end} \/ start = end)
  <2>1. start \in Minutes /\ end \in Minutes /\ start # end BY <1>1, <1>3
  <2>2. WindowAllows(start, start, end)
    <3>. HIDE DEF start, end
    <3>. QED BY <2>1 DEF WindowAllows, Minutes
  <2>3. Allowed(rawStart, rawEnd, start) BY <2>2 DEF Allowed
  <2>. QED BY <2>1, <2>3
<1>. QED BY <1>2, <1>3

----------------------------------------------------------------------------
(* Delivery: one cycle, and the commands on their way, taken apart.        *)

\* A command on its way.
Entries == [c : Commands, age : 0 .. Lag]

\* What a step reads is an input of the machine's step.
LEMMA InputTyped ==
    ASSUME DeliveryTypeOK, NEW c \in Choices, NEW dist
    PROVE  /\ InputOf(c, dist) \in Inputs
           /\ InputOf(c, dist).alarms = {}
           /\ InputOf(c, dist).phys = Reading(dist)
           /\ InputOf(c, dist).mode = IF room = "off" THEN "OFF" ELSE c.mode
<1>1. Reading(dist) \in Readings
  BY DEF Reading, Hvac, DeliveryTypeOK, Settings, Readings
<1>2. c \in [mode : Modes, lost : BOOLEAN, err : Errors,
             dew : {"unknown", "low", "band", "high"}]
  BY DeliveryAssumption
<1> QED
  BY <1>1, <1>2 DEF InputOf, Inputs, Modes, Alarms

\* A command joins the others behind them.
LEMMA Sending ==
    ASSUME DeliveryTypeOK, NEW x \in Commands
    PROVE  LET f == Send(x)
           IN  /\ f \in Seq(Entries) /\ Len(f) = Len(flight) + 1
               /\ f # <<>> /\ DOMAIN f = 1 .. Len(flight) + 1
               /\ DOMAIN flight = 1 .. Len(flight)
               /\ \A i \in 1 .. Len(flight) : f[i] = flight[i]
               /\ f[Len(f)].c = x /\ f[Len(f)].age = 0
<1> DEFINE y == [c |-> x, age |-> 0]
<1>1. y \in Entries /\ y.c = x /\ y.age = 0
  BY DeliveryAssumption DEF Entries
<1> HIDE DEF y
<1>2. Send(x) = Append(flight, y)
  BY DEF Send, y
<1> QED
  BY <1>1, <1>2 DEF DeliveryTypeOK, Entries

\* The one at the head leaves.
LEMMA Executing ==
    ASSUME DeliveryTypeOK, flight # <<>>
    PROVE  LET f == Tail(flight)
           IN  /\ f \in Seq(Entries) /\ Len(f) = Len(flight) - 1
               /\ Len(flight) \in Nat \ {0}
               /\ Head(flight) = flight[1] /\ flight[1] \in Entries
               /\ \A i \in 1 .. Len(f) : f[i] = flight[i + 1]
               /\ DOMAIN f = 1 .. Len(flight) - 1
               /\ DOMAIN flight = 1 .. Len(flight)
<1>1. flight \in Seq(Entries)
  BY DEF DeliveryTypeOK, Entries
<1>2. /\ Tail(flight) \in Seq(Entries) /\ Len(Tail(flight)) = Len(flight) - 1
      /\ \A i \in 1 .. Len(Tail(flight)) : Tail(flight)[i] = flight[i + 1]
  BY <1>1, HeadTailProperties
<1>3. Len(flight) \in Nat \ {0} /\ DOMAIN flight = 1 .. Len(flight)
  BY <1>1, EmptySeq, LenProperties
<1>4. Head(flight) = flight[1] /\ flight[1] \in Entries
  BY <1>1, <1>3, ElementOfSeq
<1>5. DOMAIN Tail(flight) = 1 .. Len(flight) - 1
  BY <1>2, LenProperties
<1> QED
  BY <1>2, <1>3, <1>4, <1>5

\* They all age together.
LEMMA Ageing ==
    ASSUME DeliveryTypeOK, Pass
    PROVE  /\ flight' \in Seq(Entries) /\ Len(flight') = Len(flight)
           /\ DOMAIN flight' = DOMAIN flight
           /\ \A i \in DOMAIN flight : /\ flight'[i].c = flight[i].c
                                       /\ flight'[i].age = flight[i].age + 1
<1>0. flight \in Seq(Entries)
  BY DEF DeliveryTypeOK, Entries
<1>1. /\ Len(flight) \in Nat /\ DOMAIN flight = 1 .. Len(flight)
      /\ \A i \in DOMAIN flight : flight[i] \in Entries /\ flight[i].age < Lag
  BY <1>0, LenProperties, ElementOfSeq DEF Pass
<1>2. flight' = [i \in DOMAIN flight |->
                    [flight[i] EXCEPT !.age = flight[i].age + 1]]
  BY DEF Pass
<1>3. \A i \in DOMAIN flight :
         /\ flight'[i] \in Entries /\ flight'[i].c = flight[i].c
         /\ flight'[i].age = flight[i].age + 1
  BY <1>1, <1>2, DeliveryAssumption DEF Entries
<1>4. DOMAIN flight' = 1 .. Len(flight)
  BY <1>1, <1>2
<1>5. flight' \in [1 .. Len(flight) -> Entries]
  BY <1>1, <1>2, <1>3
<1>6. flight' \in Seq(Entries) /\ Len(flight') = Len(flight)
  BY <1>1, <1>4, <1>5, SeqDef, LenProperties
<1> QED
  BY <1>1, <1>3, <1>4, <1>6

\* What RoomCycle reads: the distrust, the machine, the time and the input of
\* the step, and its result.
Dist == IF Retried THEN CycleLen ELSE stamp
Old == IF Retried THEN Stopped(machine) ELSE machine
Dt == IF first THEN CycleLen ELSE elapsed
In(c) == InputOf(c, Dist)
Res(c) == Step(Old, In(c), Dt)

\* What it may do to the cache and to the commands on their way.
Written(x) == cache' = x /\ flight' = Send(x)
Unwritten == cache' = cache /\ flight' = flight
Forgotten == cache' = None /\ flight' = flight

\* A cycle of a room that waits for its first reading.
Resting == /\ machine' = Old /\ first' \in {first, FALSE} /\ grace' = grace
           /\ surprise' = surprise /\ claim' = claim
           /\ IF Retried THEN Written("OFF") ELSE Unwritten

\* A dry run written as OFF; NoDemotion: there is none.
Demoted(c) == Res(c).cmd = "DRY" /\ ~DryModes
NoDemotion == DryModes \/ Kind = "HEATER"

\* The core has caught up with the unit.
Absorbed == /\ machine'.visible /\ flight = <<>>
            /\ ~Diverges(machine', unit)
            /\ ~Diverges(machine', Outcome(flight'))

\* A cycle that steps the machine.
Stepped(c) ==
    /\ first' = FALSE /\ grace' \in {grace, 0}
    /\ surprise' = IF Absorbed THEN {} ELSE surprise \cup Misread(Dist)
    /\ claim' = IF Forced(In(c)) THEN 0 ELSE claim
    /\ IF Retried THEN machine' = Res(c).m /\ Written("OFF")
       ELSE IF room = "off" THEN machine' = Res(c).m /\ Unwritten
       ELSE IF Manual(Res(c).m) THEN machine' = Res(c).m /\ Forgotten
       ELSE IF link = "down" THEN machine' = Res(c).m /\ Unwritten
       ELSE IF Demoted(c)
            THEN /\ machine' = NoteWritten(Res(c).m, "OFF")
                 /\ Written("OFF") \/ (cache = "OFF" /\ Unwritten)
       ELSE /\ machine' = Res(c).m
            /\ Written(Res(c).cmd) \/ (cache = Res(c).cmd /\ Unwritten)

\* A cycle either leaves a room that waits for its first reading alone, or
\* steps its machine and writes what the room's state and the link allow.
LEMMA CycleForms ==
    ASSUME DeliveryTypeOK, NEW c \in Choices, NEW again \in BOOLEAN,
           RoomCycle(c, again)
    PROVE  /\ elapsed > 0 /\ ~due /\ Len(flight) < MaxFlight /\ elapsed' = 0
           /\ pending' = (pending /\ room = "off" /\ ~Retried)
           /\ stamp' = Dist
           /\ UNCHANGED <<due, room, link, unit, age, by>>
           /\ Resting \/ Stepped(c)
<1>1. room \in {"live", "off"} /\ (Retried => room = "off")
  BY DEF DeliveryTypeOK, Retried
<1>2. CASE Waiting(c)
  BY <1>2 DEF RoomCycle, ghosts, Resting, Dist, Old, Written, Unwritten
<1>3. CASE ~Waiting(c)
  <2>1. /\ elapsed > 0 /\ ~due /\ Len(flight) < MaxFlight /\ elapsed' = 0
        /\ pending' = (pending /\ room = "off" /\ ~Retried)
        /\ stamp' = Dist
        /\ UNCHANGED <<due, room, link, unit, age, by>>
        /\ first' = FALSE /\ grace' \in {grace, 0}
        /\ surprise' = IF Absorbed THEN {} ELSE surprise \cup Misread(Dist)
        /\ claim' = IF Forced(In(c)) THEN 0 ELSE claim
    BY <1>3 DEF RoomCycle, Dist, Old, In, Absorbed
  <2>2. IF Retried
        THEN machine' = Res(c).m /\ cache' = "OFF" /\ flight' = Send("OFF")
        ELSE IF room = "live" THEN Write(Res(c), again)
        ELSE machine' = Res(c).m /\ UNCHANGED <<cache, flight>>
    BY <1>3 DEF RoomCycle, Dist, Old, In, Res, Dt
  <2>3. CASE Retried \/ room = "off"
    BY <2>1, <2>2, <2>3, <1>1 DEF Stepped, Written, Unwritten
  <2>4. CASE ~Retried /\ room = "live"
    <3>1. Write(Res(c), again)
      BY <2>2, <2>4
    <3>2. CASE Manual(Res(c).m) \/ link = "down"
      BY <2>1, <2>4, <3>1, <3>2
      DEF Write, Sent, Stepped, Forgotten, Unwritten, Reachable
    <3>3. CASE ~Manual(Res(c).m) /\ link # "down"
      BY <2>1, <2>4, <3>1, <3>3
      DEF Write, Sent, Stepped, Written, Unwritten, Reachable, Demoted
    <3> QED
      BY <3>2, <3>3
  <2> QED
    BY <2>1, <2>3, <2>4, <1>1
<1> QED
  BY <1>2, <1>3

\* What the machine was before the step, a retried farewell included.
LEMMA OldMachine ==
    ASSUME DeliveryTypeOK, Referenced(machine)
    PROVE  /\ Old \in Machine /\ Referenced(Old)
           /\ Retried => Old.state = "OFF" /\ Recorded(Old)
           /\ Dt \in 0 .. CycleLen /\ Dist \in 0 .. CycleLen
<1>1. CycleLen \in Nat /\ machine \in Machine
      /\ elapsed \in 0 .. CycleLen /\ stamp \in 0 .. CycleLen
  BY DeliveryAssumption DEF DeliveryTypeOK
<1>2. /\ Stopped(machine) \in Machine /\ Stopped(machine).state = "OFF"
      /\ Referenced(Stopped(machine)) /\ Recorded(Stopped(machine))
  BY <1>1, ParkReferenced DEF Stopped
<1> QED
  BY <1>1, <1>2 DEF Old, Dt, Dist

\* A dry run is commanded without a hold.
LEMMA DryWithoutHold ==
    ASSUME NEW a \in Machine, NEW in \in Inputs, NEW dt \in Nat, Referenced(a),
           Step(a, in, dt).cmd = "DRY"
    PROVE  Step(a, in, dt).m.hold = 0
<1>1. PICK s, t, d : StepResult(a, in, dt, s, t, d, Step(a, in, dt))
  BY StepEffect
<1> QED
  BY <1>1 DEF StepResult, Decided

\* After a cycle the machine is well typed and its reference consistent.
LEMMA CycleMachine ==
    ASSUME DeliveryTypeOK, Referenced(machine), NEW c \in Choices,
           NEW again \in BOOLEAN, RoomCycle(c, again)
    PROVE  /\ machine' \in Machine /\ Referenced(machine')
           /\ Res(c).cmd \in Commands
<1>1. /\ Old \in Machine /\ Referenced(Old) /\ Dt \in Nat
      /\ In(c) \in Inputs
  BY OldMachine, InputTyped DEF In
<1>2. /\ Res(c).m \in Machine /\ Res(c).cmd \in Commands
      /\ Referenced(Res(c).m)
  BY <1>1, StepReferenced DEF Res
<1>3. machine' = Old \/ machine' = Res(c).m
      \/ (Demoted(c) /\ machine' = NoteWritten(Res(c).m, "OFF"))
  BY CycleForms DEF Resting, Stepped
<1>4. CASE Demoted(c) /\ machine' = NoteWritten(Res(c).m, "OFF")
  <2>1. Res(c).m.hold = 0
    BY <1>1, <1>4, DryWithoutHold DEF Res, Demoted
  <2>2. "OFF" \in Commands
    BY DEF Commands, Directions
  <2>3. LET w == NoteWritten(Res(c).m, "OFF")
        IN  /\ w \in Machine /\ w.hold = 0
            /\ w.visible <=> Res(c).m.visible
            /\ w.synced <=> Res(c).m.synced
            /\ w.prev = IF Res(c).m.visible THEN "OFF" ELSE Res(c).m.prev
    BY <1>2, <2>1, <2>2, NoteType, NoteEffect
  <2> QED
    BY <1>2, <1>4, <2>3 DEF Referenced, None
<1> QED
  BY <1>1, <1>2, <1>3, <1>4

----------------------------------------------------------------------------
(* Delivery is well typed.                                                 *)

\* What every step rests on: types, and a reference only for a seen unit.
Base == DeliveryTypeOK /\ Referenced(machine)

\* The first machine knows nothing.
LEMMA ColdTyped ==
    /\ ColdMachine \in Machine /\ Referenced(ColdMachine)
    /\ Recorded(ColdMachine)
<1>1. ColdMachine \in Machine
  BY Clocks, MachineAssumption DEF ColdMachine, Machine, Directions, Commands
<1> QED
  BY <1>1 DEF ColdMachine, Referenced, Recorded

\* It holds at first.
LEMMA BaseInit == DeliveryInit => Base
<1> SUFFICES ASSUME DeliveryInit
             PROVE  Base
  OBVIOUS
<1>1. /\ CycleLen \in 0 .. CycleLen /\ 0 \in 0 .. CycleLen
      /\ 2 * CycleLen \in 0 .. 2 * CycleLen /\ 0 \in 0 .. Promise
      /\ TimerCap \in 0 .. TimerCap /\ 0 <= MaxFlight
  BY DeliveryAssumption, MachineAssumption
<1>2. flight \in Seq([c : Commands, age : 0 .. Lag]) /\ Len(flight) = 0
  BY EmptySeq DEF DeliveryInit
<1>3. link \in Links /\ unit \in Settings
  BY DEF DeliveryInit, Settings
<1> QED
  BY <1>1, <1>2, <1>3, ColdTyped DEF DeliveryInit, Base, DeliveryTypeOK

\* A cycle keeps it.
LEMMA BaseCycle ==
    ASSUME Base, NEW c \in Choices, NEW again \in BOOLEAN,
           RoomCycle(c, again)
    PROVE  Base'
<1>1. /\ machine' \in Machine /\ Referenced(machine')
      /\ Res(c).cmd \in Commands
  BY CycleMachine DEF Base
<1>2. /\ Len(flight) < MaxFlight /\ elapsed' = 0
      /\ pending' = (pending /\ room = "off" /\ ~Retried)
      /\ stamp' = Dist
      /\ UNCHANGED <<due, room, link, unit, age, by>>
      /\ Resting \/ Stepped(c)
  BY CycleForms DEF Base
<1>3. Dist \in 0 .. CycleLen /\ CycleLen \in Nat /\ MaxFlight \in Nat
      /\ Promise \in Nat
  BY OldMachine, DeliveryAssumption DEF Base
<1>4. PICK x \in Commands : Written(x) \/ Unwritten \/ Forgotten
  <2>1. "OFF" \in Commands
    BY DEF Commands, Directions
  <2>2. Written("OFF") \/ Written(Res(c).cmd) \/ Unwritten \/ Forgotten
    BY <1>2 DEF Resting, Stepped
  <2> QED
    BY <1>1, <2>1, <2>2
<1>5. flight' \in Seq(Entries) /\ Len(flight') <= MaxFlight
      /\ cache' \in Commands \cup {None}
  <2>1. Len(flight) \in Nat /\ flight \in Seq(Entries)
        /\ cache \in Commands \cup {None}
    BY LenProperties DEF Base, DeliveryTypeOK, Entries
  <2>2. Send(x) \in Seq(Entries) /\ Len(Send(x)) = Len(flight) + 1
    BY Sending DEF Base
  <2> QED
    BY <1>2, <1>3, <1>4, <2>1, <2>2 DEF Written, Unwritten, Forgotten
<1>6. /\ first' \in BOOLEAN /\ grace' \in 0 .. 2 * CycleLen
      /\ claim' \in 0 .. Promise
      /\ surprise' \subseteq {"touch", "lost", "unsent", "distrust"}
  <2>1. first' \in BOOLEAN
    BY <1>2 DEF Resting, Stepped, Base, DeliveryTypeOK
  <2>2. grace' \in {grace, 0} /\ claim' \in {claim, 0}
    BY <1>2 DEF Resting, Stepped
  <2>3. surprise' \subseteq {"touch", "lost", "unsent", "distrust"}
    BY <1>2 DEF Resting, Stepped, Misread, Base, DeliveryTypeOK
  <2>4. grace \in 0 .. 2 * CycleLen /\ claim \in 0 .. Promise
    BY DEF Base, DeliveryTypeOK
  <2> QED
    BY <1>3, <2>1, <2>2, <2>3, <2>4
<1>7. room' \in {"live", "off"} /\ pending' \in BOOLEAN /\ due' \in BOOLEAN
      /\ link' \in Links /\ unit' \in Settings
      /\ age' \in 0 .. TimerCap /\ by' \in {"core", "other"}
  BY <1>2 DEF Base, DeliveryTypeOK
<1> QED
  BY <1>1, <1>2, <1>3, <1>5, <1>6, <1>7 DEF Base, DeliveryTypeOK, Entries

\* Every command the unit executes leaves it in a setting of its own.
LEMMA EffectSets ==
    ASSUME NEW x \in Commands
    PROVE  Effect(x) \in Settings
  BY DEF Effect, Settings, Commands, Directions

\* So does the execution of a command.
LEMMA BaseExecute ==
    ASSUME Base, Execute
    PROVE  Base'
<1>1. /\ flight' \in Seq(Entries) /\ Len(flight') = Len(flight) - 1
      /\ Len(flight) \in Nat /\ Head(flight) \in Entries
  BY Executing DEF Base, Execute
<1>2. unit' \in Settings
  BY <1>1, EffectSets DEF Execute, Entries
<1>3. age' \in 0 .. TimerCap /\ by' \in {"core", "other"}
  BY MachineAssumption DEF Execute, Toggled, Base, DeliveryTypeOK
<1> QED
  BY <1>1, <1>2, <1>3, DeliveryAssumption
  DEF Base, DeliveryTypeOK, Execute, Entries, core, ghosts

\* So does a lost command.
LEMMA BaseLose ==
    ASSUME Base, Lose
    PROVE  Base'
<1>1. /\ flight' \in Seq(Entries) /\ Len(flight') = Len(flight) - 1
      /\ Len(flight) \in Nat
  BY Executing DEF Base, Lose
<1> QED
  BY <1>1, DeliveryAssumption DEF Base, DeliveryTypeOK, Lose, Entries, core

\* So does the user.
LEMMA BaseTouch ==
    ASSUME Base, NEW p \in Units, Touch(p)
    PROVE  Base'
<1>1. unit' \in Settings /\ age' \in 0 .. TimerCap /\ claim' \in 0 .. Promise
  BY MachineAssumption, DeliveryAssumption
  DEF Touch, Toggled, Base, DeliveryTypeOK
<1> QED
  BY <1>1 DEF Base, DeliveryTypeOK, Touch, core

\* So does the radio.
LEMMA BaseLinkChange ==
    ASSUME Base, LinkChange
    PROVE  Base'
  BY DeliveryAssumption
  DEF Base, DeliveryTypeOK, LinkChange, core, plant

\* So does time.
LEMMA BasePass ==
    ASSUME Base, Pass
    PROVE  Base'
<1>1. /\ flight' \in Seq(Entries) /\ Len(flight') = Len(flight)
  BY Ageing DEF Base
<1>2. /\ elapsed' \in 0 .. CycleLen /\ stamp' \in 0 .. CycleLen
      /\ grace' \in 0 .. 2 * CycleLen /\ age' \in 0 .. TimerCap
      /\ claim' \in 0 .. Promise
  <2>1. /\ elapsed \in 0 .. CycleLen /\ stamp \in 0 .. CycleLen
        /\ grace \in 0 .. 2 * CycleLen /\ age \in 0 .. TimerCap
        /\ claim \in 0 .. Promise
    BY DEF Base, DeliveryTypeOK
  <2>2. /\ elapsed < CycleLen /\ elapsed' = elapsed + 1
        /\ stamp' = Minus(stamp, 1) /\ grace' = Minus(grace, 1)
        /\ age' = Least(age + 1, TimerCap) /\ claim' = Minus(claim, 1)
    BY DEF Pass
  <2> QED
    BY <2>1, <2>2, DeliveryAssumption, MachineAssumption DEF Minus, Least
<1> QED
  BY <1>1, <1>2 DEF Base, DeliveryTypeOK, Pass, Entries

\* So does leaving or entering live.
LEMMA BaseSwitches ==
    ASSUME Base, SwitchOff \/ SwitchOn
    PROVE  Base'
<1>1. /\ UNCHANGED <<machine, cache, stamp, elapsed, first, grace, link,
                     flight, unit, age, by, surprise>>
      /\ claim' \in {claim, 0} /\ room' \in {"live", "off"}
      /\ pending' \in BOOLEAN /\ due' \in BOOLEAN
  BY DEF Base, DeliveryTypeOK, SwitchOff, SwitchOn, plant, ghosts
<1>2. claim' \in 0 .. Promise
  BY <1>1, DeliveryAssumption DEF Base, DeliveryTypeOK
<1> QED
  BY <1>1, <1>2 DEF Base, DeliveryTypeOK

\* The farewell's machine.
LEMMA StoppedMachine ==
    ASSUME Base
    PROVE  Stopped(machine) \in Machine /\ Referenced(Stopped(machine))
  BY ParkReferenced DEF Stopped, Base, DeliveryTypeOK

\* An OFF sent outside the cycle keeps the types of what it writes.
LEMMA DispatchTyped ==
    ASSUME Base, Len(flight) < MaxFlight
    PROVE  /\ Send("OFF") \in Seq(Entries) /\ Len(Send("OFF")) <= MaxFlight
           /\ "OFF" \in Commands /\ CycleLen \in 0 .. CycleLen
<1>1. "OFF" \in Commands
  BY DEF Commands, Directions
<1>2. Len(flight) \in Nat
  BY LenProperties DEF Base, DeliveryTypeOK
<1>3. Send("OFF") \in Seq(Entries) /\ Len(Send("OFF")) = Len(flight) + 1
  BY <1>1, Sending DEF Base
<1> QED
  BY <1>1, <1>2, <1>3, DeliveryAssumption

\* So does the farewell task.
LEMMA BaseFarewell ==
    ASSUME Base, FarewellTask
    PROVE  Base'
<1>1. machine' \in Machine /\ Referenced(machine')
  BY StoppedMachine DEF FarewellTask
<1>2. /\ flight' \in Seq(Entries) /\ Len(flight') <= MaxFlight
      /\ cache' \in Commands \cup {None} /\ stamp' \in 0 .. CycleLen
  BY DispatchTyped DEF FarewellTask, Dispatched, Base, DeliveryTypeOK, Entries
<1>3. surprise' \subseteq {"touch", "lost", "unsent", "distrust"}
      /\ claim' \in 0 .. Promise /\ pending' \in BOOLEAN
  BY DeliveryAssumption DEF FarewellTask, Base, DeliveryTypeOK, Reachable
<1> QED
  BY <1>1, <1>2, <1>3 DEF Base, DeliveryTypeOK, FarewellTask, Entries

\* So do a reload and a restart.
LEMMA BaseRebuilds ==
    ASSUME Base, Reload \/ Restart
    PROVE  Base'
<1>1. machine' \in Machine /\ Referenced(machine')
      /\ pending' \in BOOLEAN /\ elapsed' \in 0 .. CycleLen
      /\ first' \in BOOLEAN /\ grace' \in 0 .. 2 * CycleLen
      /\ claim' \in 0 .. Promise /\ cache' = None
  <2>1. /\ machine' = ColdMachine /\ pending' = FALSE /\ cache' = None
        /\ elapsed' = CycleLen /\ first' = TRUE /\ grace' = 2 * CycleLen
        /\ claim' = 0
    BY DEF Reload, Restart, Rebuilt
  <2>2. CycleLen \in 0 .. CycleLen /\ 2 * CycleLen \in 0 .. 2 * CycleLen
        /\ 0 \in 0 .. Promise
    BY DeliveryAssumption
  <2> QED
    BY <2>1, <2>2, ColdTyped
<1>2. /\ flight' \in Seq(Entries) /\ Len(flight') <= MaxFlight
      /\ stamp' \in 0 .. CycleLen
  BY DispatchTyped, DeliveryAssumption
  DEF Reload, Restart, Base, DeliveryTypeOK, Entries, plant
<1>3. /\ room' = room /\ link' \in Links /\ due' \in BOOLEAN
      /\ unit' = unit /\ age' = age /\ by' = by
      /\ surprise' \subseteq {"touch", "lost", "unsent", "distrust"}
  BY DEF Reload, Restart, Base, DeliveryTypeOK, plant
<1> QED
  BY <1>1, <1>2, <1>3 DEF Base, DeliveryTypeOK, Entries

\* So it holds always.
LEMMA BaseInvariant == DeliverySpec => []Base
<1>1. Base /\ [DeliveryNext]_deliveryVars => Base'
  <2> SUFFICES ASSUME Base, [DeliveryNext]_deliveryVars
               PROVE  Base'
    OBVIOUS
  <2>1. CASE UNCHANGED deliveryVars
    BY <2>1 DEF deliveryVars, core, plant, ghosts, Base, DeliveryTypeOK
  <2> QED
    BY <2>1, BaseCycle, BaseExecute, BaseLose, BaseTouch, BaseLinkChange,
       BasePass, BaseSwitches, BaseFarewell, BaseRebuilds
    DEF DeliveryNext
<1> QED
  BY <1>1, BaseInit, PTL DEF DeliverySpec

\* The machine, the caches, the clocks and the commands in flight keep their
\* types over cycles, farewells, reloads and restarts.
THEOREM DeliveryTyped == DeliverySpec => []DeliveryTypeOK
<1>1. Base => DeliveryTypeOK
  BY DEF Base
<1> QED
  BY <1>1, BaseInvariant, PTL

----------------------------------------------------------------------------
(* Rooms that are off, and touches.                                        *)

\* What the unit will do changes only with what is sent.
LEMMA OutcomeOfSent ==
    ASSUME DeliveryTypeOK, NEW x \in Commands
    PROVE  Outcome(Send(x)) = Effect(x)
  BY Sending DEF Outcome

\* An execution does not change what the unit will do.
LEMMA OutcomeOfExecuted ==
    ASSUME DeliveryTypeOK, Execute
    PROVE  Outcome(flight)' = Outcome(flight)
<1>1. /\ Len(flight') = Len(flight) - 1 /\ Len(flight) \in Nat \ {0}
      /\ Head(flight) = flight[1] /\ flight' \in Seq(Entries)
      /\ \A i \in 1 .. Len(flight') : flight'[i] = flight[i + 1]
      /\ flight # <<>> /\ unit' = Effect(flight[1].c)
  BY Executing DEF Execute
<1>2. CASE flight' = <<>>
  <2>1. Len(flight') = 0
    BY <1>2, EmptySeq
  <2>2. Len(flight) = 1
    BY <1>1, <2>1
  <2>3. Outcome(flight) = Effect(flight[1].c)
    BY <1>1, <2>2 DEF Outcome
  <2>4. Outcome(flight)' = unit'
    BY <1>2 DEF Outcome
  <2> QED
    BY <1>1, <2>3, <2>4
<1>3. CASE flight' # <<>>
  <2>1. Len(flight') \in Nat \ {0}
    BY <1>1, <1>3, EmptySeq
  <2>2. flight'[Len(flight')] = flight[Len(flight)]
    BY <1>1, <2>1
  <2> QED
    BY <1>1, <1>3, <2>2 DEF Outcome
<1> QED
  BY <1>2, <1>3

\* Nor does time.
LEMMA OutcomeOfAged ==
    ASSUME DeliveryTypeOK, Pass
    PROVE  Outcome(flight)' = Outcome(flight)
<1>1. /\ Len(flight') = Len(flight) /\ unit' = unit
      /\ DOMAIN flight = 1 .. Len(flight) /\ Len(flight) \in Nat
      /\ \A i \in DOMAIN flight : flight'[i].c = flight[i].c
      /\ flight \in Seq(Entries) /\ flight' \in Seq(Entries)
  BY Ageing, LenProperties DEF Pass, DeliveryTypeOK, Entries
<1>2. flight' = <<>> <=> flight = <<>>
  BY <1>1, EmptySeq
<1>3. flight # <<>> => Len(flight) \in DOMAIN flight
  BY <1>1, EmptySeq
<1> QED
  BY <1>1, <1>2, <1>3 DEF Outcome

\* A room that is off has a unit that is stopped or about to be.
OffRoomStopped ==
    room = "off" /\ surprise = {} /\ ~due => Outcome(flight) = "off"

\* A step of a room that is off emits OFF, and a visible unit that does not
\* disagree with it has stopped.
LEMMA OffStep ==
    ASSUME Base, NEW c \in Choices, NEW again \in BOOLEAN,
           RoomCycle(c, again), room = "off", Stepped(c)
    PROVE  Absorbed => unit = "off"
<1> SUFFICES ASSUME Absorbed
             PROVE  unit = "off"
  OBVIOUS
<1>1. /\ Old \in Machine /\ Referenced(Old) /\ Dt \in Nat
      /\ In(c) \in Inputs /\ In(c).alarms = {} /\ In(c).mode = "OFF"
  BY OldMachine, InputTyped DEF In, Base
<1>2. Delivers(Old, In(c), Dt, Res(c))
  BY <1>1, CalmStep, DeliveryAssumption DEF Res
<1>3. machine' = Res(c).m
  BY DEF Stepped
<1>4. machine'.prev = "OFF"
  <2>1. machine'.visible /\ Res(c).m.state = "OFF"
    BY <1>1, <1>2 DEF Absorbed, Delivers
  <2>2. Res(c).cmd = "OFF"
    BY <1>2, <2>1 DEF Delivers, DirectionOf
  <2> QED
    BY <1>2, <1>3, <2>1, <2>2 DEF Delivers
<1>5. ~Running(unit)
  BY <1>4 DEF Absorbed, Diverges, None
<1> QED
  BY <1>5 DEF Running, Base, DeliveryTypeOK, Settings

\* Every step keeps it.
LEMMA OffRoomInductive ==
    ASSUME Base, OffRoomStopped, [DeliveryNext]_deliveryVars
    PROVE  OffRoomStopped'
<1> SUFFICES ASSUME room' = "off", surprise' = {}, ~due'
             PROVE  Outcome(flight)' = "off"
  BY DEF OffRoomStopped
<1>0. "OFF" \in Commands /\ Effect("OFF") = "off" /\ DeliveryTypeOK
  BY DEF Commands, Directions, Effect, Base
<1>1. ASSUME NEW c \in Choices, NEW again \in BOOLEAN, RoomCycle(c, again)
      PROVE  Outcome(flight)' = "off"
  <2>1. /\ room = "off" /\ ~due /\ unit' = unit
        /\ Resting \/ Stepped(c)
    BY <1>0, <1>1, CycleForms
  <2>2. CASE Written("OFF")
    <3>1. flight' = Send("OFF")
      BY <2>2 DEF Written
    <3>2. flight' # <<>> /\ flight'[Len(flight')].c = "OFF"
      BY <1>0, <3>1, Sending
    <3> QED
      BY <1>0, <3>2 DEF Outcome
  <2>3. CASE ~Written("OFF")
    <3>1. flight' = flight /\ Outcome(flight)' = Outcome(flight)
      BY <2>1, <2>3 DEF Resting, Stepped, Unwritten, Outcome
    <3>2. CASE Resting
      BY <2>1, <3>1, <3>2 DEF Resting, OffRoomStopped
    <3>3. CASE Stepped(c) /\ Absorbed
      BY <1>1, <2>1, <3>1, <3>3, OffStep DEF Absorbed, Outcome
    <3>4. CASE Stepped(c) /\ ~Absorbed
      BY <2>1, <3>1, <3>4 DEF Stepped, OffRoomStopped
    <3> QED
      BY <2>1, <3>2, <3>3, <3>4
  <2> QED
    BY <2>2, <2>3
<1>2. CASE Execute
  BY <1>0, <1>2, OutcomeOfExecuted
  DEF Execute, OffRoomStopped, core, ghosts
<1>3. CASE Pass
  BY <1>0, <1>3, OutcomeOfAged DEF Pass, OffRoomStopped
<1>4. CASE Lose \/ \E p \in Units : Touch(p)
  BY <1>4 DEF Lose, Touch
<1>5. CASE LinkChange \/ SwitchOff \/ SwitchOn
  BY <1>5 DEF LinkChange, SwitchOff, SwitchOn, OffRoomStopped, Outcome, core,
              plant, ghosts
<1>6. CASE FarewellTask
  <2>1. Reachable /\ flight' = Send("OFF")
    BY <1>6 DEF FarewellTask, Dispatched
  <2>2. flight' # <<>> /\ flight'[Len(flight')].c = "OFF"
    BY <1>0, <2>1, Sending
  <2> QED
    BY <1>0, <2>2 DEF Outcome
<1>7. CASE Reload
  BY <1>7 DEF Reload, OffRoomStopped, Outcome
<1>8. CASE Restart
  BY <1>8 DEF Restart, OffRoomStopped, Outcome, plant
<1>9. CASE UNCHANGED deliveryVars
  BY <1>9 DEF deliveryVars, core, plant, ghosts, OffRoomStopped, Outcome
<1> QED
  BY <1>1, <1>2, <1>3, <1>4, <1>5, <1>6, <1>7, <1>8, <1>9
  DEF DeliveryNext

\* A room that is off, undisturbed and without a farewell on its way has a
\* stopped unit, over gaps, late commands, retries, reloads and restarts.
THEOREM OffRoomsStop == DeliverySpec => []OffRoomIsStopped
<1>1. DeliveryInit => OffRoomStopped
  BY DEF DeliveryInit, OffRoomStopped
<1>2. OffRoomStopped => OffRoomIsStopped
  BY DEF OffRoomStopped, OffRoomIsStopped, Outcome
<1> QED
  BY <1>1, <1>2, OffRoomInductive, BaseInvariant, PTL DEF DeliverySpec

\* While a touch is protected nothing is on its way to the unit, and what
\* the core next does about it is settled: it either still has to see the
\* touch, or holds it for long enough.
TouchKept ==
    /\ first => ~machine.synced
    /\ claim > 0 =>
        /\ link = "up" /\ room = "live" /\ ~due /\ stamp = 0
        /\ flight = <<>> /\ machine.synced /\ claim <= Promise
        /\ \/ Diverges(machine, unit) /\ Hold > 0 /\ machine.since >= HalfCycle
           \/ machine.hold >= claim + elapsed

\* The hold outlasts the promised protection by a cycle.
LongHolds == Promise + CycleLen <= Hold

\* A protected touch is seen by the next unforced step, or held already, and
\* the step's hold outlasts the protection.
LEMMA TouchStep ==
    ASSUME LongHolds, Base, TouchKept, NEW c \in Choices, claim > 0,
           ~Retried, ~Forced(In(c))
    PROVE  /\ Res(c).m.hold >= claim /\ Res(c).m.synced
           /\ Res(c).m.hold \in Nat
<1>1. /\ Old \in Machine /\ Referenced(Old) /\ Dt \in 0 .. CycleLen
      /\ In(c) \in Inputs /\ In(c).alarms = {}
      /\ In(c).phys = Reading(Dist) /\ Old = machine /\ Dist = stamp
  BY OldMachine, InputTyped DEF In, Base, Old, Dist
<1>2. /\ CycleLen \in Nat /\ Hold \in Nat /\ Promise \in Nat /\ claim \in Nat
      /\ machine.hold \in Nat /\ elapsed \in 0 .. CycleLen
  BY DeliveryAssumption, MachineAssumption
  DEF Base, DeliveryTypeOK, Machine
<1>3. Delivers(Old, In(c), Dt, Res(c)) /\ HoldsFrom(Old, In(c), Dt, Res(c))
  BY <1>1, <1>2, CalmStep, DeliveryAssumption DEF Res
<1>4. In(c).phys = unit /\ unit # "gap"
  BY <1>1 DEF TouchKept, Reading, Hvac, Base, DeliveryTypeOK, Settings
<1>5. machine.synced /\ Dt = elapsed /\ claim <= Promise
  BY DEF TouchKept, Dt
<1> DEFINE h == Minus(IF Touched(Old, In(c).phys, Kind) THEN Hold
                      ELSE Old.hold, Dt)
<1>6. h \in Nat /\ h >= claim
  <2>1. CASE Touched(Old, In(c).phys, Kind)
    BY <1>1, <1>2, <1>5, <2>1 DEF LongHolds, Minus
  <2>2. CASE ~Touched(Old, In(c).phys, Kind)
    <3>1. machine.hold >= claim + elapsed
      BY <1>1, <1>4, <1>5, <2>2, DeliveryAssumption DEF TouchKept, Touched
    <3> QED
      BY <1>1, <1>2, <1>5, <2>2, <3>1 DEF Minus
  <2> QED
    BY <2>1, <2>2
<1>7. Res(c).m.hold = h
  BY <1>2, <1>3, <1>6 DEF HoldsFrom
<1> QED
  BY <1>3, <1>4, <1>6, <1>7 DEF Delivers

\* A cycle keeps the protection of a touch.
LEMMA TouchCycle ==
    ASSUME LongHolds, Base, TouchKept, NEW c \in Choices,
           NEW again \in BOOLEAN, RoomCycle(c, again)
    PROVE  TouchKept'
<1>1. /\ elapsed > 0 /\ ~due /\ elapsed' = 0 /\ stamp' = Dist
      /\ UNCHANGED <<due, room, link, unit>>
      /\ Resting \/ Stepped(c)
  BY CycleForms DEF Base
<1>2. claim \in Nat /\ claim' \in {claim, 0}
  <2>1. claim \in Nat
    BY DeliveryAssumption DEF Base, DeliveryTypeOK
  <2>2. claim' \in {claim, 0}
    BY <1>1 DEF Resting, Stepped
  <2> QED
    BY <2>1, <2>2
<1>3. first' => ~machine'.synced
  <2>1. Old.synced = machine.synced
    <3>1. /\ machine \in Machine /\ ForceOff(machine) \in Machine
          /\ "OFF" \in Commands
      BY ForceOffType DEF Base, DeliveryTypeOK, Commands, Directions
    <3>2. /\ SameSight(machine, ForceOff(machine))
          /\ Stopped(machine).synced <=> ForceOff(machine).synced
          /\ Stopped(machine) \in Machine
      BY <3>1, ForceOffEffect, NoteEffect, NoteType DEF Stopped
    <3> QED
      BY <3>1, <3>2 DEF Old, SameSight, Machine
  <2> QED
    BY <1>1, <2>1 DEF Resting, Stepped, TouchKept
<1> SUFFICES ASSUME claim' > 0
             PROVE  /\ link = "up" /\ room = "live" /\ stamp' = 0
                    /\ flight' = <<>> /\ machine'.synced /\ claim' <= Promise
                    /\ \/ Diverges(machine', unit) /\ Hold > 0
                          /\ machine'.since >= HalfCycle
                       \/ machine'.hold >= claim' + elapsed'
  BY <1>1, <1>3 DEF TouchKept
<1>4. /\ claim > 0 /\ claim' = claim
      /\ link = "up" /\ room = "live" /\ stamp = 0
      /\ flight = <<>> /\ machine.synced /\ claim <= Promise
      /\ \/ Diverges(machine, unit) /\ Hold > 0 /\ machine.since >= HalfCycle
         \/ machine.hold >= claim + elapsed
  BY <1>2 DEF TouchKept
<1>5. ~Retried /\ stamp' = 0 /\ Old = machine
  BY <1>1, <1>4 DEF Retried, Dist, Old
<1>6. CASE Resting
  <2>1. machine' = machine /\ flight' = flight
    BY <1>5, <1>6 DEF Resting, Unwritten
  <2>2. machine.hold \in Nat /\ elapsed \in Nat
    BY DEF Base, DeliveryTypeOK, Machine
  <2> QED
    BY <1>1, <1>2, <1>4, <1>5, <2>1, <2>2
<1>7. CASE Stepped(c)
  <2>1. ~Forced(In(c))
    BY <1>4, <1>7 DEF Stepped
  <2>2. /\ Res(c).m.hold >= claim /\ Res(c).m.synced /\ Res(c).m.hold \in Nat
    BY <1>4, <1>5, <2>1, TouchStep
  <2>3. machine' = Res(c).m /\ flight' = flight
    BY <1>2, <1>4, <1>5, <1>7, <2>2 DEF Stepped, Manual, Forgotten
  <2> QED
    BY <1>1, <1>2, <1>4, <1>5, <2>2, <2>3
<1> QED
  BY <1>1, <1>6, <1>7

\* So does every other step.
LEMMA TouchInductive ==
    ASSUME LongHolds, Base, TouchKept, [DeliveryNext]_deliveryVars
    PROVE  TouchKept'
<1>0. /\ claim \in Nat /\ elapsed \in Nat /\ machine.hold \in Nat
      /\ Promise \in Nat /\ CycleLen \in Nat
  BY DeliveryAssumption DEF Base, DeliveryTypeOK, Machine
<1>1. CASE \E c \in Choices, again \in BOOLEAN : RoomCycle(c, again)
  BY <1>1, TouchCycle
<1>2. CASE Execute \/ Lose
  BY <1>0, <1>2 DEF Execute, Lose, TouchKept, core, ghosts
<1>3. ASSUME NEW p \in Units, Touch(p)
      PROVE  TouchKept'
  BY <1>0, <1>3 DEF Touch, TouchKept, core
<1>4. CASE Pass
  <2>1. /\ claim' = Minus(claim, 1) /\ elapsed' = elapsed + 1
        /\ stamp' = Minus(stamp, 1)
        /\ UNCHANGED <<machine, due, first, room, link, unit>>
    BY <1>4 DEF Pass
  <2>2. claim' > 0 => claim > 0 /\ claim' = claim - 1
    BY <1>0, <2>1 DEF Minus
  <2>3. flight = <<>> => flight' = <<>>
    BY <1>4, Ageing, EmptySeq DEF Base, DeliveryTypeOK, Entries
  <2>4. stamp = 0 => stamp' = 0
    BY <2>1 DEF Minus
  <2> QED
    BY <1>0, <2>1, <2>2, <2>3, <2>4 DEF TouchKept
<1>5. CASE LinkChange \/ SwitchOff
  BY <1>0, <1>5 DEF LinkChange, SwitchOff, TouchKept, core, plant
<1>6. CASE SwitchOn
  BY <1>0, <1>6 DEF SwitchOn, TouchKept, plant, ghosts
<1>7. CASE FarewellTask
  <2>1. Stopped(machine).synced = machine.synced
    <3>1. /\ machine \in Machine /\ ForceOff(machine) \in Machine
          /\ "OFF" \in Commands
      BY ForceOffType DEF Base, DeliveryTypeOK, Commands, Directions
    <3>2. /\ SameSight(machine, ForceOff(machine))
          /\ Stopped(machine).synced <=> ForceOff(machine).synced
          /\ Stopped(machine) \in Machine
      BY <3>1, ForceOffEffect, NoteEffect, NoteType DEF Stopped
    <3> QED
      BY <3>1, <3>2 DEF SameSight, Machine
  <2> QED
    BY <1>7, <2>1 DEF FarewellTask, TouchKept
<1>8. CASE Reload \/ Restart
  BY <1>8 DEF Reload, Restart, Rebuilt, TouchKept, ColdMachine
<1>9. CASE UNCHANGED deliveryVars
  BY <1>9 DEF deliveryVars, core, plant, ghosts, TouchKept
<1> QED
  BY <1>1, <1>2, <1>3, <1>4, <1>5, <1>6, <1>7, <1>8, <1>9
  DEF DeliveryNext

\* No command, the periodic re-assert included, moves a unit set by hand while
\* the touch is protected.
THEOREM TouchesAreHonoured == LongHolds => (DeliverySpec => TouchIsHonoured)
<1> SUFFICES ASSUME LongHolds
             PROVE  DeliverySpec => TouchIsHonoured
  OBVIOUS
<1>1. DeliveryInit => TouchKept
  BY DEF DeliveryInit, TouchKept, ColdMachine
<1>2. Base /\ TouchKept /\ [DeliveryNext]_deliveryVars => TouchKept'
  BY TouchInductive
<1>3. Base' /\ TouchKept =>
        [claim > 0 /\ Len(flight') < Len(flight) => unit' = unit]_deliveryVars
  <2> SUFFICES ASSUME Base', TouchKept, claim > 0
               PROVE  ~(Len(flight') < Len(flight))
    OBVIOUS
  <2>1. Len(flight) = 0
    BY EmptySeq DEF TouchKept
  <2>2. Len(flight') \in Nat
    BY LenProperties DEF Base, DeliveryTypeOK
  <2> QED
    BY <2>1, <2>2
<1> QED
  BY <1>1, <1>2, <1>3, BaseInvariant, PTL DEF DeliverySpec, TouchIsHonoured

----------------------------------------------------------------------------
(* Units the settle rule can rely on.                                      *)

\* A unit whose reports the settle rule can rely on: no command is written as
\* another one, the writer sends nothing to an entity the core does not see,
\* and a command is executed within half a cycle.
PromptUnit ==
    /\ NoDemotion /\ "unknown" \notin Links
    /\ Lag < CycleLen /\ Lag <= HalfCycle

\* The direction a setting amounts to.
Way(p) == IF p = "off" THEN "OFF" ELSE Reported(p)

\* A command takes the unit where it says.
LEMMA WayOfEffect ==
    ASSUME NEW x \in Commands
    PROVE  /\ Way(Effect(x)) = DirectionOf(x)
           /\ Effect(x) = "off" <=> x = "OFF"
           /\ DirectionOf(x) = "OFF" <=> x = "OFF"
  BY DEF Way, Effect, DirectionOf, Reported, Commands, Directions

\* The settings and their directions.
LEMMA WayOfSetting ==
    ASSUME NEW p \in Settings
    PROVE  /\ Way(p) \in Directions /\ Way(p) # None
           /\ Way(p) = "OFF" <=> p = "off"
           /\ Running(p) <=> p # "off"
           /\ p # "off" => Way(p) = Reported(p)
  BY DEF Way, Settings, Reported, Directions, Running, None

\* What the machine knows of its own last command.
Known(a) ==
    /\ Recorded(a)
    /\ a.lastPair = IF a.synced THEN a.state ELSE None

\* A machine that knows its command diverges from a unit that goes another way.
LEMMA DivergesWay ==
    ASSUME NEW a \in Machine, NEW p \in Settings, a.prev # None, Known(a)
    PROVE  Diverges(a, p) <=> Way(p) # a.state
<1>1. /\ a.prev \in Commands /\ DirectionOf(a.prev) = a.state
      /\ a.state \in Directions
  BY DEF Known, Recorded, Machine
<1>2. a.prev = "OFF" <=> a.state = "OFF"
  BY <1>1, WayOfEffect
<1>3. a.prev # "OFF" => DirectionOf(a.prev) # "OFF"
  BY <1>1, WayOfEffect
<1>4. CASE p = "off"
  <2>1. Way(p) = "OFF"
    BY <1>4 DEF Way
  <2> QED
    BY <1>2, <1>4, <2>1 DEF Diverges, Running
<1>5. CASE p # "off"
  <2>1. Running(p) /\ Way(p) = Reported(p) /\ Reported(p) # None
        /\ Way(p) # "OFF"
    BY <1>5, WayOfSetting
  <2> QED
    BY <1>1, <1>2, <1>5, <2>1 DEF Diverges, Running
<1> QED
  BY <1>4, <1>5

\* The commands on their way.
LEMMA FlightTyped ==
    ASSUME DeliveryTypeOK
    PROVE  /\ Len(flight) \in Nat /\ DOMAIN flight = 1 .. Len(flight)
           /\ flight = <<>> <=> Len(flight) = 0
           /\ \A i \in 1 .. Len(flight) :
                 /\ flight[i].c \in Commands /\ flight[i].age \in 0 .. Lag
                 /\ flight[i].age \in Nat
<1>1. flight \in Seq(Entries)
  BY DEF DeliveryTypeOK, Entries
<1>2. Len(flight) \in Nat /\ DOMAIN flight = 1 .. Len(flight)
      /\ \A i \in 1 .. Len(flight) : flight[i] \in Entries
  BY <1>1, LenProperties, ElementOfSeq
<1> QED
  BY <1>1, <1>2, EmptySeq, DeliveryAssumption DEF Entries

\* A farewell stops the machine and leaves it what it knows.
LEMMA StoppedKnows ==
    ASSUME Base
    PROVE  LET b == Stopped(machine)
           IN  /\ b \in Machine /\ Referenced(b) /\ b.state = "OFF"
               /\ b.synced = machine.synced
               /\ b.hold \in {machine.hold, 0}
               /\ b.since \in {machine.since, 0}
               /\ \/ b.timer = 0
                  \/ machine.state = "OFF" /\ b.timer = machine.timer
               /\ Known(machine) => Known(b)
<1> DEFINE f == ForceOff(machine)
           b == Stopped(machine)
<1>1. /\ machine \in Machine /\ Referenced(machine) /\ f \in Machine
      /\ "OFF" \in Commands /\ DirectionOf("OFF") = "OFF"
  BY ForceOffType
  DEF Base, DeliveryTypeOK, Commands, Directions, DirectionOf
<1>2. /\ b \in Machine /\ Referenced(b) /\ Recorded(b) /\ b.state = "OFF"
  BY <1>1, ParkReferenced DEF Stopped
<1>3. /\ AnyMove(machine, f) /\ SameSight(machine, f)
      /\ HoldMove(machine, f) /\ SameSettle(machine, f) /\ f.state = "OFF"
  BY <1>1, ForceOffEffect, ForceOffSettles
<1>4. /\ Kept(f, b) /\ b.hold = f.hold /\ (b.synced <=> f.synced)
      /\ b.lastPair = IF f.visible THEN "OFF" ELSE f.lastPair
      /\ b.since \in {f.since, 0}
  <2>1. b = NoteCommand(f, "OFF")
    BY DEF Stopped
  <2> HIDE DEF f, b
  <2>2. /\ b.lastPair = IF f.visible THEN "OFF" ELSE f.lastPair
        /\ b.since \in {f.since, 0}
    BY <1>1, <2>1 DEF NoteCommand, Machine
  <2> QED
    BY <1>1, <2>1, <2>2, NoteEffect
<1> HIDE DEF f, b
<1>5. b.synced = machine.synced
  BY <1>1, <1>2, <1>3, <1>4 DEF SameSight, Machine
<1>6. Known(machine) => Known(b)
  BY <1>1, <1>2, <1>3, <1>4, <1>5
  DEF Known, SameSight, SameSettle, Referenced
<1>7. b.timer = 0 \/ (machine.state = "OFF" /\ b.timer = machine.timer)
  BY <1>2, <1>3, <1>4 DEF AnyMove, Kept
<1>8. b.hold \in {machine.hold, 0} /\ b.since \in {machine.since, 0}
  BY <1>3, <1>4 DEF HoldMove, SameSettle
<1> QED
  BY <1>2, <1>5, <1>6, <1>7, <1>8 DEF b

\* The machine knows its command, and a new coordinator has seen nothing yet.
Sight == Known(machine) /\ (first => ~machine.synced)

\* Everything a step without alarms does, for the machine of this room.
StepDone(c) ==
    LET r == Res(c)
    IN  /\ Stepped(c) /\ machine' = r.m
        /\ Delivers(Old, In(c), Dt, r) /\ SettlesFrom(Old, In(c), Dt, r)
        /\ HoldsFrom(Old, In(c), Dt, r) /\ MirrorsFrom(Old, In(c), r)
        /\ TurnsFrom(Old, In(c), Dt, r)

\* Where nothing is demoted a cycle waits or steps.
LEMMA PlainStep ==
    ASSUME NoDemotion, Base, NEW c \in Choices, NEW again \in BOOLEAN,
           RoomCycle(c, again)
    PROVE  Resting \/ (StepDone(c) /\ ~Demoted(c))
<1>1. /\ Old \in Machine /\ Referenced(Old) /\ Dt \in Nat
      /\ In(c) \in Inputs /\ In(c).alarms = {} /\ Kind # "NONE"
  BY OldMachine, InputTyped, DeliveryAssumption DEF In, Base
<1>2. /\ Delivers(Old, In(c), Dt, Res(c))
      /\ SettlesFrom(Old, In(c), Dt, Res(c))
      /\ HoldsFrom(Old, In(c), Dt, Res(c)) /\ MirrorsFrom(Old, In(c), Res(c))
      /\ TurnsFrom(Old, In(c), Dt, Res(c))
  BY <1>1, CalmStep DEF Res
<1>3. ~Demoted(c)
  <2>1. PICK s, t, d : StepResult(Old, In(c), Dt, s, t, d, Res(c))
    BY <1>1, StepEffect DEF Res
  <2> QED
    BY <2>1 DEF StepResult, Decided, Demoted, NoDemotion
<1>4. Resting \/ Stepped(c)
  BY CycleForms DEF Base
<1>5. Stepped(c) => machine' = Res(c).m
  BY <1>3 DEF Stepped
<1> QED
  BY <1>2, <1>3, <1>4, <1>5 DEF StepDone

\* What the step starts from, a retried farewell included.
LEMMA OldKnows ==
    ASSUME Base, Sight
    PROVE  /\ Known(Old) /\ Old.synced = machine.synced
           /\ Old.hold \in {machine.hold, 0}
           /\ Old.since \in {machine.since, 0}
           /\ Retried => Old.state = "OFF"
           /\ Retried =>
                 \/ Old.timer = 0
                 \/ machine.state = "OFF" /\ Old.timer = machine.timer
           /\ ~Retried => Old = machine
           /\ machine.synced => Dt = elapsed
  BY StoppedKnows DEF Sight, Old, Dt

\* Every step keeps the sight.
LEMMA SightInductive ==
    ASSUME NoDemotion, Base, Sight, [DeliveryNext]_deliveryVars
    PROVE  Sight'
<1>1. ASSUME NEW c \in Choices, NEW again \in BOOLEAN, RoomCycle(c, again)
      PROVE  Sight'
  <2>1. CASE Resting
    <3>1. Known(machine') /\ machine'.synced = machine.synced
      BY <2>1, OldKnows DEF Resting
    <3>2. first' => first
      BY <2>1 DEF Resting
    <3> QED
      BY <3>1, <3>2 DEF Sight
  <2>2. CASE StepDone(c)
    BY <2>2 DEF StepDone, Stepped, Delivers, Sight, Known
  <2> QED
    BY <1>1, <2>1, <2>2, PlainStep
<1>2. CASE FarewellTask
  BY <1>2, StoppedKnows DEF FarewellTask, Sight
<1>3. CASE Reload \/ Restart
  <2>1. Known(ColdMachine) /\ ~ColdMachine.synced
    BY ColdTyped DEF Known, ColdMachine
  <2> QED
    BY <1>3, <2>1 DEF Reload, Restart, Rebuilt, Sight
<1>4. CASE \/ \E p \in Units : Touch(p)
           \/ Execute \/ Lose \/ LinkChange \/ Pass \/ SwitchOff \/ SwitchOn
           \/ UNCHANGED deliveryVars
  BY <1>4 DEF Touch, Execute, Lose, LinkChange, Pass, SwitchOff, SwitchOn,
              deliveryVars, core, Sight
<1> QED
  BY <1>1, <1>2, <1>3, <1>4 DEF DeliveryNext

\* What the step reads of the unit.
LEMMA WhatIsRead ==
    ASSUME DeliveryTypeOK, NEW c \in Choices
    PROVE  /\ In(c).phys # "gap" <=> link = "up"
           /\ link = "up" => In(c).phys \in {unit, "off"}
           /\ link = "up" /\ Dist > 0 => In(c).phys = "off"
           /\ link = "up" /\ Misread(Dist) = {} => In(c).phys = unit
<1>1. In(c).phys = Reading(Dist) /\ unit \in Settings
  BY InputTyped DEF In, DeliveryTypeOK
<1>2. "gap" \notin Settings /\ (Running(unit) <=> unit # "off")
  BY <1>1, WayOfSetting DEF Settings
<1>3. link = "up" => Hvac = unit
  BY DEF Hvac
<1>4. link # "up" => Hvac = "gap" /\ ~Running(Hvac)
  BY DEF Hvac, Running
<1> QED
  BY <1>1, <1>2, <1>3, <1>4 DEF Reading, Misread

\* What a step leaves, whatever it writes.
LEMMA StepFacts ==
    ASSUME NoDemotion, Base, NEW c \in Choices, NEW again \in BOOLEAN,
           RoomCycle(c, again), StepDone(c)
    PROVE  /\ machine' \in Machine /\ Known(machine') /\ Referenced(machine')
           /\ Res(c).cmd \in Commands
           /\ DirectionOf(Res(c).cmd) = machine'.state
           /\ machine'.synced <=> link = "up"
           /\ room = "off" => machine'.state = "OFF"
           /\ Absorbed => link = "up" /\ flight = <<>>
                          /\ Way(unit) = machine'.state
           /\ surprise' = {} /\ ~Absorbed =>
                 surprise = {} /\ (link = "up" => In(c).phys = unit)
           /\ UNCHANGED <<link, unit, room, due, by, age>>
           /\ elapsed' = 0 /\ stamp' = Dist /\ elapsed > 0 /\ ~due
<1>0. /\ elapsed > 0 /\ ~due /\ elapsed' = 0 /\ stamp' = Dist
      /\ UNCHANGED <<due, room, link, unit, age, by>>
  BY CycleForms DEF Base
<1>1. Delivers(Old, In(c), Dt, Res(c)) /\ machine' = Res(c).m /\ Stepped(c)
  BY DEF StepDone
<1>2. /\ In(c).phys # "gap" <=> link = "up"
      /\ link = "up" /\ Misread(Dist) = {} => In(c).phys = unit
      /\ unit \in Settings
      /\ room = "off" => In(c).mode = "OFF"
  BY WhatIsRead, InputTyped DEF Base, DeliveryTypeOK, In
<1>3. /\ machine' \in Machine /\ Referenced(machine') /\ Known(machine')
      /\ Res(c).cmd \in Commands /\ DirectionOf(Res(c).cmd) = machine'.state
      /\ machine'.synced <=> link = "up"
      /\ machine'.visible <=> link = "up"
      /\ room = "off" => machine'.state = "OFF"
  BY <1>1, <1>2 DEF Delivers, Known
<1>4. Absorbed => link = "up" /\ flight = <<>> /\ Way(unit) = machine'.state
  <2> SUFFICES ASSUME Absorbed
               PROVE  /\ link = "up" /\ flight = <<>>
                      /\ Way(unit) = machine'.state
    OBVIOUS
  <2>1. machine'.visible /\ flight = <<>> /\ ~Diverges(machine', unit)
    BY DEF Absorbed
  <2>2. machine'.prev # None
    BY <1>3, <2>1 DEF Referenced
  <2> QED
    BY <1>2, <1>3, <2>1, <2>2, DivergesWay
<1>5. surprise' = {} /\ ~Absorbed => surprise = {} /\ Misread(Dist) = {}
  BY <1>1 DEF Stepped
<1> QED
  BY <1>0, <1>2, <1>3, <1>4, <1>5

\* What it writes.
LEMMA StepWrites ==
    ASSUME PromptUnit, Base, NEW c \in Choices, NEW again \in BOOLEAN,
           RoomCycle(c, again), StepDone(c), ~Demoted(c)
    PROVE  \/ Retried /\ room = "off" /\ link = "up" /\ Written("OFF")
           \/ ~Retried /\ room = "off" /\ Unwritten
           \/ /\ ~Retried /\ room = "live" /\ link # "up"
              /\ Unwritten \/ Forgotten
           \/ /\ ~Retried /\ room = "live" /\ link = "up"
              /\ machine'.hold > 0 /\ Forgotten
           \/ ~Retried /\ room = "live" /\ link = "up" /\ Written(Res(c).cmd)
           \/ /\ ~Retried /\ room = "live" /\ link = "up"
              /\ cache = Res(c).cmd /\ Unwritten
<1>1. link \in {"up", "down"} /\ room \in {"live", "off"}
  BY DeliveryAssumption DEF PromptUnit, Base, DeliveryTypeOK
<1>2. Retried => room = "off" /\ link = "up"
  BY <1>1 DEF Retried, Reachable
<1>3. Stepped(c) /\ machine' = Res(c).m
  BY DEF StepDone
<1>4. CASE Retried
  BY <1>2, <1>3, <1>4 DEF Stepped
<1>5. CASE ~Retried /\ room = "off"
  BY <1>3, <1>5 DEF Stepped
<1>6. CASE ~Retried /\ room = "live" /\ Manual(Res(c).m)
  BY <1>1, <1>3, <1>6 DEF Stepped, Manual
<1>7. CASE ~Retried /\ room = "live" /\ ~Manual(Res(c).m)
  BY <1>1, <1>3, <1>7 DEF Stepped
<1> QED
  BY <1>1, <1>4, <1>5, <1>6, <1>7

\* The commands on their way after a command more.
LEMMA SendTyped ==
    ASSUME Base, NEW x \in Commands
    PROVE  LET f == Send(x)
           IN  /\ Len(f) = Len(flight) + 1 /\ Len(flight) \in Nat
               /\ \A i \in 1 .. Len(flight) : f[i] = flight[i]
               /\ f[Len(flight) + 1].c = x /\ f[Len(flight) + 1].age = 0
               /\ f # <<>>
  BY Sending, FlightTyped DEF Base

\* A heater is neither in a cooling direction nor sent there.
HeatersHeat ==
    Kind = "HEATER" =>
        /\ machine.state # "COOLING"
        /\ \A i \in 1 .. Len(flight) : flight[i].c \in {"OFF", "HEATING"}
        /\ surprise = {} => unit \in {"off", "heat"}

\* A command more keeps a heater's flight if it is one of its own.
LEMMA HeaterSends ==
    ASSUME Base, HeatersHeat, Kind = "HEATER",
           flight' = flight \/ \E x \in {"OFF", "HEATING"} : flight' = Send(x)
    PROVE  \A i \in 1 .. Len(flight') : flight'[i].c \in {"OFF", "HEATING"}
<1>1. CASE flight' = flight
  BY <1>1 DEF HeatersHeat
<1>2. ASSUME NEW x \in {"OFF", "HEATING"}, flight' = Send(x)
      PROVE  \A i \in 1 .. Len(flight') : flight'[i].c \in {"OFF", "HEATING"}
  <2>1. /\ Len(flight') = Len(flight) + 1 /\ Len(flight) \in Nat
        /\ \A i \in 1 .. Len(flight) : flight'[i] = flight[i]
        /\ flight'[Len(flight) + 1].c = x
    BY <1>2, SendTyped DEF Commands, Directions
  <2> QED
    BY <2>1 DEF HeatersHeat
<1> QED
  BY <1>1, <1>2

\* Every step keeps that.
LEMMA HeatersInductive ==
    ASSUME PromptUnit, Base, Sight, HeatersHeat, [DeliveryNext]_deliveryVars
    PROVE  HeatersHeat'
<1> SUFFICES ASSUME Kind = "HEATER"
             PROVE  HeatersHeat'
  BY DEF HeatersHeat
<1>0. "OFF" \in Commands /\ machine.state # "COOLING"
  BY DEF Commands, Directions, HeatersHeat
<1>1. ASSUME NEW c \in Choices, NEW again \in BOOLEAN, RoomCycle(c, again)
      PROVE  HeatersHeat'
  <2>1. unit' = unit /\ unit \in Settings
    BY <1>1, CycleForms DEF Base, DeliveryTypeOK
  <2>2. CASE Resting
    <3>1. machine'.state # "COOLING"
      BY <1>0, <2>2, OldKnows DEF Resting, Old, Retried
    <3>2. flight' = flight \/ flight' = Send("OFF")
      BY <2>2 DEF Resting, Written, Unwritten
    <3>3. surprise' = surprise
      BY <2>2 DEF Resting
    <3> QED
      BY <2>1, <3>1, <3>2, <3>3, HeaterSends DEF HeatersHeat
  <2>3. CASE StepDone(c) /\ ~Demoted(c)
    <3>1. Old.state # "COOLING"
      BY <1>0, OldKnows
    <3>2. machine'.state # "COOLING"
      BY <2>3, <3>1 DEF StepDone, Delivers
    <3>3. Res(c).cmd \in {"OFF", "HEATING"}
      BY <1>1, <2>3, <3>2, StepFacts
      DEF PromptUnit, Commands, Directions, DirectionOf
    <3>4. \/ flight' = flight \/ flight' = Send("OFF")
          \/ flight' = Send(Res(c).cmd)
      BY <1>1, <2>3, StepWrites DEF Written, Unwritten, Forgotten
    <3>5. surprise' = {} => unit' \in {"off", "heat"}
      <4>1. CASE Absorbed
        BY <1>1, <2>1, <2>3, <3>2, <4>1, StepFacts
        DEF PromptUnit, Way, Reported, Settings
      <4>2. CASE ~Absorbed
        BY <1>1, <2>1, <2>3, <4>2, StepFacts DEF PromptUnit, HeatersHeat
      <4> QED
        BY <4>1, <4>2
    <3> QED
      BY <3>2, <3>3, <3>4, <3>5, HeaterSends DEF HeatersHeat
  <2> QED
    BY <1>1, <2>2, <2>3, PlainStep DEF PromptUnit
<1>2. CASE Execute
  <2>1. /\ Len(flight') = Len(flight) - 1 /\ Len(flight) \in Nat \ {0}
        /\ \A i \in 1 .. Len(flight') : flight'[i] = flight[i + 1]
        /\ unit' = Effect(flight[1].c)
    BY <1>2, Executing DEF Execute, Base
  <2>2. flight[1].c \in {"OFF", "HEATING"}
        /\ \A i \in 1 .. Len(flight') : flight'[i].c \in {"OFF", "HEATING"}
    BY <2>1 DEF HeatersHeat
  <2> QED
    BY <1>2, <2>1, <2>2 DEF Execute, HeatersHeat, Effect, core
<1>3. CASE Lose
  <2>1. /\ Len(flight') = Len(flight) - 1 /\ Len(flight) \in Nat \ {0}
        /\ \A i \in 1 .. Len(flight') : flight'[i] = flight[i + 1]
    BY <1>3, Executing DEF Lose, Base
  <2>2. \A i \in 1 .. Len(flight') : flight'[i].c \in {"OFF", "HEATING"}
    BY <2>1 DEF HeatersHeat
  <2> QED
    BY <1>3, <2>2 DEF Lose, HeatersHeat, core
<1>4. CASE Pass
  <2>1. Len(flight') = Len(flight)
        /\ \A i \in 1 .. Len(flight) : flight'[i].c = flight[i].c
    BY <1>4, Ageing, FlightTyped DEF Base
  <2> QED
    BY <1>4, <2>1 DEF Pass, HeatersHeat
<1>5. CASE FarewellTask
  BY <1>5, StoppedKnows, HeaterSends
  DEF FarewellTask, Dispatched, HeatersHeat
<1>6. CASE Reload \/ Restart
  <2>1. machine'.state # "COOLING"
    BY <1>6 DEF Reload, Restart, Rebuilt, ColdMachine
  <2>2. (flight' = flight \/ flight' = Send("OFF")) /\ unit' = unit
        /\ (surprise' = {} => surprise = {})
    BY <1>6 DEF Reload, Restart, plant
  <2> QED
    BY <2>1, <2>2, HeaterSends DEF HeatersHeat
<1>7. CASE \E p \in Units : Touch(p)
  BY <1>7 DEF Touch, HeatersHeat, core
<1>8. CASE LinkChange \/ SwitchOff \/ SwitchOn \/ UNCHANGED deliveryVars
  BY <1>8 DEF LinkChange, SwitchOff, SwitchOn, deliveryVars, core, plant,
              ghosts, HeatersHeat
<1> QED
  BY <1>1, <1>2, <1>3, <1>4, <1>5, <1>6, <1>7, <1>8 DEF DeliveryNext

----------------------------------------------------------------------------
(* Cache, farewells and heaters.                                           *)

\* The writer of a room that is off last sent an OFF, or owes it one.
OffCache == room = "off" /\ ~due => cache \in {None, "OFF"} \/ pending

\* Every step keeps that.
LEMMA OffCacheInductive ==
    ASSUME Base, OffCache, [DeliveryNext]_deliveryVars
    PROVE  OffCache'
<1>0. room \in {"live", "off"}
  BY DEF Base, DeliveryTypeOK
<1>1. ASSUME NEW c \in Choices, NEW again \in BOOLEAN, RoomCycle(c, again)
      PROVE  OffCache'
  <2>1. /\ room' = room /\ due' = due /\ (Resting \/ Stepped(c))
        /\ pending' = (pending /\ room = "off" /\ ~Retried)
    BY <1>1, CycleForms DEF Base
  <2>2. room = "off" => Written("OFF") \/ (~Retried /\ Unwritten)
    BY <2>1 DEF Resting, Stepped
  <2> QED
    BY <2>1, <2>2 DEF OffCache, Written, Unwritten
<1>2. CASE FarewellTask
  BY <1>0, <1>2 DEF FarewellTask, Dispatched, OffCache
<1>3. CASE Reload \/ Restart
  BY <1>3 DEF Reload, Restart, OffCache
<1>4. CASE \E p \in Units : Touch(p)
  BY <1>4 DEF Touch, OffCache, core
<1>5. CASE \/ Execute \/ Lose \/ LinkChange \/ Pass \/ SwitchOff \/ SwitchOn
           \/ UNCHANGED deliveryVars
  BY <1>5 DEF Execute, Lose, LinkChange, Pass, SwitchOff, SwitchOn,
              deliveryVars, core, OffCache
<1> QED
  BY <1>1, <1>2, <1>3, <1>4, <1>5 DEF DeliveryNext

\* What the cache holds is what the unit will do, unless it was disturbed.
CacheTrue ==
    surprise = {} /\ cache # None => Way(Outcome(flight)) = DirectionOf(cache)

\* Every step keeps that: what is written is on its way, and what is absorbed
\* agrees.
LEMMA CacheInductive ==
    ASSUME PromptUnit, Base, OffCache, OffRoomStopped, CacheTrue,
           [DeliveryNext]_deliveryVars
    PROVE  CacheTrue'
<1>0. "OFF" \in Commands /\ DeliveryTypeOK /\ NoDemotion
  BY DEF Commands, Directions, Base, PromptUnit
<1>1. ASSUME NEW x \in Commands, Written(x)
      PROVE  CacheTrue'
  <2>1. Outcome(flight)' = Effect(x) /\ cache' = x
    <3>1. flight' = Send(x) /\ cache' = x
      BY <1>1 DEF Written
    <3>2. flight' # <<>> /\ flight'[Len(flight')].c = x
      BY <1>0, <3>1, Sending
    <3> QED
      BY <3>1, <3>2 DEF Outcome
  <2> QED
    BY <2>1, WayOfEffect DEF CacheTrue
<1>2. ASSUME NEW c \in Choices, NEW again \in BOOLEAN, RoomCycle(c, again)
      PROVE  CacheTrue'
  <2>1. CASE Resting
    <3>1. CASE Retried
      BY <1>0, <1>1, <2>1, <3>1 DEF Resting
    <3>2. CASE ~Retried
      <4>1. unit' = unit
        BY <1>2, CycleForms DEF Base
      <4> QED
        BY <2>1, <3>2, <4>1 DEF Resting, Unwritten, CacheTrue, Outcome
    <3> QED
      BY <3>1, <3>2
  <2>2. CASE StepDone(c) /\ ~Demoted(c)
    <3>1. /\ Res(c).cmd \in Commands
          /\ DirectionOf(Res(c).cmd) = machine'.state
          /\ room = "off" => machine'.state = "OFF"
          /\ Absorbed => link = "up" /\ flight = <<>>
                         /\ Way(unit) = machine'.state
          /\ surprise' = {} /\ ~Absorbed => surprise = {}
          /\ unit' = unit /\ ~due
      BY <1>0, <1>2, <2>2, StepFacts
    <3>2. CASE Written("OFF") \/ Written(Res(c).cmd)
      BY <1>0, <1>1, <3>1, <3>2
    <3>3. CASE Forgotten
      BY <3>3 DEF Forgotten, CacheTrue
    <3>4. CASE Unwritten /\ ~Absorbed
      BY <3>1, <3>4 DEF Unwritten, CacheTrue, Outcome
    <3>5. CASE Unwritten /\ Absorbed /\ room = "off" /\ ~Retried
      <4>1. link = "up" /\ flight = <<>> /\ Way(unit) = "OFF"
        BY <3>1, <3>5
      <4>2. ~pending
        BY <3>5, <4>1 DEF Retried, Reachable
      <4>3. cache \in {None, "OFF"}
        BY <3>1, <3>5, <4>2 DEF OffCache
      <4> QED
        BY <3>1, <3>5, <4>1, <4>3
        DEF Unwritten, CacheTrue, Outcome, DirectionOf
    <3>6. CASE Unwritten /\ Absorbed /\ cache = Res(c).cmd
      BY <3>1, <3>6 DEF Unwritten, CacheTrue, Outcome
    <3> QED
      BY <1>2, <2>2, <3>1, <3>2, <3>3, <3>4, <3>5, <3>6, StepWrites
  <2> QED
    BY <1>0, <1>2, <2>1, <2>2, PlainStep
<1>3. CASE Execute
  BY <1>0, <1>3, OutcomeOfExecuted DEF Execute, CacheTrue, core, ghosts
<1>4. CASE Pass
  BY <1>0, <1>4, OutcomeOfAged DEF Pass, CacheTrue
<1>5. CASE FarewellTask
  <2>1. CASE Reachable
    <3>1. Written("OFF")
      BY <1>5, <2>1 DEF FarewellTask, Dispatched, Written
    <3> QED
      BY <1>0, <1>1, <3>1
  <2>2. CASE ~Reachable
    BY <1>5, <2>2 DEF FarewellTask, CacheTrue
  <2> QED
    BY <2>1, <2>2
<1>6. CASE Reload \/ Restart
  BY <1>6 DEF Reload, Restart, CacheTrue
<1>7. CASE Lose \/ \E p \in Units : Touch(p)
  BY <1>7 DEF Lose, Touch, CacheTrue
<1>8. CASE LinkChange \/ SwitchOff \/ SwitchOn \/ UNCHANGED deliveryVars
  BY <1>8 DEF LinkChange, SwitchOff, SwitchOn, deliveryVars, core, plant,
              ghosts, CacheTrue, Outcome
<1> QED
  BY <1>2, <1>3, <1>4, <1>5, <1>6, <1>7, <1>8 DEF DeliveryNext

\* A farewell's OFF is executed before the reading is trusted again.
Parting(j) == flight[j].c = "OFF" /\ stamp + flight[j].age >= CycleLen

\* What is on its way to a unit that the core has not seen yet, or has given
\* up, ends with a farewell.
GivenUp == ~machine.synced \/ (room = "off" /\ ~due)

\* The last command on its way to such a unit is a farewell's.
BlindQuiet ==
    link = "up" /\ GivenUp /\ flight # <<>> => Parting(Len(flight))

\* A farewell just sent is parting.
LEMMA PartingSent ==
    ASSUME Base, flight' = Send("OFF"), stamp' = CycleLen
    PROVE  flight' # <<>> /\ Parting(Len(flight))'
<1>1. /\ flight'[Len(flight')].c = "OFF" /\ flight'[Len(flight')].age = 0
      /\ flight' # <<>>
  BY Sending DEF Base, Commands, Directions
<1> QED
  BY <1>1, DeliveryAssumption DEF Parting

\* Every step keeps that.
LEMMA BlindInductive ==
    ASSUME PromptUnit, Base, Sight, BlindQuiet, [DeliveryNext]_deliveryVars
    PROVE  BlindQuiet'
<1> SUFFICES ASSUME link' = "up", GivenUp', flight' # <<>>
             PROVE  Parting(Len(flight))'
  BY DEF BlindQuiet
<1>0. /\ link \in {"up", "down"} /\ NoDemotion /\ DeliveryTypeOK
      /\ CycleLen \in Nat /\ stamp \in Nat
  BY DeliveryAssumption DEF PromptUnit, Base, DeliveryTypeOK
<1>1. ASSUME NEW c \in Choices, NEW again \in BOOLEAN, RoomCycle(c, again)
      PROVE  Parting(Len(flight))'
  <2>1. link' = link /\ stamp' = Dist /\ room' = room /\ due' = due
    BY <1>0, <1>1, CycleForms
  <2>2. \/ Written("OFF") /\ Retried
        \/ GivenUp /\ Unwritten /\ ~Retried
    <3>1. CASE Resting
      BY <2>1, <3>1, OldKnows DEF Resting, GivenUp
    <3>2. CASE StepDone(c) /\ ~Demoted(c)
      <4>1. machine'.synced /\ room = "off" /\ ~due
        BY <1>0, <1>1, <2>1, <3>2, StepFacts DEF GivenUp
      <4> QED
        BY <1>1, <3>2, <4>1, StepWrites DEF GivenUp
    <3> QED
      BY <1>0, <1>1, <3>1, <3>2, PlainStep
  <2>3. CASE Written("OFF") /\ Retried
    BY <2>1, <2>3, PartingSent DEF Written, Dist
  <2>4. CASE GivenUp /\ Unwritten /\ ~Retried
    BY <2>1, <2>4 DEF Unwritten, BlindQuiet, Parting, Dist
  <2> QED
    BY <2>2, <2>3, <2>4
<1>2. CASE Execute \/ Lose
  <2>1. /\ flight # <<>> /\ flight' = Tail(flight) /\ link = "up"
        /\ stamp' = stamp /\ GivenUp
    BY <1>2 DEF Execute, Lose, core, GivenUp
  <2>2. /\ Len(flight') = Len(flight) - 1 /\ Len(flight') \in Nat \ {0}
        /\ \A i \in 1 .. Len(flight') : flight'[i] = flight[i + 1]
    BY <1>0, <2>1, Executing, EmptySeq
  <2>3. flight'[Len(flight')] = flight[Len(flight)]
    BY <2>2
  <2> QED
    BY <2>1, <2>3 DEF BlindQuiet, Parting
<1>3. CASE Pass
  <2>1. /\ GivenUp /\ link' = link /\ stamp' = Minus(stamp, 1)
    BY <1>3 DEF Pass, GivenUp
  <2>2. /\ Len(flight') = Len(flight) /\ flight # <<>>
        /\ Len(flight) \in 1 .. Len(flight)
        /\ flight[Len(flight)].age \in Nat
        /\ \A i \in 1 .. Len(flight) : /\ flight'[i].c = flight[i].c
                                       /\ flight'[i].age = flight[i].age + 1
    <3>1. /\ Len(flight') = Len(flight) /\ flight' \in Seq(Entries)
          /\ \A i \in DOMAIN flight : /\ flight'[i].c = flight[i].c
                                      /\ flight'[i].age = flight[i].age + 1
      BY <1>0, <1>3, Ageing
    <3>2. Len(flight') # 0
      BY <3>1, EmptySeq
    <3> QED
      BY <1>0, <3>1, <3>2, FlightTyped
  <2>3. Parting(Len(flight))
    BY <2>1, <2>2 DEF BlindQuiet
  <2> QED
    BY <1>0, <2>1, <2>2, <2>3 DEF Parting, Minus
<1>4. CASE LinkChange
  <2>1. link = "down" /\ flight' = flight
    BY <1>0, <1>4 DEF LinkChange, plant
  <2> QED
    BY <1>4, <2>1 DEF LinkChange
<1>5. CASE FarewellTask
  BY <1>5, PartingSent, StoppedKnows
  DEF FarewellTask, Dispatched, Reachable
<1>6. CASE Reload
  <2>1. CASE room = "live"
    BY <1>6, <2>1, PartingSent DEF Reload, Reachable
  <2>2. CASE room # "live"
    <3>1. GivenUp
      BY <1>6, <2>2 DEF Reload, GivenUp, Base, DeliveryTypeOK
    <3> QED
      BY <1>6, <2>2, <3>1 DEF Reload, BlindQuiet, Parting
  <2> QED
    BY <2>1, <2>2
<1>7. CASE Restart
  BY <1>7 DEF Restart, plant
<1>8. CASE \E p \in Units : Touch(p)
  BY <1>8 DEF Touch, BlindQuiet, GivenUp, Parting, core
<1>9. CASE SwitchOff \/ SwitchOn \/ UNCHANGED deliveryVars
  BY <1>9 DEF SwitchOff, SwitchOn, deliveryVars, core, plant, BlindQuiet,
              GivenUp, Parting
<1> QED
  BY <1>1, <1>2, <1>3, <1>4, <1>5, <1>6, <1>7, <1>8, <1>9 DEF DeliveryNext

----------------------------------------------------------------------------
(* What accounts for a divergence.                                         *)

(* What a divergence is accounted for by. *)

\* How long a command may take to show.
Slack == CycleLen + Lag

\* The minimal pause is longer than that.
LongPause == MinOff > Slack

\* The commands from the j-th on go where the machine is.
Toward(j) ==
    \A i \in j .. Len(flight) : DirectionOf(flight[i].c) = machine.state

\* Unit and commands go where the machine is.
Agreed == Way(unit) = machine.state /\ Toward(1)

\* The j-th is no older than the settle counter, or is a farewell's OFF that
\* lands while readings are distrusted.
Fresh(j) ==
    \/ machine.since + elapsed <= flight[j].age
    \/ machine.state = "OFF" /\ stamp + flight[j].age >= CycleLen

\* And no older than the dwell clock, up to a cycle; a start finds the unit
\* stopped and nothing but stops before it.
Timed(j) ==
    LongPause =>
        IF machine.state = "OFF"
        THEN machine.timer + elapsed <= flight[j].age + CycleLen
        ELSE unit = "off" /\ \A i \in 1 .. j - 1 : flight[i].c = "OFF"

\* The j-th command explains the difference.
Explains(j) == Toward(j) /\ Fresh(j) /\ Timed(j)

\* Unit, flight and machine go the same way, or a command still on its way
\* explains why not.
Accounted == Agreed \/ \E j \in 1 .. Len(flight) : Explains(j)

\* A machine that has seen its undisturbed unit is accounted for.
Explained == machine.synced /\ surprise = {} => Accounted

\* The ranges of the clocks.
LEMMA ClockTypes ==
    ASSUME Base
    PROVE  /\ machine.since \in 0 .. HalfCycle /\ machine.since \in Nat
           /\ machine.timer \in 0 .. TimerCap /\ machine.timer \in Nat
           /\ elapsed \in 0 .. CycleLen /\ elapsed \in Nat
           /\ stamp \in 0 .. CycleLen /\ stamp \in Nat
           /\ age \in 0 .. TimerCap /\ age \in Nat
           /\ CycleLen \in Nat \ {0} /\ Lag \in Nat /\ MinOff \in Nat
           /\ HalfCycle \in Nat \ {0} /\ TimerCap \in Nat /\ TimerCap >= MinOff
           /\ machine.state \in Directions
  BY DeliveryAssumption, MachineAssumption DEF Base, DeliveryTypeOK, Machine

\* And after a step.
LEMMA PrimedClocks ==
    ASSUME Base'
    PROVE  /\ machine'.since \in Nat /\ machine'.timer \in Nat
           /\ elapsed' \in Nat /\ stamp' \in Nat /\ age' \in Nat
  BY DeliveryAssumption, MachineAssumption DEF Base, DeliveryTypeOK, Machine

\* The flight after a step: as it was, or with one command more.
Grown(f, d) ==
    \/ f = flight
    \/ \E x \in Commands : f = Send(x) /\ DirectionOf(x) = d

\* What is on its way then.
LEMMA GrownFlight ==
    ASSUME Base, NEW d, Grown(flight', d)
    PROVE  /\ Len(flight') \in {Len(flight), Len(flight) + 1}
           /\ Len(flight) \in Nat
           /\ \A i \in 1 .. Len(flight) : flight'[i] = flight[i]
           /\ \A i \in 1 .. Len(flight') :
                 i \in 1 .. Len(flight) \/ DirectionOf(flight'[i].c) = d
<1>1. CASE flight' = flight
  BY <1>1, FlightTyped DEF Base
<1>2. ASSUME NEW x \in Commands, flight' = Send(x), DirectionOf(x) = d
      PROVE  /\ Len(flight') = Len(flight) + 1
             /\ Len(flight) \in Nat
             /\ \A i \in 1 .. Len(flight) : flight'[i] = flight[i]
             /\ \A i \in 1 .. Len(flight') :
                   i \in 1 .. Len(flight) \/ DirectionOf(flight'[i].c) = d
  BY <1>2, SendTyped
<1> QED
  BY <1>1, <1>2 DEF Grown

\* The account lasts while the direction stays and the clocks do not run ahead.
LEMMA AccountLasts ==
    ASSUME Base, Base', Accounted,
           machine'.state = machine.state,
           machine'.since + elapsed' <= machine.since + elapsed,
           machine.state = "OFF" =>
               machine'.timer + elapsed' <= machine.timer + elapsed,
           stamp' >= stamp, unit' = unit, Grown(flight', machine'.state)
    PROVE  Accounted'
<1>1. /\ Len(flight') \in {Len(flight), Len(flight) + 1}
      /\ Len(flight) \in Nat
      /\ \A i \in 1 .. Len(flight) : flight'[i] = flight[i]
      /\ \A i \in 1 .. Len(flight') :
            \/ i \in 1 .. Len(flight)
            \/ DirectionOf(flight'[i].c) = machine'.state
  BY GrownFlight
<1>2. ASSUME NEW j \in 1 .. Len(flight) + 1, Toward(j)
      PROVE  Toward(j)'
  BY <1>1, <1>2 DEF Toward
<1>3. CASE Agreed
  BY <1>1, <1>2, <1>3 DEF Accounted, Agreed
<1>4. ASSUME NEW j \in 1 .. Len(flight), Explains(j)
      PROVE  Accounted'
  <2>1. j \in 1 .. Len(flight') /\ flight'[j] = flight[j]
        /\ flight[j].age \in Nat /\ Fresh(j) /\ Timed(j)
    BY <1>1, <1>4, FlightTyped DEF Base, Explains
  <2>2. Fresh(j)'
    <3>1. /\ machine'.since \in Nat /\ elapsed' \in Nat /\ stamp' \in Nat
          /\ machine.since \in Nat /\ elapsed \in Nat /\ stamp \in Nat
          /\ CycleLen \in Nat
      BY ClockTypes, PrimedClocks
    <3> QED
      BY <2>1, <3>1 DEF Fresh
  <2>3. Timed(j)'
    <3>1. /\ machine'.timer \in Nat /\ elapsed' \in Nat
          /\ machine.timer \in Nat /\ elapsed \in Nat /\ CycleLen \in Nat
      BY ClockTypes, PrimedClocks
    <3>2. \A i \in 1 .. j - 1 : flight'[i] = flight[i]
      BY <1>1
    <3> SUFFICES ASSUME LongPause
                 PROVE  IF machine'.state = "OFF"
                        THEN machine'.timer + elapsed'
                                <= flight'[j].age + CycleLen
                        ELSE /\ unit' = "off"
                             /\ \A i \in 1 .. j - 1 : flight'[i].c = "OFF"
      BY DEF Timed, LongPause, Slack
    <3>3. CASE machine.state = "OFF"
      <4>1. machine.timer + elapsed <= flight[j].age + CycleLen
        BY <2>1, <3>3 DEF Timed
      <4>2. machine'.timer + elapsed' <= machine.timer + elapsed
        BY <3>3
      <4>3. flight'[j].age = flight[j].age /\ flight[j].age \in Nat
        BY <2>1
      <4>4. machine'.timer + elapsed' <= flight'[j].age + CycleLen
        BY <3>1, <4>1, <4>2, <4>3
      <4> QED
        BY <3>3, <4>4
    <3>4. CASE machine.state # "OFF"
      BY <2>1, <3>2, <3>4 DEF Timed
    <3> QED
      BY <3>3, <3>4
  <2> QED
    BY <1>2, <1>4, <2>1, <2>2, <2>3 DEF Accounted, Explains
<1> QED
  BY <1>3, <1>4 DEF Accounted

\* The machine has just turned, or an OFF opens the time of distrust.
JustTurned ==
    \/ machine.since + elapsed = 0
    \/ machine.state = "OFF" /\ stamp = CycleLen

\* A stopped machine's clock shows at most the time since it was stopped.
JustStopped == machine.state = "OFF" => machine.timer + elapsed <= CycleLen

\* Nothing but stops is on its way.
OnlyStops == \A i \in 1 .. Len(flight) : flight[i].c = "OFF"

\* A command sent at a turn accounts for it.
LEMMA SentAccounts ==
    ASSUME Base, Base', NEW x \in Commands, flight' = Send(x),
           DirectionOf(x) = machine'.state, JustTurned', JustStopped',
           LongPause /\ machine'.state # "OFF" => unit' = "off" /\ OnlyStops
    PROVE  Accounted'
<1> DEFINE n == Len(flight')
<1>1. /\ n = Len(flight) + 1 /\ Len(flight) \in Nat
      /\ \A i \in 1 .. Len(flight) : flight'[i] = flight[i]
      /\ flight'[n].c = x /\ flight'[n].age = 0
  BY SendTyped
<1>2. /\ machine'.since \in Nat /\ elapsed' \in Nat /\ stamp' \in Nat
      /\ machine'.timer \in Nat /\ CycleLen \in Nat
  BY ClockTypes, PrimedClocks
<1>3. Toward(Len(flight))'
  BY <1>1 DEF Toward
<1>4. Fresh(Len(flight))'
  <2>1. flight'[Len(flight')].age = 0
    BY <1>1
  <2>2. CASE machine'.since + elapsed' = 0
    BY <2>1, <2>2 DEF Fresh
  <2>3. CASE machine'.state = "OFF" /\ stamp' = CycleLen
    <3>1. stamp' + flight'[Len(flight')].age >= CycleLen
      BY <1>2, <2>1, <2>3
    <3> QED
      BY <2>3, <3>1 DEF Fresh
  <2> QED
    BY <2>2, <2>3 DEF JustTurned
<1>5. Timed(Len(flight))'
  <2>1. CASE machine'.state = "OFF"
    <3>1. machine'.timer + elapsed' <= flight'[Len(flight')].age + CycleLen
      BY <1>1, <1>2, <2>1 DEF JustStopped
    <3> QED
      BY <2>1, <3>1 DEF Timed
  <2>2. CASE machine'.state # "OFF"
    <3>1. \A i \in 1 .. Len(flight') - 1 : i \in 1 .. Len(flight)
      BY <1>1
    <3> QED
      BY <1>1, <2>2, <3>1 DEF Timed, OnlyStops, LongPause, Slack
  <2> QED
    BY <2>1, <2>2
<1> QED
  BY <1>1, <1>3, <1>4, <1>5 DEF Accounted, Explains

\* An idle unit where the machine is needs no account.
LEMMA AgreedAccounts ==
    ASSUME Base, flight = <<>>, Way(unit) = machine'.state, unit' = unit,
           Grown(flight', machine'.state)
    PROVE  Accounted'
<1>1. Len(flight) = 0
  BY FlightTyped DEF Base
<1>2. \A i \in 1 .. Len(flight') : DirectionOf(flight'[i].c) = machine'.state
  BY <1>1, GrownFlight
<1> QED
  BY <1>2 DEF Accounted, Agreed, Toward

\* A farewell's OFF on its way accounts for a stopped machine.
LEMMA PartingAccounts ==
    ASSUME Base, Base', flight' = flight, flight # <<>>, Parting(Len(flight)),
           machine'.state = "OFF", stamp' = stamp, JustStopped'
    PROVE  Accounted'
<1> DEFINE n == Len(flight)
<1>1. n \in Nat \ {0} /\ flight[n].age \in Nat
  BY FlightTyped DEF Base
<1>2. /\ machine'.timer \in Nat /\ elapsed' \in Nat /\ CycleLen \in Nat
  BY ClockTypes, PrimedClocks
<1>3. Toward(n)'
  BY <1>1, WayOfEffect DEF Toward, Parting, DirectionOf
<1>4. Fresh(n)'
  BY <1>1 DEF Fresh, Parting
<1>5. Timed(n)'
  BY <1>1, <1>2 DEF Timed, JustStopped
<1> QED
  BY <1>1, <1>3, <1>4, <1>5 DEF Accounted, Explains

\* A farewell's OFF, accounted for.
LEMMA FarewellAccounts ==
    ASSUME Base, Base', Accounted, machine' = Stopped(machine),
           flight' = Send("OFF"), stamp' = CycleLen, unit' = unit,
           elapsed' \in {elapsed, 0}
    PROVE  Accounted'
<1>0. /\ "OFF" \in Commands /\ DirectionOf("OFF") = "OFF"
      /\ machine'.state = "OFF"
      /\ machine'.since \in {machine.since, 0}
      /\ \/ machine'.timer = 0
         \/ machine.state = "OFF" /\ machine'.timer = machine.timer
  BY StoppedKnows DEF Commands, Directions, DirectionOf
<1>1. CASE machine.state = "OFF"
  <2>1. /\ machine.since \in Nat /\ machine.timer \in Nat /\ elapsed \in Nat
        /\ stamp \in 0 .. CycleLen /\ CycleLen \in Nat
    BY ClockTypes
  <2>2. /\ machine'.since + elapsed' <= machine.since + elapsed
        /\ machine'.timer + elapsed' <= machine.timer + elapsed
        /\ stamp' >= stamp
    BY <1>0, <2>1
  <2>3. Grown(flight', "OFF")
    BY <1>0 DEF Grown
  <2> QED
    BY <1>0, <1>1, <2>2, <2>3, AccountLasts
<1>2. CASE machine.state # "OFF"
  <2>1. machine'.timer = 0 /\ elapsed' <= CycleLen /\ elapsed' \in Nat
    BY <1>0, <1>2, ClockTypes
  <2>2. JustStopped' /\ JustTurned'
    BY <1>0, <2>1, ClockTypes DEF JustStopped, JustTurned
  <2> QED
    BY <1>0, <2>2, SentAccounts
<1> QED
  BY <1>1, <1>2

\* Where the commands lead is where an accounted machine is.
LEMMA OutcomeAccounted ==
    ASSUME Base, Accounted
    PROVE  Way(Outcome(flight)) = machine.state
<1>1. CASE flight = <<>>
  <2>1. Len(flight) = 0
    BY <1>1, FlightTyped DEF Base
  <2> QED
    BY <1>1, <2>1 DEF Accounted, Agreed, Outcome
<1>2. CASE flight # <<>>
  <2>1. Len(flight) \in Nat \ {0} /\ flight[Len(flight)].c \in Commands
    BY <1>2, FlightTyped DEF Base
  <2>2. DirectionOf(flight[Len(flight)].c) = machine.state
    BY <2>1 DEF Accounted, Agreed, Explains, Toward
  <2> QED
    BY <1>2, <2>1, <2>2, WayOfEffect DEF Outcome
<1> QED
  BY <1>1, <1>2

\* A stopped machine whose pause is long over has a stopped unit, and nothing
\* but stops on its way.
LEMMA LongStopped ==
    ASSUME Base, Accounted, LongPause, machine.state = "OFF",
           machine.timer + elapsed >= MinOff
    PROVE  unit = "off" /\ OnlyStops
<1>1. /\ machine.timer \in Nat /\ elapsed \in Nat /\ MinOff \in Nat
      /\ CycleLen \in Nat /\ Lag \in Nat
  BY ClockTypes
<1>2. CASE Agreed
  <2>1. unit = "off"
    BY <1>2, WayOfSetting DEF Agreed, Base, DeliveryTypeOK
  <2>2. OnlyStops
    BY <1>2, FlightTyped, WayOfEffect DEF Agreed, Toward, OnlyStops, Base
  <2> QED
    BY <2>1, <2>2
<1>3. ASSUME NEW j \in 1 .. Len(flight), Explains(j)
      PROVE  FALSE
  <2>1. flight[j].age \in 0 .. Lag
    BY FlightTyped DEF Base
  <2>2. machine.timer + elapsed <= flight[j].age + CycleLen
    BY <1>3 DEF Explains, Timed
  <2> QED
    BY <1>1, <2>1, <2>2 DEF LongPause, Slack
<1> QED
  BY <1>2, <1>3 DEF Accounted

\* While the farewell's OFF is on its way a seen unit reads as stopped.
LEMMA PartingDistrusts ==
    ASSUME PromptUnit, Base, flight # <<>>, Parting(Len(flight))
    PROVE  stamp > 0
<1>1. flight[Len(flight)].age \in 0 .. Lag
  BY FlightTyped DEF Base
<1> QED
  BY <1>1, ClockTypes DEF Parting, PromptUnit

\* The core never takes its own commands for a touch: if nothing disturbed the
\* unit and the reading is what it does, it is not touched.
LEMMA NoSelfTouch ==
    ASSUME PromptUnit, Base, Sight, Explained, surprise = {}, elapsed > 0,
           NEW c \in Choices, link = "up", In(c).phys = unit
    PROVE  ~Touched(Old, In(c).phys, Kind)
<1> SUFFICES ASSUME Touched(Old, In(c).phys, Kind)
             PROVE  FALSE
  OBVIOUS
<1>1. /\ Old \in Machine /\ Known(Old) /\ unit \in Settings
      /\ Old.synced = machine.synced
  BY OldMachine, OldKnows DEF Base, DeliveryTypeOK
<1>2. /\ Old.synced /\ Diverges(Old, unit) /\ Old.since >= HalfCycle
  BY DEF Touched
<1>3. Way(unit) # Old.state
  BY <1>1, <1>2, DivergesWay DEF Diverges
<1>4. ~Retried
  <2>1. Retried => Dist > 0 /\ Old.state = "OFF"
    BY OldKnows, ClockTypes DEF Dist
  <2> QED
    BY <1>1, <1>3, <2>1, WhatIsRead, WayOfSetting DEF Base
<1>5. Old = machine /\ Dist = stamp
  BY <1>4 DEF Old, Dist
<1>6. Accounted /\ ~Agreed
  BY <1>1, <1>2, <1>3, <1>5 DEF Explained, Agreed
<1>7. PICK j \in 1 .. Len(flight) : Fresh(j)
  BY <1>6 DEF Accounted, Explains
<1>8. /\ flight[j].age \in 0 .. Lag /\ Lag \in Nat /\ Lag <= HalfCycle
      /\ Lag < CycleLen /\ machine.since \in Nat /\ elapsed \in Nat
      /\ HalfCycle \in Nat /\ CycleLen \in Nat /\ stamp \in Nat
  BY FlightTyped, ClockTypes DEF PromptUnit, Base
<1>9. CASE machine.since + elapsed <= flight[j].age
  BY <1>2, <1>5, <1>8, <1>9
<1>10. CASE machine.state = "OFF" /\ stamp + flight[j].age >= CycleLen
  <2>1. stamp > 0
    BY <1>8, <1>10
  <2>2. unit = "off"
    BY <1>5, <2>1, WhatIsRead DEF Base
  <2> QED
    BY <1>1, <1>3, <1>5, <1>10, <2>2, WayOfSetting
<1> QED
  BY <1>7, <1>9, <1>10 DEF Fresh

\* What a machine adopts is where the unit goes.
LEMMA AgreesWay ==
    ASSUME HeatersHeat, surprise = {}, unit \in Settings,
           NEW s \in Directions, Agrees(s, unit), Kind # "NONE"
    PROVE  Way(unit) = s
<1>1. Kind \in {"SPLIT", "HEATER"}
  BY RoomAssumption DEF Kinds
<1>2. Kind = "HEATER" => unit \in {"off", "heat"}
  BY DEF HeatersHeat
<1> QED
  BY <1>1, <1>2 DEF Agrees, Way, Reported, Running, Settings, Directions, None

----------------------------------------------------------------------------
(* One cycle kept on account.                                              *)

\* Everything the account of the next state rests on.
Ledger ==
    /\ Sight /\ HeatersHeat /\ OffRoomStopped /\ OffCache /\ CacheTrue
    /\ BlindQuiet /\ Explained

\* The machine of a room whose unit was seen and not disturbed, after a step
\* that sees it too.
SeenStep(c) ==
    /\ StepDone(c) /\ ~Demoted(c) /\ link = "up"
    /\ surprise = {} /\ In(c).phys = unit

\* What the clocks show after such a step.
LEMMA SeenClocks ==
    ASSUME PromptUnit, Base, Base', Ledger, NEW c \in Choices,
           NEW again \in BOOLEAN, RoomCycle(c, again), SeenStep(c)
    PROVE  /\ machine'.since <= Old.since + Dt
           /\ (machine.synced => machine'.state # Old.state)
                 => machine'.since = 0
           /\ machine'.state = "OFF" =>
                 \/ machine'.timer <= Dt
                 \/ /\ machine.synced /\ Old.state = "OFF"
                    /\ machine'.timer <= Old.timer + Dt
           /\ machine'.state # "OFF" /\ machine.synced =>
                 \/ machine'.state = Old.state
                 \/ Old.state = "OFF" /\ Old.timer + Dt >= MinOff
           /\ machine'.state # "OFF" /\ ~machine.synced =>
                 \/ Way(unit) = machine'.state
                 \/ unit = "off" /\ Dt >= MinOff
           /\ machine'.hold > 0 =>
                 IF machine.synced THEN machine'.state = Old.state
                                   ELSE Way(unit) = machine'.state
<1>1. /\ machine' = Res(c).m /\ In(c).phys # "gap" /\ In(c).phys = unit
      /\ SettlesFrom(Old, In(c), Dt, Res(c)) /\ MirrorsFrom(Old, In(c), Res(c))
      /\ TurnsFrom(Old, In(c), Dt, Res(c))
  BY WhatIsRead DEF SeenStep, StepDone, Base
<1>2. /\ Known(Old) /\ Old.synced = machine.synced /\ Old \in Machine
      /\ Dt \in 0 .. CycleLen
  BY OldKnows, OldMachine DEF Ledger, Base
<1>3. ~Touched(Old, unit, Kind)
  <2>1. elapsed > 0
    BY CycleForms DEF Base
  <2> QED
    BY <1>1, <2>1, NoSelfTouch DEF SeenStep, Ledger
<1>4. Adopts(Old, In(c)) <=> ~machine.synced
  BY <1>1, <1>2, <1>3, DeliveryAssumption DEF Adopts
<1>5. ASSUME Agrees(machine'.state, unit)
      PROVE  Way(unit) = machine'.state
  <2>1. machine'.state \in Directions /\ unit \in Settings
    BY DEF Base, DeliveryTypeOK, Machine
  <2> QED
    BY <1>5, <2>1, AgreesWay, DeliveryAssumption DEF Ledger, SeenStep
<1>6. /\ machine'.since <= Old.since + Dt
      /\ (machine.synced => machine'.state # Old.state) => machine'.since = 0
  <2>1. machine'.since = IF machine'.state = Old.lastPair
                         THEN Least(Old.since + Dt, HalfCycle) ELSE 0
    BY <1>1 DEF SettlesFrom
  <2>2. Old.since \in Nat /\ Dt \in Nat /\ HalfCycle \in Nat
    BY <1>2, ClockTypes DEF Machine
  <2>3. Old.lastPair = IF machine.synced THEN Old.state ELSE None
    BY <1>2 DEF Known
  <2>4. machine'.state # None
    BY DEF Base, DeliveryTypeOK, Machine, Directions, None
  <2> QED
    BY <2>1, <2>2, <2>3, <2>4 DEF Least
<1>7. machine'.state = "OFF" =>
         \/ machine'.timer <= Dt
         \/ /\ machine.synced /\ Old.state = "OFF"
            /\ machine'.timer <= Old.timer + Dt
  BY <1>1, <1>2 DEF TurnsFrom
<1>8. machine'.state # "OFF" /\ machine.synced =>
         \/ machine'.state = Old.state
         \/ Old.state = "OFF" /\ Old.timer + Dt >= MinOff
  BY <1>1, <1>4 DEF TurnsFrom
<1>9. machine'.state # "OFF" /\ ~machine.synced =>
         \/ Way(unit) = machine'.state
         \/ unit = "off" /\ Dt >= MinOff
  BY <1>1, <1>2, <1>5 DEF TurnsFrom
<1>10. machine'.hold > 0 =>
          IF machine.synced THEN machine'.state = Old.state
                            ELSE Way(unit) = machine'.state
  BY <1>1, <1>4, <1>5 DEF MirrorsFrom
<1> QED
  BY <1>6, <1>7, <1>8, <1>9, <1>10

\* A retried farewell's cycle.
LEMMA RetriedAccounts ==
    ASSUME PromptUnit, Base, Base', Ledger, NEW c \in Choices,
           NEW again \in BOOLEAN, RoomCycle(c, again), SeenStep(c),
           Retried, Written("OFF")
    PROVE  Accounted'
<1>0. /\ "OFF" \in Commands /\ DirectionOf("OFF") = "OFF"
      /\ NoDemotion /\ StepDone(c)
  BY DEF Commands, Directions, DirectionOf, PromptUnit, SeenStep
<1>1. /\ machine'.state = "OFF" /\ unit' = unit /\ elapsed' = 0
      /\ stamp' = CycleLen /\ flight' = Send("OFF")
  BY <1>0, StepFacts DEF Retried, Dist, Written
<1>2. /\ Old.state = "OFF" /\ Old.since \in {machine.since, 0}
      /\ \/ Old.timer = 0
         \/ machine.state = "OFF" /\ Old.timer = machine.timer
      /\ machine.synced => Dt = elapsed
  BY OldKnows DEF Ledger
<1>3. /\ machine'.since <= Old.since + Dt
      /\ (machine.synced => machine'.state # Old.state) => machine'.since = 0
      /\ \/ machine'.timer <= Dt
         \/ machine.synced /\ machine'.timer <= Old.timer + Dt
  BY <1>1, SeenClocks
<1>4. /\ machine.since \in Nat /\ machine.timer \in Nat /\ elapsed \in Nat
      /\ stamp \in 0 .. CycleLen /\ CycleLen \in Nat /\ Dt \in 0 .. CycleLen
      /\ machine'.timer \in Nat /\ machine'.since \in Nat
  BY ClockTypes, PrimedClocks, OldMachine DEF Base
<1>5. CASE machine.synced /\ machine.state = "OFF"
  <2>1. Accounted
    BY <1>5 DEF Ledger, Explained, SeenStep
  <2>2. /\ machine'.since + elapsed' <= machine.since + elapsed
        /\ machine'.timer + elapsed' <= machine.timer + elapsed
        /\ stamp' >= stamp
    BY <1>1, <1>2, <1>3, <1>4, <1>5
  <2>3. Grown(flight', "OFF")
    BY <1>0, <1>1 DEF Grown
  <2> QED
    BY <1>1, <1>5, <2>1, <2>2, <2>3, AccountLasts
<1>6. CASE ~(machine.synced /\ machine.state = "OFF")
  <2>1. machine'.timer <= CycleLen
    BY <1>2, <1>3, <1>4, <1>6
  <2>2. JustStopped' /\ JustTurned'
    BY <1>1, <1>4, <2>1 DEF JustStopped, JustTurned
  <2> QED
    BY <1>0, <1>1, <2>2, SentAccounts
<1> QED
  BY <1>5, <1>6

\* Any other cycle that sees the unit, of a machine that saw it before.
LEMMA SyncedAccounts ==
    ASSUME PromptUnit, Base, Base', Ledger, NEW c \in Choices,
           NEW again \in BOOLEAN, RoomCycle(c, again), SeenStep(c),
           ~Retried, machine.synced
    PROVE  Accounted'
<1>0. NoDemotion /\ StepDone(c) /\ ~Demoted(c) /\ Accounted
  BY DEF PromptUnit, SeenStep, Ledger, Explained
<1>1. /\ unit' = unit /\ elapsed' = 0 /\ stamp' = stamp /\ ~due
      /\ Res(c).cmd \in Commands /\ DirectionOf(Res(c).cmd) = machine'.state
      /\ room = "off" => machine'.state = "OFF"
  BY <1>0, StepFacts DEF Dist
<1>2. Old = machine /\ Dt = elapsed
  BY OldKnows DEF Ledger
<1>3. /\ machine'.since <= machine.since + elapsed
      /\ machine'.state # machine.state => machine'.since = 0
      /\ machine'.state = "OFF" =>
            \/ machine'.timer <= elapsed
            \/ /\ machine.state = "OFF"
               /\ machine'.timer <= machine.timer + elapsed
      /\ machine'.state # "OFF" =>
            \/ machine'.state = machine.state
            \/ machine.state = "OFF" /\ machine.timer + elapsed >= MinOff
      /\ machine'.hold > 0 => machine'.state = machine.state
  BY <1>2, SeenClocks
<1>4. /\ machine.since \in Nat /\ machine.timer \in Nat
      /\ elapsed \in 0 .. CycleLen /\ CycleLen \in Nat /\ stamp \in Nat
      /\ machine'.timer \in Nat /\ machine'.since \in Nat
  BY ClockTypes, PrimedClocks
<1>5. CASE /\ machine'.state = machine.state
           /\ flight' = flight \/ flight' = Send(Res(c).cmd)
  <2>1. /\ machine'.since + elapsed' <= machine.since + elapsed
        /\ machine.state = "OFF" =>
              machine'.timer + elapsed' <= machine.timer + elapsed
        /\ stamp' >= stamp
    BY <1>1, <1>3, <1>4, <1>5
  <2>2. Grown(flight', machine'.state)
    BY <1>1, <1>5 DEF Grown
  <2> QED
    BY <1>0, <1>1, <1>5, <2>1, <2>2, AccountLasts
<1>6. CASE machine'.state # machine.state /\ flight' = Send(Res(c).cmd)
  <2>1. JustTurned'
    BY <1>1, <1>3, <1>4, <1>6 DEF JustTurned
  <2>2. JustStopped'
    BY <1>1, <1>3, <1>4, <1>6 DEF JustStopped
  <2>3. LongPause /\ machine'.state # "OFF" => unit' = "off" /\ OnlyStops
    BY <1>0, <1>1, <1>3, <1>6, LongStopped
  <2> QED
    BY <1>1, <1>6, <2>1, <2>2, <2>3, SentAccounts
<1>7. CASE machine'.state # machine.state /\ Unwritten
           /\ (room = "off" \/ cache = Res(c).cmd)
  <2>1. Way(Outcome(flight)) = machine.state
    BY <1>0, OutcomeAccounted
  <2>2. CASE room = "off"
    BY <1>1, <1>7, <2>1, <2>2, WayOfSetting
    DEF Ledger, OffRoomStopped, SeenStep, Settings
  <2>3. CASE cache = Res(c).cmd
    <3>1. cache # None
      BY <1>1, <2>3 DEF Commands, Directions, None
    <3> QED
      BY <1>1, <1>7, <2>1, <2>3, <3>1 DEF Ledger, CacheTrue, SeenStep
  <2> QED
    BY <1>7, <2>2, <2>3
<1> QED
  BY <1>0, <1>3, <1>5, <1>6, <1>7, StepWrites
  DEF SeenStep, Written, Unwritten, Forgotten

\* And of one that sees it for the first time.
LEMMA BlindAccounts ==
    ASSUME PromptUnit, Base, Base', Ledger, NEW c \in Choices,
           NEW again \in BOOLEAN, RoomCycle(c, again), SeenStep(c),
           ~Retried, ~machine.synced
    PROVE  Accounted'
<1>0. NoDemotion /\ StepDone(c) /\ ~Demoted(c)
  BY DEF PromptUnit, SeenStep
<1>1. /\ unit' = unit /\ elapsed' = 0 /\ stamp' = stamp /\ ~due
      /\ Res(c).cmd \in Commands /\ DirectionOf(Res(c).cmd) = machine'.state
      /\ room = "off" => machine'.state = "OFF"
      /\ Dist = stamp
  BY <1>0, StepFacts DEF Dist
<1>2. /\ machine'.since = 0
      /\ machine'.state = "OFF" => machine'.timer <= Dt
      /\ machine'.state # "OFF" =>
            \/ Way(unit) = machine'.state
            \/ unit = "off" /\ Dt >= MinOff
      /\ machine'.hold > 0 => Way(unit) = machine'.state
  BY SeenClocks
<1>3. /\ Dt \in 0 .. CycleLen /\ CycleLen \in Nat /\ MinOff \in Nat
      /\ Lag \in Nat /\ machine'.timer \in Nat
  BY OldMachine, ClockTypes, PrimedClocks DEF Base
<1>4. JustStopped' /\ JustTurned'
  BY <1>1, <1>2, <1>3 DEF JustStopped, JustTurned
<1>5. unit \in Settings /\ (Way(unit) = "OFF" <=> unit = "off")
  BY WayOfSetting DEF Base, DeliveryTypeOK
<1>6. CASE flight = <<>>
  <2>1. Outcome(flight) = unit
    BY <1>6 DEF Outcome
  <2>2. CASE Way(unit) = machine'.state
             /\ (flight' = flight \/ flight' = Send(Res(c).cmd))
    <3>1. Grown(flight', machine'.state)
      BY <1>1, <2>2 DEF Grown
    <3> QED
      BY <1>1, <1>6, <2>2, <3>1, AgreedAccounts
  <2>3. CASE Way(unit) # machine'.state /\ flight' = Send(Res(c).cmd)
    <3>1. OnlyStops
      BY <1>6, FlightTyped DEF OnlyStops, Base
    <3> QED
      BY <1>1, <1>2, <1>4, <2>3, <3>1, SentAccounts
  <2>4. room = "off" => Way(unit) = machine'.state
    BY <1>1, <1>5, <2>1 DEF Ledger, OffRoomStopped, SeenStep
  <2>5. cache = Res(c).cmd => Way(unit) = machine'.state
    <3>1. cache = Res(c).cmd => cache # None
      BY <1>1 DEF Commands, Directions, None
    <3> QED
      BY <1>1, <2>1, <3>1 DEF Ledger, CacheTrue, SeenStep
  <2> QED
    BY <1>0, <1>2, <2>2, <2>3, <2>4, <2>5, StepWrites
    DEF SeenStep, Written, Unwritten, Forgotten
<1>7. CASE flight # <<>>
  <2>1. Parting(Len(flight))
    BY <1>7 DEF Ledger, BlindQuiet, GivenUp, SeenStep
  <2>2. unit = "off" /\ Way(unit) = "OFF"
    <3>1. stamp > 0
      BY <1>7, <2>1, PartingDistrusts
    <3> QED
      BY <1>1, <1>5, <3>1, WhatIsRead DEF SeenStep, Base
  <2>3. Outcome(flight) = "off"
    BY <1>7, <2>1 DEF Outcome, Parting, Effect
  <2>4. CASE machine'.state = "OFF" /\ flight' = flight
    BY <1>1, <1>4, <1>7, <2>1, <2>4, PartingAccounts
  <2>5. CASE flight' = Send(Res(c).cmd)
    <3>1. ~(LongPause /\ machine'.state # "OFF")
      BY <1>2, <1>3, <2>2 DEF LongPause, Slack
    <3> QED
      BY <1>1, <1>4, <2>5, <3>1, SentAccounts
  <2>6. machine'.hold > 0 => machine'.state = "OFF"
    BY <1>2, <2>2
  <2>7. cache = Res(c).cmd => machine'.state = "OFF"
    <3>1. cache = Res(c).cmd => cache # None
      BY <1>1 DEF Commands, Directions, None
    <3>2. cache = Res(c).cmd => Way("off") = machine'.state
      BY <1>1, <2>3, <3>1 DEF Ledger, CacheTrue, SeenStep
    <3> QED
      BY <3>2 DEF Way
  <2> QED
    BY <1>0, <1>1, <2>4, <2>5, <2>6, <2>7, StepWrites
    DEF SeenStep, Written, Unwritten, Forgotten
<1> QED
  BY <1>6, <1>7

\* A cycle keeps the account.
LEMMA ExplainedCycle ==
    ASSUME PromptUnit, Base, Base', Ledger, NEW c \in Choices,
           NEW again \in BOOLEAN, RoomCycle(c, again)
    PROVE  Explained'
<1> SUFFICES ASSUME machine'.synced, surprise' = {}
             PROVE  Accounted'
  BY DEF Explained
<1>0. /\ NoDemotion /\ Sight /\ "OFF" \in Commands
      /\ DirectionOf("OFF") = "OFF"
  BY DEF PromptUnit, Ledger, Commands, Directions, DirectionOf
<1>1. unit' = unit /\ elapsed' = 0 /\ stamp' = Dist
  BY CycleForms DEF Base
<1>2. CASE Resting
  <2>1. machine' = Old /\ surprise' = surprise
    BY <1>2 DEF Resting
  <2>2. machine.synced
    BY <1>0, <2>1, OldKnows
  <2>3. Accounted
    BY <2>1, <2>2 DEF Ledger, Explained
  <2>4. CASE Retried
    BY <1>1, <1>2, <2>1, <2>3, <2>4, FarewellAccounts
    DEF Resting, Written, Old, Dist
  <2>5. CASE ~Retried
    <3>1. machine' = machine /\ flight' = flight /\ stamp' = stamp
      BY <1>1, <1>2, <2>1, <2>5 DEF Resting, Unwritten, Old, Dist
    <3>2. elapsed \in Nat /\ machine.since \in Nat /\ machine.timer \in Nat
          /\ stamp \in Nat
      BY ClockTypes
    <3>3. /\ machine'.since + elapsed' <= machine.since + elapsed
          /\ machine'.timer + elapsed' <= machine.timer + elapsed
          /\ stamp' >= stamp /\ Grown(flight', machine'.state)
      BY <1>1, <3>1, <3>2 DEF Grown
    <3> QED
      BY <1>1, <2>3, <3>1, <3>3, AccountLasts
  <2> QED
    BY <2>4, <2>5
<1>3. CASE StepDone(c) /\ ~Demoted(c)
  <2>1. /\ Res(c).cmd \in Commands /\ DirectionOf(Res(c).cmd) = machine'.state
        /\ link = "up" /\ (room = "off" => machine'.state = "OFF")
        /\ Absorbed => flight = <<>> /\ Way(unit) = machine'.state
        /\ ~Absorbed => surprise = {} /\ In(c).phys = unit
    BY <1>0, <1>3, StepFacts
  <2>2. CASE Absorbed
    <3>1. Retried => room = "off"
      BY DEF Retried
    <3>2. Grown(flight', machine'.state)
      BY <1>0, <1>3, <2>1, <3>1, StepWrites
      DEF Grown, Written, Unwritten, Forgotten
    <3> QED
      BY <1>1, <2>1, <2>2, <3>2, AgreedAccounts
  <2>3. CASE ~Absorbed
    <3>1. SeenStep(c)
      BY <1>3, <2>1, <2>3 DEF SeenStep
    <3>2. Retried => Written("OFF")
      BY <1>3 DEF StepDone, Stepped
    <3> QED
      BY <3>1, <3>2, RetriedAccounts, SyncedAccounts, BlindAccounts
  <2> QED
    BY <2>2, <2>3
<1> QED
  BY <1>0, <1>2, <1>3, PlainStep

\* A command at the head is executed.
LEMMA ExplainedExecute ==
    ASSUME PromptUnit, Base, Base', Explained, Execute
    PROVE  Explained'
<1> SUFFICES ASSUME machine.synced, surprise = {}, Accounted
             PROVE  Accounted'
  BY DEF Explained, Execute, core, ghosts
<1>1. /\ Len(flight) \in Nat \ {0} /\ Len(flight') = Len(flight) - 1
      /\ \A i \in 1 .. Len(flight') : flight'[i] = flight[i + 1]
      /\ unit' = Effect(flight[1].c) /\ flight[1].c \in Commands
      /\ UNCHANGED <<machine, stamp, elapsed>>
  BY Executing DEF Execute, Base, core, Entries
<1>2. Way(unit') = DirectionOf(flight[1].c)
      /\ (unit' = "off" <=> flight[1].c = "OFF")
  BY <1>1, WayOfEffect
<1>3. ASSUME Toward(1)
      PROVE  Accounted'
  BY <1>1, <1>2, <1>3 DEF Toward, Accounted, Agreed
<1>4. ASSUME NEW j \in 1 .. Len(flight), j # 1, Explains(j)
      PROVE  Accounted'
  <2> DEFINE k == j - 1
  <2>1. k \in 1 .. Len(flight') /\ flight'[k] = flight[j]
    BY <1>1, <1>4
  <2>2. Toward(k)'
    BY <1>1, <1>4 DEF Explains, Toward
  <2>3. Fresh(k)'
    BY <1>1, <1>4, <2>1 DEF Explains, Fresh
  <2>4. Timed(k)'
    <3>1. \A i \in 1 .. k - 1 :
             i + 1 \in 1 .. j - 1 /\ flight'[i] = flight[i + 1]
      BY <1>1, <2>1
    <3>2. 1 \in 1 .. j - 1
      BY <1>4
    <3>3. CASE machine.state = "OFF"
      BY <1>1, <1>4, <2>1, <3>3 DEF Explains, Timed, LongPause, Slack
    <3>4. CASE machine.state # "OFF"
      BY <1>1, <1>2, <1>4, <3>1, <3>2, <3>4
      DEF Explains, Timed, LongPause, Slack
    <3> QED
      BY <3>3, <3>4
  <2> QED
    BY <2>1, <2>2, <2>3, <2>4 DEF Accounted, Explains
<1> QED
  BY <1>3, <1>4 DEF Accounted, Agreed, Explains

\* Everything ages together.
LEMMA ExplainedPass ==
    ASSUME PromptUnit, Base, Base', Explained, Pass
    PROVE  Explained'
<1> SUFFICES ASSUME machine.synced, surprise = {}, Accounted
             PROVE  Accounted'
  BY DEF Explained, Pass
<1>1. /\ Len(flight) \in Nat /\ Len(flight') = Len(flight)
      /\ \A i \in 1 .. Len(flight) :
            /\ flight'[i].c = flight[i].c /\ flight[i].age \in Nat
            /\ flight'[i].age = flight[i].age + 1
      /\ UNCHANGED <<machine, unit>>
      /\ elapsed' = elapsed + 1 /\ stamp' = Minus(stamp, 1)
  BY Ageing, FlightTyped DEF Pass, Base
<1>2. /\ machine.since \in Nat /\ machine.timer \in Nat /\ elapsed \in Nat
      /\ stamp \in Nat /\ CycleLen \in Nat
  BY ClockTypes
<1>3. CASE Agreed
  BY <1>1, <1>3 DEF Accounted, Agreed, Toward
<1>4. ASSUME NEW j \in 1 .. Len(flight), Explains(j)
      PROVE  Accounted'
  <2>1. Toward(j)'
    BY <1>1, <1>4 DEF Explains, Toward
  <2>2. Fresh(j)'
    BY <1>1, <1>2, <1>4 DEF Explains, Fresh, Minus
  <2>3. Timed(j)'
    <3>1. \A i \in 1 .. j - 1 : i \in 1 .. Len(flight)
      BY <1>1, <1>4
    <3>2. CASE machine.state = "OFF"
      <4>1. LongPause => machine.timer + elapsed <= flight[j].age + CycleLen
        BY <1>4, <3>2 DEF Explains, Timed
      <4>2. /\ flight'[j].age = flight[j].age + 1 /\ flight[j].age \in Nat
            /\ machine'.timer = machine.timer /\ elapsed' = elapsed + 1
        BY <1>1
      <4>3. LongPause =>
               machine'.timer + elapsed' <= flight'[j].age + CycleLen
        BY <1>2, <4>1, <4>2
      <4> QED
        BY <1>1, <3>2, <4>3 DEF Timed, LongPause, Slack
    <3>3. CASE machine.state # "OFF"
      BY <1>1, <1>4, <3>1, <3>3 DEF Explains, Timed, LongPause, Slack
    <3> QED
      BY <3>2, <3>3
  <2> QED
    BY <1>1, <1>4, <2>1, <2>2, <2>3 DEF Accounted, Explains
<1> QED
  BY <1>3, <1>4 DEF Accounted

\* So does every step.
LEMMA ExplainedInductive ==
    ASSUME PromptUnit, Base, Base', Ledger, [DeliveryNext]_deliveryVars
    PROVE  Explained'
<1>1. ASSUME NEW c \in Choices, NEW again \in BOOLEAN, RoomCycle(c, again)
      PROVE  Explained'
  BY <1>1, ExplainedCycle
<1>2. CASE Execute
  BY <1>2, ExplainedExecute DEF Ledger
<1>3. CASE Pass
  BY <1>3, ExplainedPass DEF Ledger
<1>4. CASE FarewellTask
  <2> SUFFICES ASSUME machine'.synced, surprise' = {}
               PROVE  Accounted'
    BY DEF Explained
  <2>1. /\ machine' = Stopped(machine) /\ elapsed' = elapsed /\ unit' = unit
        /\ Reachable /\ surprise = {}
    BY <1>4 DEF FarewellTask
  <2>2. flight' = Send("OFF") /\ stamp' = CycleLen
    BY <1>4, <2>1 DEF FarewellTask, Dispatched
  <2>3. Accounted
    BY <2>1, StoppedKnows DEF Ledger, Explained
  <2> QED
    BY <2>1, <2>2, <2>3, FarewellAccounts
<1>5. CASE Reload \/ Restart
  <2>1. ~machine'.synced
    BY <1>5 DEF Reload, Restart, Rebuilt, ColdMachine
  <2> QED
    BY <2>1 DEF Explained
<1>6. CASE Lose \/ \E p \in Units : Touch(p)
  <2>1. surprise' # {}
    BY <1>6 DEF Lose, Touch
  <2> QED
    BY <2>1 DEF Explained
<1>7. CASE LinkChange \/ SwitchOff \/ SwitchOn \/ UNCHANGED deliveryVars
  <2>1. UNCHANGED <<machine, stamp, elapsed, flight, unit, surprise>>
    BY <1>7 DEF LinkChange, SwitchOff, SwitchOn, deliveryVars, core, plant,
                ghosts
  <2>2. Accounted' = Accounted
    BY <2>1 DEF Accounted, Agreed, Explains, Toward, Fresh, Timed
  <2> QED
    BY <2>1, <2>2 DEF Ledger, Explained
<1> QED
  BY <1>1, <1>2, <1>3, <1>4, <1>5, <1>6, <1>7 DEF DeliveryNext

\* It all holds at first.
LEMMA LedgerInit == PromptUnit /\ DeliveryInit => Ledger
<1> SUFFICES ASSUME PromptUnit, DeliveryInit
             PROVE  Ledger
  OBVIOUS
<1>1. /\ machine = ColdMachine /\ flight = <<>> /\ Len(flight) = 0
      /\ cache = None /\ room = "live" /\ unit \in {"off", "heat"}
  BY EmptySeq DEF DeliveryInit
<1>2. Known(ColdMachine) /\ ~ColdMachine.synced /\ ColdMachine.state = "OFF"
  BY ColdTyped DEF Known, ColdMachine
<1> QED
  BY <1>1, <1>2 DEF Ledger, Sight, HeatersHeat, OffRoomStopped, OffCache,
                    CacheTrue, BlindQuiet, Explained

\* Every step keeps it.
LEMMA LedgerKept ==
    ASSUME PromptUnit, Base, Base', Ledger, [DeliveryNext]_deliveryVars
    PROVE  Ledger'
  BY SightInductive, HeatersInductive, OffRoomInductive, OffCacheInductive,
     CacheInductive, BlindInductive, ExplainedInductive DEF Ledger, PromptUnit

----------------------------------------------------------------------------
(* No false touch.                                                         *)

\* A step begins a hold only at something the account does not know.
LEMMA HoldIsEarned ==
    ASSUME PromptUnit, Base, Base', Ledger, NEW c \in Choices,
           NEW again \in BOOLEAN, RoomCycle(c, again),
           machine.hold = 0, machine'.hold > 0
    PROVE  surprise # {} \/ surprise' # {}
<1> SUFFICES ASSUME surprise = {}, surprise' = {}
             PROVE  FALSE
  OBVIOUS
<1>0. NoDemotion /\ Sight /\ elapsed > 0
  BY CycleForms DEF PromptUnit, Ledger, Base
<1>1. Old.hold = 0
  BY <1>0, OldKnows
<1>2. StepDone(c) /\ ~Demoted(c)
  <2>1. Resting => machine'.hold = 0
    BY <1>1 DEF Resting
  <2> QED
    BY <1>0, <2>1, PlainStep
<1>3. Touched(Old, In(c).phys, Kind)
  <2>1. machine' = Res(c).m /\ HoldsFrom(Old, In(c), Dt, Res(c))
    BY <1>2 DEF StepDone
  <2> QED
    BY <1>1, <2>1 DEF HoldsFrom
<1>4. In(c).phys # "gap" /\ link = "up"
  <2>1. In(c).phys # "gap"
    BY <1>3 DEF Touched
  <2> QED
    BY <2>1, WhatIsRead DEF Base
<1>5. In(c).phys # unit
  BY <1>0, <1>3, <1>4, NoSelfTouch DEF Ledger
<1>6. Absorbed
  BY <1>0, <1>2, <1>4, <1>5, StepFacts
<1>7. Way(unit) = machine'.state /\ unit \in Settings
  BY <1>0, <1>2, <1>6, StepFacts DEF Base, DeliveryTypeOK
<1>8. In(c).phys = "off" /\ unit # "off"
  BY <1>4, <1>5, WhatIsRead DEF Base
<1>9. Agrees(machine'.state, "off")
  <2>1. machine' = Res(c).m /\ MirrorsFrom(Old, In(c), Res(c))
    BY <1>2 DEF StepDone
  <2>2. Adopts(Old, In(c))
    BY <1>3, <1>4, DeliveryAssumption DEF Adopts
  <2> QED
    BY <1>8, <2>1, <2>2 DEF MirrorsFrom
<1>10. machine'.state = "OFF"
  BY <1>9 DEF Agrees, Running
<1> QED
  BY <1>7, <1>8, <1>10, WayOfSetting

\* So it holds always.
LEMMA LedgerInvariant ==
    PromptUnit => (DeliverySpec => [](Base /\ Ledger))
<1> SUFFICES ASSUME PromptUnit
             PROVE  DeliverySpec => [](Base /\ Ledger)
  OBVIOUS
<1>1. DeliveryInit => Ledger
  BY LedgerInit
<1>2. Base /\ Base' /\ Ledger /\ [DeliveryNext]_deliveryVars => Ledger'
  BY LedgerKept
<1> QED
  BY <1>1, <1>2, BaseInvariant, PTL DEF DeliverySpec

\* A manual hold begins only at something other than the controller's own
\* commands: the settle rule, the distrust after a farewell and the re-seeded
\* reference together never take a late or retried command for a touch.
THEOREM NoFalseTouches == PromptUnit => (DeliverySpec => NoFalseTouch)
<1> SUFFICES ASSUME PromptUnit
             PROVE  DeliverySpec => NoFalseTouch
  OBVIOUS
<1>1. ASSUME Base, Base', Ledger, [DeliveryNext]_deliveryVars
      PROVE  [machine.hold = 0 /\ machine'.hold > 0
                => surprise \cup surprise' # {}]_deliveryVars
  <2> SUFFICES ASSUME machine.hold = 0, machine'.hold > 0
               PROVE  surprise # {} \/ surprise' # {}
    OBVIOUS
  <2>1. CASE \E c \in Choices, again \in BOOLEAN : RoomCycle(c, again)
    BY <1>1, <2>1, HoldIsEarned
  <2>2. CASE FarewellTask
    BY <1>1, <2>2, StoppedKnows DEF FarewellTask
  <2>3. CASE Reload \/ Restart
    BY <2>3 DEF Reload, Restart, Rebuilt, ColdMachine
  <2>4. CASE \/ \E p \in Units : Touch(p)
             \/ Execute \/ Lose \/ LinkChange \/ Pass \/ SwitchOff \/ SwitchOn
             \/ UNCHANGED deliveryVars
    BY <2>4 DEF Touch, Execute, Lose, LinkChange, Pass, SwitchOff, SwitchOn,
                deliveryVars, core
  <2> QED
    BY <1>1, <2>1, <2>2, <2>3, <2>4 DEF DeliveryNext
<1> QED
  BY <1>1, LedgerInvariant, PTL DEF DeliverySpec, NoFalseTouch

----------------------------------------------------------------------------
(* No short cycle.                                                         *)

\* A stop with a start behind it waits for a stopped unit, with nothing but
\* stops before it.
Ordered ==
    surprise = {} =>
        \A i, k \in 1 .. Len(flight) :
            i < k /\ flight[i].c = "OFF" /\ flight[k].c # "OFF" =>
                unit = "off" /\ \A l \in 1 .. i : flight[l].c = "OFF"

\* The pause of the unit is over, up to what a command takes.
Paused == age + Slack >= MinOff

\* The dwell clock of a machine whose unit the controller stopped.
Rest ==
    unit = "off" /\ by = "core" /\ machine.synced =>
        IF machine.state = "OFF"
        THEN machine.timer + elapsed <= age + Slack ELSE Paused

\* A start is only on its way to a stopped unit that has paused.
Ready ==
    unit = "off" /\ by = "core"
    /\ (\E i \in 1 .. Len(flight) : flight[i].c # "OFF") => Paused

\* What a command may take is a time.
LEMMA SlackType ==
    Base => Slack \in Nat /\ Slack >= CycleLen /\ Slack >= Lag
  BY DeliveryAssumption DEF Slack

\* A cycle keeps the rest of a stopped unit.
LEMMA RestCycle ==
    ASSUME PromptUnit, LongPause, Base, Base', Sight, Rest, NEW c \in Choices,
           NEW again \in BOOLEAN, RoomCycle(c, again)
    PROVE  Rest'
<1> SUFFICES ASSUME unit' = "off", by' = "core", machine'.synced
             PROVE  IF machine'.state = "OFF"
                    THEN machine'.timer + elapsed' <= age' + Slack
                    ELSE age' + Slack >= MinOff
  BY DEF Rest, Paused, Slack
<1>0. /\ unit = "off" /\ by = "core" /\ age' = age /\ elapsed' = 0
      /\ NoDemotion
  BY CycleForms DEF PromptUnit, Base
<1>1. /\ age \in Nat /\ Slack \in Nat /\ Slack >= CycleLen /\ MinOff \in Nat
      /\ machine.timer \in Nat /\ elapsed \in 0 .. CycleLen
      /\ CycleLen \in Nat /\ MinOff > Slack /\ Dt \in 0 .. CycleLen
      /\ machine'.timer \in Nat /\ Old.timer \in Nat
  BY ClockTypes, PrimedClocks, SlackType, OldMachine
  DEF LongPause, Base, Machine
<1>2. /\ Known(Old) /\ Old.synced = machine.synced /\ Old \in Machine
      /\ Retried => Old.state = "OFF"
      /\ Retried =>
            \/ Old.timer = 0
            \/ machine.state = "OFF" /\ Old.timer = machine.timer
      /\ ~Retried => Old = machine
      /\ machine.synced => Dt = elapsed
  BY OldKnows, OldMachine DEF Base
<1>3. machine.synced =>
         IF Old.state = "OFF" THEN Old.timer + elapsed <= age + Slack
                              ELSE age + Slack >= MinOff
  <2>1. machine.synced =>
           IF machine.state = "OFF" THEN machine.timer + elapsed <= age + Slack
                                    ELSE age + Slack >= MinOff
    BY <1>0 DEF Rest, Paused
  <2>2. Retried /\ Old.timer = 0 => Old.timer + elapsed <= age + Slack
    BY <1>1
  <2> QED
    BY <1>2, <2>1, <2>2
<1>4. CASE Resting
  <2>1. machine' = Old /\ machine.synced
    BY <1>2, <1>4 DEF Resting
  <2> QED
    BY <1>0, <1>1, <1>3, <2>1
<1>5. CASE StepDone(c)
  <2>1. /\ machine' = Res(c).m /\ TurnsFrom(Old, In(c), Dt, Res(c))
    BY <1>5 DEF StepDone
  <2>2. link = "up" /\ In(c).phys = "off"
    <3>1. link = "up"
      BY <1>0, <1>5, StepFacts
    <3> QED
      BY <1>0, <3>1, WhatIsRead DEF Base
  <2>3. machine'.state = "OFF" =>
           \/ machine'.timer <= Dt
           \/ machine.synced /\ Old.state = "OFF"
              /\ machine'.timer <= Old.timer + Dt
    BY <1>2, <2>1, <2>2 DEF TurnsFrom
  <2>4. CASE machine'.state = "OFF"
    BY <1>0, <1>1, <1>2, <1>3, <2>3, <2>4
  <2>5. CASE machine'.state # "OFF" /\ ~machine.synced
    <3>1. ~Agrees(machine'.state, "off")
      BY <2>5 DEF Agrees, Running
    <3>2. Dt >= MinOff
      BY <1>2, <2>1, <2>2, <2>5, <3>1 DEF TurnsFrom
    <3> QED
      BY <1>1, <3>2
  <2>6. CASE machine'.state # "OFF" /\ machine.synced /\ Old.state # "OFF"
    BY <1>0, <1>3, <2>6
  <2>7. CASE machine'.state # "OFF" /\ machine.synced /\ Old.state = "OFF"
    <3>1. ~Adopts(Old, In(c))
      <4>1. Old.prev # None => ~Diverges(Old, "off")
        <5>1. "off" \in Settings /\ Way("off") = "OFF"
          BY DEF Settings, Way
        <5> QED
          BY <1>2, <2>7, <5>1, DivergesWay
      <4>2. Old.prev = None => ~Diverges(Old, "off")
        BY DEF Diverges
      <4> QED
        BY <1>2, <2>2, <2>7, <4>1, <4>2 DEF Adopts, Touched
    <3>2. Old.timer + Dt >= MinOff
      BY <2>1, <2>2, <2>7, <3>1 DEF TurnsFrom
    <3> QED
      BY <1>0, <1>1, <1>2, <1>3, <2>7, <3>2
  <2> QED
    BY <2>4, <2>5, <2>6, <2>7
<1> QED
  BY <1>0, <1>4, <1>5, PlainStep

\* What the execution of a command at the head does.
LEMMA HeadExecuted ==
    ASSUME Base, Execute
    PROVE  /\ Len(flight) \in Nat \ {0} /\ Len(flight') = Len(flight) - 1
           /\ \A i \in 1 .. Len(flight') : flight'[i] = flight[i + 1]
           /\ flight[1].c \in Commands /\ unit' = Effect(flight[1].c)
           /\ unit' = "off" <=> flight[1].c = "OFF"
           /\ unit = "off" /\ unit' = "off" => by' = by /\ age' = age
           /\ unit # unit' /\ by' = "core" => surprise = {}
           /\ UNCHANGED <<machine, stamp, elapsed, surprise>>
<1>1. /\ Len(flight) \in Nat \ {0} /\ Len(flight') = Len(flight) - 1
      /\ \A i \in 1 .. Len(flight') : flight'[i] = flight[i + 1]
      /\ flight[1].c \in Commands /\ unit' = Effect(flight[1].c)
      /\ Head(flight) = flight[1]
  BY Executing DEF Execute, Base, Entries
<1>2. unit = "off" /\ unit' = "off" => by' = by /\ age' = age
  BY <1>1 DEF Execute, Toggled, Running
<1> QED
  BY <1>1, <1>2, WayOfEffect DEF Execute, core, ghosts

\* So does every step.
LEMMA RestInductive ==
    ASSUME PromptUnit, LongPause, Base, Base', Ledger, Rest,
           [DeliveryNext]_deliveryVars
    PROVE  Rest'
<1> SUFFICES ASSUME unit' = "off", by' = "core", machine'.synced
             PROVE  IF machine'.state = "OFF"
                    THEN machine'.timer + elapsed' <= age' + Slack
                    ELSE age' + Slack >= MinOff
  BY DEF Rest, Paused, Slack
<1>1. CASE \E c \in Choices, again \in BOOLEAN : RoomCycle(c, again)
  <2>1. Rest'
    BY <1>1, RestCycle DEF Ledger
  <2> QED
    BY <2>1 DEF Rest, Paused, Slack
<1>0. /\ age \in 0 .. TimerCap /\ Slack \in Nat /\ Slack >= CycleLen
      /\ MinOff \in Nat /\ TimerCap \in Nat /\ TimerCap >= MinOff
      /\ machine.timer \in 0 .. TimerCap /\ elapsed \in 0 .. CycleLen
      /\ CycleLen \in Nat /\ MinOff > Slack /\ Lag \in Nat
  BY ClockTypes, SlackType DEF LongPause
<1>2. CASE Execute
  <2>1. CASE unit = "off"
    BY <1>2, <2>1, HeadExecuted DEF Rest, Paused, Slack
  <2>2. CASE unit # "off"
    <3>1. surprise = {} /\ flight[1].c = "OFF" /\ Len(flight) \in Nat \ {0}
          /\ machine' = machine /\ elapsed' = elapsed
      BY <1>2, <2>2, HeadExecuted
    <3>2. Accounted
      BY <3>1 DEF Ledger, Explained
    <3>3. ~Agreed
      <4>1. Agreed => Way(unit) = DirectionOf(flight[1].c)
        BY <3>1 DEF Agreed, Toward
      <4> QED
        BY <2>2, <3>1, <4>1, WayOfSetting
        DEF DirectionOf, Base, DeliveryTypeOK
    <3>4. PICK j \in 1 .. Len(flight) : Timed(j)
      BY <3>2, <3>3 DEF Accounted, Explains
    <3>5. machine.state = "OFF"
          /\ machine.timer + elapsed <= flight[j].age + CycleLen
      BY <2>2, <3>4 DEF Timed
    <3>6. flight[j].age \in 0 .. Lag
      BY FlightTyped DEF Base
    <3>7. machine.timer + elapsed <= Slack /\ age' \in Nat
      <4>1. flight[j].age <= Lag /\ flight[j].age \in Nat
        BY <1>0, <3>6
      <4>2. flight[j].age + CycleLen <= Slack
        BY <1>0, <4>1 DEF Slack
      <4>3. flight[j].age + CycleLen \in Nat
        BY <1>0, <4>1
      <4>4. machine.timer + elapsed <= Slack
        BY <1>0, <3>5, <4>2, <4>3
      <4> QED
        BY <4>4, PrimedClocks
    <3> QED
      BY <1>0, <3>1, <3>5, <3>7
  <2> QED
    BY <2>1, <2>2
<1>3. CASE Pass
  <2>1. /\ age' = Least(age + 1, TimerCap) /\ elapsed' = elapsed + 1
        /\ elapsed < CycleLen /\ machine' = machine /\ unit = "off"
        /\ by = "core"
    BY <1>3 DEF Pass
  <2>2. IF machine.state = "OFF" THEN machine.timer + elapsed <= age + Slack
                                 ELSE age + Slack >= MinOff
    BY <2>1 DEF Rest, Paused
  <2>3. age' = age + 1 \/ (age' = age /\ age = TimerCap)
    BY <1>0, <2>1 DEF Least
  <2>4. machine.state = "OFF" => machine'.timer + elapsed' <= age' + Slack
    BY <1>0, <2>1, <2>2, <2>3
  <2> QED
    BY <1>0, <2>1, <2>2, <2>3, <2>4
<1>4. CASE FarewellTask
  <2>1. /\ machine' = Stopped(machine) /\ elapsed' = elapsed /\ age' = age
        /\ unit = "off" /\ by = "core"
    BY <1>4 DEF FarewellTask
  <2>2. /\ machine'.state = "OFF" /\ machine.synced
        /\ \/ machine'.timer = 0
           \/ machine.state = "OFF" /\ machine'.timer = machine.timer
    BY <2>1, StoppedKnows
  <2>3. machine.state = "OFF" => machine.timer + elapsed <= age + Slack
    BY <2>1, <2>2 DEF Rest
  <2> QED
    BY <1>0, <2>1, <2>2, <2>3
<1>5. CASE Reload \/ Restart
  BY <1>5 DEF Reload, Restart, Rebuilt, ColdMachine
<1>6. CASE Lose \/ \E p \in Units : Touch(p)
  BY <1>6 DEF Lose, Touch
<1>7. CASE LinkChange \/ SwitchOff \/ SwitchOn \/ UNCHANGED deliveryVars
  BY <1>7 DEF LinkChange, SwitchOff, SwitchOn, deliveryVars, core, plant,
              ghosts, Rest, Paused, Slack
<1> QED
  BY <1>1, <1>2, <1>3, <1>4, <1>5, <1>6, <1>7 DEF DeliveryNext

\* A start is sent after a cycle that leaves the machine there.
LEMMA StartSent ==
    ASSUME PromptUnit, Base, NEW c \in Choices, NEW again \in BOOLEAN,
           RoomCycle(c, again)
    PROVE  \/ flight' = flight
           \/ flight' = Send("OFF")
           \/ /\ StepDone(c) /\ ~Demoted(c) /\ ~Retried /\ link = "up"
              /\ Res(c).cmd \in Commands /\ Res(c).cmd # "OFF"
              /\ flight' = Send(Res(c).cmd)
              /\ machine'.synced /\ machine'.state # "OFF"
<1>0. NoDemotion
  BY DEF PromptUnit
<1>1. CASE Resting
  BY <1>1 DEF Resting, Written, Unwritten
<1>2. CASE StepDone(c) /\ ~Demoted(c)
  <2>1. /\ Res(c).cmd \in Commands /\ DirectionOf(Res(c).cmd) = machine'.state
        /\ machine'.synced <=> link = "up"
    BY <1>0, <1>2, StepFacts
  <2>2. machine'.state = "OFF" <=> Res(c).cmd = "OFF"
    BY <2>1, WayOfEffect
  <2> QED
    BY <1>2, <2>1, <2>2, StepWrites DEF Written, Unwritten, Forgotten
<1> QED
  BY <1>0, <1>1, <1>2, PlainStep

\* A flight that has grown by an OFF, or not at all, has no start more.
LEMMA NoStartMore ==
    ASSUME Base, flight' = flight \/ flight' = Send("OFF")
    PROVE  /\ Len(flight) \in Nat /\ Len(flight') \in Nat
           /\ \A i \in 1 .. Len(flight') :
                 i \in 1 .. Len(flight) => flight'[i] = flight[i]
           /\ \A i \in 1 .. Len(flight') :
                 flight'[i].c # "OFF" => i \in 1 .. Len(flight)
<1>1. "OFF" \in Commands
  BY DEF Commands, Directions
<1>2. CASE flight' = flight
  BY <1>2, FlightTyped DEF Base
<1>3. CASE flight' = Send("OFF")
  BY <1>1, <1>3, SendTyped
<1> QED
  BY <1>2, <1>3

\* What a start finds on its way before it.
LEMMA OrderedCycle ==
    ASSUME PromptUnit, LongPause, Base, Base', Ledger, Ordered,
           NEW c \in Choices, NEW again \in BOOLEAN, RoomCycle(c, again),
           surprise' = {}, StepDone(c), ~Demoted(c), ~Retried, link = "up",
           machine'.synced, machine'.state # "OFF", flight # <<>>
    PROVE  /\ surprise = {}
           /\ \A i \in 1 .. Len(flight) : flight[i].c = "OFF" =>
                 unit = "off" /\ \A l \in 1 .. i : flight[l].c = "OFF"
<1>0. NoDemotion /\ Sight
  BY DEF PromptUnit, Ledger
<1>1. surprise = {} /\ In(c).phys = unit
  BY <1>0, StepFacts
<1>2. SeenStep(c)
  BY <1>1 DEF SeenStep
<1>3. Old = machine /\ (machine.synced => Dt = elapsed)
  BY <1>0, OldKnows
<1>4. /\ Len(flight) \in Nat
      /\ \A i \in 1 .. Len(flight) : flight[i].c \in Commands
  BY FlightTyped DEF Base
<1>5. CASE machine.synced
  <2>1. Accounted
    BY <1>1, <1>5 DEF Ledger, Explained
  <2>2. \/ machine'.state = machine.state
        \/ machine.state = "OFF" /\ machine.timer + elapsed >= MinOff
    BY <1>2, <1>3, <1>5, SeenClocks
  <2>3. CASE machine.state = "OFF"
    <3>1. unit = "off" /\ OnlyStops
      BY <2>1, <2>2, <2>3, LongStopped
    <3> QED
      BY <1>1, <1>4, <3>1 DEF OnlyStops
  <2>4. CASE machine.state # "OFF"
    <3>1. CASE Agreed
      <4>1. \A i \in 1 .. Len(flight) : flight[i].c # "OFF"
        BY <2>4, <3>1 DEF Agreed, Toward, DirectionOf
      <4> QED
        BY <1>1, <4>1
    <3>2. ASSUME NEW j \in 1 .. Len(flight), Explains(j)
          PROVE  \A i \in 1 .. Len(flight) : flight[i].c = "OFF" =>
                    unit = "off" /\ \A l \in 1 .. i : flight[l].c = "OFF"
      <4>1. \A i \in j .. Len(flight) : flight[i].c # "OFF"
        BY <2>4, <3>2 DEF Explains, Toward, DirectionOf
      <4>2. unit = "off" /\ \A i \in 1 .. j - 1 : flight[i].c = "OFF"
        BY <2>4, <3>2 DEF Explains, Timed
      <4>3. \A i \in 1 .. Len(flight) : flight[i].c = "OFF" => i < j
        BY <1>4, <4>1
      <4> QED
        BY <1>4, <4>2, <4>3
    <3> QED
      BY <1>1, <2>1, <3>1, <3>2 DEF Accounted
  <2> QED
    BY <2>3, <2>4
<1>6. CASE ~machine.synced
  <2>1. Parting(Len(flight))
    BY <1>6 DEF Ledger, BlindQuiet, GivenUp
  <2>2. unit = "off"
    <3>1. stamp > 0
      BY <2>1, PartingDistrusts
    <3> QED
      BY <1>1, <3>1, WhatIsRead DEF Base, Dist
  <2>3. /\ Dt \in 0 .. CycleLen /\ CycleLen \in Nat /\ MinOff \in Nat
        /\ Lag \in Nat
    BY OldMachine, ClockTypes DEF Base
  <2>4. Way(unit) # machine'.state
    BY <2>2 DEF Way
  <2>5. Dt >= MinOff
    BY <1>2, <1>6, <2>4, SeenClocks
  <2> QED
    BY <2>3, <2>5 DEF LongPause, Slack
<1> QED
  BY <1>5, <1>6

\* Every step keeps the order.
LEMMA OrderedInductive ==
    ASSUME PromptUnit, LongPause, Base, Base', Ledger, Ordered,
           [DeliveryNext]_deliveryVars
    PROVE  Ordered'
<1> SUFFICES ASSUME surprise' = {}, NEW i \in 1 .. Len(flight'),
                    NEW k \in 1 .. Len(flight'), i < k,
                    flight'[i].c = "OFF", flight'[k].c # "OFF"
             PROVE  unit' = "off" /\ \A l \in 1 .. i : flight'[l].c = "OFF"
  BY DEF Ordered
<1>0. /\ Len(flight) \in Nat
      /\ (surprise = {} => \A n, o \in 1 .. Len(flight) :
             n < o /\ flight[n].c = "OFF" /\ flight[o].c # "OFF" =>
                unit = "off" /\ \A l \in 1 .. n : flight[l].c = "OFF")
  BY FlightTyped DEF Base, Ordered
<1>1. CASE /\ surprise = {} /\ unit' = unit
           /\ flight' = flight \/ flight' = Send("OFF")
  <2>1. /\ \A n \in 1 .. Len(flight') :
              n \in 1 .. Len(flight) => flight'[n] = flight[n]
        /\ k \in 1 .. Len(flight)
    BY <1>1, NoStartMore
  <2>2. i \in 1 .. Len(flight)
        /\ \A l \in 1 .. i :
              l \in 1 .. Len(flight) /\ l \in 1 .. Len(flight')
    BY <1>0, <2>1
  <2> QED
    BY <1>0, <1>1, <2>1, <2>2
<1>2. ASSUME NEW c \in Choices, NEW again \in BOOLEAN, RoomCycle(c, again)
      PROVE  unit' = "off" /\ \A l \in 1 .. i : flight'[l].c = "OFF"
  <2>1. unit' = unit
    BY <1>2, CycleForms DEF Base
  <2>2. CASE flight' = flight \/ flight' = Send("OFF")
    <3>1. flight # <<>>
      <4>1. k \in 1 .. Len(flight)
        BY <2>2, NoStartMore
      <4> QED
        BY <1>0, <4>1, FlightTyped DEF Base
    <3>2. surprise = {}
      <4>1. CASE Resting
        BY <4>1 DEF Resting
      <4>2. CASE StepDone(c)
        BY <1>2, <3>1, <4>2, StepFacts DEF PromptUnit
      <4> QED
        BY <1>2, <4>1, <4>2, PlainStep DEF PromptUnit
    <3> QED
      BY <1>1, <2>1, <2>2, <3>2
  <2>3. CASE /\ StepDone(c) /\ ~Demoted(c) /\ ~Retried /\ link = "up"
             /\ Res(c).cmd \in Commands
             /\ flight' = Send(Res(c).cmd)
             /\ machine'.synced /\ machine'.state # "OFF"
    <3>1. /\ Len(flight') = Len(flight) + 1
          /\ \A n \in 1 .. Len(flight) : flight'[n] = flight[n]
      BY <2>3, SendTyped
    <3>2. i \in 1 .. Len(flight) /\ \A l \in 1 .. i : l \in 1 .. Len(flight)
      BY <1>0, <3>1
    <3>3. flight # <<>>
      BY <1>0, <3>2, FlightTyped DEF Base
    <3>4. flight[i].c = "OFF" =>
             unit = "off" /\ \A l \in 1 .. i : flight[l].c = "OFF"
      BY <1>2, <2>3, <3>2, <3>3, OrderedCycle
    <3> QED
      BY <2>1, <3>1, <3>2, <3>4
  <2> QED
    BY <1>2, <2>2, <2>3, StartSent
<1>3. CASE Execute
  <2>1. /\ Len(flight') = Len(flight) - 1 /\ surprise = {}
        /\ \A n \in 1 .. Len(flight') : flight'[n] = flight[n + 1]
        /\ unit' = "off" <=> flight[1].c = "OFF"
    BY <1>3, HeadExecuted
  <2>2. /\ i + 1 \in 1 .. Len(flight) /\ k + 1 \in 1 .. Len(flight)
        /\ i + 1 < k + 1
        /\ flight[i + 1].c = "OFF" /\ flight[k + 1].c # "OFF"
    BY <1>0, <2>1
  <2>3. \A l \in 1 .. i + 1 : flight[l].c = "OFF"
    BY <1>0, <2>1, <2>2
  <2>4. \A l \in 1 .. i : l + 1 \in 1 .. i + 1 /\ l \in 1 .. Len(flight')
    BY <1>0, <2>1
  <2>5. 1 \in 1 .. i + 1
    OBVIOUS
  <2> QED
    BY <2>1, <2>3, <2>4, <2>5
<1>4. CASE Pass
  <2>1. /\ Len(flight') = Len(flight) /\ unit' = unit /\ surprise = {}
        /\ \A n \in 1 .. Len(flight) : flight'[n].c = flight[n].c
    BY <1>4, Ageing, FlightTyped DEF Pass, Base
  <2>2. \A l \in 1 .. i : l \in 1 .. Len(flight)
    BY <1>0, <2>1
  <2> QED
    BY <1>0, <2>1, <2>2
<1>5. CASE FarewellTask
  BY <1>1, <1>5 DEF FarewellTask, Dispatched
<1>6. CASE Reload \/ Restart
  BY <1>1, <1>6 DEF Reload, Restart, plant
<1>7. CASE Lose \/ \E p \in Units : Touch(p)
  BY <1>7 DEF Lose, Touch
<1>8. CASE LinkChange \/ SwitchOff \/ SwitchOn \/ UNCHANGED deliveryVars
  BY <1>1, <1>8 DEF LinkChange, SwitchOff, SwitchOn, deliveryVars, core, plant,
              ghosts
<1> QED
  BY <1>2, <1>3, <1>4, <1>5, <1>6, <1>7, <1>8 DEF DeliveryNext

\* Every step keeps that.
LEMMA ReadyInductive ==
    ASSUME PromptUnit, LongPause, Base, Base', Ledger, Rest, Rest', Ordered,
           Ready, [DeliveryNext]_deliveryVars
    PROVE  Ready'
<1> SUFFICES ASSUME unit' = "off", by' = "core",
                    NEW k \in 1 .. Len(flight'), flight'[k].c # "OFF"
             PROVE  age' + Slack >= MinOff
  BY DEF Ready, Paused, Slack
<1>0. /\ age \in 0 .. TimerCap /\ Slack \in Nat /\ MinOff \in Nat
      /\ TimerCap \in Nat /\ TimerCap >= MinOff /\ Len(flight) \in Nat
  BY ClockTypes, SlackType, FlightTyped DEF Base
<1>1. CASE /\ unit = "off" /\ by = "core" /\ age' = age
           /\ flight' = flight \/ flight' = Send("OFF")
  <2>1. k \in 1 .. Len(flight) /\ flight[k].c # "OFF"
    BY <1>1, NoStartMore
  <2> QED
    BY <1>1, <2>1 DEF Ready, Paused
<1>2. ASSUME NEW c \in Choices, NEW again \in BOOLEAN, RoomCycle(c, again)
      PROVE  age' + Slack >= MinOff
  <2>1. unit = "off" /\ by = "core" /\ age' = age
    BY <1>2, CycleForms DEF Base
  <2>2. machine'.synced /\ machine'.state # "OFF" => age' + Slack >= MinOff
    BY DEF Rest, Paused, Slack
  <2> QED
    BY <1>1, <1>2, <2>1, <2>2, StartSent
<1>3. CASE Execute
  <2>1. /\ Len(flight') = Len(flight) - 1 /\ flight[1].c = "OFF"
        /\ \A n \in 1 .. Len(flight') : flight'[n] = flight[n + 1]
        /\ unit = "off" => by' = by /\ age' = age
        /\ unit # "off" => surprise = {}
    BY <1>3, HeadExecuted
  <2>2. k + 1 \in 1 .. Len(flight) /\ flight[k + 1].c # "OFF"
        /\ 1 \in 1 .. Len(flight) /\ 1 < k + 1
    BY <1>0, <2>1
  <2>3. unit = "off"
    BY <2>1, <2>2 DEF Ordered
  <2> QED
    BY <2>1, <2>2, <2>3 DEF Ready, Paused
<1>4. CASE Pass
  <2>1. /\ Len(flight') = Len(flight) /\ unit = "off" /\ by = "core"
        /\ \A n \in 1 .. Len(flight) : flight'[n].c = flight[n].c
        /\ age' = Least(age + 1, TimerCap)
    BY <1>4, Ageing, FlightTyped DEF Pass, Base
  <2>2. age + Slack >= MinOff
    BY <2>1 DEF Ready, Paused
  <2> QED
    BY <1>0, <2>1, <2>2 DEF Least
<1>5. CASE FarewellTask
  BY <1>1, <1>5 DEF FarewellTask, Dispatched
<1>6. CASE Reload \/ Restart
  BY <1>1, <1>6 DEF Reload, Restart, plant
<1>7. CASE Lose \/ \E p \in Units : Touch(p)
  BY <1>7 DEF Lose, Touch
<1>8. CASE LinkChange \/ SwitchOff \/ SwitchOn \/ UNCHANGED deliveryVars
  BY <1>1, <1>8 DEF LinkChange, SwitchOff, SwitchOn, deliveryVars, core, plant,
              ghosts
<1> QED
  BY <1>2, <1>3, <1>4, <1>5, <1>6, <1>7, <1>8 DEF DeliveryNext

\* A unit the controller stopped is not started by it before the minimal pause,
\* less one cycle and the lag of a command, over gaps, farewells, reloads and
\* restarts.
THEOREM ShortCyclesAreBarred == PromptUnit => (DeliverySpec => NoShortCycle)
<1> SUFFICES ASSUME PromptUnit
             PROVE  DeliverySpec => NoShortCycle
  OBVIOUS
<1> DEFINE Barred ==
             by = "core" /\ unit = "off" /\ by' = "core" /\ unit' # "off"
               => age >= Minus(MinOff, CycleLen + Lag)
           Pauses == Rest /\ Ordered /\ Ready
<1>1. Base => /\ age \in Nat /\ Slack \in Nat /\ MinOff \in Nat
              /\ Slack = CycleLen + Lag
  BY ClockTypes, SlackType DEF Slack
<1>2. CASE ~LongPause
  <2>1. Base => [Barred]_deliveryVars
    BY <1>1, <1>2 DEF LongPause, Minus
  <2> QED
    BY <2>1, BaseInvariant, PTL DEF DeliverySpec, NoShortCycle
<1>3. CASE LongPause
  <2>1. DeliveryInit => Pauses
    BY EmptySeq DEF DeliveryInit, ColdMachine, Rest, Ordered, Ready
  <2>2. Base /\ Base' /\ Ledger /\ Pauses /\ [DeliveryNext]_deliveryVars
           => Pauses'
    BY <1>3, RestInductive, OrderedInductive, ReadyInductive
  <2>3. Base /\ Pauses /\ [DeliveryNext]_deliveryVars => [Barred]_deliveryVars
    <3> SUFFICES ASSUME Base, Ready, [DeliveryNext]_deliveryVars,
                        by = "core", unit = "off", by' = "core", unit' # "off"
                 PROVE  age >= Minus(MinOff, CycleLen + Lag)
      OBVIOUS
    <3>1. Execute
      <4>1. ASSUME NEW c \in Choices, NEW again \in BOOLEAN,
                   RoomCycle(c, again)
            PROVE  FALSE
        BY <4>1, CycleForms DEF Base
      <4> QED
        BY <4>1
        DEF DeliveryNext, Touch, Lose, LinkChange, Pass, SwitchOff, SwitchOn,
            FarewellTask, Reload, Restart, deliveryVars, plant
    <3>2. flight[1].c # "OFF" /\ 1 \in 1 .. Len(flight)
      BY <3>1, HeadExecuted
    <3>3. age + Slack >= MinOff
      BY <3>2 DEF Ready, Paused
    <3> QED
      BY <1>1, <3>3 DEF Minus
  <2> QED
    BY <2>1, <2>2, <2>3, LedgerInvariant, PTL DEF DeliverySpec, NoShortCycle
<1> QED
  BY <1>2, <1>3

=============================================================================
