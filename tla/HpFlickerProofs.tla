--------------------------- MODULE HpFlickerProofs ---------------------------
(***************************************************************************)
(* Proofs about the heat-pump link: the cooling setpoint and its flicker   *)
(* for all knobs, grids, dew points and cycle lengths, the building above  *)
(* it for any number of rooms, and the operating mode beside it.           *)
(***************************************************************************)
EXTENDS CoolingBuilding, HpMode, TLAPS

\* A point of the setpoint entity's grid.
OnGrid(v) == \E k \in Int : v = k * StepSize

\* Integer division by a positive number, as two bounds.
LEMMA Division ==
    ASSUME NEW x \in Int, NEW d \in Nat, d > 0
    PROVE  /\ x \div d \in Int
           /\ (x \div d) * d <= x
           /\ x < (x \div d) * d + d
  BY SMT

\* Two grid points less than a step apart are the same point: why the writer's
\* threshold never skips a change of the rounded setpoint.
LEMMA GridIsDiscrete ==
    ASSUME NEW i \in Int, NEW j \in Int, NEW s \in Nat, s > 0,
           Distance(i * s, j * s) < s
    PROVE  i * s = j * s
<1>1. CASE i < j
  <2>1. j - i >= 1 BY <1>1
  <2>2. (j - i) * s >= 1 * s BY <2>1, SMT
  <2>. QED BY <2>2, <1>1 DEF Distance
<1>2. CASE j < i
  <2>1. i - j >= 1 BY <1>2
  <2>2. (i - j) * s >= 1 * s BY <2>1, SMT
  <2>. QED BY <2>2, <1>2 DEF Distance
<1>. QED BY <1>1, <1>2

\* round_to_step_c lands on the grid, at most half a step below its argument.
LEMMA RoundedBounds ==
    ASSUME NEW v \in Int
    PROVE  /\ Rounded(v) \in Int /\ OnGrid(Rounded(v))
           /\ v <= Rounded(v) + (StepSize \div 2)
<1>. DEFINE q == (2 * v + StepSize) \div (2 * StepSize)
<1>1. StepSize \in Nat /\ StepSize > 0 BY FlickerAssumption
<1>2. /\ q \in Int /\ 2 * v + StepSize < q * (2 * StepSize) + 2 * StepSize
  BY <1>1, Division
<1>3. q * (2 * StepSize) = 2 * (q * StepSize) BY <1>1, <1>2
<1>4. Rounded(v) = q * StepSize BY DEF Rounded
<1>5. StepSize < (StepSize \div 2) * 2 + 2 /\ StepSize \div 2 \in Int
  BY <1>1, Division
<1>. HIDE DEF q
<1>. QED BY <1>1, <1>2, <1>3, <1>4, <1>5 DEF OnGrid

\* round_to_step_c leaves a grid point where it is.
LEMMA RoundedOnGrid ==
    ASSUME NEW k \in Int
    PROVE  Rounded(k * StepSize) = k * StepSize
<1>. DEFINE v == k * StepSize
            q == (2 * v + StepSize) \div (2 * StepSize)
<1>1. StepSize \in Nat /\ StepSize > 0 /\ v \in Int BY FlickerAssumption
<1>2. /\ q \in Int
      /\ q * (2 * StepSize) <= 2 * v + StepSize
      /\ 2 * v + StepSize < q * (2 * StepSize) + 2 * StepSize
  BY <1>1, Division
<1>3. q * (2 * StepSize) = 2 * (q * StepSize) BY <1>1, <1>2
<1>4. Rounded(v) = q * StepSize BY DEF Rounded
<1>5. Distance(q * StepSize, v) < StepSize
  <2>. HIDE DEF q, v
  <2>. QED BY <1>1, <1>2, <1>3 DEF Distance
<1>6. q * StepSize = v
  <2>. HIDE DEF q
  <2>. QED BY <1>1, <1>2, <1>5, GridIsDiscrete
<1>. QED BY <1>4, <1>6

\* _pulse_floor_c is a grid point not below the raw dew point.
LEMMA PulseFloorBounds ==
    ASSUME NEW d \in Int
    PROVE  /\ PulseFloor(d) \in Int /\ OnGrid(PulseFloor(d))
           /\ d - Reserve <= PulseFloor(d)
<1>. DEFINE q == (Reserve - d) \div StepSize
<1>1. StepSize \in Nat /\ StepSize > 0 /\ Reserve \in Nat
  BY FlickerAssumption
<1>2. q \in Int /\ q * StepSize <= Reserve - d BY <1>1, Division
<1>3. PulseFloor(d) = -q * StepSize BY DEF PulseFloor
<1>4. -q \in Int /\ (-q) * StepSize = -(q * StepSize)
  <2>. HIDE DEF q
  <2>. QED BY <1>1, <1>2
<1>. HIDE DEF q
<1>. QED BY <1>1, <1>2, <1>3, <1>4 DEF OnGrid

\* cooling_setpoint_c is not below the safe dew point.
LEMMA NormalTargetBounds ==
    ASSUME NEW d \in Dews
    PROVE  /\ NormalTarget(d) \in Int
           /\ d # NoReading => d <= NormalTarget(d)
  BY FlickerAssumption DEF NormalTarget, Atleast

----------------------------------------------------------------------------
(* The machine.                                                            *)

\* SetpointFlicker.tick keeps the clocks in range and the state as it is.
LEMMA TickKeeps ==
    ASSUME NEW f \in Flicker, NEW dt \in Nat
    PROVE  Tick(f, dt) \in Flicker /\ Tick(f, dt).state = f.state
<1>1. {StuckFor, MinOff, Window} \subseteq Nat BY FlickerAssumption
<1>2. {t + dt : t \in {u \in f.pulses : u + dt < Window}}
        \in SUBSET (0 .. Window)
  BY <1>1 DEF Flicker
<1>3. Upto(f.stuck + dt, StuckFor) \in 0 .. StuckFor
      /\ Upto(f.cooldown + dt, MinOff) \in 0 .. MinOff
  BY <1>1 DEF Flicker, Upto
<1>. QED BY <1>2, <1>3 DEF Flicker, Tick

\* What a pulse presupposes and what follows it.
LEMMA StepKeeps ==
    ASSUME NEW f \in Flicker, NEW in \in Inputs
    PROVE  /\ FlickerStep(f, in) \in Flicker
           /\ FlickerStep(f, in).state = "pulse" =>
                /\ f.state # "pulse"
                /\ in.dew # NoReading /\ CoolingActive(in)
<1>1. /\ 0 \in 0 .. StuckFor /\ 0 \in 0 .. MinOff
      /\ f.pulses \cup {0} \in SUBSET (0 .. Window)
  BY FlickerAssumption DEF Flicker
<1>2. CASE f.state = "pulse"
  <2>1. FlickerStep(f, in) = [f EXCEPT !.state = "cooldown", !.cooldown = 0]
    BY <1>2 DEF FlickerStep
  <2>. QED BY <1>1, <1>2, <2>1 DEF Flicker
<1>3. CASE f.state # "pulse" /\ (in.dew = NoReading \/ ~CoolingActive(in))
  <2>1. FlickerStep(f, in) = [f EXCEPT !.stuck = 0] BY <1>3 DEF FlickerStep
  <2>. QED BY <1>1, <1>3, <2>1 DEF Flicker
<1>4. CASE f.state # "pulse" /\ in.dew # NoReading /\ CoolingActive(in)
  <2>1. \/ FlickerStep(f, in) = [f EXCEPT !.state = "idle", !.stuck = 0]
        \/ FlickerStep(f, in) = f
        \/ FlickerStep(f, in) = [f EXCEPT !.stuck = 0]
        \/ FlickerStep(f, in) = [f EXCEPT !.state = "pulse", !.stuck = 0,
                                          !.pulses = f.pulses \cup {0}]
    BY <1>4, Zenon DEF FlickerStep
  <2>. QED BY <1>1, <1>4, <2>1 DEF Flicker
<1>. QED BY <1>2, <1>3, <1>4

----------------------------------------------------------------------------
(* The writer.                                                             *)

\* The cache is empty or on the pump's grid.
Cached == cache # NoReading => cache \in Int /\ OnGrid(cache)

\* A write that meets a reachable entity leaves the rounded value in the
\* cache, whether it was sent or skipped.
LEMMA WriteReaches ==
    ASSUME NEW v \in Int, NEW old, Cached, target \in Int, Write(v, old)
    PROVE  /\ target' \in Int /\ Cached'
           /\ link = "up" => cache' = Rounded(v)
<1>1. Rounded(v) \in Int /\ OnGrid(Rounded(v)) BY RoundedBounds
<1>2. CASE link = "down"
  BY <1>2 DEF Write, Cached, OnGrid
<1>3. CASE link # "down" /\ Skipped(v, old)
  <2>1. PICK i \in Int, j \in Int :
          Rounded(v) = i * StepSize /\ cache = j * StepSize
    BY <1>1, <1>3 DEF OnGrid, Cached, Skipped
  <2>2. Distance(i * StepSize, j * StepSize) < StepSize
    BY <1>1, <1>3, <2>1, FlickerAssumption DEF Skipped, Distance
  <2>3. StepSize \in Nat /\ StepSize > 0 BY FlickerAssumption
  <2>4. i * StepSize = j * StepSize BY <2>1, <2>2, <2>3, GridIsDiscrete
  <2>5. Rounded(v) = cache BY <2>1, <2>4
  <2>6. target' = target /\ cache' = cache BY <1>3 DEF Write
  <2>. QED BY <1>3, <2>5, <2>6 DEF Cached, OnGrid, Skipped
<1>4. CASE link # "down" /\ ~Skipped(v, old)
  <2>1. cache' = Rounded(v) /\ target' \in {target, Rounded(v)}
    BY <1>4 DEF Write
  <2>. QED BY <1>1, <2>1 DEF Cached, OnGrid
<1>. QED BY <1>2, <1>3, <1>4

----------------------------------------------------------------------------
(* The inductive invariant.                                                *)

IInv == TypeOK /\ Cached /\ FloorOnlyInPulse /\ NeverBelowDew

\* What a cycle writes to the pump: the values are on the scale, the pulse
\* is dew-safe, and a restore or an owned cycle that meets a reachable
\* entity leaves the pump at the target the decision asked for, unless it
\* ignored the command.
LEMMA CycleWrites ==
    ASSUME TypeOK, Cached, NEW in \in Inputs, NEW e \in Elapsed, Cycle(in, e)
    PROVE  /\ flicker' \in Flicker
           /\ target' \in Int /\ Cached'
           /\ low' \in BOOLEAN /\ missed' \in BOOLEAN
           /\ low' /\ flicker'.state # "pulse" /\ ~missed' =>
                low /\ ~(Writes(flicker, in) /\ link = "up")
           /\ flicker.state = "pulse" => flicker'.state # "pulse"
           /\ in.cooling /\ in.owned /\ link = "up" /\ in.dew # NoReading
              /\ ~missed' => target' >= in.dew - Reserve
<1>. DEFINE F(dt) == Tick(flicker, dt)
            G(dt) == FlickerStep(F(dt), in)
            V(dt) == IF G(dt).state = "pulse" THEN PulseFloor(in.dew)
                                              ELSE NormalTarget(in.dew)
            old   == Upto(sent + e, Reassert)
<1>0. PICK dt \in {CycleLen, e} :
        /\ flicker' = G(dt)
        /\ IF Writes(F(dt), in) THEN Write(V(dt), old)
              ELSE sent' = old /\ UNCHANGED <<cache, target>>
        /\ low' = IF Writes(F(dt), in) /\ link = "up"
                  THEN target' < Rounded(NormalTarget(in.dew)) ELSE low
        /\ missed' = IF Writes(F(dt), in) /\ link = "up" THEN target' # cache'
                     ELSE missed \/ (F(dt).state = "pulse" /\ link # "up")
  <2>1. CASE first BY <2>1, Zenon DEF Cycle
  <2>2. CASE ~first BY <2>2, Zenon DEF Cycle
  <2>. QED BY <2>1, <2>2
<1>. DEFINE f == F(dt)
            g == G(dt)
            v == V(dt)
<1>1. /\ dt \in Nat /\ f = Tick(flicker, dt) /\ g = FlickerStep(f, in)
      /\ v = IF g.state = "pulse" THEN PulseFloor(in.dew)
                                  ELSE NormalTarget(in.dew)
      /\ flicker' = g
      /\ IF Writes(f, in) THEN Write(v, old)
                          ELSE UNCHANGED <<cache, target>>
      /\ low' = IF Writes(f, in) /\ link = "up"
                THEN target' < Rounded(NormalTarget(in.dew)) ELSE low
      /\ missed' = IF Writes(f, in) /\ link = "up" THEN target' # cache'
                   ELSE missed \/ (f.state = "pulse" /\ link # "up")
  <2>1. dt \in Nat BY FlickerAssumption
  <2>. QED BY <1>0, <2>1
<1>. HIDE DEF F, G, V, old, f, g, v
<1>2. f \in Flicker /\ f.state = flicker.state BY <1>1, TickKeeps DEF TypeOK
<1>3. /\ g \in Flicker
      /\ g.state = "pulse" => /\ f.state # "pulse" /\ in.dew # NoReading
                              /\ CoolingActive(in)
  BY <1>1, <1>2, StepKeeps
<1>4. in.dew \in Dews /\ (in.dew # NoReading => in.dew \in Int)
  BY FlickerAssumption DEF Inputs
<1>5. NormalTarget(in.dew) \in Int /\ v \in Int
  BY <1>1, <1>3, <1>4, NormalTargetBounds, PulseFloorBounds
<1>6. Rounded(NormalTarget(in.dew)) \in Int BY <1>5, RoundedBounds
<1>7. /\ target' \in Int /\ Cached'
      /\ Writes(f, in) /\ link = "up" => cache' = Rounded(v)
  <2>1. CASE Writes(f, in) BY <1>1, <1>5, <2>1, WriteReaches DEF TypeOK
  <2>2. CASE ~Writes(f, in) BY <1>1, <2>2 DEF TypeOK, Cached, OnGrid
  <2>. QED BY <2>1, <2>2
<1>8. low' \in BOOLEAN /\ missed' \in BOOLEAN
  <2>1. (target' < Rounded(NormalTarget(in.dew))) \in BOOLEAN
    BY <1>6, <1>7
  <2>2. low \in BOOLEAN /\ missed \in BOOLEAN
    <3>1. {low, missed} \subseteq BOOLEAN BY DEF TypeOK
    <3>. QED BY <3>1
  <2>3. (target' # cache') \in BOOLEAN
        /\ (missed \/ (f.state = "pulse" /\ link # "up")) \in BOOLEAN
    OBVIOUS
  <2>. QED BY <1>1, <2>1, <2>2, <2>3, Zenon
<1>9. Writes(f, in) /\ link = "up" /\ g.state # "pulse" /\ ~missed' => ~low'
  <2>1. SUFFICES ASSUME Writes(f, in), link = "up", g.state # "pulse", ~missed'
                 PROVE  ~low'
    OBVIOUS
  <2>2. target' = Rounded(NormalTarget(in.dew))
    <3>1. missed' = (target' # cache') BY <1>1, <2>1, Zenon
    <3>. QED BY <1>1, <1>7, <2>1, <3>1
  <2>3. ~(target' < Rounded(NormalTarget(in.dew))) BY <1>6, <2>2
  <2>4. low' = (target' < Rounded(NormalTarget(in.dew))) BY <1>1, <2>1, Zenon
  <2>. QED BY <2>3, <2>4, Zenon
<1>10. in.dew # NoReading => Rounded(v) >= in.dew - Reserve
  <2>1. SUFFICES ASSUME in.dew \in Int, in.dew # NoReading
                 PROVE  Rounded(v) >= in.dew - Reserve
    BY <1>4
  <2>2. CASE g.state = "pulse"
    <3>1. v = PulseFloor(in.dew) BY <1>1, <2>2
    <3>2. Rounded(v) = v
      BY <2>1, <3>1, PulseFloorBounds, RoundedOnGrid DEF OnGrid
    <3>. QED BY <2>1, <3>1, <3>2, PulseFloorBounds, FlickerAssumption
  <2>3. CASE g.state # "pulse"
    <3>1. v = NormalTarget(in.dew) BY <1>1, <2>3
    <3>2. in.dew <= v BY <1>4, <2>1, <3>1, NormalTargetBounds
    <3>3. v <= Rounded(v) + (StepSize \div 2) /\ Rounded(v) \in Int
      BY <1>5, RoundedBounds
    <3>4. StepSize \div 2 \in Int /\ StepSize \div 2 <= Reserve
          /\ Reserve \in Nat
      BY FlickerAssumption, Division
    <3>. QED BY <1>5, <2>1, <3>2, <3>3, <3>4
  <2>. QED BY <2>2, <2>3
<1>11. Writes(f, in) = Writes(flicker, in) BY <1>2 DEF Writes
<1>12. low' /\ flicker'.state # "pulse" /\ ~missed' =>
         low /\ ~(Writes(flicker, in) /\ link = "up")
  BY <1>1, <1>9, <1>11, Zenon
<1>13. in.cooling /\ in.owned /\ link = "up" /\ in.dew # NoReading /\ ~missed'
         => target' >= in.dew - Reserve
  <2>1. SUFFICES ASSUME Writes(f, in), link = "up", in.dew # NoReading,
                        ~missed'
                 PROVE  target' >= in.dew - Reserve
    BY DEF Writes
  <2>2. missed' = (target' # cache') BY <1>1, <2>1, Zenon
  <2>. QED BY <1>7, <1>10, <2>1, <2>2
<1>. QED BY <1>1, <1>2, <1>3, <1>7, <1>8, <1>12, <1>13

\* The clocks and flags of a cycle keep their ranges.
LEMMA CycleTypes ==
    ASSUME TypeOK, Cached, NEW in \in Inputs, NEW e \in Elapsed, Cycle(in, e)
    PROVE  TypeOK'
<1>1. /\ flicker' \in Flicker /\ target' \in Int /\ Cached'
      /\ low' \in BOOLEAN /\ missed' \in BOOLEAN
  BY CycleWrites
<1>2. /\ e \in Nat /\ GraceLen \in Nat /\ Reassert \in Nat
      /\ StuckFor \in Nat /\ MinOff \in Nat
  BY FlickerAssumption
<1>3. cache' \in Int \cup {NoReading} BY <1>1 DEF Cached
<1>4. Upto(sent + e, Reassert) \in 0 .. Reassert /\ 0 \in 0 .. Reassert
  BY <1>2 DEF TypeOK, Upto
<1>5. sent' \in 0 .. Reassert BY <1>4 DEF Cycle, Write
<1>6. grace' \in 0 .. GraceLen BY <1>2 DEF Cycle, TypeOK
<1>7. since' \in 0 .. (MinOff + StuckFor) BY <1>2 DEF Cycle, TypeOK, Upto
<1>8. calm' \in 0 .. StuckFor BY <1>2 DEF Cycle, TypeOK, Upto
<1>9. dew' \in Dews /\ link' \in Links BY DEF Cycle, Inputs, TypeOK
<1>10. {first', owned', lives'} \subseteq BOOLEAN
  <2>1. {first, owned, lives, in.cooling, in.owned} \subseteq BOOLEAN
    BY DEF TypeOK, Inputs
  <2>. QED BY <2>1, Zenon DEF Cycle
<1>. QED BY <1>1, <1>3, <1>5, <1>6, <1>7, <1>8, <1>9, <1>10 DEF TypeOK

\* A cycle keeps the inductive invariant.
LEMMA CycleKeeps ==
    ASSUME IInv, NEW in \in Inputs, NEW e \in Elapsed, Cycle(in, e)
    PROVE  IInv'
<1>. USE DEF IInv
<1>1. TypeOK' /\ Cached' BY CycleTypes, CycleWrites
<1>2. FloorOnlyInPulse'
  <2>1. SUFFICES ASSUME low', flicker'.state # "pulse", ~missed' PROVE FALSE
    BY DEF FloorOnlyInPulse
  <2>2. low /\ ~(Writes(flicker, in) /\ link = "up") BY <2>1, CycleWrites
  <2>3. PICK dt \in Nat : missed' =
          IF Writes(Tick(flicker, dt), in) /\ link = "up" THEN target' # cache'
          ELSE missed \/ (Tick(flicker, dt).state = "pulse" /\ link # "up")
    <3>1. CycleLen \in Nat /\ e \in Nat BY FlickerAssumption
    <3>. QED BY <3>1 DEF Cycle
  <2>4. Tick(flicker, dt).state = flicker.state BY TickKeeps DEF TypeOK
  <2>5. flicker.state = "pulse" \/ missed BY <2>2 DEF FloorOnlyInPulse
  <2>6. ~(Writes(Tick(flicker, dt), in) /\ link = "up")
    BY <2>2, <2>4 DEF Writes
  <2>. QED BY <2>1, <2>3, <2>4, <2>5, <2>6, Zenon DEF Writes
<1>3. NeverBelowDew'
  <2>1. /\ dew' = in.dew
        /\ owned' = (in.cooling /\ in.owned /\ link = "up")
    BY Zenon DEF Cycle
  <2>2. owned' /\ ~missed' /\ dew' # NoReading => target' >= dew' - Reserve
    BY <2>1, CycleWrites
  <2>. QED BY <2>2 DEF NeverBelowDew
<1>. QED BY <1>1, <1>2, <1>3

----------------------------------------------------------------------------
(* The clocks.                                                             *)

\* What the machine's clocks say of real time.  A coordinator that has not
\* stepped a room yet is in its cooldown, the only state in which a nominal
\* cycle may be credited; in the cooldown the machine's clock is not ahead of
\* the time since its own pulse, and in idle the stuck clock is neither ahead
\* of the unbroken stuck run nor of the time since the cooldown ended.
Clocks ==
    /\ first => flicker.state = "cooldown"
    /\ first /\ ~lives => since = MinOff + StuckFor
    /\ flicker.state = "cooldown" /\ ~lives => flicker.cooldown <= since
    /\ flicker.state = "idle" => flicker.stuck <= calm
    /\ flicker.state = "idle" /\ ~lives => MinOff + flicker.stuck <= since

\* Two pulses of one coordinator are spaced and every pulse is earned.
Timed == Clocks /\ PulsesSpaced /\ PulseIsEarned

\* Where one step takes the machine and its clocks: a pulse comes only from an
\* idle machine that is armed and stuck for long enough.
LEMMA StepMoves ==
    ASSUME NEW f \in Flicker, NEW in \in Inputs, NEW g, g = FlickerStep(f, in)
    PROVE  LET acts == in.dew # NoReading /\ CoolingActive(in)
           IN  \/ f.state = "pulse" /\ g.state = "cooldown" /\ g.cooldown = 0
               \/ /\ f.state = "cooldown" /\ g.state = "cooldown"
                  /\ g.cooldown = f.cooldown
               \/ /\ f.state = "cooldown" /\ acts /\ f.cooldown >= MinOff
                  /\ g.state = "idle" /\ g.stuck = 0
               \/ f.state = "idle" /\ g.state = "idle" /\ g.stuck = 0
               \/ /\ f.state = "idle" /\ acts /\ Armed(in)
                  /\ g.state = "idle" /\ g.stuck = f.stuck
               \/ /\ f.state = "idle" /\ acts /\ Armed(in)
                  /\ g.state = "pulse" /\ f.stuck >= StuckFor
<1>. DEFINE acts == in.dew # NoReading /\ CoolingActive(in)
<1>1. CASE f.state = "pulse"
  <2>1. g = [f EXCEPT !.state = "cooldown", !.cooldown = 0]
    BY <1>1 DEF FlickerStep
  <2>. QED BY <1>1, <2>1 DEF Flicker
<1>2. CASE f.state # "pulse" /\ ~acts
  <2>1. g = [f EXCEPT !.stuck = 0] BY <1>2 DEF FlickerStep
  <2>. QED BY <1>2, <2>1 DEF Flicker
<1>3. CASE f.state = "cooldown" /\ acts
  <2>1. IF f.cooldown >= MinOff
        THEN g = [f EXCEPT !.state = "idle", !.stuck = 0] ELSE g = f
    BY <1>3, Zenon DEF FlickerStep
  <2>. QED BY <1>3, <2>1 DEF Flicker
<1>4. CASE f.state = "idle" /\ acts
  <2>1. \/ g = [f EXCEPT !.stuck = 0]
        \/ Armed(in) /\ g = f
        \/ /\ Armed(in) /\ f.stuck >= StuckFor
           /\ g = [f EXCEPT !.state = "pulse", !.stuck = 0,
                            !.pulses = f.pulses \cup {0}]
    BY <1>4, Zenon DEF FlickerStep
  <2>. QED BY <1>4, <2>1 DEF Flicker
<1>. QED BY <1>1, <1>2, <1>3, <1>4 DEF Flicker

\* The machine is ticked by the real time once a room has been stepped, and
\* the two ghosts follow real time throughout.
LEMMA CycleTicks ==
    ASSUME NEW in \in Inputs, NEW e \in Elapsed, Cycle(in, e)
    PROVE  \E dt \in {CycleLen, e} :
             /\ ~first => dt = e
             /\ flicker' = FlickerStep(Tick(flicker, dt), in)
             /\ first' => first /\ in.dew = NoReading
             /\ since' = Upto((IF Tick(flicker, dt).state = "pulse" THEN 0
                               ELSE since) + e, MinOff + StuckFor)
             /\ lives' = (lives /\ Tick(flicker, dt).state # "pulse")
             /\ calm' = IF CoolingActive(in) /\ in.dew # NoReading /\ Armed(in)
                        THEN Upto(calm + e, StuckFor) ELSE 0
<1>1. CASE first
  BY <1>1, Zenon DEF Cycle
<1>2. CASE ~first
  BY <1>2, Zenon DEF Cycle
<1>. QED BY <1>1, <1>2

\* A cycle keeps the clocks honest, whatever its input and its length.
LEMMA CycleKeepsTimed ==
    ASSUME TypeOK, Timed, NEW in \in Inputs, NEW e \in Elapsed, Cycle(in, e)
    PROVE  Timed'
<1>1. PICK dt \in {CycleLen, e} :
        /\ ~first => dt = e
        /\ flicker' = FlickerStep(Tick(flicker, dt), in)
        /\ first' => first /\ in.dew = NoReading
        /\ since' = Upto((IF Tick(flicker, dt).state = "pulse" THEN 0
                          ELSE since) + e, MinOff + StuckFor)
        /\ lives' = (lives /\ Tick(flicker, dt).state # "pulse")
        /\ calm' = IF CoolingActive(in) /\ in.dew # NoReading /\ Armed(in)
                   THEN Upto(calm + e, StuckFor) ELSE 0
  BY CycleTicks
<1>2. /\ e \in Nat /\ dt \in Nat /\ MinOff \in Nat /\ StuckFor \in Nat
  BY FlickerAssumption
<1>. DEFINE f == Tick(flicker, dt)
<1>3. /\ f \in Flicker /\ f.state = flicker.state
      /\ f.stuck = Upto(flicker.stuck + dt, StuckFor)
      /\ f.cooldown = Upto(flicker.cooldown + dt, MinOff)
  BY <1>2, TickKeeps DEF TypeOK, Tick, Flicker
<1>4. /\ since \in 0 .. (MinOff + StuckFor) /\ calm \in 0 .. StuckFor
      /\ flicker.stuck \in 0 .. StuckFor /\ flicker.cooldown \in 0 .. MinOff
      /\ f.stuck \in 0 .. StuckFor /\ f.cooldown \in 0 .. MinOff
      /\ flicker.state \in {"idle", "pulse", "cooldown"}
      /\ first \in BOOLEAN /\ lives \in BOOLEAN
  BY <1>3 DEF TypeOK, Flicker
<1>. HIDE DEF f
<1>. DEFINE acts == in.dew # NoReading /\ CoolingActive(in)
<1>5. \/ f.state = "pulse" /\ flicker'.state = "cooldown"
         /\ flicker'.cooldown = 0
      \/ /\ f.state = "cooldown" /\ flicker'.state = "cooldown"
         /\ flicker'.cooldown = f.cooldown
      \/ /\ f.state = "cooldown" /\ acts /\ f.cooldown >= MinOff
         /\ flicker'.state = "idle" /\ flicker'.stuck = 0
      \/ f.state = "idle" /\ flicker'.state = "idle" /\ flicker'.stuck = 0
      \/ /\ f.state = "idle" /\ acts /\ Armed(in)
         /\ flicker'.state = "idle" /\ flicker'.stuck = f.stuck
      \/ /\ f.state = "idle" /\ acts /\ Armed(in)
         /\ flicker'.state = "pulse" /\ f.stuck >= StuckFor
  BY <1>1, <1>3, StepMoves DEF f
<1>6. /\ since' = Upto((IF f.state = "pulse" THEN 0 ELSE since) + e,
                       MinOff + StuckFor)
      /\ lives' = (lives /\ f.state # "pulse")
      /\ calm' = IF acts /\ Armed(in) THEN Upto(calm + e, StuckFor) ELSE 0
  BY <1>1 DEF f
<1>. HIDE DEF acts
<1>7. CASE f.state = "pulse"
  <2>1. ~first' BY <1>1, <1>3, <1>7 DEF Timed, Clocks
  <2>. QED BY <1>2, <1>5, <1>6, <1>7, <2>1
           DEF Timed, Clocks, PulsesSpaced, PulseIsEarned, Upto
<1>8. CASE f.state = "cooldown"
  <2>1. lives' = lives BY <1>4, <1>6, <1>8
  <2>2. since' = Upto(since + e, MinOff + StuckFor) BY <1>6, <1>8
  <2>3. ~lives => f.cooldown <= since' /\ (first => since' = MinOff + StuckFor)
    BY <1>1, <1>2, <1>3, <1>4, <1>8, <2>2 DEF Timed, Clocks, Upto
  <2>4. calm' \in Nat BY <1>2, <1>4, <1>6 DEF Upto
  <2>5. first' => first /\ ~acts BY <1>1 DEF acts
  <2>. QED BY <1>2, <1>4, <1>5, <1>8, <2>1, <2>2, <2>3, <2>4, <2>5
           DEF Timed, Clocks, PulsesSpaced, PulseIsEarned
<1>9. CASE f.state = "idle"
  <2>1. ~first /\ ~first' /\ dt = e
    BY <1>1, <1>3, <1>4, <1>9 DEF Timed, Clocks
  <2>2. lives' = lives BY <1>4, <1>6, <1>9
  <2>3. since' = Upto(since + e, MinOff + StuckFor) BY <1>6, <1>9
  <2>4. ~lives => MinOff + f.stuck <= since'
    BY <1>2, <1>3, <1>4, <1>9, <2>1, <2>3 DEF Timed, Clocks, Upto
  <2>5. acts /\ Armed(in) => f.stuck <= calm'
    BY <1>2, <1>3, <1>4, <1>6, <1>9, <2>1 DEF Timed, Clocks, Upto
  <2>6. calm' \in 0 .. StuckFor BY <1>2, <1>4, <1>6 DEF Upto
  <2>7. since' \in Nat BY <1>2, <1>4, <2>3 DEF Upto
  <2>. QED BY <1>2, <1>4, <1>5, <1>9, <2>1, <2>2, <2>4, <2>5, <2>6, <2>7
           DEF Timed, Clocks, PulsesSpaced, PulseIsEarned
<1>. QED BY <1>4, <1>3, <1>7, <1>8, <1>9

----------------------------------------------------------------------------
(* The theorems.                                                           *)

\* A new coordinator, whatever setpoint entity it finds, satisfies IInv.
LEMMA InitHolds == Init => IInv
<1>1. SUFFICES ASSUME Init PROVE IInv
  OBVIOUS
<1>2. NewFlicker \in Flicker
  BY FlickerAssumption DEF NewFlicker, Flicker
<1>3. Rounded(Base) \in Int BY RoundedBounds, FlickerAssumption
<1>4. TypeOK
  BY <1>1, <1>2, <1>3, FlickerAssumption DEF Init, TypeOK
<1>. QED BY <1>1, <1>4
         DEF Init, IInv, Cached, FloorOnlyInPulse, NeverBelowDew

\* Every step keeps it: a cycle, the entity coming and going, a rebuilt
\* coordinator with its empty cache, and a stutter.
LEMMA NextHolds == IInv /\ [Next]_vars => IInv'
<1>1. SUFFICES ASSUME IInv, [Next]_vars PROVE IInv'
  OBVIOUS
<1>2. ASSUME NEW in \in Inputs, NEW e \in Elapsed, Cycle(in, e) PROVE IInv'
  BY <1>1, <1>2, CycleKeeps
<1>3. CASE LinkChange
  BY <1>1, <1>3 DEF LinkChange, inner, ghosts, IInv, TypeOK, Cached, OnGrid,
                    FloorOnlyInPulse, NeverBelowDew
<1>4. CASE Rebuild
  <2>1. NewFlicker \in Flicker
    BY FlickerAssumption DEF NewFlicker, Flicker
  <2>2. missed' \in BOOLEAN /\ (low' => missed')
    BY <1>1, <1>4, Zenon DEF Rebuild, IInv, TypeOK, FloorOnlyInPulse
  <2>3. TypeOK'
    BY <1>1, <1>4, <2>1, <2>2, FlickerAssumption DEF Rebuild, IInv, TypeOK
  <2>4. Cached' BY <1>4 DEF Rebuild, Cached
  <2>5. NeverBelowDew'
    BY <1>1, <1>4 DEF Rebuild, IInv, NeverBelowDew
  <2>. QED BY <2>2, <2>3, <2>4, <2>5 DEF IInv, FloorOnlyInPulse
<1>5. CASE UNCHANGED vars
  BY <1>1, <1>5 DEF vars, inner, ghosts, IInv, TypeOK, Cached, OnGrid,
                    FloorOnlyInPulse, NeverBelowDew
<1>. QED BY <1>1, <1>2, <1>3, <1>4, <1>5 DEF Next

\* The inductive invariant of the setpoint holds in every reachable state.
THEOREM FlickerInvariance == Spec => []IInv
<1>. QED BY InitHolds, NextHolds, PTL DEF Spec

\* No clock, age or value of the flicker and the writer leaves its range.
THEOREM FlickerTyped == Spec => []TypeOK
<1>1. IInv => TypeOK BY DEF IInv
<1>. QED BY <1>1, FlickerInvariance, PTL

\* The unconditional restore of _sync_heat_pump, through the writer's cache
\* and threshold: the pulse floor outlives its cycle only when a command did not
\* reach the entity or the coordinator that owed the restore was replaced.
THEOREM PulseIsRestored == Spec => []FloorOnlyInPulse
<1>1. IInv => FloorOnlyInPulse BY DEF IInv
<1>. QED BY <1>1, FlickerInvariance, PTL

\* However the floor, the target and the pump's grid are rounded, an owned
\* pump that took its commands is never below the raw dew point of the worst
\* room.
THEOREM DewIsRespected == Spec => []NeverBelowDew
<1>1. IInv => NeverBelowDew BY DEF IInv
<1>. QED BY <1>1, FlickerInvariance, PTL

\* Every step keeps the clocks honest: a rebuilt coordinator starts in its
\* cooldown, and what it remembers of the pulse before it is marked.
LEMMA NextKeepsTimed == TypeOK /\ Timed /\ [Next]_vars => Timed'
<1>1. SUFFICES ASSUME TypeOK, Timed, [Next]_vars PROVE Timed'
  OBVIOUS
<1>2. ASSUME NEW in \in Inputs, NEW e \in Elapsed, Cycle(in, e) PROVE Timed'
  BY <1>1, <1>2, CycleKeepsTimed
<1>3. CASE LinkChange
  BY <1>1, <1>3 DEF LinkChange, inner, ghosts, Timed, Clocks, PulsesSpaced,
                    PulseIsEarned
<1>4. CASE Rebuild
  <2>1. /\ flicker'.state = "cooldown" /\ lives' = TRUE
    BY <1>4 DEF Rebuild, NewFlicker
  <2>. QED BY <2>1 DEF Timed, Clocks, PulsesSpaced, PulseIsEarned
<1>5. CASE UNCHANGED vars
  BY <1>1, <1>5 DEF vars, inner, ghosts, Timed, Clocks, PulsesSpaced,
                    PulseIsEarned
<1>. QED BY <1>1, <1>2, <1>3, <1>4, <1>5 DEF Next

\* The clocks are honest in every reachable state, whatever is rebuilt.
LEMMA TimedInvariance == Spec => []Timed
<1>1. Init => Timed
  BY FlickerAssumption DEF Init, NewFlicker, Timed, Clocks, PulsesSpaced,
                           PulseIsEarned
<1>. QED BY <1>1, NextKeepsTimed, FlickerTyped, PTL DEF Spec

\* SetpointFlicker.tick and step under any spacing of cycles and recomputes,
\* with the first step's nominal credit: two pulses of one coordinator are the
\* cooldown and the stuck time apart.
THEOREM PulsesAreSpaced == Spec => []PulsesSpaced
<1>1. Timed => PulsesSpaced BY DEF Timed
<1>. QED BY <1>1, TimedInvariance, PTL

\* Every pulse follows an unbroken stuck run of the configured length: neither
\* the credit nor a gap in the sensors or the ownership counts towards it.
THEOREM PulsesAreEarned == Spec => []PulseIsEarned
<1>1. Timed => PulseIsEarned BY DEF Timed
<1>. QED BY <1>1, TimedInvariance, PTL

----------------------------------------------------------------------------
(* The rooms above.                                                        *)

\* What the coordinator makes of the rooms is an input the flicker was proved
\* for: a calling room is counted, so demand never comes without a dew point.
LEMMA InputsFromRooms ==
    ASSUME NEW home \in Homes, NEW rs \in [Rooms -> Readings],
           NEW d \in SafeDew(home, rs)
    PROVE  InputOf(home, rs, d) \in Inputs
<1>. DEFINE owns   == HpWritesEnabled(home, rs)
            wanted == /\ home.cooling /\ owns /\ ~home.dhw /\ d # NoReading
                      /\ CoolingDemand(home, rs)
<1>1. d \in Dews
  <2>1. \A r \in Rooms : rs[r].dew \in Dews BY DEF Readings
  <2>. QED BY <2>1, FlickerAssumption DEF SafeDew
<1>2. owns \in BOOLEAN BY DEF HpWritesEnabled
<1>3. wanted \in BOOLEAN BY DEF CoolingDemand
<1>4. ~home.cooling => d = NoReading
  BY DEF SafeDew, Counted
<1>5. /\ home.cooling \in BOOLEAN /\ home.dhw \in BOOLEAN
      /\ home.freq \in {"none", "idle", "runs"}
      /\ home.ret \in Returns \cup {NoReading}
  BY DEF Homes
<1>6. InputOf(home, rs, d) =
        [cooling |-> home.cooling, owned |-> owns,
         dhw |-> home.dhw /\ owns /\ d # NoReading, demand |-> wanted,
         freq |-> IF wanted THEN home.freq ELSE "none",
         ret  |-> IF wanted THEN home.ret ELSE NoReading, dew |-> d]
  BY Zenon DEF InputOf
<1>. HIDE DEF owns, wanted
<1>7. wanted => home.cooling /\ owns /\ ~home.dhw /\ d # NoReading
  BY DEF wanted
<1>. QED BY <1>1, <1>2, <1>3, <1>4, <1>5, <1>6, <1>7
         DEF Inputs, CoolingActive

\* A room that calls is one the safe dew point counts, so the demand gate is
\* never open over a room whose condensation nobody prices in.
THEOREM CallersAreCounted ==
    ASSUME NEW home \in Homes, NEW rs \in [Rooms -> Readings],
           CoolingDemand(home, rs)
    PROVE  NoReading \notin SafeDew(home, rs)
<1>1. PICK r \in Rooms : Counted(home, rs[r])
  BY DEF CoolingDemand, Calling, Calls
<1>2. \A q \in Rooms : rs[q].dew # NoReading BY DEF Readings
<1>. QED BY <1>1, <1>2 DEF SafeDew

\* A cycle of the building is a cycle of the link under it.
LEMMA BuildingSteps == [BuildingNext]_<<vars, dews>> => [Next]_vars
<1>1. SUFFICES ASSUME BuildingNext PROVE Next
  OBVIOUS
<1>2. CASE (LinkChange \/ Rebuild) /\ UNCHANGED dews
  BY <1>2 DEF Next
<1>3. ASSUME NEW home \in Homes, NEW rs \in [Rooms -> Readings],
             NEW e \in Elapsed, BuildingCycle(home, rs, e)
      PROVE  Next
  <2>1. PICK d \in SafeDew(home, rs) : Cycle(InputOf(home, rs, d), e)
    BY <1>3 DEF BuildingCycle
  <2>. QED BY <2>1, InputsFromRooms DEF Next
<1>. QED BY <1>1, <1>2, <1>3 DEF BuildingNext

\* Every room the dew point counts is covered after a cycle.
LEMMA CycleCovers ==
    ASSUME IInv, NEW home \in Homes, NEW rs \in [Rooms -> Readings],
           NEW e \in Elapsed, BuildingCycle(home, rs, e)
    PROVE  EveryRoomIsDry'
<1>1. SUFFICES ASSUME owned', ~missed', NEW r \in Rooms,
                      dews'[r] # NoReading
               PROVE  target' >= dews'[r] - Reserve
  BY DEF EveryRoomIsDry
<1>2. Counted(home, rs[r]) /\ dews'[r] = rs[r].dew
  BY <1>1 DEF BuildingCycle
<1>3. PICK d \in SafeDew(home, rs) : Cycle(InputOf(home, rs, d), e)
  BY DEF BuildingCycle
<1>4. \A q \in Rooms : rs[q].dew \in Int /\ rs[q].dew # NoReading
  BY FlickerAssumption DEF Readings
<1>5. d \in Int /\ d # NoReading /\ rs[r].dew <= d
  BY <1>2, <1>4 DEF SafeDew
<1>6. InputOf(home, rs, d) \in Inputs BY InputsFromRooms
<1>7. InputOf(home, rs, d).dew = d BY DEF InputOf
<1>8. NeverBelowDew' /\ TypeOK' BY <1>3, <1>6, CycleKeeps DEF IInv
<1>9. dew' = d BY <1>3, <1>7, Zenon DEF Cycle
<1>10. target' >= d - Reserve BY <1>1, <1>5, <1>8, <1>9 DEF NeverBelowDew
<1>11. target' \in Int /\ Reserve \in Int
  BY <1>8, FlickerAssumption DEF TypeOK
<1>. QED BY <1>2, <1>4, <1>5, <1>10, <1>11

\* BuildingController.step, cooling_demand and _sync_heat_pump over the rooms
\* implement the link with free inputs: what is proved and checked of it holds
\* of the building.
THEOREM BuildingDrivesFlicker == BuildingSpec => Spec
<1>1. BuildingInit => Init BY DEF BuildingInit
<1>. QED BY <1>1, BuildingSteps, PTL DEF BuildingSpec, Spec

\* However many rooms there are and whichever makes the maximum, an owned
\* pump that took its commands is never below the dew point of a counted
\* room.
THEOREM EveryRoomStaysDry == BuildingSpec => []EveryRoomIsDry
<1>1. BuildingInit => EveryRoomIsDry
  BY DEF BuildingInit, EveryRoomIsDry
<1>2. IInv /\ EveryRoomIsDry /\ [BuildingNext]_<<vars, dews>>
        => EveryRoomIsDry'
  <2>1. SUFFICES ASSUME IInv, EveryRoomIsDry, [BuildingNext]_<<vars, dews>>
                 PROVE  EveryRoomIsDry'
    OBVIOUS
  <2>2. ASSUME NEW home \in Homes, NEW rs \in [Rooms -> Readings],
               NEW e \in Elapsed, BuildingCycle(home, rs, e)
        PROVE  EveryRoomIsDry'
    BY <2>1, <2>2, CycleCovers
  <2>3. CASE (LinkChange \/ Rebuild) /\ UNCHANGED dews
    BY <2>1, <2>3, Zenon
       DEF LinkChange, Rebuild, inner, ghosts, EveryRoomIsDry
  <2>4. CASE UNCHANGED <<vars, dews>>
    BY <2>1, <2>4 DEF vars, inner, ghosts, EveryRoomIsDry
  <2>. QED BY <2>1, <2>2, <2>3, <2>4 DEF BuildingNext
<1>. QED
  BY <1>1, <1>2, BuildingDrivesFlicker, FlickerInvariance, PTL DEF BuildingSpec

----------------------------------------------------------------------------
(* The operating mode beside it (HpMode).                                  *)

\* The option a writer sends differs from the one it read in its own part
\* only, an option without a direction is left alone, and it does not matter
\* which of the direction sync and the DHW switch comes first
\* (direction_option, dhw_option).
THEOREM WritersKeepApart ==
    ASSUME NEW home, NEW o \in Shown, NEW want \in BOOLEAN
    PROVE  /\ DirectionOption(home, o) \in Shown /\ DhwOption(o, want) \in Shown
           /\ DirectionOption(home, o).dhw = o.dhw
           /\ DhwOption(o, want).dir = o.dir
           /\ o \in {DhwOnly, Strange} =>
                 DirectionOption(home, o) = o /\ DhwOption(o, want) = o
           /\ DirectionOption(home, DirectionOption(home, o))
                = DirectionOption(home, o)
           /\ DirectionOption(home, DhwOption(o, want))
                = DhwOption(DirectionOption(home, o), want)
<1>1. CASE o \in {DhwOnly, Strange}
  BY <1>1 DEF DirectionOption, DhwOption, DhwOnly, Strange, Shown
<1>2. CASE o \in Options
  <2>1. PICK d \in Directions, f \in BOOLEAN : o = [dir |-> d, dhw |-> f]
    BY <1>2 DEF Options
  <2>2. o.dir = d /\ d # "none"
    BY <2>1 DEF Directions
  <2>3. DhwOption(o, want) = [dir |-> d, dhw |-> want]
    BY <2>1, <2>2 DEF DhwOption
  <2>4. \A g \in BOOLEAN : DirectionOption(home, [dir |-> d, dhw |-> g])
          = [dir |-> IF home = "HEATING" THEN "Heat"
                     ELSE IF home = "COOLING" THEN "Cool" ELSE d, dhw |-> g]
    BY <2>2 DEF DirectionOption
  <2> QED
    BY <2>1, <2>2, <2>3, <2>4
    DEF DirectionOption, DhwOption, DhwOnly, Strange, Shown, Options,
        Directions
<1> QED
  BY <1>1, <1>2 DEF Shown

\* The clock of the rewrite time runs from the last direction that was sent.
Spaced ==
    /\ age \in 0 .. MinRewrite /\ gap = age
    /\ spacing = MinRewrite

LEMMA DirectionSyncSpaced ==
    ASSUME Spaced, NEW e \in CycleGaps, DirectionSync(e)
    PROVE  Spaced'
<1> DEFINE a == AtMost(age + e, MinRewrite)
<1>1. a \in 0 .. MinRewrite /\ 0 \in 0 .. MinRewrite
  BY ModeAssumption DEF Spaced, AtMost
<1>2. \/ age' = 0 /\ gap' = 0 /\ spacing' = a /\ MayRewrite(a)
      \/ age' = a /\ gap' = a /\ spacing' = spacing
  BY DEF DirectionSync, Spaced
<1>3. MayRewrite(a) => a = MinRewrite
  BY <1>1, ModeAssumption DEF MayRewrite
<1> QED
  BY <1>1, <1>2, <1>3 DEF Spaced

\* A mode that is changed to and fro, commands that are lost and whatever
\* others do to the pump never make one coordinator send two directions within
\* the minimum rewrite time (_sync_heat_pump).
THEOREM DirectionsAreSpaced == ModeSpec => []NeverFlaps
<1>1. ModeInit => Spaced
  BY ModeAssumption DEF ModeInit, Spaced
<1>2. Spaced /\ [ModeNext]_modeVars => Spaced'
  <2> SUFFICES ASSUME Spaced, [ModeNext]_modeVars
               PROVE  Spaced'
    OBVIOUS
  <2>1. CASE \E e \in CycleGaps : DirectionSync(e)
    BY <2>1, DirectionSyncSpaced
  <2>2. CASE Reload
    BY <2>2, ModeAssumption DEF Reload, Spaced
  <2>3. CASE UNCHANGED memory
    BY <2>3 DEF memory, Spaced
  <2> QED
    BY <2>1, <2>2, <2>3
    DEF ModeNext, DhwSwitch, Execute, Lose, External, Turn, modeVars
<1>3. Spaced => NeverFlaps
  BY DEF Spaced, NeverFlaps
<1> QED
  BY <1>1, <1>2, <1>3, PTL DEF ModeSpec

\* Commands that agree with the mode of the home.
FlightAgrees == \A i \in DOMAIN flight : DirectionOption(mode, flight[i]) = flight[i]

LEMMA DirectionSyncTyped ==
    ASSUME ModeTypeOK, NEW e \in CycleGaps, DirectionSync(e)
    PROVE  ModeTypeOK'
<1> DEFINE desired == DirectionOption(mode, pump)
           differs == up /\ desired # pump
           d == IF differs THEN AtMost(diverged + 1, DivergenceCycles) ELSE 0
           a == AtMost(age + e, MinRewrite)
           g == AtMost(gap + e, MinRewrite)
           write == live /\ differs /\ Triggered(d) /\ MayRewrite(a)
<1>1. d \in 0 .. DivergenceCycles /\ 0 \in 0 .. DivergenceCycles
  <2>1. diverged \in 0 .. DivergenceCycles /\ DivergenceCycles \in Nat \ {0}
    BY ModeAssumption DEF ModeTypeOK
  <2> HIDE DEF differs
  <2> QED
    BY <2>1 DEF AtMost
<1>2. a \in 0 .. MinRewrite /\ g \in 0 .. MinRewrite /\ 0 \in 0 .. MinRewrite
  <2>1. /\ age \in 0 .. MinRewrite /\ gap \in 0 .. MinRewrite
        /\ MinRewrite \in Nat /\ e \in Nat
    BY ModeAssumption DEF ModeTypeOK
  <2> QED
    BY <2>1 DEF AtMost
<1>3. Append(flight, desired) \in Seq(Shown)
  <2>1. desired \in Shown
    BY WritersKeepApart DEF ModeTypeOK
  <2> HIDE DEF desired
  <2> QED
    BY <2>1 DEF ModeTypeOK
<1>4. /\ flight' = IF write THEN Append(flight, desired) ELSE flight
      /\ diverged' = IF write THEN 0 ELSE d
      /\ written' = IF write THEN mode ELSE written
      /\ age' = IF write THEN 0 ELSE a
      /\ gap' = IF write THEN 0 ELSE g
      /\ spacing' = IF write THEN g ELSE spacing
      /\ last' = "own" /\ UNCHANGED <<mode, live, up, pump>>
  BY DEF DirectionSync, Sent
<1> HIDE DEF desired, d, a, g, write
<1> QED
  BY <1>1, <1>2, <1>3, <1>4 DEF ModeTypeOK

LEMMA ModeNextTyped == ModeTypeOK /\ [ModeNext]_modeVars => ModeTypeOK'
<1> SUFFICES ASSUME ModeTypeOK, [ModeNext]_modeVars
             PROVE  ModeTypeOK'
  OBVIOUS
<1>1. ASSUME NEW e \in CycleGaps, DirectionSync(e)
      PROVE  ModeTypeOK'
  BY <1>1, DirectionSyncTyped
<1>2. ASSUME NEW want \in BOOLEAN, DhwSwitch(want)
      PROVE  ModeTypeOK'
  <2>1. DhwOption(pump, want) \in Shown
    BY WritersKeepApart DEF ModeTypeOK
  <2>2. flight' \in Seq(Shown)
    BY <1>2, <2>1 DEF DhwSwitch, Sent, ModeTypeOK
  <2> QED
    BY <1>2, <2>2 DEF DhwSwitch, memory, ModeTypeOK
<1>3. CASE Execute
  <2>1. pump' \in Shown /\ flight' \in Seq(Shown)
    BY <1>3 DEF Execute, ModeTypeOK
  <2> QED
    BY <1>3, <2>1 DEF Execute, memory, ModeTypeOK
<1>4. CASE Lose
  <2>1. flight' \in Seq(Shown)
    BY <1>4 DEF Lose, ModeTypeOK
  <2> QED
    BY <1>4, <2>1 DEF Lose, memory, ModeTypeOK
<1>5. CASE External
  <2>1. pump' \in Shown
    BY <1>5, MovesAssumption DEF External
  <2> QED
    BY <1>5, <2>1 DEF External, memory, ModeTypeOK
<1>6. CASE Turn
  <2>1. mode' \in Modes /\ live' \in BOOLEAN /\ up' \in BOOLEAN
    BY <1>6 DEF Turn, ModeTypeOK
  <2> QED
    BY <1>6, <2>1 DEF Turn, memory, ModeTypeOK
<1>7. CASE Reload
  <2>1. 0 \in 0 .. DivergenceCycles /\ MinRewrite \in 0 .. MinRewrite
    BY ModeAssumption
  <2> QED
    BY <1>7, <2>1 DEF Reload, ModeTypeOK
<1>8. CASE UNCHANGED modeVars
  BY <1>8 DEF modeVars, memory, ModeTypeOK
<1> QED
  BY <1>1, <1>2, <1>3, <1>4, <1>5, <1>6, <1>7, <1>8 DEF ModeNext

\* Every variable keeps its type: whoever writes, the pump is only ever sent
\* an option it can show (write_hp_mode).
THEOREM ModeTyped == ModeSpec => []ModeTypeOK
<1>1. ModeInit => ModeTypeOK
  <2> SUFFICES ASSUME ModeInit PROVE ModeTypeOK
    OBVIOUS
  <2>1. 0 \in 0 .. DivergenceCycles /\ MinRewrite \in 0 .. MinRewrite
    BY ModeAssumption
  <2>2. flight \in Seq(Shown) /\ pump \in Shown
    BY MovesAssumption DEF ModeInit
  <2> QED
    BY <2>1, <2>2 DEF ModeInit, ModeTypeOK
<1> QED
  BY <1>1, ModeNextTyped, PTL DEF ModeSpec

\* The safety half of FollowsMode: once the pump has the direction of a home
\* that can act, and no command on its way says otherwise, nothing the
\* controller does takes it away again (_sync_heat_pump, write_hp_mode).
SyncIsStable ==
    [][InSync /\ FlightAgrees /\ last' = "own" => (InSync /\ FlightAgrees)']_modeVars

LEMMA SyncedStep ==
    ASSUME ModeTypeOK, ModeNext, InSync, FlightAgrees, last' = "own"
    PROVE  (InSync /\ FlightAgrees)'
<1>1. ASSUME NEW e \in CycleGaps, DirectionSync(e)
      PROVE  (InSync /\ FlightAgrees)'
  <2>1. ~(live /\ up /\ DirectionOption(mode, pump) # pump)
    BY DEF InSync
  <2>2. flight' = flight /\ UNCHANGED <<mode, live, up, pump>>
    BY <1>1, <2>1 DEF DirectionSync
  <2> QED
    BY <2>2 DEF InSync, FlightAgrees, DirectionOption
<1>2. CASE Execute
  <2>1. /\ flight # <<>> /\ pump' = Head(flight) /\ flight' = Tail(flight)
        /\ UNCHANGED <<mode, live, up>>
    BY <1>2 DEF Execute
  <2>2. /\ pump' = flight[1] /\ 1 \in DOMAIN flight
        /\ \A i \in DOMAIN flight' : i + 1 \in DOMAIN flight /\ flight'[i] = flight[i + 1]
    BY <2>1 DEF ModeTypeOK
  <2>3. DirectionOption(mode, pump') = pump'
    BY <2>2 DEF FlightAgrees
  <2>4. \A i \in DOMAIN flight' : DirectionOption(mode, flight'[i]) = flight'[i]
    BY <2>2 DEF FlightAgrees
  <2>5. (DirectionOption(mode, pump) = pump)'
    BY <2>1, <2>3 DEF DirectionOption
  <2>6. FlightAgrees'
    BY <2>1, <2>4 DEF FlightAgrees, DirectionOption
  <2> QED
    BY <2>5, <2>6 DEF InSync
<1> QED
  BY <1>1, <1>2 DEF ModeNext, DhwSwitch, Lose, External, Turn, Reload

\* A pump in the direction of the home stays there under the controller's own
\* steps, whatever was in flight.
THEOREM SyncStays == ModeSpec => SyncIsStable
<1>1. ModeTypeOK /\ [ModeNext]_modeVars =>
        [InSync /\ FlightAgrees /\ last' = "own" => (InSync /\ FlightAgrees)']_modeVars
  BY SyncedStep
<1> QED
  BY <1>1, ModeTyped, PTL DEF ModeSpec, SyncIsStable

============================================================================
