---------------------------- MODULE HpHeatingProofs ----------------------------
(***************************************************************************)
(* Proofs about the heating gate, the compressor kick and the writer.  The *)
(* gate's rules exclude a locking step only for the value they looked at;  *)
(* that the writer sends this very value rests on every setpoint of the    *)
(* system lying on the entity's grid, which the invariant carries.         *)
(***************************************************************************)
EXTENDS HpHeating, TLAPS

----------------------------------------------------------------------------
(* The setpoint entity's grid.                                             *)

\* The setpoint entity's step is positive.
LEMMA Step == StepSize \in Nat /\ StepSize > 0
  BY HeatingAssumption

\* Division with remainder by a positive divisor.
LEMMA DivMod ==
    ASSUME NEW v \in Int, NEW d \in Nat, d > 0
    PROVE  /\ v \div d \in Int /\ v % d \in Int
           /\ v = d * (v \div d) + (v % d)
           /\ 0 <= v % d /\ v % d < d
  OBVIOUS

\* The grid is the set of multiples of the step.
LEMMA Multiple ==
    ASSUME NEW k \in Int
    PROVE  OnGrid(k * StepSize)
  BY Step DEF OnGrid

LEMMA GridIsMultiple ==
    ASSUME NEW v \in Int, OnGrid(v)
    PROVE  \E k \in Int : v = k * StepSize
  <1>1. v = StepSize * (v \div StepSize) + (v % StepSize) /\ v \div StepSize \in Int
    BY Step, DivMod
  <1>2. v = (v \div StepSize) * StepSize
    BY <1>1, Step DEF OnGrid
  <1>. QED  BY <1>1, <1>2

\* Sums and differences of grid values lie on the grid.
LEMMA GridSum ==
    ASSUME NEW a \in Int, NEW b \in Int, OnGrid(a), OnGrid(b)
    PROVE  OnGrid(a + b) /\ OnGrid(a - b)
  <1>1. PICK i \in Int : a = i * StepSize
    BY GridIsMultiple
  <1>2. PICK j \in Int : b = j * StepSize
    BY GridIsMultiple
  <1>3. a + b = (i + j) * StepSize /\ a - b = (i - j) * StepSize
    BY <1>1, <1>2, Step
  <1>. QED  BY <1>3, Multiple

\* round_to_step_c returns a grid value, ...
LEMMA RoundedOn ==
    ASSUME NEW v \in Int
    PROVE  Rounded(v) \in Int /\ OnGrid(Rounded(v))
  <1>1. (2 * v + StepSize) \div (2 * StepSize) \in Int
    <2>1. 2 * StepSize \in Nat /\ 2 * StepSize > 0 /\ 2 * v + StepSize \in Int
      BY Step
    <2>. QED  BY <2>1, DivMod
  <1>. QED  BY <1>1, Multiple, Step DEF Rounded

\* ... leaves a grid value alone, and never crosses one from above.
LEMMA Around ==
    ASSUME NEW k \in Int, NEW v \in Int
    PROVE  /\ v = k * StepSize => Rounded(v) = v
           /\ v >= k * StepSize => Rounded(v) >= k * StepSize
  <1>. DEFINE d == 2 * StepSize
              n == 2 * v + StepSize
              q == n \div d
  <1>1. d \in Nat /\ d > 0 /\ n \in Int
    BY Step
  <1>2. q \in Int /\ n % d \in Int /\ n = d * q + (n % d) /\ 0 <= n % d /\ n % d < d
    <2>. HIDE DEF d, n
    <2>. QED  BY <1>1, DivMod
  <1>3. StepSize * (2 * q) <= 2 * v + StepSize /\ 2 * v + StepSize < StepSize * (2 * q + 2)
    <2>1. d * q <= n /\ n < d * q + d
      <3>. HIDE DEF d, n, q
      <3>1. d * q \in Int
         BY <1>1, <1>2
      <3>. QED  BY <1>1, <1>2, <3>1
    <2>2. d * q = StepSize * (2 * q) /\ d * q + d = StepSize * (2 * q + 2)
      <3>. HIDE DEF q
      <3>. QED  BY <1>2, Step
    <2>. HIDE DEF q
    <2>. QED  BY <2>1, <2>2, <1>2, Step
  <1>4. v >= k * StepSize => q >= k
    <2>. HIDE DEF q
    <2>. SUFFICES ASSUME v >= k * StepSize, q <= k - 1 PROVE FALSE
      BY <1>2
    <2>1. StepSize * (2 * q + 2) <= StepSize * (2 * k)
      BY <1>2, Step
    <2>2. StepSize * (2 * k) = 2 * (k * StepSize)
      BY Step
    <2>. QED  BY <2>1, <2>2, <1>3, <1>2, Step
  <1>5. v <= k * StepSize => q <= k
    <2>. HIDE DEF q
    <2>. SUFFICES ASSUME v <= k * StepSize, q >= k + 1 PROVE FALSE
      BY <1>2
    <2>1. StepSize * (2 * q) >= StepSize * (2 * k + 2)
      BY <1>2, Step
    <2>2. StepSize * (2 * k + 2) = 2 * (k * StepSize) + 2 * StepSize
      BY Step
    <2>. QED  BY <2>1, <2>2, <1>3, <1>2, Step
  <1>6. Rounded(v) = q * StepSize
    BY DEF Rounded
  <1>. HIDE DEF q
  <1>7. q >= k => q * StepSize >= k * StepSize
    BY <1>2, Step
  <1>. QED  BY <1>2, <1>4, <1>5, <1>6, <1>7, Step

----------------------------------------------------------------------------
(* The gate.                                                               *)

\* What the assumptions say of the constants, one fact at a time.
LEMMA Constant ==
    /\ NoReading \notin Int
    /\ Elapsed \subseteq Nat /\ IdleMin \in Nat /\ Timeout \in Nat
    /\ Settle \in Nat /\ Reassert \in Nat /\ Hysteresis \in Nat
    /\ KnobBand \in Nat /\ BandRange \subseteq Nat
    /\ Raise \in Nat /\ Raise > 0 /\ Deficit \in Nat
    /\ SupplyMax \in Int /\ EntityMin \in Int /\ EntityMax \in Int
    /\ EntityMin <= EntityMax
    /\ Curves \subseteq Int /\ Outlets \subseteq Int /\ Manual \subseteq Int
    /\ OnGrid(EntityMin) /\ OnGrid(EntityMax) /\ OnGrid(Raise)
    /\ \A v \in Manual : OnGrid(v)
  BY HeatingAssumption, GridAssumption

\* The readings of a cycle have their type.
LEMMA InputType ==
    ASSUME NEW in \in Inputs
    PROVE  /\ in.enabled \in BOOLEAN
           /\ in.curve \in Int \cup {NoReading}
           /\ in.curve # NoReading => in.curve \in Curves
           /\ in.outlet \in Int \cup {NoReading}
           /\ BandOf(in) \in Int
  <1>1. /\ in.enabled \in BOOLEAN /\ in.curve \in Curves \cup {NoReading}
        /\ in.outlet \in Outlets \cup {NoReading}
    BY DEF Inputs
  <1>2. BandOf(in) \in Int
    <2>1. BandRange \subseteq Nat /\ KnobBand \in Nat
      BY Constant
    <2>2. BandOf(in) \in BandRange \cup {KnobBand}
      BY DEF BandOf
    <2>3. \A b \in BandRange \cup {KnobBand} : b \in Int
      BY <2>1
    <2>. QED  BY <2>2, <2>3
  <1>. QED  BY <1>1, <1>2, Constant

Low(v) == v = NoReading \/ v >= EntityMin

\* The backlash stays between the curve values it has seen.
LEMMA PlayType ==
    ASSUME NEW p \in Int \cup {NoReading}, NEW c \in Int
    PROVE  /\ Play(p, c) \in Int
           /\ Low(p) /\ c >= EntityMin => Play(p, c) >= EntityMin
  <1>1. CASE p = NoReading
    BY <1>1, Constant DEF Play
  <1>2. CASE p # NoReading
    BY <1>2, Constant DEF Play, Low, Lesser, Greater
  <1>. QED  BY <1>1, <1>2

\* A grid value clamped to the entity's limits is a grid value within them.
LEMMA ClampedOn ==
    ASSUME NEW v \in Int, OnGrid(v)
    PROVE  /\ Clamped(v) \in Int /\ OnGrid(Clamped(v))
           /\ v >= EntityMin => Clamped(v) = Lesser(v, EntityMax)
           /\ v >= EntityMin /\ v <= EntityMax => Clamped(v) = v
  BY Constant DEF Clamped, Greater, Lesser

\* preview_target_c is a grid value; above the entity's minimum only the
\* maximum cuts it.
LEMMA PreviewOn ==
    ASSUME NEW p \in Int \cup {NoReading}, NEW c \in Int
    PROVE  /\ Rounded(Play(p, c)) \in Int /\ OnGrid(Rounded(Play(p, c)))
           /\ Preview(p, c) \in Int /\ OnGrid(Preview(p, c))
           /\ Preview(p, c) >= EntityMin
           /\ Low(p) /\ c >= EntityMin =>
                Preview(p, c) = Lesser(Rounded(Play(p, c)), EntityMax)
  <1>1. Play(p, c) \in Int
    BY PlayType
  <1>2. Rounded(Play(p, c)) \in Int /\ OnGrid(Rounded(Play(p, c)))
    BY <1>1, RoundedOn
  <1>3. Low(p) /\ c >= EntityMin => Rounded(Play(p, c)) >= EntityMin
    <2>. SUFFICES ASSUME Low(p), c >= EntityMin PROVE Rounded(Play(p, c)) >= EntityMin
      OBVIOUS
    <2>1. PICK k \in Int : EntityMin = k * StepSize
      BY Constant, GridIsMultiple
    <2>. QED  BY <1>1, <2>1, PlayType, Around
  <1>4. Clamped(Rounded(Play(p, c))) >= EntityMin
    BY <1>2, Constant DEF Clamped, Greater, Lesser
  <1>. QED  BY <1>2, <1>3, <1>4, ClampedOn DEF Preview

\* The gate's target is a grid value for every offset that is one.
LEMMA TargetOn ==
    ASSUME NEW p \in Int \cup {NoReading}, NEW c \in Int, NEW off \in Int, OnGrid(off)
    PROVE  Target(p, c, off) \in Int /\ OnGrid(Target(p, c, off))
  <1>. DEFINE r == Rounded(Play(p, c))
  <1>1. r \in Int /\ OnGrid(r)
    BY PreviewOn
  <1>2. Target(p, c, off) = Clamped(r + off)
    BY DEF Target
  <1>. HIDE DEF r
  <1>3. r + off \in Int /\ OnGrid(r + off)
    BY <1>1, GridSum
  <1>. QED  BY <1>2, <1>3, ClampedOn

\* The write rules: a value they let through never leaves the outlet of an
\* idle pump inside its restart band.
LEMMA WritesAreSafe ==
    ASSUME NEW in \in Inputs, NEW q \in Int, NEW ref, Writes(in, ref, q), Gated(in)
    PROVE  ~LocksOut(in, q)
  <1>. SUFFICES ASSUME in.freq = "idle", in.outlet < q, in.outlet >= q - BandOf(in)
                PROVE  FALSE
    BY DEF LocksOut
  <1>1. in.outlet \in Int /\ BandOf(in) \in Int
    BY InputType DEF Gated
  <1>2. ~Starts(in, q)
    BY <1>1 DEF Starts
  <1>3. ~(in.outlet >= q)
    BY <1>1
  <1>. QED  BY <1>2, <1>3 DEF Writes, Unknown, Increase, Decrease

----------------------------------------------------------------------------
(* The kick.                                                               *)

\* A kick in flight is one spent on a target of the grid.
KickOk(k) ==
    /\ k \in Kick
    /\ k.flight # NoReading => k.kicked /\ k.target # NoReading
    /\ k.target # NoReading => OnGrid(k.target)

OnGridOrNone(v) == v \in Int \cup {NoReading} /\ (v # NoReading => OnGrid(v))

\* The clocks of the kick saturate at their limits.
LEMMA AgedType ==
    ASSUME NEW cap \in Nat, NEW t \in (0 .. cap) \cup {NoReading}, NEW e \in Nat
    PROVE  /\ Aged(t, e, cap) \in (0 .. cap) \cup {NoReading}
           /\ Aged(t, e, cap) = NoReading <=> t = NoReading
  <1>1. CASE t = NoReading
    BY <1>1 DEF Aged
  <1>2. CASE t # NoReading
    BY <1>2, Constant DEF Aged, Lesser
  <1>. QED  BY <1>1, <1>2

LEMMA TickOk ==
    ASSUME NEW k, KickOk(k), NEW e \in Nat
    PROVE  KickOk(TickKick(k, e)) /\ TickKick(k, e).kicked = k.kicked
  <1>1. /\ Aged(k.idle, e, IdleMin) \in (0 .. IdleMin) \cup {NoReading}
        /\ Aged(k.flight, e, Timeout) \in (0 .. Timeout) \cup {NoReading}
        /\ Aged(k.flight, e, Timeout) = NoReading <=> k.flight = NoReading
    BY AgedType, Constant DEF KickOk, Kick
  <1>2. TickKick(k, e) = [k EXCEPT !.idle = Aged(k.idle, e, IdleMin),
                                   !.flight = Aged(k.flight, e, Timeout)]
    BY DEF TickKick
  <1>. QED  BY <1>1, <1>2 DEF KickOk, Kick

\* What a decision of the kick promises to the gate and to the period.
Promise(k, in, ref, base, d) ==
    /\ KickOk(d.kick)
    /\ d.off \in Int /\ OnGrid(d.off)
    /\ d.fired \in BOOLEAN
    /\ in.freq # "runs" /\ k.kicked => d.kick.kicked
    /\ d.fired => /\ in.curve # NoReading /\ in.freq = "idle"
                  /\ ref # NoReading /\ base # NoReading
                  /\ ~k.kicked /\ d.kick.kicked
                  /\ d.kick.target = KickTarget(ref, base)
                  /\ d.off = KickTarget(ref, base) - base
                  /\ KickTarget(ref, base) <= EntityMax
                  /\ Starts(in, KickTarget(ref, base))

LEMMA ZeroOn == 0 \in Int /\ OnGrid(0)
  BY Multiple, Step, 0 * StepSize = 0

\* A decision that fires nothing promises little.
LEMMA QuietPromise ==
    ASSUME NEW k, NEW in, NEW ref, NEW base, NEW n, KickOk(n),
           NEW off \in Int, OnGrid(off), in.freq # "runs" /\ k.kicked => n.kicked
    PROVE  Promise(k, in, ref, base, Decision(n, off, FALSE))
  BY DEF Promise, Decision

\* The ways in which a period ends or goes on without a kick.
LEMMA KickEnds ==
    ASSUME NEW k, KickOk(k)
    PROVE  KickOk(EndKick(k)) /\ EndKick(k).kicked = k.kicked
  <1>1. k \in Kick
    BY DEF KickOk
  <1>2. EndKick(k) \in Kick
    BY <1>1 DEF Kick, EndKick
  <1>3. EndKick(k).flight = NoReading /\ EndKick(k).target = NoReading
    BY <1>1 DEF Kick, EndKick
  <1>4. EndKick(k).kicked = k.kicked
    BY <1>1 DEF Kick, EndKick
  <1>. QED  BY <1>2, <1>3, <1>4 DEF KickOk

LEMMA KickForgetsIdle ==
    ASSUME NEW k, KickOk(k)
    PROVE  /\ KickOk([k EXCEPT !.idle = NoReading])
           /\ [k EXCEPT !.idle = NoReading].kicked = k.kicked
  <1>. DEFINE n == [k EXCEPT !.idle = NoReading]
  <1>1. k \in Kick
    BY DEF KickOk
  <1>2. n \in Kick
    BY <1>1 DEF Kick
  <1>3. n.flight = k.flight /\ n.target = k.target
    BY <1>1 DEF Kick
  <1>4. n.kicked = k.kicked
    BY <1>1 DEF Kick
  <1>. HIDE DEF n
  <1>5. KickOk(n)
    BY <1>2, <1>3, <1>4 DEF KickOk
  <1>. QED  BY <1>4, <1>5 DEF n

\* The compressor ran: the period is over, and nothing is in flight.
LEMMA KickIsFree ==
    ASSUME NEW k, KickOk(k), k.flight = NoReading
    PROVE  KickOk([k EXCEPT !.idle = NoReading, !.kicked = FALSE])
  <1>. DEFINE n == [k EXCEPT !.idle = NoReading, !.kicked = FALSE]
  <1>1. k \in Kick
    BY DEF KickOk
  <1>2. n \in Kick
    BY <1>1 DEF Kick
  <1>3. n.flight = k.flight /\ n.target = k.target
    BY <1>1 DEF Kick
  <1>. HIDE DEF n
  <1>4. KickOk(n)
    BY <1>2, <1>3 DEF KickOk
  <1>. QED  BY <1>4 DEF n

LEMMA KickStartsIdle ==
    ASSUME NEW k, KickOk(k), k.flight = NoReading
    PROVE  /\ KickOk([k EXCEPT !.idle = IF @ = NoReading THEN 0 ELSE @])
           /\ [k EXCEPT !.idle = IF @ = NoReading THEN 0 ELSE @].kicked = k.kicked
  <1>. DEFINE v == IF k.idle = NoReading THEN 0 ELSE k.idle
              n == [k EXCEPT !.idle = v]
  <1>1. k \in Kick
    BY DEF KickOk
  <1>2. v \in (0 .. IdleMin) \cup {NoReading}
    BY <1>1, Constant DEF Kick
  <1>. HIDE DEF v
  <1>3. n \in Kick
    BY <1>1, <1>2 DEF Kick
  <1>4. n.flight = k.flight /\ n.target = k.target
    BY <1>1 DEF Kick
  <1>5. n.kicked = k.kicked
    BY <1>1 DEF Kick
  <1>. HIDE DEF n
  <1>6. KickOk(n)
    BY <1>3, <1>4 DEF KickOk
  <1>. QED  BY <1>5, <1>6 DEF n, v

\* The raised target lies on the grid, above both what the pump has and what
\* the curve asks for.
LEMMA KickTargetOn ==
    ASSUME NEW ref \in Int, NEW base \in Int, OnGrid(ref), OnGrid(base)
    PROVE  /\ KickTarget(ref, base) \in Int /\ OnGrid(KickTarget(ref, base))
           /\ KickTarget(ref, base) >= ref + Raise
           /\ KickTarget(ref, base) >= base + Raise
  <1>. DEFINE g == Greater(ref, base)
  <1>1. g \in Int /\ OnGrid(g) /\ g >= ref /\ g >= base
    BY DEF Greater
  <1>2. KickTarget(ref, base) = g + Raise
    BY DEF KickTarget
  <1>3. Raise \in Int /\ OnGrid(Raise)
    BY Constant
  <1>. HIDE DEF g
  <1>4. g + Raise \in Int /\ OnGrid(g + Raise)
    BY <1>1, <1>3, GridSum
  <1>. QED  BY <1>1, <1>2, <1>3, <1>4

\* HeatingCompressorKick.step while a kick is in flight.
LEMMA InFlightOk ==
    ASSUME NEW k, KickOk(k), k.flight # NoReading, NEW in \in Inputs,
           NEW ref, NEW base,
           OnGridOrNone(base), in.curve # NoReading => base # NoReading
    PROVE  Promise(k, in, ref, base, InFlight(k, in, ref, base))
  <1>1. CASE ~(GateEnabled /\ HeatingActive(in) /\ InputsOk(in, ref))
    <2>1. InFlight(k, in, ref, base) =
              Decision([EndKick(k) EXCEPT !.idle = NoReading], 0, FALSE)
      BY <1>1 DEF InFlight
    <2>. DEFINE n == [EndKick(k) EXCEPT !.idle = NoReading]
    <2>2. KickOk(n) /\ n.kicked = k.kicked
      BY KickEnds, KickForgetsIdle
    <2>. HIDE DEF n
    <2>3. Promise(k, in, ref, base, Decision(n, 0, FALSE))
      BY <2>2, ZeroOn, QuietPromise
    <2>. QED  BY <2>1, <2>3 DEF n
  <1>2. CASE /\ GateEnabled /\ HeatingActive(in) /\ InputsOk(in, ref)
             /\ in.freq = "runs"
    <2>1. InFlight(k, in, ref, base) =
              Decision([EndKick(k) EXCEPT !.idle = NoReading, !.kicked = FALSE], 0, FALSE)
      BY <1>2 DEF InFlight
    <2>. DEFINE n == [EndKick(k) EXCEPT !.idle = NoReading, !.kicked = FALSE]
    <2>2. EndKick(k).flight = NoReading
      BY DEF EndKick, KickOk, Kick
    <2>3. KickOk(n)
      BY <2>2, KickEnds, KickIsFree
    <2>. HIDE DEF n
    <2>4. Promise(k, in, ref, base, Decision(n, 0, FALSE))
      BY <1>2, <2>3, ZeroOn, QuietPromise
    <2>. QED  BY <2>1, <2>4 DEF n
  <1>3. CASE /\ GateEnabled /\ HeatingActive(in) /\ InputsOk(in, ref)
             /\ in.freq # "runs" /\ k.flight >= Timeout
    <2>1. InFlight(k, in, ref, base) = Decision(EndKick(k), 0, FALSE)
      BY <1>3 DEF InFlight
    <2>. QED  BY <2>1, ZeroOn, KickEnds, QuietPromise
  <1>4. CASE /\ GateEnabled /\ HeatingActive(in) /\ InputsOk(in, ref)
             /\ in.freq # "runs" /\ ~(k.flight >= Timeout)
    <2>. DEFINE t == k.target
                off == Greater(0, t - base)
    <2>1. InFlight(k, in, ref, base) = Decision(k, off, FALSE)
      BY <1>4 DEF InFlight
    <2>2. base \in Int /\ OnGrid(base) /\ t \in Int /\ OnGrid(t)
      BY <1>4 DEF HeatingActive, OnGridOrNone, KickOk, Kick
    <2>3. off \in Int /\ OnGrid(off)
      <3>. HIDE DEF t
      <3>1. t - base \in Int /\ OnGrid(t - base)
        BY <2>2, GridSum
      <3>. QED  BY <3>1, ZeroOn DEF Greater
    <2>. HIDE DEF off
    <2>. QED  BY <2>1, <2>3, QuietPromise
  <1>. QED  BY <1>1, <1>2, <1>3, <1>4

\* A kick that fires.
LEMMA FiringOk ==
    ASSUME NEW i, KickOk(i), NEW in \in Inputs, in.curve # NoReading, in.freq = "idle",
           NEW ref \in Int, OnGrid(ref), NEW base \in Int, OnGrid(base),
           Fires(i, in, ref, base)
    PROVE  Promise(i, in, ref, base,
                   Decision([i EXCEPT !.kicked = TRUE, !.flight = 0,
                                      !.target = KickTarget(ref, base)],
                            KickTarget(ref, base) - base, TRUE))
  <1>. DEFINE K == KickTarget(ref, base)
              n == [i EXCEPT !.kicked = TRUE, !.flight = 0, !.target = K]
  <1>1. K \in Int /\ OnGrid(K)
    BY KickTargetOn
  <1>2. ~i.kicked /\ K <= Lesser(SupplyMax, EntityMax) /\ Starts(in, K)
    BY DEF Fires
  <1>3. ref # NoReading /\ base # NoReading /\ 0 \in 0 .. Timeout /\ 0 # NoReading
    BY Constant
  <1>. HIDE DEF K
  <1>4. K <= EntityMax
    BY <1>1, <1>2, Constant DEF Lesser
  <1>5. K - base \in Int /\ OnGrid(K - base)
    BY <1>1, GridSum
  <1>6. n \in Kick
    BY <1>1, <1>3 DEF KickOk, Kick
  <1>7. n.kicked
    BY DEF KickOk, Kick
  <1>10. n.target = K
    BY DEF KickOk, Kick
  <1>. HIDE DEF n
  <1>8. KickOk(n) /\ n.kicked /\ n.target = K
    BY <1>1, <1>6, <1>7, <1>10, Constant DEF KickOk
  <1>9. Promise(i, in, ref, base, Decision(n, K - base, TRUE))
    BY <1>2, <1>3, <1>4, <1>5, <1>8 DEF Promise, Decision, K
  <1>. QED  BY <1>9 DEF n, K

\* HeatingCompressorKick.step while no kick is in flight.
LEMMA WatchingOk ==
    ASSUME NEW k, KickOk(k), k.flight = NoReading, NEW in \in Inputs,
           NEW ref, NEW base,
           OnGridOrNone(ref), OnGridOrNone(base),
           in.curve # NoReading => base # NoReading
    PROVE  Promise(k, in, ref, base, Watching(k, in, ref, base))
  <1>. DEFINE i == [k EXCEPT !.idle = IF @ = NoReading THEN 0 ELSE @]
              fire == Decision([i EXCEPT !.kicked = TRUE, !.flight = 0,
                                         !.target = KickTarget(ref, base)],
                               KickTarget(ref, base) - base, TRUE)
  <1>1. CASE ~(GateEnabled /\ HeatingActive(in) /\ InputsOk(in, ref))
    <2>1. Watching(k, in, ref, base) = Decision([k EXCEPT !.idle = NoReading], 0, FALSE)
      BY <1>1 DEF Watching
    <2>. DEFINE n == [k EXCEPT !.idle = NoReading]
    <2>2. KickOk(n) /\ n.kicked = k.kicked
      BY KickForgetsIdle
    <2>. HIDE DEF n
    <2>3. Promise(k, in, ref, base, Decision(n, 0, FALSE))
      BY <2>2, ZeroOn, QuietPromise
    <2>. QED  BY <2>1, <2>3 DEF n
  <1>2. CASE /\ GateEnabled /\ HeatingActive(in) /\ InputsOk(in, ref)
             /\ in.freq = "runs"
    <2>1. Watching(k, in, ref, base) =
              Decision([k EXCEPT !.idle = NoReading, !.kicked = FALSE], 0, FALSE)
      BY <1>2 DEF Watching
    <2>. DEFINE n == [k EXCEPT !.idle = NoReading, !.kicked = FALSE]
    <2>2. KickOk(n)
      BY KickIsFree
    <2>. HIDE DEF n
    <2>3. Promise(k, in, ref, base, Decision(n, 0, FALSE))
      BY <1>2, <2>2, ZeroOn, QuietPromise
    <2>. QED  BY <2>1, <2>3 DEF n
  <1>3. CASE /\ GateEnabled /\ HeatingActive(in) /\ InputsOk(in, ref)
             /\ in.freq # "runs"
    <2>1. KickOk(i) /\ i.kicked = k.kicked
      BY KickStartsIdle
    <2>2. CASE ~Fires(i, in, ref, base)
      <3>1. Watching(k, in, ref, base) = Decision(i, 0, FALSE)
        BY <1>3, <2>2 DEF Watching
      <3>. HIDE DEF i
      <3>. QED  BY <2>1, <3>1, ZeroOn, QuietPromise
    <2>3. CASE Fires(i, in, ref, base)
      <3>1. Watching(k, in, ref, base) = fire
        BY <1>3, <2>3 DEF Watching
      <3>2. /\ ref \in Int /\ OnGrid(ref) /\ base \in Int /\ OnGrid(base)
            /\ in.curve # NoReading
        BY <1>3 DEF HeatingActive, InputsOk, OnGridOrNone
      <3>3. in.freq = "idle"
        BY <1>3 DEF InputsOk, Inputs
      <3>. HIDE DEF i
      <3>4. Promise(i, in, ref, base, fire)
        BY <2>1, <2>3, <3>2, <3>3, FiringOk
      <3>. HIDE DEF fire
      <3>. QED  BY <2>1, <3>1, <3>4 DEF Promise
    <2>. QED  BY <2>2, <2>3
  <1>. QED  BY <1>1, <1>2, <1>3

LEMMA KickStepOk ==
    ASSUME NEW k, KickOk(k), NEW in \in Inputs, NEW ref, NEW base,
           OnGridOrNone(ref), OnGridOrNone(base),
           in.curve # NoReading => base # NoReading
    PROVE  Promise(k, in, ref, base, KickStep(k, in, ref, base))
  <1>1. CASE ~KickEnabled
    <2>1. KickStep(k, in, ref, base) = Decision(k, 0, FALSE)
      BY <1>1 DEF KickStep
    <2>. QED  BY <2>1, ZeroOn, QuietPromise
  <1>2. CASE KickEnabled /\ k.flight # NoReading
    BY <1>2, InFlightOk DEF KickStep
  <1>3. CASE KickEnabled /\ k.flight = NoReading
    BY <1>3, WatchingOk DEF KickStep
  <1>. QED  BY <1>1, <1>2, <1>3

----------------------------------------------------------------------------
(* The inductive invariant.                                                *)

\* Every setpoint of the system lies on the entity's grid.
Gridded == OnGrid(shown) /\ OnGrid(pump) /\ OnGridOrNone(cache)

\* A period that had its kick remembers it.
Period == KickOk(kick) /\ kicks <= 1 /\ (kicks # 0 => kick.kicked)

IInv == TypeOK /\ Gridded /\ Period /\ ~lockout

\* The parts of a cycle, named as in the action.
Base(in) == IF in.curve = NoReading THEN NoReading ELSE Preview(play, in.curve)
D(in, e) == KickStep(TickKick(kick, e), in, Reference, Base(in))
Q(in, e) == IF in.curve = NoReading THEN NoReading
            ELSE Target(play, in.curve, D(in, e).off)
Go(in, e) == in.curve # NoReading /\ Writes(in, Reference, Q(in, e))
Age(e) == Lesser(sent + e, Reassert)

LEMMA CycleParts ==
    ASSUME NEW in \in Inputs, NEW e \in Elapsed, Cycle(in, e)
    PROVE  /\ kick' = D(in, e).kick
           /\ play' = IF in.curve = NoReading THEN NoReading ELSE Play(play, in.curve)
           /\ IF in.enabled /\ Go(in, e) THEN Write(in, Rounded(Q(in, e)), Age(e))
              ELSE sent' = Age(e) /\ UNCHANGED <<cache, pump, lockout>>
           /\ kicks' = IF D(in, e).fired THEN Lesser(kicks + 1, 2)
                       ELSE IF in.freq = "runs" THEN 0 ELSE kicks
           /\ wasted' = (wasted \/ (D(in, e).fired
                              /\ ~(Go(in, e) /\ Q(in, e) = D(in, e).kick.target)))
           /\ last' \in {"other", "steady", "runs"}
           /\ link' = link /\ shown' = shown
  BY DEF Cycle, Base, D, Q, Go, Age

\* What the kick's decision promises holds of the cycle's.
LEMMA CyclePromise ==
    ASSUME IInv, NEW in \in Inputs, NEW e \in Elapsed
    PROVE  /\ OnGridOrNone(Reference) /\ OnGridOrNone(Base(in))
           /\ Promise(TickKick(kick, e), in, Reference, Base(in), D(in, e))
           /\ TickKick(kick, e).kicked = kick.kicked
  <1>1. OnGridOrNone(Reference)
    BY DEF IInv, TypeOK, Gridded, OnGridOrNone, Reference, EntityState, LastWritten
  <1>2. OnGridOrNone(Base(in)) /\ (in.curve # NoReading => Base(in) # NoReading)
    <2>1. CASE in.curve = NoReading
      BY <2>1 DEF Base, OnGridOrNone
    <2>2. CASE in.curve # NoReading
      <3>1. in.curve \in Int /\ play \in Int \cup {NoReading}
        BY <2>2, InputType DEF IInv, TypeOK
      <3>2. Preview(play, in.curve) \in Int /\ OnGrid(Preview(play, in.curve))
        BY <3>1, PreviewOn
      <3>. QED  BY <2>2, <3>2, Constant DEF Base, OnGridOrNone
    <2>. QED  BY <2>1, <2>2
  <1>3. KickOk(TickKick(kick, e)) /\ TickKick(kick, e).kicked = kick.kicked
    BY TickOk, Constant DEF IInv, Period
  <1>. QED  BY <1>1, <1>2, <1>3, KickStepOk DEF D

\* The value a cycle hands to the writer is the one its rules looked at.
LEMMA SentIsJudged ==
    ASSUME IInv, NEW in \in Inputs, NEW e \in Elapsed, in.curve # NoReading
    PROVE  Q(in, e) \in Int /\ OnGrid(Q(in, e)) /\ Rounded(Q(in, e)) = Q(in, e)
  <1>1. D(in, e).off \in Int /\ OnGrid(D(in, e).off)
    BY CyclePromise DEF Promise
  <1>2. in.curve \in Int /\ play \in Int \cup {NoReading}
    BY InputType DEF IInv, TypeOK
  <1>3. Q(in, e) \in Int /\ OnGrid(Q(in, e))
    BY <1>1, <1>2, TargetOn DEF Q
  <1>4. PICK k \in Int : Q(in, e) = k * StepSize
    BY <1>3, GridIsMultiple
  <1>. QED  BY <1>3, <1>4, Around

\* _sync_heating_setpoint keeps the invariant: what it sends is safe, and a
\* kick that fires is the period's first.
LEMMA CycleInv ==
    ASSUME IInv, NEW in \in Inputs, NEW e \in Elapsed, Cycle(in, e)
    PROVE  IInv'
  <1>1. Age(e) \in 0 .. Reassert
    BY Constant DEF Age, Lesser, IInv, TypeOK
  <1>2. /\ sent' \in 0 .. Reassert
        /\ OnGridOrNone(cache') /\ pump' \in Int /\ OnGrid(pump')
        /\ lockout' = FALSE
    <2>1. CASE ~(in.enabled /\ Go(in, e))
      BY <1>1, <2>1, CycleParts DEF IInv, TypeOK, Gridded
    <2>2. CASE in.enabled /\ Go(in, e)
      <3>. DEFINE v == Rounded(Q(in, e))
      <3>1. v = Q(in, e) /\ v \in Int /\ OnGrid(v)
        BY <2>2, SentIsJudged DEF Go
      <3>2. Gated(in) => ~LocksOut(in, v)
        BY <2>2, <3>1, WritesAreSafe DEF Go
      <3>3. Write(in, v, Age(e))
        BY <2>2, CycleParts
      <3>. HIDE DEF v
      <3>4. CASE link = "down" \/ Skipped(v, Age(e))
        BY <1>1, <3>3, <3>4 DEF Write, IInv, TypeOK, Gridded
      <3>5. CASE ~(link = "down" \/ Skipped(v, Age(e)))
        <4>1. sent' = 0 /\ cache' = v
          BY <3>3, <3>5 DEF Write
        <4>2. pump' = v \/ pump' = pump
          BY <3>3, <3>5 DEF Write
        <4>3. lockout' = FALSE
          BY <3>2, <3>3, <3>5 DEF Write, IInv, TypeOK
        <4>. QED  BY <3>1, <4>1, <4>2, <4>3, Constant
                  DEF IInv, TypeOK, Gridded, OnGridOrNone
      <3>. QED  BY <3>4, <3>5
    <2>. QED  BY <2>1, <2>2
  <1>3. play' \in Int \cup {NoReading}
    <2>1. CASE in.curve = NoReading
      BY <2>1, CycleParts
    <2>2. CASE in.curve # NoReading
      BY <2>2, CycleParts, InputType, PlayType DEF IInv, TypeOK
    <2>. QED  BY <2>1, <2>2
  <1>4. KickOk(kick') /\ kick' \in Kick
    BY CycleParts, CyclePromise DEF Promise, KickOk
  <1>5. kicks' \in 0 .. 1 /\ (kicks' # 0 => kick'.kicked)
    <2>1. CASE D(in, e).fired
      <3>1. ~kick.kicked /\ kick'.kicked
        BY <2>1, CycleParts, CyclePromise DEF Promise
      <3>2. kicks = 0
        BY <3>1 DEF IInv, Period
      <3>3. kicks' = 1
        BY <2>1, <3>2, CycleParts DEF Lesser
      <3>. QED  BY <3>1, <3>3
    <2>2. CASE ~D(in, e).fired /\ in.freq = "runs"
      BY <2>2, CycleParts
    <2>3. CASE ~D(in, e).fired /\ in.freq # "runs"
      <3>1. kicks' = kicks
        BY <2>3, CycleParts
      <3>2. kick.kicked => kick'.kicked
        BY <2>3, CycleParts, CyclePromise DEF Promise
      <3>. QED  BY <3>1, <3>2 DEF IInv, TypeOK, Period
    <2>. QED  BY <2>1, <2>2, <2>3
  <1>6. wasted' \in BOOLEAN /\ last' \in {"other", "steady", "runs"}
    BY CycleParts
  <1>7. link' \in Links /\ shown' \in Int /\ OnGrid(shown')
    BY CycleParts DEF IInv, TypeOK, Gridded
  <1>8. TypeOK'
    <2>1. cache' \in Int \cup {NoReading}
      BY <1>2 DEF OnGridOrNone
    <2>2. kicks' \in 0 .. 2
      BY <1>5
    <2>3. {lockout', wasted'} \subseteq BOOLEAN
      BY <1>2, <1>6
    <2>. QED  BY <1>2, <1>3, <1>4, <1>6, <1>7, <2>1, <2>2, <2>3 DEF TypeOK
  <1>9. Gridded'
    BY <1>2, <1>7 DEF Gridded
  <1>10. Period'
    BY <1>4, <1>5 DEF Period
  <1>. QED  BY <1>2, <1>8, <1>9, <1>10 DEF IInv

\* A rebuilt coordinator has no kick behind it.
LEMMA NewKickOk == KickOk(NewKick) /\ NewKick \in Kick
  BY DEF NewKick, KickOk, Kick

LEMMA InitInv == Init => IInv
  <1>. SUFFICES ASSUME Init PROVE IInv
    OBVIOUS
  <1>1. sent \in 0 .. Reassert /\ kicks \in 0 .. 2 /\ kicks <= 1
    BY Constant DEF Init
  <1>2. pump \in Int /\ OnGrid(pump) /\ shown \in Int /\ OnGrid(shown)
    BY Constant DEF Init
  <1>3. TypeOK
    BY <1>1, <1>2, NewKickOk DEF Init, TypeOK
  <1>4. Gridded
    BY <1>2 DEF Init, Gridded, OnGridOrNone
  <1>5. Period
    BY NewKickOk DEF Init, Period
  <1>. QED  BY <1>3, <1>4, <1>5 DEF Init, IInv

LEMMA NextInv == IInv /\ [Next]_vars => IInv'
  <1>. SUFFICES ASSUME IInv, [Next]_vars PROVE IInv'
    OBVIOUS
  <1>1. CASE \E in \in Inputs, e \in Elapsed : Cycle(in, e)
    BY <1>1, CycleInv
  <1>2. CASE Report
    BY <1>2 DEF Report, inner, ghosts, IInv, TypeOK, Gridded, Period
  <1>3. CASE Adjust
    <2>1. pump' \in Int /\ OnGrid(pump')
      BY <1>3, Constant DEF Adjust
    <2>. QED  BY <1>3, <2>1 DEF Adjust, inner, IInv, TypeOK, Gridded, Period
  <1>4. CASE LinkChange
    BY <1>4 DEF LinkChange, inner, IInv, TypeOK, Gridded, Period
  <1>5. CASE Rebuild
    <2>1. 0 \in 0 .. Reassert /\ 0 \in 0 .. 2
      BY Constant
    <2>2. TypeOK'
      BY <1>5, <2>1, NewKickOk DEF Rebuild, IInv, TypeOK
    <2>3. Gridded'
      BY <1>5 DEF Rebuild, IInv, Gridded, OnGridOrNone
    <2>4. Period'
      BY <1>5, NewKickOk DEF Rebuild, Period
    <2>. QED  BY <1>5, <2>2, <2>3, <2>4 DEF Rebuild, IInv
  <1>6. CASE UNCHANGED vars
    BY <1>6 DEF vars, inner, ghosts, IInv, TypeOK, Gridded, Period
  <1>. QED  BY <1>1, <1>2, <1>3, <1>4, <1>5, <1>6 DEF Next

LEMMA Invariant == Spec => []IInv
  BY InitInv, NextInv, PTL DEF Spec

----------------------------------------------------------------------------
(* A kick that fires is written.                                           *)

\* The heating curve stays within what the setpoint entity accepts.
CurveFits == \A c \in Curves : c >= EntityMin

\* The kick's target comes out of the gate unchanged, and the gate's
\* increase rule lets it through.
LEMMA FiredIsWritten ==
    ASSUME IInv, Low(play), CurveFits, NEW in \in Inputs, NEW e \in Elapsed,
           D(in, e).fired
    PROVE  Go(in, e) /\ Q(in, e) = D(in, e).kick.target
  <1>. DEFINE ref == Reference
              base == Base(in)
              K == KickTarget(ref, base)
              r == Rounded(Play(play, in.curve))
  <1>1. /\ in.curve # NoReading /\ in.freq = "idle" /\ ref # NoReading
        /\ base # NoReading
        /\ D(in, e).kick.target = K /\ D(in, e).off = K - base
        /\ K <= EntityMax /\ Starts(in, K)
        /\ OnGridOrNone(ref) /\ OnGridOrNone(base)
    BY CyclePromise DEF Promise
  <1>2. ref \in Int /\ base \in Int /\ OnGrid(ref) /\ OnGrid(base)
    BY <1>1 DEF OnGridOrNone
  <1>3. K \in Int /\ OnGrid(K) /\ K >= ref + Raise /\ K >= base + Raise
    <2>. HIDE DEF ref, base
    <2>. QED  BY <1>2, KickTargetOn
  <1>4. /\ in.curve \in Int /\ play \in Int \cup {NoReading}
        /\ in.curve >= EntityMin
    BY <1>1, InputType DEF IInv, TypeOK, CurveFits
  <1>5. /\ r \in Int /\ base = Preview(play, in.curve)
        /\ base >= EntityMin /\ base = Lesser(r, EntityMax)
    BY <1>1, <1>4, PreviewOn DEF Base
  <1>6. Q(in, e) = Clamped(r + (K - base))
    BY <1>1 DEF Q, Target
  <1>. HIDE DEF ref, base, K, r
  <1>7. base = r
    BY <1>1, <1>2, <1>3, <1>5, Constant DEF Lesser
  <1>8. r + (K - base) = K
    BY <1>2, <1>3, <1>5, <1>7
  <1>9. Q(in, e) = K
    BY <1>1, <1>2, <1>3, <1>5, <1>6, <1>8, ClampedOn, Constant
  <1>10. Raise >= StepSize
    <2>1. PICK k \in Int : Raise = k * StepSize
      BY Constant, GridIsMultiple
    <2>2. k >= 1
      BY <2>1, Constant, Step
    <2>3. k * StepSize >= StepSize
      BY <2>2, Step
    <2>. QED  BY <2>1, <2>3
  <1>11. K > ref /\ Differ(K, ref)
    BY <1>2, <1>3, <1>10, Constant, Step DEF Differ, Distance
  <1>12. Increase(in, ref, K)
    BY <1>1, <1>11 DEF Increase
  <1>. QED  BY <1>1, <1>9, <1>12 DEF Go, Writes, ref

\* The backlash never falls below the entity's minimum.
Written == Low(play) /\ ~wasted

LEMMA WrittenStep ==
    ASSUME IInv, CurveFits, Written, [Next]_vars
    PROVE  Written'
  <1>1. CASE \E in \in Inputs, e \in Elapsed : Cycle(in, e)
    <2>1. PICK in \in Inputs, e \in Elapsed : Cycle(in, e)
      BY <1>1
    <2>2. ~wasted'
      BY <2>1, CycleParts, FiredIsWritten DEF Written
    <2>3. CASE in.curve = NoReading
      BY <2>1, <2>2, <2>3, CycleParts DEF Written, Low
    <2>4. CASE in.curve # NoReading
      <3>1. in.curve \in Int /\ in.curve >= EntityMin /\ play \in Int \cup {NoReading}
        BY <2>4, InputType DEF CurveFits, IInv, TypeOK
      <3>2. Play(play, in.curve) >= EntityMin
        BY <3>1, PlayType DEF Written
      <3>. QED  BY <2>1, <2>2, <2>4, <3>2, CycleParts DEF Written, Low
    <2>. QED  BY <2>3, <2>4
  <1>2. CASE Report \/ Adjust \/ LinkChange
    BY <1>2 DEF Report, Adjust, LinkChange, inner, ghosts, Written
  <1>3. CASE Rebuild
    BY <1>3 DEF Rebuild, Written, Low
  <1>4. CASE UNCHANGED vars
    BY <1>4 DEF vars, inner, ghosts, Written
  <1>. QED  BY <1>1, <1>2, <1>3, <1>4 DEF Next

LEMMA WrittenInit == Init => Written
  BY DEF Init, Written, Low

----------------------------------------------------------------------------
(* The results.                                                            *)

\* The gate, the kick and the writer keep their types.
THEOREM HeatingTyped == Spec => []TypeOK
  <1>1. IInv => TypeOK
    BY DEF IInv
  <1>. QED  BY <1>1, Invariant, PTL

\* No setpoint that reaches an idle, readable pump leaves its outlet inside
\* the restart band: for every grid, band, hysteresis and timing, with a
\* reference that may be stale and a pump that may reject writes.
THEOREM GateNeverLocksOut == Spec => []NeverLocksOut
  <1>1. IInv => NeverLocksOut
    BY DEF IInv, NeverLocksOut
  <1>. QED  BY <1>1, Invariant, PTL

\* One kick between two runs of the compressor, and written when it fires, as
\* long as the heating curve stays above the setpoint entity's minimum.
THEOREM OneKickAndWritten ==
    ASSUME CurveFits
    PROVE  Spec => []KickIsSingleAndWritten
  <1>1. IInv /\ Written => KickIsSingleAndWritten
    BY DEF IInv, Period, Written, KickIsSingleAndWritten
  <1>2. IInv /\ Written /\ [Next]_vars => Written'
    BY WrittenStep
  <1>. QED  BY <1>1, <1>2, WrittenInit, Invariant, PTL DEF Spec

=============================================================================
