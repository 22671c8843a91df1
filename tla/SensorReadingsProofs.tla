------------------------- MODULE SensorReadingsProofs -------------------------
(***************************************************************************)
(* Proofs about the readings of one sensor, for every jump, confirmation   *)
(* time, age limit and spacing of the cycles, and about the monitor of the *)
(* loop probes, for every manifold and every length of its windows.        *)
(*                                                                         *)
(* Each property of the readings compares what the controller keeps with a *)
(* history the model keeps beside it; the inductive invariant ties the two *)
(* together.  Those of the monitor follow the deviations of a probe from   *)
(* the sample through the window's median to the baseline.                 *)
(***************************************************************************)
EXTENDS SensorReadings, ProbeHealth, FiniteSetTheorems, SequenceTheorems,
        WellFoundedInduction, TLAPS

----------------------------------------------------------------------------
(* Types.                                                                  *)

Ages == 0 .. Cap \cup {None}
Entities == [val : Levels \cup {Gone, Bad}, age : 0 .. Cap]
Records ==
    {x \in [val : Levels \cup {None}, age : Ages, report : Ages] :
        x.val # None => x.age # None /\ x.report # None}

Typed ==
    /\ role \in Roles
    /\ entity \in Entities
    /\ cache \in Records /\ accepted \in Records /\ pending \in Records
    /\ room \in [fresh : Ages, known : BOOLEAN, built : 0 .. Cap]
    /\ trend \in [age : Ages, told : 0 .. Cap]
    /\ dog \in [heartbeat : 0 .. Cap, since : Ages, faulted : BOOLEAN,
                state : {"ok", "stale"}]
    /\ seen \in [used : Levels \cup {None}, read : Levels \cup {None},
                 frac : {"none", "part", "full"}, report : Ages,
                 jumped : BOOLEAN, straight : BOOLEAN,
                 streak : 0 .. Recovery, run : 0 .. Confirm,
                 near : [Levels -> 0 .. Confirm \cup {None}]]

\* The constants as the arithmetic of the proofs needs them.
LEMMA Numbers ==
    /\ {Fresh, Jump, Confirm, Cache, Hold, MaxDt, Timeout, Recovery, Grace,
        Cap} \subseteq Nat
    /\ Confirm \in Nat /\ Recovery \in Nat /\ Cap \in Nat /\ Fresh \in Nat
    /\ MaxDt \in Nat /\ Jump \in Nat /\ Grace \in Nat
    /\ Confirm > 0 /\ Cap > Confirm /\ Cap > Recovery /\ Cap > 0
    /\ 0 \in 0 .. Cap /\ 0 \in Ages /\ None \in Ages
    /\ 0 \in 0 .. Confirm /\ 0 \in 0 .. Recovery
    /\ Levels \subseteq Int /\ None \notin Int
    /\ None \notin Levels /\ Gone \notin Levels /\ Bad \notin Levels
    /\ None # Gone /\ None # Bad /\ Gone # Bad
    /\ \A d \in Gaps : d \in Nat
<1>1. {Fresh, Jump, Confirm, Cache, Hold, MaxDt, Timeout, Recovery, Grace,
       Cap} \subseteq Nat
  BY ReadingsAssumption
<1>2. /\ Confirm \in Nat /\ Recovery \in Nat /\ Cap \in Nat /\ Fresh \in Nat
      /\ MaxDt \in Nat /\ Jump \in Nat /\ Grace \in Nat
  BY <1>1
<1>3. Confirm > 0 /\ Cap > Confirm /\ Cap > Recovery
  BY ReadingsAssumption
<1>4. /\ Cap > 0 /\ 0 \in 0 .. Cap
      /\ 0 \in 0 .. Confirm /\ 0 \in 0 .. Recovery
  BY <1>2, <1>3
<1>5. 0 \in Ages /\ None \in Ages
  BY <1>4 DEF Ages
<1>6. /\ Levels \subseteq Int /\ None \notin Int /\ Gone \notin Int /\ Bad \notin Int
      /\ None # Gone /\ None # Bad /\ Gone # Bad
      /\ Gaps \subseteq Nat
  BY ReadingsAssumption
<1> QED
  BY <1>1, <1>2, <1>3, <1>4, <1>5, <1>6

\* An age that grows stays an age, and an age that is none stays none.
LEMMA OlderIs ==
    ASSUME NEW age \in Ages, NEW d \in Nat
    PROVE  /\ Older(age, d) \in Ages
           /\ Older(age, d) = None <=> age = None
           /\ age # None => /\ age \in 0 .. Cap /\ Older(age, d) \in 0 .. Cap
                            /\ Older(age, d)
                                 = IF age + d < Cap THEN age + d ELSE Cap
  BY Numbers DEF Older, Ages

LEMMA OlderNumber ==
    ASSUME NEW age \in 0 .. Cap, NEW d \in Nat
    PROVE  /\ Older(age, d) \in 0 .. Cap
           /\ Older(age, d) = IF age + d < Cap THEN age + d ELSE Cap
  BY Numbers DEF Older

\* A record that ages keeps its value.
LEMMA AgedRecord ==
    ASSUME NEW x \in Records, NEW d \in Nat
    PROVE  /\ Aged(x, d) \in Records
           /\ Aged(x, d).val = x.val /\ Aged(x, d).age = Older(x.age, d)
<1>1. x \in [val : Levels \cup {None}, age : Ages, report : Ages]
      /\ (x.val # None => x.age # None /\ x.report # None)
  BY DEF Records
<1> DEFINE y == [x EXCEPT !.age = Older(x.age, d)]
<1>y. y = [val |-> x.val, age |-> Older(x.age, d), report |-> x.report]
  BY <1>1
<1>z. Aged(x, d) = [y EXCEPT !.report = Older(x.report, d)]
  BY <1>1 DEF Aged
<1>2. Aged(x, d) = [val |-> x.val, age |-> Older(x.age, d),
                    report |-> Older(x.report, d)]
  BY <1>y, <1>z
<1>3. Older(x.age, d) \in Ages /\ Older(x.report, d) \in Ages
      /\ (x.age # None => Older(x.age, d) # None)
      /\ (x.report # None => Older(x.report, d) # None)
  BY <1>1, OlderIs
<1> QED
  BY <1>1, <1>2, <1>3 DEF Records

\* What is read of the entity or its cache is a record,
LEMMA FloatStateType ==
    ASSUME NEW e \in Entities, NEW c \in Records
    PROVE  FloatState(e, c) \in Records /\ Cached(e, c) \in Records
<1>1. Empty \in Records
  BY Numbers DEF Empty, Records
<1>2. e.val \in Levels => [val |-> e.val, age |-> 0, report |-> e.age] \in Records
  BY Numbers DEF Entities, Records, Ages
<1>3. e.val \in Levels \cup {Gone, Bad}
  BY DEF Entities
<1> QED
  BY <1>1, <1>2, <1>3 DEF FloatState, Cached

\* and so is what the controller uses of it.
LEMMA ValueType ==
    ASSUME NEW r \in Records, NEW a \in Records, NEW p \in Records
    PROVE  /\ Value(r, a, p) \in Records
           /\ NextPending(r, a, p) \in Records
           /\ Accepts(r, a, p) => [r EXCEPT !.age = 0] \in Records
           /\ Accepts(r, a, p) \in BOOLEAN
<1>1. Empty \in Records
  BY Numbers DEF Empty, Records
<1>2. [r EXCEPT !.age = 0] \in Records
  BY Numbers DEF Records
<1>3. Accepts(r, a, p) \in BOOLEAN
  BY DEF Accepts, Jumped, Confirmed
<1> QED
  BY <1>1, <1>2, <1>3 DEF Value, Bridged, NextPending

----------------------------------------------------------------------------
(* One cycle, taken apart.                                                 *)

Made(d, e, c, a, p, r, u, steps) ==
    /\ d \in Nat /\ e \in Entities /\ c \in Records /\ r \in Records
    /\ a \in Records /\ p \in Records /\ u \in Records /\ steps \in BOOLEAN
    /\ a.val = accepted.val /\ p.val = pending.val
    /\ p.age = Older(pending.age, d)
    /\ r = FloatState(e, c) /\ u = Value(r, a, p)
    /\ steps => role = "room"
    /\ entity' = e /\ cache' = Cached(e, c)
    /\ accepted' = IF role # "humidity" /\ Accepts(r, a, p)
                   THEN [r EXCEPT !.age = 0] ELSE a
    /\ pending' = IF role = "humidity" THEN Empty ELSE NextPending(r, a, p)
    /\ trend' = IF steps THEN NextTrend(u, Elapsed(d)) ELSE trend
    /\ dog' = IF role = "room" THEN Watch(u.val # None, d) ELSE dog
    /\ seen' = Seen(d, r, u, p, a, e, steps)
    /\ role' = role
    /\ room' \in [fresh : Ages, known : BOOLEAN, built : 0 .. Cap]

LEMMA CycleParts ==
    ASSUME Typed, NEW d \in Gaps, Cycle(d)
    PROVE  \E e, c, a, p, r, u, steps : Made(d, e, c, a, p, r, u, steps)
<1> DEFINE e == [entity EXCEPT !.age = Older(@, d)]
           c == Aged(cache, d)
           a == Aged(accepted, d)
           p == Aged(pending, d)
           r == FloatState(e, c)
           u == Value(r, a, p)
           known == room.known \/ u.val # None
           built == Older(room.built, d)
           steps == role = "room" /\ Stepped(known, built)
<1>1. d \in Nat
  BY Numbers
<1>2. e \in Entities
  BY <1>1, OlderNumber DEF Typed, Entities
<1>3. /\ c \in Records /\ a \in Records /\ p \in Records
      /\ a.val = accepted.val /\ p.val = pending.val
      /\ p.age = Older(pending.age, d)
  BY <1>1, AgedRecord DEF Typed
<1>4. /\ entity' = e /\ cache' = Cached(e, c)
      /\ accepted' = IF role # "humidity" /\ Accepts(r, a, p)
                     THEN [r EXCEPT !.age = 0] ELSE a
      /\ pending' = IF role = "humidity" THEN Empty ELSE NextPending(r, a, p)
      /\ room' = IF role # "room" THEN room
                 ELSE [fresh |-> IF u.val # None \/ room.fresh = None THEN 0
                                 ELSE Older(room.fresh, d),
                       known |-> known, built |-> built]
      /\ trend' = IF steps THEN NextTrend(u, Elapsed(d)) ELSE trend
      /\ dog' = IF role = "room" THEN Watch(u.val # None, d) ELSE dog
      /\ seen' = Seen(d, r, u, p, a, e, steps)
      /\ role' = role
  BY DEF Cycle
<1>5. r \in Records /\ u \in Records
  BY <1>2, <1>3, FloatStateType, ValueType
<1> HIDE DEF e, c, a, p, r, u
<1>6. built \in 0 .. Cap /\ known \in BOOLEAN /\ steps \in BOOLEAN
      /\ (room.fresh # None => Older(room.fresh, d) \in Ages)
  BY <1>1, OlderNumber, OlderIs DEF Typed, Stepped
<1> HIDE DEF built, known, steps
<1>7. room' \in [fresh : Ages, known : BOOLEAN, built : 0 .. Cap]
  BY <1>4, <1>6, Numbers DEF Typed
<1>8. (steps => role = "room") /\ r = FloatState(e, c) /\ u = Value(r, a, p)
  BY DEF steps, r, u
<1>9. Made(d, e, c, a, p, r, u, steps)
  BY <1>1, <1>2, <1>3, <1>4, <1>5, <1>6, <1>7, <1>8 DEF Made
<1> QED
  BY <1>9

----------------------------------------------------------------------------
(* The inductive invariant.                                                *)

\* While a candidate waits, levels near it have been read as long as it has.
CandidateSeen ==
    role # "humidity" /\ pending.val # None =>
        /\ seen.near[pending.val] # None
        /\ seen.near[pending.val] >= pending.age \/ seen.near[pending.val] >= Confirm

\* A plausible reading is in use, or it waits as the candidate it is near to.
ReadOrWaiting ==
    role # "humidity" /\ seen.read # None /\ seen.read \notin Absurd =>
        \/ seen.used = seen.read /\ accepted.val = seen.read
        \/ /\ pending.val # None /\ Near(seen.read, pending.val)
           /\ pending.age >= seen.run /\ seen.run < Confirm

\* Without a reading no level has lasted.
NoRun == seen.read = None => seen.run = 0

\* The trend's reference is as old as the steps have been told.
Measured == trend.age # None => trend.age = trend.told

\* The watchdog counts no longer than data has come.
Watched ==
    /\ role # "room" => dog.state = "stale" /\ dog.since = None
    /\ dog.state = "ok" => seen.used # None
    /\ dog.since # None =>
         /\ seen.used # None
         /\ seen.streak >= dog.since \/ seen.streak >= Recovery

IInv ==
    /\ Typed /\ CandidateSeen /\ ReadOrWaiting /\ NoRun /\ Measured /\ Watched
    /\ JumpNeedsTime /\ PadIsHonest /\ TrendIsStraight /\ RealChangeIsAdopted

\* Nearness has no direction, and no value is far from itself.
LEMMA NearAgain ==
    ASSUME NEW v \in Levels, NEW w \in Levels
    PROVE  Near(v, v) /\ (Near(v, w) <=> Near(w, v))
  BY Numbers DEF Near, Distance

\* What the history remembers of a cycle, field by field.
LEMMA WhatSeenSays ==
    ASSUME Typed,
           NEW d, NEW e, NEW c, NEW a, NEW p, NEW r, NEW u, NEW steps,
           Made(d, e, c, a, p, r, u, steps)
    PROVE  /\ seen'.used = u.val /\ seen'.read = r.val
           /\ seen'.frac = Fraction(u, e) /\ seen'.report = u.report
           /\ seen'.jumped = (role # "humidity" /\ Accepts(r, a, p)
                              /\ Jumped(a, r.val))
           /\ seen'.straight = (steps /\ u.val # None /\ Samples(Elapsed(d))
                                => Elapsed(d).age = Elapsed(d).told)
           /\ seen'.streak = IF u.val = None \/ seen.used = None THEN 0
                             ELSE IF seen.streak + d < Recovery
                                  THEN seen.streak + d ELSE Recovery
           /\ seen'.run = IF r.val = None \/ r.val # seen.read THEN 0
                          ELSE IF seen.run + d < Confirm
                               THEN seen.run + d ELSE Confirm
           /\ \A v \in Levels :
                seen'.near[v] = IF r.val = None \/ r.val \in Absurd
                                   \/ ~Near(r.val, v) THEN None
                                ELSE IF seen.near[v] = None THEN 0
                                ELSE IF seen.near[v] + d < Confirm
                                     THEN seen.near[v] + d ELSE Confirm
<1>1. seen' = Seen(d, r, u, p, a, e, steps)
  BY DEF Made
<1> QED
  BY <1>1, Zenon DEF Seen

LEMMA CycleTyped ==
    ASSUME Typed,
           NEW d, NEW e, NEW c, NEW a, NEW p, NEW r, NEW u, NEW steps,
           Made(d, e, c, a, p, r, u, steps)
    PROVE  Typed'
<1>1. /\ d \in Nat /\ e \in Entities /\ c \in Records /\ r \in Records
      /\ a \in Records /\ p \in Records /\ u \in Records /\ steps \in BOOLEAN
  BY DEF Made
<1>2. role' \in Roles /\ entity' \in Entities
      /\ room' \in [fresh : Ages, known : BOOLEAN, built : 0 .. Cap]
  BY <1>1 DEF Made, Typed
<1>3. cache' \in Records
  BY <1>1, FloatStateType DEF Made
<1>4. Empty \in Records
  BY Numbers DEF Empty, Records
<1>5. accepted' \in Records /\ pending' \in Records
  BY <1>1, <1>4, ValueType DEF Made
<1>6. trend' \in [age : Ages, told : 0 .. Cap]
  <2>1. NewTrend \in [age : Ages, told : 0 .. Cap]
        /\ [age |-> 0, told |-> 0] \in [age : Ages, told : 0 .. Cap]
    BY Numbers DEF NewTrend
  <2>2. Told(d) \in Nat
    BY <1>1, Numbers DEF Told
  <2>3. Older(trend.age, d) \in Ages /\ Older(trend.told, Told(d)) \in 0 .. Cap
    BY <1>1, <2>2, OlderIs, OlderNumber DEF Typed
  <2>4. Elapsed(d) \in [age : Ages, told : 0 .. Cap]
    BY <2>1, <2>3 DEF Elapsed
  <2>5. NextTrend(u, Elapsed(d)) \in [age : Ages, told : 0 .. Cap]
    BY <2>1, <2>4 DEF NextTrend
  <2> QED
    BY <2>5 DEF Made, Typed
<1>7. dog' \in [heartbeat : 0 .. Cap, since : Ages, faulted : BOOLEAN,
                state : {"ok", "stale"}]
  <2>1. Older(dog.heartbeat, d) \in 0 .. Cap /\ Older(dog.since, d) \in Ages
    BY <1>1, OlderIs, OlderNumber DEF Typed
  <2>2. Watch(u.val # None, d) \in [heartbeat : 0 .. Cap, since : Ages,
                                    faulted : BOOLEAN, state : {"ok", "stale"}]
    BY <2>1, Numbers DEF Watch, Typed
  <2> QED
    BY <2>2 DEF Made, Typed
<1>8. seen' \in [used : Levels \cup {None}, read : Levels \cup {None},
                 frac : {"none", "part", "full"}, report : Ages,
                 jumped : BOOLEAN, straight : BOOLEAN,
                 streak : 0 .. Recovery, run : 0 .. Confirm,
                 near : [Levels -> 0 .. Confirm \cup {None}]]
  <2>1. u.val \in Levels \cup {None} /\ r.val \in Levels \cup {None}
        /\ u.report \in Ages
    BY <1>1 DEF Records
  <2>2. Fraction(u, e) \in {"none", "part", "full"}
    BY DEF Fraction
  <2>3. /\ (role # "humidity" /\ Accepts(r, a, p) /\ Jumped(a, r.val)) \in BOOLEAN
        /\ (steps /\ u.val # None /\ Samples(Elapsed(d))
              => Elapsed(d).age = Elapsed(d).told) \in BOOLEAN
    OBVIOUS
  <2>4. /\ (IF u.val = None \/ seen.used = None THEN 0
            ELSE IF seen.streak + d < Recovery THEN seen.streak + d
                 ELSE Recovery) \in 0 .. Recovery
        /\ (IF r.val = None \/ r.val # seen.read THEN 0
            ELSE IF seen.run + d < Confirm THEN seen.run + d
                 ELSE Confirm) \in 0 .. Confirm
    BY <1>1, Numbers DEF Typed
  <2>5. ASSUME NEW v \in Levels
        PROVE  (IF r.val = None \/ r.val \in Absurd \/ ~Near(r.val, v) THEN None
                ELSE IF seen.near[v] = None THEN 0
                ELSE IF seen.near[v] + d < Confirm THEN seen.near[v] + d
                ELSE Confirm) \in 0 .. Confirm \cup {None}
    BY <1>1, Numbers DEF Typed
  <2>6. [v \in Levels |->
           IF r.val = None \/ r.val \in Absurd \/ ~Near(r.val, v) THEN None
           ELSE IF seen.near[v] = None THEN 0
           ELSE IF seen.near[v] + d < Confirm THEN seen.near[v] + d ELSE Confirm]
        \in [Levels -> 0 .. Confirm \cup {None}]
    BY <2>5
  <2>7. seen' = Seen(d, r, u, p, a, e, steps)
    BY DEF Made
  <2> QED
    BY <2>1, <2>2, <2>3, <2>4, <2>6, <2>7, Zenon DEF Seen
<1> QED
  BY <1>2, <1>3, <1>5, <1>6, <1>7, <1>8 DEF Typed

----------------------------------------------------------------------------
(* The invariant over one cycle, conjunct by conjunct.                     *)

\* What every one of the following proofs knows of the cycle.
LEMMA Known ==
    ASSUME IInv,
           NEW d, NEW e, NEW c, NEW a, NEW p, NEW r, NEW u, NEW steps,
           Made(d, e, c, a, p, r, u, steps)
    PROVE  /\ Typed /\ Typed' /\ d \in Nat /\ role' = role
           /\ r \in Records /\ a \in Records /\ p \in Records /\ u \in Records
           /\ a.val = accepted.val /\ p.val = pending.val
           /\ p.age = Older(pending.age, d)
           /\ r.val \in Levels \cup {None} /\ p.val \in Levels \cup {None}
           /\ a.val \in Levels \cup {None}
           /\ p.val # None => /\ pending.age \in 0 .. Cap /\ p.age \in 0 .. Cap
                              /\ p.age = IF pending.age + d < Cap
                                         THEN pending.age + d ELSE Cap
<1>1. Typed /\ Typed'
  BY CycleTyped DEF IInv
<1>2. /\ d \in Nat /\ role' = role
      /\ r \in Records /\ a \in Records /\ p \in Records /\ u \in Records
      /\ a.val = accepted.val /\ p.val = pending.val
      /\ p.age = Older(pending.age, d)
  BY DEF Made
<1>3. /\ r.val \in Levels \cup {None} /\ p.val \in Levels \cup {None}
      /\ a.val \in Levels \cup {None}
  BY <1>2 DEF Records
<1>4. pending.age \in Ages /\ (pending.val # None => pending.age # None)
  BY <1>1 DEF Typed, Records
<1> QED
  BY <1>1, <1>2, <1>3, <1>4, OlderIs

\* A candidate that goes on was near to this reading.
LEMMA CandidateKept ==
    ASSUME IInv,
           NEW d, NEW e, NEW c, NEW a, NEW p, NEW r, NEW u, NEW steps,
           Made(d, e, c, a, p, r, u, steps)
    PROVE  CandidateSeen'
<1> SUFFICES ASSUME role' # "humidity", pending'.val # None
             PROVE  /\ seen'.near[pending'.val] # None
                    /\ \/ seen'.near[pending'.val] >= pending'.age
                       \/ seen'.near[pending'.val] >= Confirm
  BY DEF CandidateSeen
<1>1. pending' = NextPending(r, a, p) /\ role # "humidity"
  BY Known DEF Made
<1>2. r.val # None /\ r.val \notin Absurd /\ ~Accepts(r, a, p)
  BY <1>1 DEF NextPending, Empty
<1>3. r.val \in Levels
  BY <1>2, Known
<1>4. CASE p.val # None /\ Near(r.val, p.val)
  <2>1. pending' = p /\ p.val \in Levels
    BY <1>1, <1>2, <1>4, Known DEF NextPending
  <2>2. /\ seen.near[p.val] # None
        /\ seen.near[p.val] >= pending.age \/ seen.near[p.val] >= Confirm
    BY <1>1, <1>4, Known DEF IInv, CandidateSeen
  <2>3. seen'.near[p.val] = IF seen.near[p.val] + d < Confirm
                            THEN seen.near[p.val] + d ELSE Confirm
    BY <1>2, <1>4, <2>1, <2>2, Known, WhatSeenSays
  <2>4. seen.near[p.val] \in 0 .. Confirm
    BY <2>1, <2>2, Known DEF Typed
  <2>5. p.age \in 0 .. Cap /\ pending.age \in 0 .. Cap /\ p.age <= pending.age + d
    BY <1>4, Known, Numbers
  <2> QED
    BY <2>1, <2>2, <2>3, <2>4, <2>5, Known, Numbers
<1>5. CASE ~(p.val # None /\ Near(r.val, p.val))
  <2>1. pending' = [r EXCEPT !.age = 0]
    BY <1>1, <1>2, <1>5 DEF NextPending
  <2>2. pending'.val = r.val /\ pending'.age = 0
    BY <2>1, Known DEF Records
  <2>3. Near(r.val, r.val)
    BY <1>3, NearAgain
  <2>4. seen'.near[r.val] # None /\ seen'.near[r.val] \in 0 .. Confirm \cup {None}
    <3>1. seen'.near[r.val] = IF seen.near[r.val] = None THEN 0
                              ELSE IF seen.near[r.val] + d < Confirm
                                   THEN seen.near[r.val] + d ELSE Confirm
      BY <1>2, <1>3, <2>3, Known, WhatSeenSays
    <3>2. seen.near[r.val] \in 0 .. Confirm \cup {None}
      BY <1>3, Known DEF Typed
    <3> QED
      BY <3>1, <3>2, Known, Numbers
  <2> QED
    BY <2>2, <2>4, Numbers
<1> QED
  BY <1>4, <1>5

\* A reading that is not taken is near to the candidate that waits for it.
LEMMA ReadOrWaitingKept ==
    ASSUME IInv,
           NEW d, NEW e, NEW c, NEW a, NEW p, NEW r, NEW u, NEW steps,
           Made(d, e, c, a, p, r, u, steps)
    PROVE  ReadOrWaiting'
<1> SUFFICES ASSUME role' # "humidity", seen'.read # None,
                    seen'.read \notin Absurd
             PROVE  \/ seen'.used = seen'.read /\ accepted'.val = seen'.read
                    \/ /\ pending'.val # None /\ Near(seen'.read, pending'.val)
                       /\ pending'.age >= seen'.run /\ seen'.run < Confirm
  BY DEF ReadOrWaiting
<1>1. /\ pending' = NextPending(r, a, p) /\ role # "humidity"
      /\ accepted' = IF Accepts(r, a, p) THEN [r EXCEPT !.age = 0] ELSE a
      /\ u = Value(r, a, p)
  BY Known DEF Made
<1>2. /\ seen'.read = r.val /\ seen'.used = u.val
      /\ r.val # None /\ r.val \notin Absurd /\ r.val \in Levels
  BY Known, Typed, WhatSeenSays DEF IInv
<1>3. CASE Accepts(r, a, p)
  BY <1>1, <1>2, <1>3, Known DEF Value, Records
<1>4. CASE ~Accepts(r, a, p)
  <2>1. /\ a.val # None /\ ~Near(r.val, a.val)
        /\ p.val # None /\ Near(r.val, p.val) => ~(p.age >= Confirm)
    BY <1>2, <1>4 DEF Accepts, Jumped, Confirmed
  <2>2. seen.read = r.val =>
          /\ pending.val # None /\ Near(r.val, pending.val)
          /\ pending.age >= seen.run /\ seen.run < Confirm
    BY <1>1, <1>2, <2>1, Known, NearAgain DEF IInv, ReadOrWaiting
  <2>3. seen'.run = IF r.val # seen.read THEN 0
                    ELSE IF seen.run + d < Confirm THEN seen.run + d ELSE Confirm
    BY <1>2, Known, WhatSeenSays DEF IInv
  <2>4. seen.run \in 0 .. Confirm
    BY Known DEF Typed
  <2>5. CASE p.val # None /\ Near(r.val, p.val)
    <3>1. pending' = p
      BY <1>1, <1>2, <1>4, <2>5 DEF NextPending
    <3>2. p.age \in 0 .. Cap /\ p.age < Confirm
          /\ pending.age \in 0 .. Cap /\ p.age = pending.age + d
      BY <2>1, <2>5, Known, Numbers
    <3>3. p.age >= seen'.run /\ seen'.run < Confirm
      BY <2>2, <2>3, <2>4, <3>2, Known, Numbers
    <3> QED
      BY <1>2, <2>5, <3>1, <3>3
  <2>6. CASE ~(p.val # None /\ Near(r.val, p.val))
    <3>1. pending' = [r EXCEPT !.age = 0]
      BY <1>1, <1>2, <1>4, <2>6 DEF NextPending
    <3>2. pending'.val = r.val /\ pending'.age = 0
      BY <3>1, Known DEF Records
    <3>3. seen'.run = 0
      BY <2>2, <2>3, <2>6, Known
    <3>4. Near(r.val, r.val)
      BY <1>2, NearAgain
    <3> QED
      BY <1>2, <3>2, <3>3, <3>4, Numbers
  <2> QED
    BY <2>5, <2>6
<1> QED
  BY <1>3, <1>4

\* So a reading that has lasted for the time of confirmation is in use.
LEMMA RealChange == Typed /\ ReadOrWaiting /\ NoRun => RealChangeIsAdopted
<1> SUFFICES ASSUME Typed, ReadOrWaiting, NoRun, role # "humidity", seen.run >= Confirm,
                    seen.read \notin Absurd
             PROVE  seen.used = seen.read
  BY DEF RealChangeIsAdopted
<1>1. seen.run \in 0 .. Confirm /\ Confirm > 0 /\ Confirm \in Nat
  BY Numbers DEF Typed
<1>2. seen.read # None
  BY <1>1 DEF NoRun
<1> QED
  BY <1>1, <1>2 DEF ReadOrWaiting

LEMMA NoRunKept ==
    ASSUME IInv,
           NEW d, NEW e, NEW c, NEW a, NEW p, NEW r, NEW u, NEW steps,
           Made(d, e, c, a, p, r, u, steps)
    PROVE  NoRun'
  BY WhatSeenSays DEF IInv, NoRun

\* A jump is taken only when its candidate has waited for the time of
\* confirmation, and the level of the candidate was read all along.
LEMMA JumpKept ==
    ASSUME IInv,
           NEW d, NEW e, NEW c, NEW a, NEW p, NEW r, NEW u, NEW steps,
           Made(d, e, c, a, p, r, u, steps)
    PROVE  JumpNeedsTime'
<1> SUFFICES ASSUME seen'.jumped
             PROVE  \E w \in Levels : /\ Near(w, seen'.read)
                                      /\ seen'.near[w] # None
                                      /\ seen'.near[w] >= Confirm
  BY DEF JumpNeedsTime
<1>1. role # "humidity" /\ Accepts(r, a, p) /\ Jumped(a, r.val) /\ seen'.read = r.val
  BY WhatSeenSays DEF IInv
<1>2. /\ r.val # None /\ r.val \notin Absurd
      /\ p.val # None /\ Near(r.val, p.val) /\ p.age >= Confirm
  BY <1>1 DEF Accepts, Confirmed
<1>3. r.val \in Levels /\ p.val \in Levels
  BY <1>2, Known
<1>4. Near(p.val, r.val)
  BY <1>2, <1>3, NearAgain
<1>5. /\ seen.near[p.val] # None
      /\ seen.near[p.val] >= pending.age \/ seen.near[p.val] >= Confirm
  BY <1>1, <1>2, Known DEF IInv, CandidateSeen
<1>6. seen'.near[p.val] = IF seen.near[p.val] + d < Confirm
                          THEN seen.near[p.val] + d ELSE Confirm
  BY <1>2, <1>3, <1>5, WhatSeenSays DEF IInv
<1>a. seen.near[p.val] \in 0 .. Confirm
  <2>1. seen.near[p.val] \in 0 .. Confirm \cup {None}
    BY <1>3, Known DEF Typed
  <2> QED
    BY <1>5, <2>1
<1>b. /\ d \in Nat /\ pending.age \in 0 .. Cap /\ p.age \in 0 .. Cap
      /\ p.age = IF pending.age + d < Cap THEN pending.age + d ELSE Cap
  BY <1>2, Known
<1>7. /\ seen.near[p.val] \in 0 .. Confirm /\ d \in Nat
      /\ pending.age \in 0 .. Cap /\ p.age <= pending.age + d /\ p.age \in 0 .. Cap
  BY <1>a, <1>b, Numbers
<1>x. seen.near[p.val] + d >= Confirm
  <2>1. Confirm \in Nat /\ pending.age + d >= Confirm
    BY <1>2, <1>7, Numbers
  <2> QED
    BY <1>5, <1>7, <2>1
<1>8. seen'.near[p.val] = Confirm
  BY <1>6, <1>7, <1>x, Numbers
<1>9. seen'.near[p.val] # None /\ seen'.near[p.val] >= Confirm
  BY <1>8, Numbers
<1> QED
  BY <1>1, <1>3, <1>4, <1>9

\* A humidity in use comes from the entity with its report's age, or from the
\* cache of an entity that has vanished.
LEMMA PadKept ==
    ASSUME IInv,
           NEW d, NEW e, NEW c, NEW a, NEW p, NEW r, NEW u, NEW steps,
           Made(d, e, c, a, p, r, u, steps)
    PROVE  PadIsHonest'
<1> SUFFICES ASSUME role' = "humidity", seen'.used # None, seen'.report > Fresh
             PROVE  seen'.frac # "none"
  BY DEF PadIsHonest
<1>1. /\ role = "humidity" /\ u.val # None /\ u.report > Fresh
      /\ seen'.frac = Fraction(u, e)
  BY Known, WhatSeenSays DEF IInv
<1>2. u = Value(r, a, p) /\ r = FloatState(e, c) /\ e \in Entities
  BY DEF Made
<1>3. u = r
  BY <1>1, <1>2 DEF Value, Empty
<1>4. e.val # Gone => r.report = e.age
  BY <1>1, <1>2, <1>3 DEF FloatState, Empty
<1>5. e.age \in 0 .. Cap
  BY <1>2 DEF Entities
<1> QED
  BY <1>1, <1>3, <1>4, <1>5, Numbers DEF Fraction

\* A gap beyond the longest step costs the trend its reference.
LEMMA TrendKept ==
    ASSUME IInv,
           NEW d, NEW e, NEW c, NEW a, NEW p, NEW r, NEW u, NEW steps,
           Made(d, e, c, a, p, r, u, steps)
    PROVE  Measured' /\ TrendIsStraight'
<1>1. Elapsed(d).age # None => Elapsed(d).age = Elapsed(d).told
  <2>1. CASE d > MaxDt \/ trend.age = None
    BY <2>1 DEF Elapsed, NewTrend
  <2>2. CASE ~(d > MaxDt \/ trend.age = None)
    <3>1. Told(d) = d
      BY <2>2 DEF Told
    <3>2. trend.age = trend.told
      BY <2>2 DEF IInv, Measured
    <3> QED
      BY <2>2, <3>1, <3>2 DEF Elapsed
  <2> QED
    BY <2>1, <2>2
<1>2. trend' = trend \/ trend' = NextTrend(u, Elapsed(d))
  BY DEF Made
<1>3. Measured'
  BY <1>1, <1>2 DEF IInv, Measured, NextTrend, NewTrend
<1>4. TrendIsStraight'
  BY <1>1, WhatSeenSays DEF IInv, TrendIsStraight, Samples
<1> QED
  BY <1>3, <1>4

\* The watchdog counts fresh data only as long as the data has come, and a
\* fault goes only with the recovery time counted.
LEMMA WatchKept ==
    ASSUME IInv,
           NEW d, NEW e, NEW c, NEW a, NEW p, NEW r, NEW u, NEW steps,
           Made(d, e, c, a, p, r, u, steps)
    PROVE  /\ Watched'
           /\ dog'.state = "ok" => seen'.used # None
           /\ dog.faulted /\ ~dog'.faulted /\ dog'.state = "ok"
                => seen'.streak >= Recovery
<1>1. /\ d \in Nat /\ role' = role /\ seen'.used = u.val
      /\ seen.streak \in 0 .. Recovery /\ dog.since \in Ages
      /\ seen'.streak \in 0 .. Recovery
      /\ seen'.streak = IF u.val = None \/ seen.used = None THEN 0
                        ELSE IF seen.streak + d < Recovery
                             THEN seen.streak + d ELSE Recovery
  BY Known, WhatSeenSays DEF Typed, IInv
<1>2. CASE role # "room"
  <2>1. dog' = dog /\ dog.state = "stale" /\ dog.since = None
    BY <1>2 DEF Made, IInv, Watched
  <2> QED
    BY <1>1, <1>2, <2>1 DEF Watched
<1>3. CASE role = "room"
  <2>1. dog' = Watch(u.val # None, d)
    BY <1>3 DEF Made
  <2>2. dog'.since = IF u.val = None THEN None
                     ELSE IF dog.since = None THEN 0 ELSE Older(dog.since, d)
    BY <2>1 DEF Watch
  <2>3. /\ dog'.state = "ok" => dog'.since # None
        /\ dog.faulted /\ ~dog'.faulted /\ dog'.state = "ok"
             => dog'.since >= Recovery
    BY <2>1, Zenon DEF Watch
  <2>4. dog'.since # None => u.val # None
    BY <2>2
  <2>5. dog.since # None => /\ seen.used # None
                            /\ seen.streak >= dog.since \/ seen.streak >= Recovery
    BY DEF IInv, Watched
  <2>6. dog'.since # None =>
          seen'.streak >= dog'.since \/ seen'.streak >= Recovery
    <3>1. CASE dog.since = None
      BY <1>1, <2>2, <3>1, Numbers
    <3>2. CASE dog.since # None
      <4>1. /\ dog.since \in 0 .. Cap /\ Older(dog.since, d) \in 0 .. Cap
            /\ Older(dog.since, d) <= dog.since + d
        <5>1. /\ dog.since \in 0 .. Cap /\ Older(dog.since, d) \in 0 .. Cap
              /\ Older(dog.since, d) = IF dog.since + d < Cap
                                       THEN dog.since + d ELSE Cap
          BY <1>1, <3>2, OlderIs
        <5>2. Cap \in Nat /\ d \in Nat /\ dog.since \in Nat
          BY <1>1, <5>1, Numbers
        <5> QED
          BY <5>1, <5>2
      <4>2. CASE dog'.since = None
        BY <4>2
      <4>3. CASE dog'.since # None
        <5>1. /\ u.val # None /\ seen.used # None
              /\ dog'.since = Older(dog.since, d)
          BY <2>2, <2>5, <3>2, <4>3
        <5>2. seen'.streak = IF seen.streak + d < Recovery
                             THEN seen.streak + d ELSE Recovery
          BY <1>1, <5>1
        <5>3. seen.streak >= dog.since \/ seen.streak >= Recovery
          BY <2>5, <3>2
        <5>4. Recovery \in Nat /\ Cap \in Nat
          BY Numbers
        <5> QED
          BY <1>1, <4>1, <5>1, <5>2, <5>3, <5>4
      <4> QED
        BY <4>2, <4>3
    <3> QED
      BY <3>1, <3>2
  <2>7. dog'.since # None => dog'.since \in 0 .. Cap
    BY Known DEF Typed, Ages
  <2>8. Watched'
    BY <1>1, <1>3, <2>3, <2>4, <2>6 DEF Watched
  <2>9. dog'.since # None /\ dog'.since >= Recovery => seen'.streak >= Recovery
    BY <1>1, <2>6, <2>7, Numbers
  <2> QED
    BY <1>1, <2>3, <2>4, <2>8, <2>9
<1> QED
  BY <1>2, <1>3

----------------------------------------------------------------------------
(* The invariant over every step, and the theorems.                        *)

\* A coordinator that has just been built knows nothing it could get wrong.
Anew ==
    /\ role \in Roles /\ entity \in Entities
    /\ cache = Empty /\ accepted = Empty /\ pending = Empty
    /\ room = NewRoom /\ trend = NewTrend /\ dog = NewDog
    /\ seen = NoCycle

LEMMA AnewInv == Anew => IInv
<1> SUFFICES ASSUME Anew PROVE IInv
  OBVIOUS
<1>1. Empty \in Records /\ Empty.val = None
  BY Numbers DEF Empty, Records
<1>2. /\ NewRoom \in [fresh : Ages, known : BOOLEAN, built : 0 .. Cap]
      /\ NewTrend \in [age : Ages, told : 0 .. Cap] /\ NewTrend.age = None
      /\ NewDog \in [heartbeat : 0 .. Cap, since : Ages, faulted : BOOLEAN,
                     state : {"ok", "stale"}]
      /\ NewDog.state = "stale" /\ NewDog.since = None
  BY Numbers DEF NewRoom, NewTrend, NewDog
<1>3. /\ NoCycle \in [used : Levels \cup {None}, read : Levels \cup {None},
                      frac : {"none", "part", "full"}, report : Ages,
                      jumped : BOOLEAN, straight : BOOLEAN,
                      streak : 0 .. Recovery, run : 0 .. Confirm,
                      near : [Levels -> 0 .. Confirm \cup {None}]]
      /\ NoCycle.used = None /\ NoCycle.read = None /\ NoCycle.run = 0
      /\ NoCycle.jumped = FALSE /\ NoCycle.straight = TRUE
  BY Numbers DEF NoCycle
<1>4. Typed
  BY <1>1, <1>2, <1>3 DEF Anew, Typed
<1>5. CandidateSeen /\ ReadOrWaiting /\ NoRun /\ Measured /\ Watched
  BY <1>1, <1>2, <1>3
     DEF Anew, CandidateSeen, ReadOrWaiting, NoRun, Measured, Watched
<1>6. JumpNeedsTime /\ PadIsHonest /\ TrendIsStraight
  BY <1>3 DEF Anew, JumpNeedsTime, PadIsHonest, TrendIsStraight
<1> QED
  BY <1>4, <1>5, <1>6, RealChange DEF IInv

LEMMA InitInv == Init => IInv
<1>1. [val |-> Gone, age |-> 0] \in Entities
  BY Numbers DEF Entities
<1>2. Init => Anew
  BY <1>1 DEF Init, Anew
<1> QED
  BY <1>2, AnewInv

\* A step that changes the entity alone keeps what is known of its readings.
LEMMA OnlyTheEntity ==
    ASSUME IInv, entity' \in Entities,
           UNCHANGED <<role, cache, accepted, pending, room, trend, dog, seen>>
    PROVE  IInv'
<1>1. Typed'
  BY DEF IInv, Typed
<1>2. /\ CandidateSeen' /\ ReadOrWaiting' /\ NoRun' /\ Measured' /\ Watched'
  BY DEF IInv, CandidateSeen, ReadOrWaiting, NoRun, Measured, Watched
<1>3. JumpNeedsTime' /\ PadIsHonest' /\ TrendIsStraight' /\ RealChangeIsAdopted'
  BY DEF IInv, JumpNeedsTime, PadIsHonest, TrendIsStraight, RealChangeIsAdopted
<1> QED
  BY <1>1, <1>2, <1>3 DEF IInv

LEMMA StepInv == IInv /\ [Next]_vars => IInv'
<1> SUFFICES ASSUME IInv, [Next]_vars PROVE IInv'
  OBVIOUS
<1>1. CASE Report
  <2>1. entity' \in Entities
    BY <1>1, Numbers DEF Report, Entities
  <2>2. UNCHANGED <<role, cache, accepted, pending, room, trend, dog, seen>>
    BY <1>1 DEF Report
  <2> QED
    BY <2>1, <2>2, OnlyTheEntity
<1>2. CASE Vanish
  <2>1. entity' \in Entities
    BY <1>2, Numbers DEF Vanish, Entities
  <2>2. UNCHANGED <<role, cache, accepted, pending, room, trend, dog, seen>>
    BY <1>2 DEF Vanish
  <2> QED
    BY <2>1, <2>2, OnlyTheEntity
<1>3. CASE \E d \in Gaps : Cycle(d)
  <2>1. PICK d \in Gaps : Cycle(d)
    BY <1>3
  <2>2. PICK e, c, a, p, r, u, steps : Made(d, e, c, a, p, r, u, steps)
    BY <2>1, CycleParts DEF IInv
  <2> QED
    <3>1. Typed' /\ CandidateSeen' /\ ReadOrWaiting' /\ NoRun'
      BY <2>2, Known, CandidateKept, ReadOrWaitingKept, NoRunKept
    <3>2. Measured' /\ Watched' /\ JumpNeedsTime' /\ PadIsHonest' /\ TrendIsStraight'
      BY <2>2, JumpKept, PadKept, TrendKept, WatchKept
    <3>3. RealChangeIsAdopted'
      BY <3>1, RealChange, PTL
    <3> QED
      BY <3>1, <3>2, <3>3 DEF IInv
<1>4. CASE Rebuild
  <2>1. /\ cache' = Empty /\ accepted' = Empty /\ pending' = Empty
        /\ room' = NewRoom /\ trend' = NewTrend /\ dog' = NewDog
        /\ seen' = NoCycle /\ role' \in Roles /\ entity' \in Entities
    BY <1>4 DEF Rebuild, IInv, Typed
  <2>2. Anew'
    BY <2>1 DEF Anew
  <2> QED
    BY <2>2, AnewInv, PTL
<1>5. CASE UNCHANGED vars
  <2>1. entity' \in Entities
    BY <1>5 DEF vars, IInv, Typed
  <2>2. UNCHANGED <<role, cache, accepted, pending, room, trend, dog, seen>>
    BY <1>5 DEF vars
  <2> QED
    BY <2>1, <2>2, OnlyTheEntity
<1> QED
  BY <1>1, <1>2, <1>3, <1>4, <1>5 DEF Next

\* The inductive invariant of the specification.
THEOREM ReadingsInvariant == Spec => []IInv
<1> QED
  BY InitInv, StepInv, PTL DEF Spec

\* Every record keeps its shape and its bounds, whatever the entity does.
THEOREM ReadingsTyped == Spec => []TypeOK
<1>1. IInv => TypeOK
  BY DEF IInv, Typed, TypeOK, Entities, Records, Ages
<1> QED
  BY <1>1, ReadingsInvariant, PTL

\* A jump is taken over only after the time of confirmation
\* (read_room_temperature, read_water_temperature).
THEOREM JumpsAreConfirmed == Spec => []JumpNeedsTime
<1>1. IInv => JumpNeedsTime
  BY DEF IInv
<1> QED
  BY <1>1, ReadingsInvariant, PTL

\* An old humidity never counts without its pad, cached or not (read_humidity).
THEOREM OldHumidityIsPadded == Spec => []PadIsHonest
<1>1. IInv => PadIsHonest
  BY DEF IInv
<1> QED
  BY <1>1, ReadingsInvariant, PTL

\* The trend divides by the time that passed (TrendEstimator,
\* invalidate_trends).
THEOREM TrendsAreStraight == Spec => []TrendIsStraight
<1>1. IInv => TrendIsStraight
  BY DEF IInv
<1> QED
  BY <1>1, ReadingsInvariant, PTL

\* The gate locks no lasting change out, however small the time of
\* confirmation is (read_room_temperature, read_water_temperature).
THEOREM RealChangesGetThrough == Spec => []RealChangeIsAdopted
<1>1. IInv => RealChangeIsAdopted
  BY DEF IInv
<1> QED
  BY <1>1, ReadingsInvariant, PTL

\* The watchdog reports "ok" only on data of its own cycle, and clears a fault
\* only after the recovery time (_watchdog_state).
THEOREM FaultsClearSlowly == Spec => FaultClearsSlowly
<1> DEFINE A == /\ dog'.state = "ok" => seen'.used # None
                /\ dog.faulted /\ ~dog'.faulted /\ dog'.state = "ok"
                     => seen'.streak >= Recovery
<1>1. IInv /\ [Next]_vars => [A]_vars
  <2> SUFFICES ASSUME IInv, Next PROVE A
    OBVIOUS
  <2>1. CASE Report \/ Vanish
    BY <2>1 DEF Report, Vanish, IInv, Watched
  <2>2. CASE \E d \in Gaps : Cycle(d)
    <3>1. PICK d \in Gaps : Cycle(d)
      BY <2>2
    <3>2. PICK e, c, a, p, r, u, steps : Made(d, e, c, a, p, r, u, steps)
      BY <3>1, CycleParts DEF IInv
    <3> QED
      BY <3>2, WatchKept
  <2>3. CASE Rebuild
    BY <2>3 DEF Rebuild, NewDog
  <2> QED
    BY <2>1, <2>2, <2>3 DEF Next
<1> QED
  BY <1>1, ReadingsInvariant, PTL DEF Spec, FaultClearsSlowly

----------------------------------------------------------------------------
(* The median.                                                             *)

\* A measure in Nat has a smallest value.
LEMMA LeastMeasure ==
    ASSUME NEW S, S # {}, NEW m \in [S -> Nat]
    PROVE  \E x \in S : \A y \in S : m[x] <= m[y]
<1> DEFINE T == {m[x] : x \in S}
<1>1. T \subseteq Nat /\ T # {}
    OBVIOUS
<1>2. PICK t \in T : \A u \in T : ~(<<u, t>> \in OpToRel(<, Nat))
    BY <1>1, NatLessThanWellFounded, WFMin, Zenon
<1>3. ASSUME NEW u \in T
      PROVE  t <= u
    <2>1. u \in Nat /\ t \in Nat
        BY <1>1
    <2>2. ~(u < t)
        <3> SUFFICES ASSUME u < t PROVE <<u, t>> \in OpToRel(<, Nat)
            BY <1>2
        <3> QED BY <2>1 DEF OpToRel
    <2> QED BY <2>1, <2>2
<1> QED
    BY <1>3

\* Among finitely many values there is a greatest.
LEMMA GreatestOf ==
    ASSUME NEW L, L # {}, IsFiniteSet(L), NEW f, \A x \in L : f[x] \in Int
    PROVE  \E x \in L : \A y \in L : f[y] <= f[x]
<1> DEFINE Above(x) == {y \in L : f[x] < f[y]}
           m == [x \in L |-> Cardinality(Above(x))]
<1>1. \A x \in L : IsFiniteSet(Above(x)) /\ Cardinality(Above(x)) \in Nat
    BY FS_Subset, FS_CardinalityType
<1>2. m \in [L -> Nat]
    BY <1>1
<1>3. PICK x \in L : \A y \in L : m[x] <= m[y]
    <2> HIDE DEF m
    <2> QED BY <1>2, LeastMeasure
<1>4. \A y \in L : f[y] <= f[x]
    <2> SUFFICES ASSUME NEW y \in L, f[x] < f[y]
                 PROVE  FALSE
        OBVIOUS
    <2>1. Above(y) \subseteq Above(x)
        OBVIOUS
    <2>2. y \in Above(x) /\ y \notin Above(y)
        OBVIOUS
    <2> HIDE DEF Above
    <2>3. Above(y) \in SUBSET Above(x) /\ Above(y) # Above(x)
        BY <2>1, <2>2
    <2>4. Cardinality(Above(y)) <= Cardinality(Above(x))
          /\ Cardinality(Above(x)) # Cardinality(Above(y))
        BY <1>1, <2>3, FS_Subset
    <2>5. m[x] = Cardinality(Above(x)) /\ m[y] = Cardinality(Above(y))
        OBVIOUS
    <2>6. m[x] <= m[y]
        BY <1>3
    <2> QED
        BY <1>1, <2>4, <2>5, <2>6
<1> QED
    BY <1>4

\* Every rank of finitely many values is taken by one of them.
LEMMA RankExists ==
    ASSUME NEW D, IsFiniteSet(D), NEW f \in [D -> Int],
           NEW k \in 1 .. Cardinality(D)
    PROVE  \E x \in D : IsRanked(f, k, f[x])
<1> DEFINE UpTo(x) == {i \in D : f[i] <= f[x]}
           Below(x) == {i \in D : f[i] < f[x]}
           C == {x \in D : k <= Cardinality(UpTo(x))}
           m == [x \in C |-> Cardinality(UpTo(x))]
<1>1. \A x \in D : /\ IsFiniteSet(UpTo(x)) /\ Cardinality(UpTo(x)) \in Nat
                   /\ IsFiniteSet(Below(x)) /\ Cardinality(Below(x)) \in Nat
    BY FS_Subset, FS_CardinalityType
<1>2. C # {}
    <2>1. D # {} /\ Cardinality(D) \in Nat
        BY FS_EmptySet, FS_CardinalityType
    <2>2. PICK x \in D : \A y \in D : f[y] <= f[x]
        BY <2>1, GreatestOf
    <2>3. UpTo(x) = D
        BY <2>2
    <2> QED
        BY <2>3
<1>3. m \in [C -> Nat]
    BY <1>1
<1>4. PICK x \in C : \A y \in C : m[x] <= m[y]
    <2> HIDE DEF m, C
    <2> QED BY <1>2, <1>3, LeastMeasure
<1>5. Cardinality(Below(x)) < k
    <2> SUFFICES ASSUME k <= Cardinality(Below(x))
                 PROVE  FALSE
        <3>1. x \in D /\ k \in Nat
            OBVIOUS
        <3>2. Cardinality(Below(x)) \in Nat
            BY <1>1, <3>1, Zenon
        <3> HIDE DEF Below
        <3> QED BY <3>1, <3>2
    <2>1. Below(x) # {}
        <3> HIDE DEF Below
        <3> QED BY FS_EmptySet
    <2>2. \A y \in Below(x) : y \in D /\ f[y] \in Int
        OBVIOUS
    <2>3. PICK y \in Below(x) : \A z \in Below(x) : f[z] <= f[y]
        <3> HIDE DEF Below
        <3> QED BY <1>1, <2>1, <2>2, GreatestOf
    <2>4. UpTo(y) = Below(x)
        BY <2>3
    <2>5. Below(x) \in SUBSET UpTo(x) /\ x \in UpTo(x) /\ x \notin Below(x)
        OBVIOUS
    <2>6. y \in C
        BY <2>2, <2>4
    <2>7. m[x] = Cardinality(UpTo(x)) /\ m[y] = Cardinality(UpTo(y))
        BY <2>6
    <2>8. m[x] <= m[y]
        BY <1>4, <2>6
    <2> HIDE DEF UpTo, Below, m
    <2>9. /\ Cardinality(Below(x)) <= Cardinality(UpTo(x))
          /\ Cardinality(Below(x)) # Cardinality(UpTo(x))
        BY <1>1, <2>5, FS_Subset
    <2> QED
        BY <1>1, <2>4, <2>7, <2>8, <2>9
<1>6. /\ {i \in DOMAIN f : f[i] < f[x]} = Below(x)
      /\ {i \in DOMAIN f : f[i] <= f[x]} = UpTo(x)
    OBVIOUS
<1>7. x \in D /\ k <= Cardinality(UpTo(x))
    OBVIOUS
<1> QED
    BY <1>5, <1>6, <1>7 DEF IsRanked

\* The k-th smallest value is one of the values.
LEMMA RankedIsValue ==
    ASSUME NEW D, IsFiniteSet(D), NEW f \in [D -> Int],
           NEW k \in 1 .. Cardinality(D)
    PROVE  /\ \E x \in D : Ranked(f, k) = f[x]
           /\ IsRanked(f, k, Ranked(f, k))
<1>1. PICK x \in D : IsRanked(f, k, f[x])
    BY RankExists
<1>2. f[x] \in {f[i] : i \in DOMAIN f}
    OBVIOUS
<1>3. /\ Ranked(f, k) \in {f[i] : i \in DOMAIN f}
      /\ IsRanked(f, k, Ranked(f, k))
    BY <1>1, <1>2, Zenon DEF Ranked
<1> QED
    BY <1>3

\* The two ranks whose values the median halves.
LEMMA MiddleRanks ==
    ASSUME NEW n \in Nat, n > 0
    PROVE  (n + 1) \div 2 \in 1 .. n /\ (n + 2) \div 2 \in 1 .. n
    OBVIOUS

\* The median lies between two of the values.
LEMMA MedianBetween ==
    ASSUME NEW D, IsFiniteSet(D), D # {}, NEW f \in [D -> Int]
    PROVE  /\ Median(f) \in Int
           /\ \E i, j \in D : f[i] <= Median(f) /\ Median(f) <= f[j]
<1> DEFINE n == Cardinality(D)
<1>1. n \in Nat /\ n > 0
    BY FS_EmptySet, FS_CardinalityType
<1> HIDE DEF n
<1>2. (n + 1) \div 2 \in 1 .. n /\ (n + 2) \div 2 \in 1 .. n
    BY <1>1, MiddleRanks
<1>3. PICK a \in D : Ranked(f, (n + 1) \div 2) = f[a]
    BY <1>2, RankedIsValue DEF n
<1>4. PICK b \in D : Ranked(f, (n + 2) \div 2) = f[b]
    BY <1>2, RankedIsValue DEF n
<1>5. Median(f) = (f[a] + f[b]) \div 2
    BY <1>3, <1>4 DEF Median, n
<1>6. f[a] \in Int /\ f[b] \in Int
    OBVIOUS
<1>7. \A u, v \in Int : u <= v =>
          u <= (u + v) \div 2 /\ (u + v) \div 2 <= v
    OBVIOUS
<1>8. CASE f[a] <= f[b]
    BY <1>5, <1>6, <1>7, <1>8
<1>9. CASE f[b] <= f[a]
    <2>1. f[a] + f[b] = f[b] + f[a]
        BY <1>6
    <2> QED BY <1>5, <1>6, <1>7, <1>9, <2>1
<1> QED
    BY <1>6, <1>8, <1>9

\* A majority holds the median within its own bounds.
LEMMA MedianMajority ==
    ASSUME NEW D, IsFiniteSet(D), NEW f \in [D -> Int],
           NEW H \in SUBSET D, 2 * Cardinality(H) > Cardinality(D),
           NEW lo \in Int, NEW hi \in Int,
           \A i \in H : lo <= f[i] /\ f[i] <= hi
    PROVE  lo <= Median(f) /\ Median(f) <= hi
<1> DEFINE n == Cardinality(D)
           h == Cardinality(H)
<1>1. n \in Nat /\ h \in Nat /\ IsFiniteSet(H) /\ IsFiniteSet(D \ H)
    BY FS_CardinalityType, FS_Subset
<1>2. Cardinality(D \ H) = n - h
    <2>1. D \ H = D \ (D \cap H) /\ D \cap H = H
        OBVIOUS
    <2> QED BY <2>1, FS_Difference
<1>3. 2 * h > n
    OBVIOUS
<1> HIDE DEF n, h
<1>4. ASSUME NEW k \in 1 .. n, k <= h, n - h < k
      PROVE  /\ Ranked(f, k) \in Int
             /\ lo <= Ranked(f, k) /\ Ranked(f, k) <= hi
    <2>1. PICK x \in D : Ranked(f, k) = f[x]
        BY RankedIsValue DEF n
    <2> DEFINE v == Ranked(f, k)
               Lower == {i \in D : f[i] < v}
               UpTo == {i \in D : f[i] <= v}
    <2>2. v \in Int
        BY <2>1
    <2>3. Cardinality(Lower) < k /\ k <= Cardinality(UpTo)
        BY RankedIsValue DEF n, IsRanked
    <2>4. Cardinality(Lower) \in Nat /\ Cardinality(UpTo) \in Nat
          /\ IsFiniteSet(Lower)
        BY FS_Subset, FS_CardinalityType
    <2>5. lo <= v
        <3> SUFFICES ASSUME v < lo PROVE FALSE
            BY <2>2
        <3>1. UpTo \in SUBSET (D \ H)
            BY <2>2
        <3> HIDE DEF UpTo, v
        <3>2. Cardinality(UpTo) <= n - h
            BY <1>1, <1>2, <3>1, FS_Subset
        <3> QED
            BY <1>1, <1>4, <2>3, <2>4, <3>2
    <2>6. v <= hi
        <3> SUFFICES ASSUME hi < v PROVE FALSE
            BY <2>2
        <3>1. H \in SUBSET Lower
            BY <2>2
        <3> HIDE DEF Lower, v
        <3>2. h <= Cardinality(Lower)
            BY <2>4, <3>1, FS_Subset DEF h
        <3> QED
            BY <1>1, <1>4, <2>3, <2>4, <3>2
    <2> QED
        BY <2>2, <2>5, <2>6
<1>5. n > 0 /\ h <= n
    BY <1>1, <1>3, FS_Subset DEF n, h
<1>6. /\ (n + 1) \div 2 \in 1 .. n /\ (n + 2) \div 2 \in 1 .. n
      /\ (n + 1) \div 2 <= h /\ (n + 2) \div 2 <= h
      /\ n - h < (n + 1) \div 2 /\ n - h < (n + 2) \div 2
    BY <1>1, <1>3, <1>5
<1> DEFINE u == Ranked(f, (n + 1) \div 2)
           w == Ranked(f, (n + 2) \div 2)
<1>7. /\ u \in Int /\ lo <= u /\ u <= hi
      /\ w \in Int /\ lo <= w /\ w <= hi
    BY <1>4, <1>6
<1>8. Median(f) = (u + w) \div 2
    BY DEF Median, n
<1> HIDE DEF u, w
<1> QED
    BY <1>7, <1>8

----------------------------------------------------------------------------
(* The monitor of the probes: types and invariants.                        *)

Baselines == {b \in Seq(Int) : Len(b) <= BaselineMax}
ProbeRecords ==
    [base : Baselines, since : 0 .. Spacing, drifting : 0 .. Streak,
     healthy : 0 .. Streak, drift : BOOLEAN,
     gap : {"unjudged", "near", "far"}, held : 0 .. Persist, far : BOOLEAN]

WindowRecords ==
    [still : 0 .. Settle, age : 0 .. Window - 1,
     samples : [Probes -> Seq(Int)]]

ProbesTyped ==
    /\ state \in [Probes -> ProbeRecords]
    /\ saved \in [Probes -> ProbeRecords]
    /\ \A p \in Probes : ~saved[p].far /\ saved[p].gap = "unjudged"
    /\ group \in WindowRecords
    /\ slipped \subseteq Fragile /\ slipped \subseteq excused
    /\ quiet \in 0 .. Deadline
    /\ settled \subseteq Probes /\ excused \subseteq Probes

\* A window is open only after the settling, and what it has sampled of a
\* probe is what the probe reads now, less a center.
Sampling ==
    /\ group.still < Settle => group.age = 0
    /\ \A p \in Probes :
        /\ group.age = 0 => group.samples[p] = <<>>
        /\ Len(group.samples[p]) <= group.age
        /\ \A i \in DOMAIN group.samples[p] :
            \E c \in Centers :
                group.samples[p][i] = Reading(p, slipped) - c

\* A deviation taken of readings r.
Between(r, x) == \E c, d \in Centers : r - c <= x /\ x <= r - d

\* The baseline of a record is the deviation of its probe.
Own(p, st) == \A i \in DOMAIN st.base : Between(Offset[p], st.base[i])

\* What a probe that never slipped has learned is its own deviation.
Unspoilt ==
    /\ \A p \in settled : Learned(state[p])
    /\ \A p \in Probes \ excused : Own(p, state[p]) /\ Own(p, saved[p])

\* And so is what a probe learned before it slipped.
Kept == \A p \in settled : Own(p, state[p]) /\ Own(p, saved[p])

Unflagged ==
    \A p \in Probes : p \notin excused =>
        /\ ~state[p].drift /\ ~state[p].far /\ state[p].gap # "far"
        /\ ~saved[p].drift

\* A window that still has a reading for every cycle, or has enough of them.
Filling(g, p) ==
    \/ Len(g.samples[p]) >= MinSamples
    \/ (MinSamples - 1) * g.age <= Len(g.samples[p]) * (Window - 1)

\* When a probe that drifts is flagged at the latest, n windows having found
\* it off: the settling or the window under way, and the windows after it.
Due(q, g, n, p) ==
    LET left == (Streak - n) * Window
    IN IF g.still < Settle
       THEN q + Settle - g.still - 1 + left
       ELSE q - g.age + (IF Filling(g, p) THEN left ELSE left + Window)

InTime(st) == ~st.drift => st.drifting < Streak

Timely ==
    /\ \A p \in Probes : InTime(state[p]) /\ InTime(saved[p])
    /\ \A p \in settled \intersect slipped : ~state[p].drift =>
         Due(quiet, group, state[p].drifting, p) <= Deadline

----------------------------------------------------------------------------
(* The centers and what is sampled of a probe.                             *)

\* The constants as the arithmetic of the proofs needs them.
LEMMA ProbeNumbers ==
    ASSUME ProbeAssumption
    PROVE  /\ IsFiniteSet(Probes) /\ Fragile \subseteq Probes
           /\ \A p \in Probes : Offset[p] \in Int
           /\ Fault \in Int /\ Spread \in Nat /\ Drift \in Nat
           /\ \A read \in Readable : read \subseteq Probes
           /\ \A dt \in Steps : dt \in Nat /\ dt > 0
           /\ Settle \in Nat /\ Settle > 0 /\ Window \in Nat /\ Window > 0
           /\ MinSamples \in Nat /\ MinSamples > 0
           /\ MinProbes \in Nat /\ MinProbes > 0
           /\ BaselineMin \in Nat /\ BaselineMin > 0 /\ BaselineMax \in Nat
           /\ BaselineMin <= BaselineMax
           /\ Spacing \in Nat /\ Streak \in Nat /\ Streak > 0
           /\ Persist \in Nat /\ Persist > 0
    BY DEF ProbeAssumption

\* A probe reads a whole number.
LEMMA ReadingInt ==
    ASSUME ProbeAssumption, NEW p \in Probes, NEW bad
    PROVE  Reading(p, bad) \in Int
    BY ProbeNumbers DEF Reading

\* The readings a center is taken of.
LEMMA CenterReadings ==
    ASSUME ProbeAssumption, NEW read \in Readable,
           Cardinality(read) >= MinProbes, NEW bad
    PROVE  /\ IsFiniteSet(read) /\ read # {} /\ read \subseteq Probes
           /\ [p \in read |-> Reading(p, bad)] \in [read -> Int]
<1>1. IsFiniteSet(read) /\ read \subseteq Probes
    BY ProbeNumbers, FS_Subset
<1>2. read # {}
    <2>1. read = {} => Cardinality(read) = 0
        BY <1>1, FS_EmptySet, Zenon
    <2>2. MinProbes \in Nat /\ MinProbes > 0
        BY ProbeNumbers
    <2> QED BY <2>1, <2>2
<1>3. \A p \in read : Reading(p, bad) \in Int
    BY <1>1, ReadingInt
<1> QED
    BY <1>1, <1>2, <1>3

\* A center is a whole number.
LEMMA CentersInt ==
    ASSUME ProbeAssumption
    PROVE  \A c \in Centers : c \in Int
<1> SUFFICES ASSUME NEW read \in Readable, Cardinality(read) >= MinProbes,
                    NEW bad \in SUBSET Fragile
             PROVE  Center(read, bad) \in Int
    BY DEF Centers
<1> DEFINE f == [p \in read |-> Reading(p, bad)]
<1>1. IsFiniteSet(read) /\ read # {} /\ f \in [read -> Int]
    BY CenterReadings
<1> HIDE DEF f
<1>2. Median(f) \in Int
    BY <1>1, MedianBetween
<1> QED
    BY <1>2 DEF f, Center

\* With one probe that may slip, a center is no further from the water than
\* the largest offset.
LEMMA CentersSmall ==
    ASSUME ProbeAssumption, OneFault, SmallOffsets, NEW c \in Centers
    PROVE  -Spread <= c /\ c <= Spread
<1>1. PICK read \in Readable, bad \in SUBSET Fragile :
          Cardinality(read) >= MinProbes /\ c = Center(read, bad)
    BY DEF Centers
<1> DEFINE f == [p \in read |-> Reading(p, bad)]
           H == read \ bad
<1>2. /\ IsFiniteSet(read) /\ read # {} /\ read \subseteq Probes
      /\ f \in [read -> Int]
    BY <1>1, CenterReadings
<1>3. Cardinality(read) \in Nat /\ Cardinality(read) >= 3
    BY <1>1, <1>2, FS_CardinalityType, ProbeNumbers DEF OneFault
<1>4. Cardinality(H) >= Cardinality(read) - 1 /\ Cardinality(H) \in Nat
    <2>1. CASE bad = {}
        BY <1>3, <2>1
    <2>2. CASE bad # {}
        <3>1. PICK b \in bad : bad = {b}
            BY <2>2 DEF OneFault
        <3>2. H = read \ {b}
            BY <3>1
        <3>3. Cardinality(read \ {b}) =
                IF b \in read THEN Cardinality(read) - 1
                              ELSE Cardinality(read)
            BY <1>2, FS_RemoveElement
        <3>4. Cardinality(H) = Cardinality(read \ {b})
            BY <3>2, Zenon
        <3> HIDE DEF H
        <3> QED
            BY <1>3, <3>3, <3>4
    <2> QED BY <2>1, <2>2
<1>5. 2 * Cardinality(H) > Cardinality(read)
    BY <1>3, <1>4
<1>6. ASSUME NEW p \in H
      PROVE  -Spread <= f[p] /\ f[p] <= Spread
    <2>1. f[p] = Offset[p] /\ Offset[p] \in Int /\ Spread \in Nat
        BY <1>2, ProbeNumbers DEF Reading
    <2>2. Apart(Offset[p], 0) <= Spread
        BY <1>2 DEF SmallOffsets
    <2> QED
        BY <2>1, <2>2 DEF Apart
<1>7. H \in SUBSET read /\ -Spread \in Int /\ Spread \in Int
    BY ProbeNumbers
<1> HIDE DEF f, H
<1>8. -Spread <= Median(f) /\ Median(f) <= Spread
    BY <1>2, <1>5, <1>6, <1>7, MedianMajority
<1> QED
    BY <1>1, <1>8 DEF f, Center

\* One probe that may slip leaves the center where it is, for offsets within
\* half of Drift.  SteadyCenter asks for less: the offsets need not be small
\* when they lie close around the middle one.
THEOREM SmallOffsetsSteady ==
    ASSUME ProbeAssumption, OneFault, SmallOffsets, 2 * Spread <= Drift
    PROVE  SteadyCenter
<1> SUFFICES ASSUME NEW c \in Centers, NEW d \in Centers
             PROVE  Apart(c, d) <= Drift
    BY DEF SteadyCenter
<1>1. -Spread <= c /\ c <= Spread /\ -Spread <= d /\ d <= Spread
    BY CentersSmall
<1>2. c \in Int /\ d \in Int /\ Spread \in Nat /\ Drift \in Nat
    BY CentersInt, ProbeNumbers
<1> QED
    BY <1>1, <1>2 DEF Apart

\* The median of a sequence.
LEMMA MedianOfSeq ==
    ASSUME NEW s \in Seq(Int), Len(s) > 0
    PROVE  /\ Median(s) \in Int
           /\ \E i, j \in DOMAIN s : s[i] <= Median(s) /\ Median(s) <= s[j]
<1>1. s \in [1 .. Len(s) -> Int] /\ DOMAIN s = 1 .. Len(s) /\ Len(s) \in Nat
    BY LenProperties
<1>2. IsFiniteSet(1 .. Len(s))
    BY <1>1, FS_Interval
<1>3. 1 \in 1 .. Len(s)
    BY <1>1
<1> QED
    BY <1>1, <1>2, <1>3, MedianBetween

\* A median of deviations of one reading is such a deviation, and so is one of
\* what was between them.
LEMMA MedianOfBetween ==
    ASSUME ProbeAssumption, NEW r \in Int, NEW s \in Seq(Int), Len(s) > 0,
           \A i \in DOMAIN s : Between(r, s[i])
    PROVE  Median(s) \in Int /\ Between(r, Median(s))
<1>1. Median(s) \in Int
    BY MedianOfSeq
<1>2. PICK i \in DOMAIN s, j \in DOMAIN s :
          s[i] <= Median(s) /\ Median(s) <= s[j]
    BY MedianOfSeq
<1>3. s[i] \in Int /\ s[j] \in Int
    BY LenProperties, ElementOfSeq
<1>4. PICK c \in Centers : r - c <= s[i]
    BY DEF Between
<1>5. PICK d \in Centers : s[j] <= r - d
    BY DEF Between
<1>6. c \in Int /\ d \in Int
    BY CentersInt
<1>7. r - c <= Median(s) /\ Median(s) <= r - d
    <2>1. \A u, v, w \in Int : u <= v /\ v <= w => u <= w
        OBVIOUS
    <2>2. r - c \in Int /\ r - d \in Int
        BY <1>6
    <2> QED
        BY <1>1, <1>2, <1>3, <1>4, <1>5, <2>1, <2>2
<1> QED
    BY <1>1, <1>7 DEF Between

\* Deviations of one reading are within Drift of each other.
LEMMA BetweenClose ==
    ASSUME ProbeAssumption, SteadyCenter, NEW r \in Int, NEW x \in Int,
           NEW y \in Int, Between(r, x), Between(r, y)
    PROVE  Apart(x, y) <= Drift
<1>1. PICK a \in Centers, b \in Centers : r - a <= x /\ x <= r - b
    BY Zenon DEF Between
<1>2. PICK c \in Centers, d \in Centers : r - c <= y /\ y <= r - d
    BY DEF Between
<1>3. a \in Int /\ b \in Int /\ c \in Int /\ d \in Int /\ Drift \in Nat
    BY CentersInt, ProbeNumbers
<1>4. Apart(a, d) <= Drift /\ Apart(c, b) <= Drift
    BY DEF SteadyCenter
<1> QED
    BY <1>1, <1>2, <1>3, <1>4 DEF Apart

\* Those of a slipped probe are further than Drift from those before.
LEMMA BetweenFar ==
    ASSUME ProbeAssumption, SteadyCenter, FaultShows, NEW r \in Int,
           NEW s, s = r + Fault, NEW x \in Int, NEW y \in Int,
           Between(s, x), Between(r, y)
    PROVE  Apart(x, y) > Drift
<1>1. PICK a \in Centers, b \in Centers : s - a <= x /\ x <= s - b
    BY Zenon DEF Between
<1>2. PICK c \in Centers, d \in Centers : r - c <= y /\ y <= r - d
    BY Zenon DEF Between
<1>3. /\ a \in Int /\ b \in Int /\ c \in Int /\ d \in Int
      /\ Drift \in Nat /\ Fault \in Int
    BY CentersInt, ProbeNumbers
<1>4. Apart(a, d) <= Drift /\ Apart(c, b) <= Drift
    BY DEF SteadyCenter
<1>5. Apart(Fault, 0) > 2 * Drift
    BY DEF FaultShows
<1> QED
    BY <1>1, <1>2, <1>3, <1>4, <1>5 DEF Apart

----------------------------------------------------------------------------
(* What a cycle does to what is known of one probe.                        *)

SameJudgement(st, after) ==
    /\ after.base = st.base
    /\ after.drifting = st.drifting /\ after.drift = st.drift

FoundOff(st, dev, after) ==
    /\ Off(st, dev)
    /\ after.base = st.base
    /\ after.drifting = Least(st.drifting + 1, Streak)
    /\ after.drift = (st.drift \/ st.drifting + 1 >= Streak)

FoundNear(st, dev, after) ==
    /\ ~Off(st, dev)
    /\ after.drifting = 0 /\ (after.drift => st.drift)
    /\ Learned(st) => Learned(after)
    /\ \A i \in DOMAIN after.base :
        \/ after.base[i] = dev
        \/ \E j \in DOMAIN st.base : after.base[i] = st.base[j]

SameFlow(st, after) == after.far = st.far /\ after.gap = st.gap

\* A sampled deviation is that of what the probe reads now.
LEMMA SampledEffect ==
    ASSUME ProbeAssumption, ProbesTyped, Sampling, NEW read \in Readable,
           NEW p \in Probes, NEW s, s = Sampled(p, read, Center(read, slipped))
    PROVE  /\ s \in Seq(Int)
           /\ \A i \in DOMAIN s :
                \E c \in Centers : s[i] = Reading(p, slipped) - c
           /\ Len(s) \in {Len(group.samples[p]), Len(group.samples[p]) + 1}
           /\ read = Probes /\ Cardinality(Probes) >= MinProbes
                => Len(s) = Len(group.samples[p]) + 1
<1> DEFINE old == group.samples[p]
           c == Center(read, slipped)
           x == Reading(p, slipped) - c
<1>1. old \in Seq(Int)
    BY DEF ProbesTyped, WindowRecords
<1>2. \A i \in DOMAIN old :
          \E d \in Centers : old[i] = Reading(p, slipped) - d
    BY DEF Sampling
<1> HIDE DEF old
<1>3. CASE Cardinality(read) < MinProbes \/ p \notin read
    <2>1. s = old
        BY <1>3 DEF Sampled, old
    <2>2. ~(read = Probes /\ Cardinality(Probes) >= MinProbes)
        <3>1. IsFiniteSet(Probes) /\ MinProbes \in Nat
            BY ProbeNumbers
        <3>2. Cardinality(Probes) \in Nat
            BY <3>1, FS_CardinalityType
        <3> QED BY <1>3, <3>1, <3>2
    <2> QED BY <1>1, <1>2, <2>1, <2>2 DEF old
<1>4. CASE ~(Cardinality(read) < MinProbes \/ p \notin read)
    <2>1. s = Append(old, x)
        BY <1>4 DEF Sampled, old
    <2>2. Cardinality(read) >= MinProbes
        <3>1. IsFiniteSet(read) /\ MinProbes \in Nat
            BY ProbeNumbers, FS_Subset
        <3>2. Cardinality(read) \in Nat
            BY <3>1, FS_CardinalityType
        <3> QED BY <1>4, <3>1, <3>2
    <2>3. c \in Centers
        BY <2>2 DEF ProbesTyped, Centers
    <2>4. x \in Int
        BY <2>3, CentersInt, ReadingInt
    <2> HIDE DEF c, x
    <2>5. /\ s \in Seq(Int) /\ Len(s) = Len(old) + 1
          /\ \A i \in 1 .. Len(old) : s[i] = old[i]
          /\ s[Len(old) + 1] = x
        BY <1>1, <2>1, <2>4, AppendProperties
    <2>6. /\ DOMAIN s = 1 .. Len(old) + 1 /\ DOMAIN old = 1 .. Len(old)
          /\ Len(old) \in Nat
        BY <1>1, <2>5, LenProperties
    <2>7. ASSUME NEW i \in DOMAIN s
          PROVE  \E d \in Centers : s[i] = Reading(p, slipped) - d
        <3>1. CASE i \in DOMAIN old
            BY <1>2, <2>5, <2>6, <3>1
        <3>2. CASE i = Len(old) + 1
            BY <2>3, <2>5, <3>2 DEF x
        <3> QED BY <2>6, <3>1, <3>2
    <2> QED BY <2>5, <2>7 DEF old
<1> QED
    BY <1>3, <1>4

\* The median of a probe's samples is a deviation of what it reads now.
LEMMA SampleMedian ==
    ASSUME ProbeAssumption, NEW p \in Probes, NEW s \in Seq(Int), Len(s) > 0,
           \A i \in DOMAIN s : \E c \in Centers : s[i] = Reading(p, slipped) - c
    PROVE  Median(s) \in Int /\ Between(Reading(p, slipped), Median(s))
<1> DEFINE r == Reading(p, slipped)
<1>1. r \in Int
    BY ReadingInt
<1> HIDE DEF r
<1>2. ASSUME NEW i \in DOMAIN s
      PROVE  Between(r, s[i])
    <2>1. PICK c \in Centers : s[i] = r - c
        BY DEF r
    <2>2. c \in Int
        BY CentersInt
    <2>3. r - c <= s[i] /\ s[i] <= r - c
        BY <1>1, <2>1, <2>2
    <2> QED BY <2>3 DEF Between
<1>3. Median(s) \in Int /\ Between(r, Median(s))
    BY <1>1, <1>2, MedianOfBetween
<1> QED
    BY <1>3 DEF r

\* The verdict on a window keeps what was learned and counts its like.
LEMMA JudgedEffect ==
    ASSUME ProbeAssumption, NEW st \in ProbeRecords, NEW off \in BOOLEAN,
           NEW after, after = JudgedWindow(st, off)
    PROVE  /\ after \in ProbeRecords
           /\ after.base = st.base /\ SameFlow(st, after)
           /\ off => /\ after.drifting = Least(st.drifting + 1, Streak)
                     /\ after.drift = (st.drift \/ st.drifting + 1 >= Streak)
           /\ ~off => after.drifting = 0 /\ (after.drift => st.drift)
<1>1. Streak \in Nat /\ Streak > 0
    BY ProbeNumbers
<1>2. /\ Least(st.drifting + 1, Streak) \in 0 .. Streak
      /\ Least(st.healthy + 1, Streak) \in 0 .. Streak /\ 0 \in 0 .. Streak
    BY <1>1 DEF ProbeRecords, Least
<1>3. CASE off
    <2> DEFINE drift == st.drift \/ st.drifting + 1 >= Streak
               n == Least(st.drifting + 1, Streak)
    <2>1. after = [st EXCEPT !.healthy = 0, !.drifting = n, !.drift = drift]
        BY <1>3 DEF JudgedWindow
    <2>2. drift \in BOOLEAN
        OBVIOUS
    <2> HIDE DEF drift, n
    <2>3. n \in 0 .. Streak
        BY <1>2 DEF n
    <2>4. after = [base |-> st.base, since |-> st.since, drifting |-> n,
                   healthy |-> 0, drift |-> drift, gap |-> st.gap,
                   held |-> st.held, far |-> st.far]
        BY <2>1 DEF ProbeRecords
    <2>5. /\ after \in ProbeRecords
          /\ after.base = st.base /\ SameFlow(st, after)
          /\ after.drifting = n /\ after.drift = drift
        BY <2>2, <2>3, <2>4 DEF ProbeRecords, SameFlow
    <2> QED
        BY <1>3, <2>5 DEF drift, n
<1>4. CASE ~off
    <2>1. after = [st EXCEPT !.drifting = 0,
                             !.healthy = Least(@ + 1, Streak),
                             !.drift = @ /\ st.healthy + 1 < Streak]
        BY <1>4 DEF JudgedWindow
    <2>2. (st.drift /\ st.healthy + 1 < Streak) \in BOOLEAN
        OBVIOUS
    <2> QED
        BY <1>2, <1>4, <2>1, <2>2 DEF ProbeRecords, SameFlow
<1> QED
    BY <1>3, <1>4

\* The record of a probe with another baseline.
LEMMA RebasedRecord ==
    ASSUME ProbeAssumption, NEW st \in ProbeRecords, NEW base \in Baselines,
           NEW after, after = [st EXCEPT !.since = 0, !.base = base]
    PROVE  /\ after \in ProbeRecords /\ after.base = base
           /\ after.drifting = st.drifting /\ after.drift = st.drift
           /\ SameFlow(st, after)
<1>1. after = [base |-> base, since |-> 0, drifting |-> st.drifting,
               healthy |-> st.healthy, drift |-> st.drift, gap |-> st.gap,
               held |-> st.held, far |-> st.far]
    BY DEF ProbeRecords
<1>2. 0 \in 0 .. Spacing
    BY ProbeNumbers
<1> QED
    BY <1>1, <1>2 DEF ProbeRecords, SameFlow

\* A window is admitted whole: the baseline keeps its last values.
LEMMA AdmittedEffect ==
    ASSUME ProbeAssumption, NEW st \in ProbeRecords, NEW dev \in Int,
           NEW after, after = Admitted(st, dev)
    PROVE  /\ after \in ProbeRecords
           /\ after.drifting = st.drifting /\ after.drift = st.drift
           /\ SameFlow(st, after)
           /\ Learned(st) => Learned(after)
           /\ \A i \in DOMAIN after.base :
                \/ after.base[i] = dev
                \/ \E j \in DOMAIN st.base : after.base[i] = st.base[j]
<1> DEFINE kept == Append(st.base, dev)
           size == Least(Len(kept), BaselineMax)
           from == Len(kept) - size + 1
           base == SubSeq(kept, from, Len(kept))
<1>1. CASE st.since < Spacing
    BY <1>1 DEF Admitted, SameFlow
<1>2. CASE ~(st.since < Spacing)
    <2>1. after = [st EXCEPT !.since = 0, !.base = base]
        BY <1>2 DEF Admitted
    <2>2. st.base \in Seq(Int)
        BY DEF ProbeRecords, Baselines
    <2>3. /\ kept \in Seq(Int) /\ Len(kept) = Len(st.base) + 1
          /\ \A i \in 1 .. Len(st.base) : kept[i] = st.base[i]
          /\ kept[Len(st.base) + 1] = dev
        BY <2>2, AppendProperties
    <2>4. /\ DOMAIN kept = 1 .. Len(kept) /\ DOMAIN st.base = 1 .. Len(st.base)
          /\ Len(st.base) \in Nat
          /\ \A i \in 1 .. Len(kept) : kept[i] \in Int
        BY <2>2, <2>3, LenProperties, ElementOfSeq
    <2> HIDE DEF kept
    <2>5. /\ BaselineMin \in Nat /\ BaselineMax \in Nat /\ BaselineMin > 0
          /\ BaselineMin <= BaselineMax
        BY ProbeNumbers
    <2>6. /\ size \in Nat /\ size <= Len(kept) /\ size > 0
          /\ size <= BaselineMax
          /\ BaselineMin <= Len(st.base) => BaselineMin <= size
          /\ Len(kept) \in Nat
        <3>1. \A l, b, m \in Nat : b > 0 /\ b <= m =>
                  /\ Least(l + 1, m) \in Nat /\ Least(l + 1, m) <= l + 1
                  /\ Least(l + 1, m) <= m
                  /\ Least(l + 1, m) > 0 /\ (b <= l => b <= Least(l + 1, m))
            BY DEF Least
        <3>2. Len(kept) = Len(st.base) + 1 /\ Len(kept) \in Nat
            BY <2>3, <2>4
        <3>3. size = Least(Len(st.base) + 1, BaselineMax)
            BY <3>2
        <3> HIDE DEF size
        <3> QED BY <2>4, <2>5, <3>1, <3>2, <3>3
    <2> HIDE DEF size
    <2>7. from \in Int /\ from >= 1 /\ from <= Len(kept)
          /\ Len(kept) - from + 1 = size
        BY <2>6
    <2> HIDE DEF from
    <2>8. /\ base \in Seq(Int) /\ Len(base) = size
          /\ \A i \in 1 .. size : base[i] = kept[from + i - 1]
        <3>1. \A i \in from .. Len(kept) : kept[i] \in Int
            BY <2>4, <2>6, <2>7
        <3>2. /\ base \in Seq(Int)
              /\ Len(base) = (IF from <= Len(kept) THEN Len(kept) - from + 1
                                                   ELSE 0)
              /\ \A i \in 1 .. Len(kept) - from + 1 :
                    base[i] = kept[from + i - 1]
            BY <2>6, <2>7, <3>1, SubSeqProperties
        <3> QED BY <2>7, <3>2
    <2>9. DOMAIN base = 1 .. size
        BY <2>8, LenProperties
    <2> HIDE DEF base
    <2>10. /\ after \in ProbeRecords /\ after.base = base
           /\ after.drifting = st.drifting /\ after.drift = st.drift
           /\ SameFlow(st, after)
        <3>1. base \in Baselines
            BY <2>6, <2>8 DEF Baselines
        <3> QED BY <2>1, <3>1, RebasedRecord
    <2>11. Learned(st) => Learned(after)
        BY <2>4, <2>5, <2>6, <2>8, <2>10 DEF Learned
    <2>12. ASSUME NEW i \in DOMAIN base
           PROVE  \/ base[i] = dev
                  \/ \E j \in DOMAIN st.base : base[i] = st.base[j]
        <3>1. i \in 1 .. size /\ base[i] = kept[from + i - 1]
            BY <2>8, <2>9
        <3> DEFINE k == from + i - 1
        <3>2. k \in 1 .. Len(st.base) + 1
            <4>1. \A l, f, z, j \in Int :
                      /\ f >= 1 /\ l + 1 - f + 1 = z /\ 1 <= j /\ j <= z
                      => 1 <= f + j - 1 /\ f + j - 1 <= l + 1
                OBVIOUS
            <4>2. /\ Len(st.base) \in Int /\ size \in Int /\ i \in Int
                  /\ 1 <= i /\ i <= size
                  /\ Len(st.base) + 1 - from + 1 = size
                BY <2>3, <2>4, <2>6, <2>7, <3>1
            <4>3. 1 <= from + i - 1 /\ from + i - 1 <= Len(st.base) + 1
                <5> DEFINE l == Len(st.base)
                <5> HIDE DEF l
                <5>1. l + 1 - from + 1 = size /\ l \in Int
                    BY <4>2 DEF l
                <5>2. 1 <= from + i - 1 /\ from + i - 1 <= l + 1
                    BY <2>7, <4>1, <4>2, <5>1
                <5> QED BY <5>2 DEF l
            <4> QED BY <2>7, <4>2, <4>3
        <3>3. base[i] = kept[k]
            BY <3>1
        <3> HIDE DEF k
        <3>4. CASE k = Len(st.base) + 1
            BY <2>3, <3>3, <3>4
        <3>5. CASE k \in 1 .. Len(st.base)
            BY <2>3, <2>4, <3>3, <3>5
        <3> QED BY <2>4, <3>2, <3>4, <3>5
    <2> QED
        BY <2>10, <2>11, <2>12
<1> QED
    BY <1>1, <1>2

\* A cycle ages the record and nothing else.
LEMMA AdvancedEffect ==
    ASSUME ProbeAssumption, NEW st \in ProbeRecords, NEW dt \in Steps,
           NEW after, after = Advanced(st, dt)
    PROVE  /\ after \in ProbeRecords
           /\ SameJudgement(st, after) /\ SameFlow(st, after)
<1>1. Least(st.since + dt, Spacing) \in 0 .. Spacing
    <2>1. st.since \in Nat
        BY DEF ProbeRecords
    <2>2. dt \in Nat /\ Spacing \in Nat
        BY ProbeNumbers
    <2> QED BY <2>1, <2>2 DEF Least
<1>2. after = [base |-> st.base, since |-> Least(st.since + dt, Spacing),
               drifting |-> st.drifting, healthy |-> st.healthy,
               drift |-> st.drift, gap |-> st.gap, held |-> st.held,
               far |-> st.far]
    BY DEF Advanced, ProbeRecords
<1> QED
    BY <1>1, <1>2 DEF ProbeRecords, SameJudgement, SameFlow

\* The end of a window: off the baseline it is not learned from.
LEMMA CloseEffect ==
    ASSUME ProbeAssumption, NEW st \in ProbeRecords, NEW dev \in Int,
           NEW after, after = CloseWindow(st, dev)
    PROVE  /\ after \in ProbeRecords /\ SameFlow(st, after)
           /\ FoundOff(st, dev, after) \/ FoundNear(st, dev, after)
<1> DEFINE off == Off(st, dev)
           judged == JudgedWindow(st, off)
<1>1. off \in BOOLEAN
    BY DEF Off
<1>2. /\ judged \in ProbeRecords
      /\ judged.base = st.base /\ SameFlow(st, judged)
      /\ off => /\ judged.drifting = Least(st.drifting + 1, Streak)
                /\ judged.drift = (st.drift \/ st.drifting + 1 >= Streak)
      /\ ~off => judged.drifting = 0 /\ (judged.drift => st.drift)
    BY <1>1, JudgedEffect
<1>3. after = IF off \/ judged.drift THEN judged ELSE Admitted(judged, dev)
    BY DEF CloseWindow
<1> HIDE DEF judged
<1>4. CASE off
    BY <1>2, <1>3, <1>4 DEF FoundOff
<1>5. CASE ~off /\ judged.drift
    <2>1. after = judged
        BY <1>3, <1>5
    <2>2. Learned(st) => Learned(after)
        BY <1>2, <2>1 DEF Learned
    <2> QED
        BY <1>2, <1>5, <2>1, <2>2 DEF FoundNear
<1>6. CASE ~off /\ ~judged.drift
    <2>1. after = Admitted(judged, dev)
        BY <1>3, <1>6
    <2>2. /\ after \in ProbeRecords
          /\ after.drifting = judged.drifting /\ after.drift = judged.drift
          /\ SameFlow(judged, after)
          /\ Learned(judged) => Learned(after)
          /\ \A i \in DOMAIN after.base :
               \/ after.base[i] = dev
               \/ \E j \in DOMAIN judged.base : after.base[i] = judged.base[j]
        <3>1. judged \in ProbeRecords
            BY <1>2
        <3>2. \A a : a = Admitted(judged, dev) =>
                  /\ a \in ProbeRecords
                  /\ a.drifting = judged.drifting /\ a.drift = judged.drift
                  /\ SameFlow(judged, a)
                  /\ Learned(judged) => Learned(a)
                  /\ \A i \in DOMAIN a.base :
                       \/ a.base[i] = dev
                       \/ \E j \in DOMAIN judged.base :
                            a.base[i] = judged.base[j]
            BY <3>1, AdmittedEffect
        <3> QED BY <2>1, <3>2
    <2>3. Learned(st) => Learned(after)
        BY <1>2, <2>2 DEF Learned
    <2> QED
        BY <1>2, <1>6, <2>2, <2>3 DEF FoundNear, SameFlow
<1> QED
    BY <1>4, <1>5, <1>6

\* What a cycle of still water can do to a probe: at most judge one window, by
\* a deviation of what the probe reads now.
StillJudged(p, after) ==
    \E dev \in Int : /\ Between(Reading(p, slipped), dev)
                     /\ \/ FoundOff(state[p], dev, after)
                        \/ FoundNear(state[p], dev, after)

LEMMA StillEffect ==
    ASSUME ProbeAssumption, ProbesTyped, Sampling, NEW read \in Readable,
           NEW dt \in Steps, StillCycle(read, dt), NEW p \in Probes,
           NEW s, s = Sampled(p, read, Center(read, slipped))
    PROVE  /\ state'[p] \in ProbeRecords /\ SameFlow(state[p], state'[p])
           /\ IF WindowEnds(dt) /\ Len(s) >= MinSamples
              THEN StillJudged(p, state'[p])
              ELSE SameJudgement(state[p], state'[p])
<1> DEFINE st == Advanced(state[p], dt)
<1>1. state'[p] = IF WindowEnds(dt) THEN AfterWindow(st, s) ELSE st
    BY DEF StillCycle
<1>2. state[p] \in ProbeRecords
    BY DEF ProbesTyped
<1>3. /\ st \in ProbeRecords
      /\ SameJudgement(state[p], st) /\ SameFlow(state[p], st)
    BY <1>2, AdvancedEffect
<1> HIDE DEF st
<1>4. CASE ~(WindowEnds(dt) /\ Len(s) >= MinSamples)
    <2>1. state'[p] = st
        BY <1>1, <1>4 DEF AfterWindow
    <2> QED BY <1>3, <1>4, <2>1
<1>5. CASE WindowEnds(dt) /\ Len(s) >= MinSamples
    <2> DEFINE dev == Median(s)
    <2>1. state'[p] = CloseWindow(st, dev)
        BY <1>1, <1>5 DEF AfterWindow
    <2>2. /\ s \in Seq(Int)
          /\ \A i \in DOMAIN s :
               \E c \in Centers : s[i] = Reading(p, slipped) - c
        BY SampledEffect
    <2>3. Len(s) > 0
        BY <1>5, <2>2, ProbeNumbers, LenProperties
    <2>4. dev \in Int /\ Between(Reading(p, slipped), dev)
        BY <2>2, <2>3, SampleMedian
    <2> HIDE DEF dev
    <2>5. /\ state'[p] \in ProbeRecords /\ SameFlow(st, state'[p])
          /\ FoundOff(st, dev, state'[p]) \/ FoundNear(st, dev, state'[p])
        BY <1>3, <2>1, <2>4, CloseEffect
    <2>6. /\ SameFlow(state[p], state'[p])
          /\ Off(st, dev) <=> Off(state[p], dev)
          /\ Learned(st) <=> Learned(state[p])
        BY <1>3, <2>5 DEF SameFlow, SameJudgement, Off, Learned
    <2>7. ASSUME FoundOff(st, dev, state'[p])
          PROVE  FoundOff(state[p], dev, state'[p])
        BY <1>3, <2>6, <2>7 DEF FoundOff, SameJudgement
    <2>8. ASSUME FoundNear(st, dev, state'[p])
          PROVE  FoundNear(state[p], dev, state'[p])
        BY <1>3, <2>6, <2>8 DEF FoundNear, SameJudgement
    <2>9. StillJudged(p, state'[p])
        BY <2>4, <2>5, <2>7, <2>8 DEF StillJudged
    <2> QED
        BY <1>5, <2>5, <2>6, <2>9
<1> QED
    BY <1>4, <1>5

\* A verdict on an open loop counts its time.
LEMMA HeldEffect ==
    ASSUME ProbeAssumption, NEW st \in ProbeRecords,
           NEW gap \in {"near", "far"}, NEW dt \in Steps,
           NEW after, after = Held(st, gap, dt)
    PROVE  /\ after \in ProbeRecords /\ SameJudgement(st, after)
           /\ after.gap = gap /\ (after.far => st.far \/ gap = "far")
<1> DEFINE held == IF st.gap = gap THEN Least(st.held + dt, Persist)
                                   ELSE Least(dt, Persist)
           far == IF held >= Persist THEN gap = "far" ELSE st.far
<1>1. held \in 0 .. Persist
    <2>1. st.held \in Nat
        BY DEF ProbeRecords
    <2>2. dt \in Nat /\ Persist \in Nat
        BY ProbeNumbers
    <2> QED BY <2>1, <2>2 DEF Least
<1>2. far \in BOOLEAN /\ (far => st.far \/ gap = "far")
    BY DEF ProbeRecords
<1>3. after = [base |-> st.base, since |-> st.since,
               drifting |-> st.drifting, healthy |-> st.healthy,
               drift |-> st.drift, gap |-> gap, held |-> held, far |-> far]
    BY DEF Held, ProbeRecords
<1> HIDE DEF held, far
<1> QED
    BY <1>1, <1>2, <1>3 DEF ProbeRecords, SameJudgement

\* While water may flow, what a probe has learned stays, and with one probe
\* that may slip a good one is found far only beside a bad main supply.
LEMMA FlowingEffect ==
    ASSUME ProbeAssumption, ProbesTyped, NEW open \in Opened,
           NEW read \in Readable, NEW dt \in Steps,
           FlowingCycle(open, read, dt), NEW p \in Probes
    PROVE  /\ state'[p] \in ProbeRecords
           /\ SameJudgement(state[p], state'[p])
           /\ excused \subseteq excused'
           /\ OneFault /\ p \notin excused' =>
                /\ state'[p].far => state[p].far
                /\ state'[p].gap = "far" => state[p].gap = "far"
<1>1. PICK main \in {"good", "bad", "none"}, moves \in BOOLEAN,
           far \in SUBSET (open \intersect read) :
        LET judged == open \intersect read
            apart == IF moves THEN {q \in judged : Gap(q, main)} ELSE far
            pair == main # "none" /\ (moves \/ main = "bad")
            witnesses == {q \in read : q \in slipped \/ (moves /\ q \in open)}
            circulates == main # "none" /\ Circulates(witnesses, pair)
        IN /\ moves \/ main = "none" => far = {}
           /\ state' = [q \in Probes |->
                 Flowing(Advanced(state[q], dt), q, judged, apart,
                         circulates, dt)]
           /\ group' = NoWindow
           /\ quiet' = 0
           /\ Remember(IF main = "bad" /\ (~moves \/ Cardinality(judged) = 1)
                       THEN judged ELSE {})
           /\ UNCHANGED <<saved, slipped>>
    BY Zenon DEF FlowingCycle
<1> DEFINE judged == open \intersect read
           apart == IF moves THEN {q \in judged : Gap(q, main)} ELSE far
           pair == main # "none" /\ (moves \/ main = "bad")
           witnesses == {q \in read : q \in slipped \/ (moves /\ q \in open)}
           circulates == main # "none" /\ Circulates(witnesses, pair)
           lost == IF main = "bad" /\ (~moves \/ Cardinality(judged) = 1)
                   THEN judged ELSE {}
           st == Advanced(state[p], dt)
           gap == IF p \in apart THEN "far" ELSE "near"
           counts == circulates /\ ~MainSuspect(judged, apart) /\ p \in judged
<1>2. state'[p] = Flowing(st, p, judged, apart, circulates, dt)
    BY <1>1
<1>3. excused' = excused \union lost
    BY <1>1 DEF Remember
<1>4. state[p] \in ProbeRecords
    BY DEF ProbesTyped
<1>5. /\ st \in ProbeRecords
      /\ SameJudgement(state[p], st) /\ SameFlow(state[p], st)
    BY <1>4, AdvancedEffect
<1>6. CASE ~counts
    <2>1. state'[p] = st
        BY <1>2, <1>6 DEF Flowing
    <2> HIDE DEF st, lost, counts
    <2> QED
        BY <1>3, <1>5, <2>1 DEF SameFlow
<1>7. CASE counts
    <2>1. state'[p] = Held(st, gap, dt)
        BY <1>2, <1>7 DEF Flowing
    <2>2. gap \in {"near", "far"}
        OBVIOUS
    <2>3. ASSUME OneFault, p \notin excused'
          PROVE  p \notin apart
        <3> SUFFICES ASSUME p \in apart PROVE FALSE
            OBVIOUS
        <3>1. p \notin slipped /\ p \notin lost /\ p \in judged
            BY <1>3, <1>7, <2>3 DEF ProbesTyped
        <3>2. IsFiniteSet(judged) /\ Cardinality(judged) \in Nat
            BY ProbeNumbers, FS_Subset, FS_CardinalityType
        <3>3. CASE moves
            <4>1. main = "bad"
                BY <3>1, <3>3 DEF Gap
            <4>2. Cardinality(judged) # 1
                BY <3>1, <4>1
            <4>3. Cardinality(judged) # 0
                BY <3>1, <3>2, FS_EmptySet
            <4>4. apart = judged
                BY <3>3, <4>1 DEF Gap
            <4>5. ~MainSuspect(judged, judged)
                BY <1>7, <4>4
            <4> HIDE DEF judged
            <4> QED
                BY <3>2, <4>2, <4>3, <4>5 DEF MainSuspect
        <3>4. CASE ~moves
            <4>1. main # "bad"
                BY <3>1, <3>4
            <4>2. Cardinality(witnesses \ Flagged(state)) >= 2
                BY <1>7, <3>4, <4>1 DEF Circulates
            <4> DEFINE W == witnesses \ Flagged(state)
            <4>3. W \subseteq Fragile
                BY <3>4 DEF ProbesTyped
            <4>4. IsFiniteSet(W)
                BY ProbeNumbers, FS_Subset
            <4>5. \A a, b \in W : a = b
                BY <2>3, <4>3 DEF OneFault
            <4> HIDE DEF W
            <4>6. Cardinality(W) <= 1
                <5>1. CASE W = {}
                    BY <5>1, FS_EmptySet
                <5>2. CASE W # {}
                    <6>1. PICK a \in W : W = {a}
                        BY <4>5, <5>2
                    <6>2. Cardinality({a}) = 1
                        BY FS_Singleton
                    <6> QED BY <6>1, <6>2
                <5> QED BY <5>1, <5>2
            <4>7. Cardinality(W) \in Nat
                BY <4>4, FS_CardinalityType
            <4> QED
                BY <4>2, <4>6, <4>7 DEF W
        <3> QED BY <3>3, <3>4
    <2> HIDE DEF st, lost, gap, apart
    <2>4. /\ state'[p] \in ProbeRecords /\ SameJudgement(st, state'[p])
          /\ state'[p].gap = gap /\ (state'[p].far => st.far \/ gap = "far")
        BY <1>5, <2>1, <2>2, HeldEffect
    <2>5. SameJudgement(state[p], state'[p])
        BY <1>5, <2>4 DEF SameJudgement
    <2>6. OneFault /\ p \notin excused' => gap = "near"
        BY <2>3 DEF gap
    <2> QED
        BY <1>3, <1>5, <2>4, <2>5, <2>6 DEF SameFlow
<1> QED
    BY <1>6, <1>7

\* A fresh window has no samples.
LEMMA NoWindowFacts ==
    ASSUME ProbeAssumption
    PROVE  /\ NoWindow \in WindowRecords
           /\ NoWindow.still = 0 /\ NoWindow.age = 0
           /\ \A p \in Probes : NoWindow.samples[p] = <<>>
<1>1. 0 \in 0 .. Settle /\ 0 \in 0 .. Window - 1
    BY ProbeNumbers
<1>2. [p \in Probes |-> <<>>] \in [Probes -> Seq(Int)]
    BY EmptySeq
<1> QED
    BY <1>1, <1>2 DEF NoWindow, WindowRecords

\* A cycle of still water: the window starts, grows or ends.
LEMMA WindowEffect ==
    ASSUME ProbeAssumption, ProbesTyped, Sampling, NEW read \in Readable,
           NEW dt \in Steps, StillCycle(read, dt)
    PROVE  /\ group' \in WindowRecords
           /\ group'.still = Least(group.still + dt, Settle)
           /\ IF group.still + dt < Settle \/ WindowEnds(dt)
              THEN /\ group'.age = 0
                   /\ \A p \in Probes : group'.samples[p] = <<>>
              ELSE /\ group'.age = group.age + dt
                   /\ \A p \in Probes : group'.samples[p] =
                        Sampled(p, read, Center(read, slipped))
<1> DEFINE c == Center(read, slipped)
           sampled == [p \in Probes |-> Sampled(p, read, c)]
           still == Least(group.still + dt, Settle)
<1>1. /\ Settle \in Nat /\ Window \in Nat /\ dt \in Nat
      /\ group.still \in 0 .. Settle /\ group.age \in 0 .. Window - 1
    <2>1. Settle \in Nat /\ Window \in Nat /\ dt \in Nat
        BY ProbeNumbers
    <2>2. /\ group.still \in 0 .. Settle
          /\ group.age \in 0 .. Window - 1
        BY DEF ProbesTyped, WindowRecords
    <2> QED BY <2>1, <2>2
<1>2. still \in 0 .. Settle
    BY <1>1 DEF Least
<1>3. group' = IF group.still + dt < Settle \/ WindowEnds(dt)
               THEN [NoWindow EXCEPT !.still = still]
               ELSE [still |-> still, age |-> group.age + dt,
                     samples |-> sampled]
    BY DEF StillCycle, GroupAfter, StillTime
<1>4. sampled \in [Probes -> Seq(Int)]
    <2>1. \A p \in Probes : Sampled(p, read, c) \in Seq(Int)
        BY SampledEffect
    <2> QED BY <2>1
<1>5. CASE group.still + dt < Settle \/ WindowEnds(dt)
    <2>1. group' = [NoWindow EXCEPT !.still = still]
        BY <1>3, <1>5
    <2> HIDE DEF still
    <2>2. group' = [still |-> still, age |-> 0,
                    samples |-> [p \in Probes |-> <<>>]]
        BY <2>1 DEF NoWindow
    <2>3. 0 \in 0 .. Window - 1
        BY ProbeNumbers
    <2>4. [p \in Probes |-> <<>>] \in [Probes -> Seq(Int)]
        BY EmptySeq
    <2>5. group' \in WindowRecords
        BY <1>2, <2>2, <2>3, <2>4 DEF WindowRecords
    <2> QED
        BY <1>5, <2>2, <2>5 DEF still
<1>6. CASE ~(group.still + dt < Settle \/ WindowEnds(dt))
    <2>1. group' = [still |-> still, age |-> group.age + dt,
                    samples |-> sampled]
        BY <1>3, <1>6
    <2>2. group.age + dt \in 0 .. Window - 1
        BY <1>1, <1>6 DEF WindowEnds
    <2> HIDE DEF still, sampled
    <2>3. group' \in WindowRecords
        BY <1>2, <1>4, <2>1, <2>2 DEF WindowRecords
    <2>4. \A p \in Probes :
              group'.samples[p] = Sampled(p, read, Center(read, slipped))
        BY <2>1 DEF sampled
    <2> QED
        BY <1>6, <2>1, <2>3, <2>4 DEF still
<1> QED
    BY <1>5, <1>6

\* The last moment for a flag.
LEMMA DeadlineNat ==
    ASSUME ProbeAssumption
    PROVE  /\ Deadline \in Nat /\ Streak * Window \in Nat
           /\ Settle - 1 + Streak * Window <= Deadline
           /\ Window - 1 + Streak * Window <= Deadline
<1>1. Streak \in Nat /\ Window \in Nat /\ Window > 0
      /\ Settle \in Nat /\ Settle > 0
    BY ProbeNumbers
<1> DEFINE n == Streak * Window
<1>2. n \in Nat
    BY <1>1
<1>3. Deadline = (IF Settle > Window THEN Settle ELSE Window) - 1 + n
    BY DEF Deadline
<1> HIDE DEF n
<1>4. /\ Deadline \in Nat /\ Settle - 1 + n <= Deadline
      /\ Window - 1 + n <= Deadline
    BY <1>1, <1>2, <1>3
<1> QED
    BY <1>2, <1>4 DEF n

\* A new probe's record, and one after a restart.
LEMMA RecordsAfresh ==
    ASSUME ProbeAssumption
    PROVE  /\ NewProbe \in ProbeRecords /\ NewProbe.base = <<>>
           /\ \A st \in ProbeRecords : \A after :
                after = [st EXCEPT !.gap = "unjudged", !.held = 0,
                                   !.far = FALSE]
                => /\ after \in ProbeRecords
                   /\ SameJudgement(st, after)
                   /\ ~after.far /\ after.gap = "unjudged"
<1>1. NewProbe \in ProbeRecords /\ NewProbe.base = <<>>
    <2>1. /\ Spacing \in 0 .. Spacing /\ 0 \in 0 .. Streak
          /\ 0 \in 0 .. Persist
        BY ProbeNumbers
    <2>2. <<>> \in Baselines
        BY ProbeNumbers, EmptySeq DEF Baselines
    <2> QED BY <2>1, <2>2 DEF NewProbe, ProbeRecords
<1>2. ASSUME NEW st \in ProbeRecords, NEW after,
             after = [st EXCEPT !.gap = "unjudged", !.held = 0, !.far = FALSE]
      PROVE  /\ after \in ProbeRecords
             /\ SameJudgement(st, after)
             /\ ~after.far /\ after.gap = "unjudged"
    <2>1. after = [base |-> st.base, since |-> st.since,
                   drifting |-> st.drifting, healthy |-> st.healthy,
                   drift |-> st.drift, gap |-> "unjudged", held |-> 0,
                   far |-> FALSE]
        BY <1>2 DEF ProbeRecords
    <2>2. 0 \in 0 .. Persist
        BY ProbeNumbers
    <2> QED BY <2>1, <2>2 DEF ProbeRecords, SameJudgement
<1> QED
    BY <1>1, <1>2

\* A relearning or a restart leaves a probe's record, brings back the saved
\* one, forgets the flowing check or forgets everything.
Renewed(st, kept, after) ==
    \/ after = NewProbe
    \/ after = st
    \/ after = kept
    \/ SameJudgement(st, after) /\ ~after.far /\ after.gap = "unjudged"

LEMMA RenewEffect ==
    ASSUME ProbeAssumption, ProbesTyped,
           \/ \E some \in Rooms : Reset(some)
           \/ \E clean \in BOOLEAN : Restart(clean)
    PROVE  /\ state' \in [Probes -> ProbeRecords]
           /\ \A p \in Probes : Renewed(state[p], saved[p], state'[p])
           /\ saved' = saved \/ saved' = state'
           /\ saved' # saved => \A p \in Probes :
                 ~state'[p].far /\ state'[p].gap = "unjudged"
           /\ group' = NoWindow /\ slipped' = slipped /\ quiet' = 0
           /\ Remember({})
<1>1. /\ state \in [Probes -> ProbeRecords]
      /\ saved \in [Probes -> ProbeRecords]
    BY DEF ProbesTyped
<1> DEFINE
      Done == /\ state' \in [Probes -> ProbeRecords]
              /\ \A p \in Probes : Renewed(state[p], saved[p], state'[p])
              /\ saved' = saved \/ saved' = state'
              /\ saved' # saved => \A p \in Probes :
                    ~state'[p].far /\ state'[p].gap = "unjudged"
<1>2. ASSUME NEW some \in Rooms, Reset(some)
      PROVE  Done
    BY <1>1, <1>2, RecordsAfresh DEF Reset, Renewed
<1>3. ASSUME Restart(TRUE)
      PROVE  Done
    <2>1. /\ saved' = state'
          /\ state' = [p \in Probes |-> [state[p] EXCEPT
                      !.gap = "unjudged", !.held = 0, !.far = FALSE]]
        BY <1>3 DEF Restart, Restored
    <2>2. ASSUME NEW p \in Probes
          PROVE  /\ state'[p] \in ProbeRecords
                 /\ SameJudgement(state[p], state'[p])
                 /\ ~state'[p].far /\ state'[p].gap = "unjudged"
        <3>1. state[p] \in ProbeRecords
            BY <1>1
        <3>2. state'[p] = [state[p] EXCEPT !.gap = "unjudged", !.held = 0,
                                           !.far = FALSE]
            BY <2>1
        <3> QED BY <3>1, <3>2, RecordsAfresh
    <2>3. state' = [p \in Probes |-> state'[p]]
        BY <2>1
    <2> QED BY <2>1, <2>2, <2>3 DEF Renewed
<1>4. ASSUME Restart(FALSE)
      PROVE  Done
    <2>1. saved' = saved /\ state' = saved
        BY <1>4 DEF Restart
    <2> QED BY <1>1, <2>1 DEF Renewed
<1>5. group' = NoWindow /\ slipped' = slipped /\ quiet' = 0 /\ Remember({})
    BY DEF Reset, Restart
<1> QED
    BY <1>2, <1>3, <1>4, <1>5

----------------------------------------------------------------------------
(* What holds of every monitor.                                            *)

ProbesBase == ProbesTyped /\ Sampling /\ Unspoilt

LEMMA BaseInit ==
    ASSUME ProbeAssumption, ProbesInit
    PROVE  ProbesBase
<1>1. /\ state \in [Probes -> ProbeRecords] /\ saved = state
      /\ \A p \in Probes : ~saved[p].far /\ saved[p].gap = "unjudged"
    BY RecordsAfresh DEF ProbesInit, NewProbe
<1>2. group \in WindowRecords
    BY NoWindowFacts DEF ProbesInit
<1>3. ProbesTyped
    BY <1>1, <1>2, DeadlineNat DEF ProbesInit, ProbesTyped
<1>4. Sampling
    BY NoWindowFacts, EmptySeq DEF ProbesInit, Sampling
<1>5. \A p \in Probes : state[p].base = <<>> /\ saved[p].base = <<>>
    BY RecordsAfresh DEF ProbesInit
<1>6. Unspoilt
    BY <1>5 DEF ProbesInit, Unspoilt, Own
<1> QED
    BY <1>3, <1>4, <1>6 DEF ProbesBase

\* What is remembered of the probes.
LEMMA RememberEffect ==
    ASSUME NEW lost, lost \subseteq Probes, ProbesTyped, Remember(lost)
    PROVE  /\ excused' = excused \union lost
           /\ excused' \subseteq Probes /\ settled' \subseteq Probes
           /\ \A p \in Probes : p \in settled' <=>
                Learned(state'[p]) /\ (p \in settled \/ p \notin excused)
    BY DEF Remember, ProbesTyped

\* Outside the flowing check nobody is excused.
LEMMA RememberNone ==
    ASSUME ProbesTyped, Remember({})
    PROVE  /\ excused' = excused /\ settled' \subseteq Probes
           /\ \A p \in Probes : p \in settled' <=>
                Learned(state'[p]) /\ (p \in settled \/ p \notin excused)
    BY DEF Remember, ProbesTyped

\* While the water stands.
LEMMA BaseStill ==
    ASSUME ProbeAssumption, ProbesBase, NEW read \in Readable,
           NEW dt \in Steps, StillCycle(read, dt)
    PROVE  ProbesBase'
<1> USE DEF ProbesBase
<1>1. /\ slipped' = slipped /\ saved' = saved /\ Remember({})
      /\ quiet' = IF read = Probes THEN Least(quiet + 1, Deadline) ELSE 0
      /\ state' = [p \in Probes |-> state'[p]]
    BY DEF StillCycle
<1>2. /\ excused' = excused
      /\ settled' \subseteq Probes
      /\ \A p \in Probes : p \in settled' <=>
           Learned(state'[p]) /\ (p \in settled \/ p \notin excused)
    BY <1>1, RememberNone
<1>3. ProbesTyped'
    <2>1. \A p \in Probes : state'[p] \in ProbeRecords
        BY StillEffect
    <2>2. state' \in [Probes -> ProbeRecords]
        BY <1>1, <2>1
    <2>3. group' \in WindowRecords
        BY WindowEffect
    <2>4. quiet' \in 0 .. Deadline
        BY <1>1, DeadlineNat DEF ProbesTyped, Least
    <2> QED
        BY <1>1, <1>2, <2>2, <2>3, <2>4 DEF ProbesTyped
<1>4. Sampling'
    <2>1. /\ Settle \in Nat /\ dt \in Nat
          /\ dt > 0 /\ group.still \in Nat /\ group.age \in Nat
        <3>1. Settle \in Nat /\ dt \in Nat /\ dt > 0
            BY ProbeNumbers
        <3>2. group.still \in Nat /\ group.age \in Nat
            BY DEF ProbesTyped, WindowRecords
        <3> QED BY <3>1, <3>2
    <2>2. CASE group.still + dt < Settle \/ WindowEnds(dt)
        <3>1. group'.age = 0 /\ \A p \in Probes : group'.samples[p] = <<>>
            BY <2>2, WindowEffect
        <3> QED BY <3>1, EmptySeq DEF Sampling
    <2>3. CASE ~(group.still + dt < Settle \/ WindowEnds(dt))
        <3>1. /\ group'.age = group.age + dt
              /\ group'.still = Least(group.still + dt, Settle)
              /\ \A p \in Probes : group'.samples[p] =
                    Sampled(p, read, Center(read, slipped))
            BY <2>3, WindowEffect
        <3>2. group'.age # 0 /\ ~(group'.still < Settle)
            BY <2>1, <2>3, <3>1 DEF Least
        <3>3. ASSUME NEW p \in Probes, NEW i \in DOMAIN group'.samples[p]
              PROVE  \E c \in Centers :
                        group'.samples[p][i] = Reading(p, slipped) - c
            BY <3>1, SampledEffect
        <3>4. \A p \in Probes : Reading(p, slipped') = Reading(p, slipped)
            BY <1>1
        <3>5. ASSUME NEW p \in Probes
              PROVE  Len(group'.samples[p]) <= group'.age
            <4> DEFINE l == Len(group.samples[p])
                       m == Len(group'.samples[p])
                       a == group.age
                       b == group'.age
            <4>1. group.samples[p] \in Seq(Int) /\ l <= a
                BY DEF ProbesTyped, WindowRecords, Sampling
            <4>2. l \in Nat
                BY <4>1, LenProperties
            <4>3. m \in {l, l + 1}
                BY <3>1, SampledEffect
            <4>4. b = a + dt
                BY <3>1
            <4> HIDE DEF l, m, a, b
            <4>5. a \in Nat
                BY <2>1 DEF a
            <4>6. m <= b
                BY <2>1, <4>1, <4>2, <4>3, <4>4, <4>5
            <4> QED BY <4>6 DEF m, b
        <3> QED BY <3>2, <3>3, <3>4, <3>5 DEF Sampling
    <2> QED BY <2>2, <2>3
<1>5. ASSUME NEW p \in Probes, p \notin excused,
             NEW i \in DOMAIN state'[p].base
      PROVE  Between(Offset[p], state'[p].base[i])
    <2>1. \A j \in DOMAIN state[p].base : Between(Offset[p], state[p].base[j])
        BY <1>5 DEF Unspoilt, Own
    <2>2. CASE state'[p].base = state[p].base
        BY <2>1, <2>2
    <2>3. CASE state'[p].base # state[p].base
        <3>1. StillJudged(p, state'[p])
            BY <2>3, StillEffect DEF SameJudgement
        <3>2. PICK dev \in Int : /\ Between(Reading(p, slipped), dev)
                                 /\ \/ FoundOff(state[p], dev, state'[p])
                                    \/ FoundNear(state[p], dev, state'[p])
            BY <3>1 DEF StillJudged
        <3>3. FoundNear(state[p], dev, state'[p])
            BY <2>3, <3>2 DEF FoundOff
        <3>4. Reading(p, slipped) = Offset[p]
            BY <1>5, ProbeNumbers DEF Reading, ProbesTyped
        <3>5. \/ state'[p].base[i] = dev
              \/ \E j \in DOMAIN state[p].base :
                    state'[p].base[i] = state[p].base[j]
            BY <3>3 DEF FoundNear
        <3> QED BY <2>1, <3>2, <3>4, <3>5
    <2> QED BY <2>2, <2>3
<1>6. Unspoilt'
    BY <1>1, <1>2, <1>5 DEF Unspoilt, Learned, Own
<1> QED
    BY <1>3, <1>4, <1>6

\* While the water may flow.
LEMMA BaseFlowing ==
    ASSUME ProbeAssumption, ProbesBase, NEW open \in Opened,
           NEW read \in Readable, NEW dt \in Steps,
           FlowingCycle(open, read, dt)
    PROVE  ProbesBase'
<1> USE DEF ProbesBase
<1>1. /\ slipped' = slipped /\ quiet' = 0 /\ group' = NoWindow
      /\ saved' = saved
      /\ state' = [p \in Probes |-> state'[p]]
      /\ \E lost \in SUBSET (open \intersect read) : Remember(lost)
    BY DEF FlowingCycle
<1>2. PICK lost \in SUBSET Probes : Remember(lost)
    BY <1>1, ProbeNumbers
<1>3. /\ excused \subseteq excused' /\ excused' \subseteq Probes
      /\ settled' \subseteq Probes
      /\ \A p \in settled' : Learned(state'[p])
    BY <1>2, RememberEffect
<1>4. \A p \in Probes : /\ state'[p] \in ProbeRecords
                        /\ state'[p].base = state[p].base
    BY FlowingEffect DEF SameJudgement
<1>5. state' \in [Probes -> ProbeRecords]
    BY <1>1, <1>4
<1>6. group' \in WindowRecords
    BY <1>1, NoWindowFacts
<1>7. ProbesTyped'
    BY <1>1, <1>3, <1>5, <1>6, DeadlineNat DEF ProbesTyped
<1>8. Sampling'
    BY <1>1, NoWindowFacts, EmptySeq DEF Sampling
<1>9. Unspoilt'
    BY <1>1, <1>3, <1>4 DEF Unspoilt, Learned, Own
<1> QED
    BY <1>7, <1>8, <1>9

\* A probe slips or recovers.
LEMMA BaseSlips ==
    ASSUME ProbeAssumption, ProbesBase, NEW p \in Fragile, Slips(p)
    PROVE  ProbesBase'
<1> USE DEF ProbesBase
<1>1. /\ state' = state /\ group' = group /\ settled' = settled /\ quiet' = 0
      /\ saved' = saved
      /\ slipped' \subseteq Fragile /\ slipped' \subseteq excused'
      /\ excused' = excused \union {p} /\ group.age = 0
    BY DEF Slips, ProbesTyped
<1>2. p \in Probes
    BY ProbeNumbers
<1>3. ProbesTyped'
    BY <1>1, <1>2, DeadlineNat DEF ProbesTyped
<1>4. Sampling'
    <2>1. \A q \in Probes : group'.samples[q] = <<>>
        BY <1>1 DEF Sampling
    <2> QED BY <1>1, <2>1, EmptySeq DEF Sampling
<1>5. Unspoilt'
    BY <1>1 DEF Unspoilt, Learned, Own
<1> QED
    BY <1>3, <1>4, <1>5

\* A relearning or a restart.
LEMMA BaseRenew ==
    ASSUME ProbeAssumption, ProbesBase,
           \/ \E some \in Rooms : Reset(some)
           \/ \E clean \in BOOLEAN : Restart(clean)
    PROVE  ProbesBase'
<1> USE DEF ProbesBase
<1>1. /\ state' \in [Probes -> ProbeRecords]
      /\ \A p \in Probes : Renewed(state[p], saved[p], state'[p])
      /\ saved' = saved \/ saved' = state'
      /\ saved' # saved => \A p \in Probes :
            ~state'[p].far /\ state'[p].gap = "unjudged"
      /\ group' = NoWindow /\ slipped' = slipped /\ quiet' = 0
      /\ Remember({})
    BY RenewEffect
<1>2. /\ excused' = excused
      /\ settled' \subseteq Probes
      /\ \A p \in settled' : Learned(state'[p])
    BY <1>1, RememberNone
<1>3. group' \in WindowRecords
    BY <1>1, NoWindowFacts
<1>4. ProbesTyped'
    BY <1>1, <1>2, <1>3, DeadlineNat DEF ProbesTyped
<1>5. Sampling'
    BY <1>1, NoWindowFacts, EmptySeq DEF Sampling
<1>6. \A p \in Probes : \/ state'[p].base = state[p].base
                        \/ state'[p].base = saved[p].base
                        \/ state'[p].base = <<>>
    BY <1>1, RecordsAfresh DEF Renewed, SameJudgement
<1>7. Unspoilt'
    BY <1>1, <1>2, <1>6 DEF Unspoilt, Learned, Own
<1> QED
    BY <1>4, <1>5, <1>7

\* One step for all of them.
LEMMA BaseStep ==
    ASSUME ProbeAssumption, ProbesBase, [ProbesNext]_probesVars
    PROVE  ProbesBase'
<1>1. CASE UNCHANGED probesVars
    BY <1>1 DEF ProbesBase, ProbesTyped, Sampling, Unspoilt, Own, probesVars,
                Learned, Reading
<1>2. CASE ProbesNext
    BY <1>2, BaseStill, BaseFlowing, BaseSlips, BaseRenew DEF ProbesNext
<1> QED
    BY <1>1, <1>2

\* The monitor keeps its types, and what a probe that never slipped has
\* learned is its own deviation.
LEMMA BaseAlways ==
    ASSUME ProbeAssumption
    PROVE  ProbesSpec => []ProbesBase
<1>1. ProbesInit => ProbesBase
    BY BaseInit
<1>2. ProbesBase /\ [ProbesNext]_probesVars => ProbesBase'
    BY BaseStep
<1> QED
    BY <1>1, <1>2, PTL DEF ProbesSpec

----------------------------------------------------------------------------
(* What holds when the monitor can be relied on.                           *)

\* A deviation like those learned is not off the baseline.
LEMMA NeverOff ==
    ASSUME ProbeAssumption, SteadyCenter, NEW st \in ProbeRecords,
           NEW r \in Int, NEW dev \in Int, Between(r, dev),
           \A i \in DOMAIN st.base : Between(r, st.base[i])
    PROVE  ~Off(st, dev)
<1> SUFFICES ASSUME Off(st, dev) PROVE FALSE
    OBVIOUS
<1>1. Learned(st) /\ Apart(dev, Median(st.base)) > Drift
    BY DEF Off
<1>2. st.base \in Seq(Int)
    BY DEF ProbeRecords, Baselines
<1>3. Len(st.base) > 0
    BY <1>1, <1>2, ProbeNumbers, LenProperties DEF Learned
<1>4. Median(st.base) \in Int /\ Between(r, Median(st.base))
    BY <1>2, <1>3, MedianOfBetween
<1>5. Apart(dev, Median(st.base)) <= Drift
    BY <1>4, BetweenClose
<1>6. Apart(dev, Median(st.base)) \in Int /\ Drift \in Int
    BY <1>4, ProbeNumbers DEF Apart
<1> QED
    BY <1>1, <1>5, <1>6

\* A deviation of a probe that slipped is off what it learned before.
LEMMA AlwaysOff ==
    ASSUME ProbeAssumption, SteadyCenter, FaultShows,
           NEW st \in ProbeRecords, Learned(st), NEW p \in slipped,
           NEW dev \in Int, p \in Probes, Between(Reading(p, slipped), dev),
           \A i \in DOMAIN st.base : Between(Offset[p], st.base[i])
    PROVE  Off(st, dev)
<1>1. st.base \in Seq(Int)
    BY DEF ProbeRecords, Baselines
<1>2. Len(st.base) > 0
    BY <1>1, ProbeNumbers, LenProperties DEF Learned
<1>3. Offset[p] \in Int
    BY ProbeNumbers
<1>4. Median(st.base) \in Int /\ Between(Offset[p], Median(st.base))
    BY <1>1, <1>2, <1>3, MedianOfBetween
<1>5. Reading(p, slipped) = Offset[p] + Fault
    BY DEF Reading
<1>6. Apart(dev, Median(st.base)) > Drift
    BY <1>3, <1>4, <1>5, BetweenFar
<1> QED
    BY <1>6 DEF Off

\* A probe that never slipped is not flagged.
LEMMA UnflaggedStep ==
    ASSUME ProbeAssumption, OneFault, SteadyCenter, ProbesBase, Unflagged,
           [ProbesNext]_probesVars
    PROVE  Unflagged'
<1> USE DEF ProbesBase
<1>1. ASSUME NEW read \in Readable, NEW dt \in Steps, StillCycle(read, dt)
      PROVE  Unflagged'
    <2>1. excused' = excused /\ saved' = saved
        BY <1>1, RememberNone DEF StillCycle
    <2>2. ASSUME NEW p \in Probes, p \notin excused
          PROVE  /\ ~state'[p].drift /\ ~state'[p].far
                 /\ state'[p].gap # "far"
        <3>1. ~state[p].drift /\ ~state[p].far /\ state[p].gap # "far"
            BY <2>2 DEF Unflagged
        <3>2. SameFlow(state[p], state'[p])
            BY <1>1, StillEffect
        <3>3. CASE SameJudgement(state[p], state'[p])
            BY <3>1, <3>2, <3>3 DEF SameFlow, SameJudgement
        <3>4. CASE ~SameJudgement(state[p], state'[p])
            <4>1. StillJudged(p, state'[p])
                BY <1>1, <3>4, StillEffect
            <4>2. PICK dev \in Int :
                    /\ Between(Reading(p, slipped), dev)
                    /\ \/ FoundOff(state[p], dev, state'[p])
                       \/ FoundNear(state[p], dev, state'[p])
                BY <4>1 DEF StillJudged
            <4>3. Reading(p, slipped) = Offset[p] /\ Offset[p] \in Int
                BY <2>2, ProbeNumbers DEF Reading, ProbesTyped
            <4>4. /\ state[p] \in ProbeRecords
                  /\ \A i \in DOMAIN state[p].base :
                        Between(Offset[p], state[p].base[i])
                BY <2>2 DEF ProbesTyped, Unspoilt, Own
            <4>5. ~Off(state[p], dev)
                BY <4>2, <4>3, <4>4, NeverOff
            <4>6. FoundNear(state[p], dev, state'[p])
                BY <4>2, <4>5 DEF FoundOff
            <4> QED BY <3>1, <3>2, <4>6 DEF SameFlow, FoundNear
        <3> QED BY <3>3, <3>4
    <2> QED BY <2>1, <2>2 DEF Unflagged
<1>2. ASSUME NEW open \in Opened, NEW read \in Readable, NEW dt \in Steps,
             FlowingCycle(open, read, dt)
      PROVE  Unflagged'
    <2>1. ASSUME NEW p \in Probes, p \notin excused'
          PROVE  /\ ~state'[p].drift /\ ~state'[p].far
                 /\ state'[p].gap # "far" /\ ~saved'[p].drift
        <3>1. /\ SameJudgement(state[p], state'[p])
              /\ p \notin excused
              /\ state'[p].far => state[p].far
              /\ state'[p].gap = "far" => state[p].gap = "far"
            BY <1>2, <2>1, FlowingEffect
        <3>2. /\ ~state[p].drift /\ ~state[p].far /\ state[p].gap # "far"
              /\ ~saved[p].drift
            BY <3>1 DEF Unflagged
        <3>3. saved' = saved
            BY <1>2 DEF FlowingCycle
        <3> QED BY <3>1, <3>2, <3>3 DEF SameJudgement
    <2> QED BY <2>1 DEF Unflagged
<1>3. ASSUME NEW p \in Fragile, Slips(p)
      PROVE  Unflagged'
    BY <1>3 DEF Slips, Unflagged
<1>4. ASSUME \/ \E some \in Rooms : Reset(some)
             \/ \E clean \in BOOLEAN : Restart(clean)
      PROVE  Unflagged'
    <2>1. /\ \A p \in Probes : Renewed(state[p], saved[p], state'[p])
          /\ saved' = saved \/ saved' = state'
          /\ excused' = excused
          /\ \A p \in Probes : ~saved[p].far /\ saved[p].gap = "unjudged"
        BY <1>4, RenewEffect, RememberNone DEF ProbesTyped
    <2> QED BY <2>1 DEF Renewed, Unflagged, SameJudgement, NewProbe
<1>5. CASE UNCHANGED probesVars
    BY <1>5 DEF probesVars, Unflagged
<1> QED
    BY <1>1, <1>2, <1>3, <1>4, <1>5 DEF ProbesNext

\* What was learned before a slip is not pulled towards the fault.
LEMMA KeptStep ==
    ASSUME ProbeAssumption, SteadyCenter, FaultShows, ProbesBase, Kept,
           [ProbesNext]_probesVars
    PROVE  Kept'
<1> USE DEF ProbesBase
<1>1. \A p \in Probes : p \in settled \/ p \notin excused =>
          Own(p, state[p]) /\ Own(p, saved[p])
    BY DEF Kept, Unspoilt
<1>2. ASSUME \A p \in Probes : \/ state'[p].base = state[p].base
                               \/ state'[p].base = saved[p].base
                               \/ state'[p].base = <<>>,
             saved' = saved \/ saved' = state',
             \A p \in settled' : /\ p \in Probes
                                 /\ p \in settled \/ p \notin excused
      PROVE  Kept'
    BY <1>1, <1>2 DEF Kept, Own
<1>3. ASSUME NEW read \in Readable, NEW dt \in Steps, StillCycle(read, dt)
      PROVE  Kept'
    <2>1. \A p \in settled' : p \in Probes /\ (p \in settled \/ p \notin excused)
        BY <1>3, RememberNone DEF StillCycle
    <2>2. ASSUME NEW p \in settled', NEW i \in DOMAIN state'[p].base
          PROVE  Between(Offset[p], state'[p].base[i])
        <3>1. /\ p \in Probes
              /\ \A j \in DOMAIN state[p].base :
                    Between(Offset[p], state[p].base[j])
            BY <1>1, <2>1, <2>2 DEF Own
        <3>2. CASE state'[p].base = state[p].base
            BY <3>1, <3>2
        <3>3. CASE state'[p].base # state[p].base
            <4>1. StillJudged(p, state'[p])
                BY <1>3, <3>1, <3>3, StillEffect DEF SameJudgement
            <4>2. PICK dev \in Int :
                    /\ Between(Reading(p, slipped), dev)
                    /\ \/ FoundOff(state[p], dev, state'[p])
                       \/ FoundNear(state[p], dev, state'[p])
                BY <4>1 DEF StillJudged
            <4>3. FoundNear(state[p], dev, state'[p])
                BY <3>3, <4>2 DEF FoundOff
            <4>4. p \notin slipped
                <5> SUFFICES ASSUME p \in slipped PROVE FALSE
                    OBVIOUS
                <5>1. Learned(state[p]) /\ state[p] \in ProbeRecords
                    BY <2>1, <3>1 DEF Unspoilt, ProbesTyped
                <5>2. Off(state[p], dev)
                    BY <3>1, <4>2, <5>1, AlwaysOff
                <5> QED BY <4>3, <5>2 DEF FoundNear
            <4>5. Reading(p, slipped) = Offset[p]
                BY <3>1, <4>4, ProbeNumbers DEF Reading
            <4>6. \/ state'[p].base[i] = dev
                  \/ \E j \in DOMAIN state[p].base :
                        state'[p].base[i] = state[p].base[j]
                BY <4>3 DEF FoundNear
            <4> QED BY <3>1, <4>2, <4>5, <4>6
        <3> QED BY <3>2, <3>3
    <2>3. saved' = saved
        BY <1>3 DEF StillCycle
    <2> QED BY <1>1, <2>1, <2>2, <2>3 DEF Kept, Own
<1>4. ASSUME NEW open \in Opened, NEW read \in Readable, NEW dt \in Steps,
             FlowingCycle(open, read, dt)
      PROVE  Kept'
    <2>1. \A p \in Probes : state'[p].base = state[p].base
        BY <1>4, FlowingEffect DEF SameJudgement
    <2>2. /\ saved' = saved
          /\ \A p \in settled' :
                p \in Probes /\ (p \in settled \/ p \notin excused)
        BY <1>4 DEF FlowingCycle, Remember
    <2> QED BY <1>2, <2>1, <2>2
<1>5. ASSUME NEW p \in Fragile, Slips(p)
      PROVE  Kept'
    BY <1>5 DEF Slips, Kept, Own
<1>6. ASSUME \/ \E some \in Rooms : Reset(some)
             \/ \E clean \in BOOLEAN : Restart(clean)
      PROVE  Kept'
    <2>1. /\ \A p \in Probes : \/ state'[p].base = state[p].base
                               \/ state'[p].base = saved[p].base
                               \/ state'[p].base = <<>>
          /\ saved' = saved \/ saved' = state'
        BY <1>6, RenewEffect, RecordsAfresh DEF Renewed, SameJudgement
    <2>2. \A p \in settled' : p \in Probes /\ (p \in settled \/ p \notin excused)
        BY <1>6, RenewEffect, RememberNone
    <2> QED BY <1>2, <2>1, <2>2
<1>7. CASE UNCHANGED probesVars
    BY <1>7 DEF probesVars, Kept, Own
<1> QED
    BY <1>3, <1>4, <1>5, <1>6, <1>7 DEF ProbesNext

\* The windows still to come, as the sums below need them.
LEMMA WindowsLeft ==
    ASSUME ProbeAssumption, NEW n \in 0 .. Streak
    PROVE  /\ (Streak - n) * Window \in Nat
           /\ (Streak - n) * Window <= Streak * Window
           /\ Streak * Window \in Nat
           /\ (Streak - (n + 1)) * Window = (Streak - n) * Window - Window
           /\ n < Streak => (Streak - n) * Window >= Window
<1>1. Streak \in Nat /\ Window \in Nat /\ Window > 0
    BY ProbeNumbers
<1>2. \A a, b \in Nat : a * b \in Nat
    OBVIOUS
<1>3. (Streak - n) * Window \in Nat /\ n * Window \in Nat
      /\ Streak * Window \in Nat
    BY <1>1, <1>2
<1>4. (Streak - n) * Window = Streak * Window - n * Window
    BY <1>1
<1>5. (Streak - (n + 1)) * Window = (Streak - n) * Window - Window
    BY <1>1
<1>6. ASSUME n < Streak
      PROVE  (Streak - n) * Window >= Window
    <2>1. Streak - (n + 1) \in Nat
        BY <1>1, <1>6
    <2>2. (Streak - (n + 1)) * Window \in Nat
        BY <1>1, <1>2, <2>1
    <2> QED BY <1>1, <1>3, <1>5, <2>2
<1> QED
    BY <1>3, <1>4, <1>5, <1>6

\* A window without samples is filling.
LEMMA EmptyFills ==
    ASSUME ProbeAssumption, NEW g, NEW p, g.age = 0, g.samples[p] = <<>>
    PROVE  Filling(g, p)
<1>1. Len(g.samples[p]) = 0
    BY EmptySeq
<1>2. (MinSamples - 1) * g.age = 0 /\ 0 * (Window - 1) = 0
    BY ProbeNumbers
<1> QED
    BY <1>1, <1>2 DEF Filling

\* When the quiet is broken there is time enough.
LEMMA DueAfresh ==
    ASSUME ProbeAssumption, NEW p \in Probes, NEW g \in WindowRecords,
           g.age = 0 => g.samples[p] = <<>>, NEW n \in 0 .. Streak
    PROVE  Due(0, g, n, p) <= Deadline
<1> DEFINE left == (Streak - n) * Window
           all == Streak * Window
<1>1. left \in Nat /\ all \in Nat /\ left <= all
    BY WindowsLeft
<1>2. /\ Deadline \in Nat /\ Settle - 1 + all <= Deadline
      /\ Window - 1 + all <= Deadline
    BY DeadlineNat
<1>3. /\ g.still \in 0 .. Settle /\ g.age \in 0 .. Window - 1
      /\ Settle \in Nat /\ Window \in Nat /\ Window > 0
    BY ProbeNumbers DEF WindowRecords
<1>4. g.age = 0 => Filling(g, p)
    BY EmptyFills
<1>5. Due(0, g, n, p) = IF g.still < Settle
                        THEN 0 + Settle - g.still - 1 + left
                        ELSE 0 - g.age + (IF Filling(g, p) THEN left
                                                           ELSE left + Window)
    BY DEF Due
<1> HIDE DEF left, all
<1>6. CASE g.still < Settle
    BY <1>1, <1>2, <1>3, <1>5, <1>6
<1>7. CASE ~(g.still < Settle) /\ Filling(g, p)
    BY <1>1, <1>2, <1>3, <1>5, <1>7
<1>8. CASE ~(g.still < Settle) /\ ~Filling(g, p)
    <2>1. g.age >= 1
        BY <1>3, <1>4, <1>8
    <2>2. Due(0, g, n, p) = 0 - g.age + (left + Window)
        BY <1>5, <1>8
    <2> QED BY <1>1, <1>2, <1>3, <2>1, <2>2
<1> QED
    BY <1>6, <1>7, <1>8

\* Cycles that fill a window keep filling it.
LEMMA FillsOn ==
    ASSUME ProbeAssumption, WindowsFill, NEW dt \in Steps, NEW a \in Nat,
           NEW l \in Nat, (MinSamples - 1) * a <= l * (Window - 1)
    PROVE  /\ (MinSamples - 1) * (a + dt) <= (l + 1) * (Window - 1)
           /\ a + dt >= Window => l + 1 >= MinSamples
<1> DEFINE m == MinSamples - 1
           w == Window - 1
<1>1. m \in Nat /\ w \in Nat /\ dt \in Nat
    BY ProbeNumbers
<1>2. m * dt <= w
    <2>1. m * dt < Window
        BY DEF WindowsFill
    <2>2. m * dt \in Int /\ Window \in Int
        BY <1>1, ProbeNumbers
    <2> HIDE DEF m
    <2> QED BY <2>1, <2>2
<1>3. MinSamples = m + 1 /\ Window = w + 1
    BY ProbeNumbers
<1> HIDE DEF m, w
<1>4. m * a <= l * w
    BY DEF m, w
<1>5. m * (a + dt) = m * a + m * dt /\ (l + 1) * w = l * w + w
    BY <1>1
<1>6. /\ m * a \in Int /\ m * dt \in Int /\ l * w \in Int
    BY <1>1
<1>7. m * (a + dt) <= (l + 1) * w
    BY <1>1, <1>2, <1>4, <1>5, <1>6
<1>8. ASSUME a + dt >= Window, l + 1 < MinSamples
      PROVE  FALSE
    <2>1. l + 1 <= m /\ m >= 1 /\ a + dt >= w + 1
        BY <1>1, <1>3, <1>8
    <2>2. \A x, y, z \in Nat : x <= y => x * z <= y * z /\ z * x <= z * y
        OBVIOUS
    <2>3. (l + 1) * w <= m * w
        BY <1>1, <2>1, <2>2
    <2>4. m * (w + 1) <= m * (a + dt)
        BY <1>1, <2>1, <2>2
    <2>5. m * (w + 1) = m * w + m
        BY <1>1
    <2>6. m * w \in Int /\ m * (a + dt) \in Int /\ (l + 1) * w \in Int
        BY <1>1
    <2> QED BY <1>1, <1>7, <2>1, <2>3, <2>4, <2>5, <2>6
<1> QED
    BY <1>1, <1>3, <1>7, <1>8 DEF m, w

\* The sums by which a flag that is due comes nearer in a cycle: of settling,
\* of sampling, and at the end of a window.
LEMMA DueSums ==
    ASSUME NEW q \in Nat, NEW r \in Nat, r <= q + 1, NEW t \in Nat,
           NEW a \in Nat, NEW dt \in Nat, dt > 0, NEW left \in Nat,
           NEW w \in Nat, NEW z \in Nat, NEW d \in Nat
    PROVE  /\ q + z - t - 1 + left <= d => r + z - (t + dt) - 1 + left <= d
           /\ q + z - t - 1 + left <= d /\ t < z => q - 0 + left <= d
           /\ q - a + left <= d => r - (a + dt) + left <= d
           /\ q - a + (left + w) <= d =>
                r - (a + dt) + left <= d /\ r - (a + dt) + (left + w) <= d
           /\ a < w /\ q - a + left <= d => r - 0 + (left - w) <= d
           /\ a < w /\ q - a + (left + w) <= d =>
                r - 0 + left <= d /\ r - 0 + (left - w) <= d
    OBVIOUS

\* A cycle of still water in which every probe is read: the window g becomes h.
LEMMA DueNearer ==
    ASSUME ProbeAssumption, WindowsFill, NEW dt \in Steps, NEW p \in Probes,
           NEW g \in WindowRecords, NEW h \in WindowRecords,
           NEW q \in Nat, NEW r \in Nat, r <= q + 1,
           NEW n \in 0 .. Streak, n < Streak, NEW k \in 0 .. Streak,
           g.still < Settle => g.age = 0,
           g.age = 0 => g.samples[p] = <<>>,
           NEW s, Len(s) = Len(g.samples[p]) + 1,
           h.still = Least(g.still + dt, Settle),
           NEW ends, ends = (g.still + dt >= Settle /\ g.age + dt >= Window),
           IF g.still + dt < Settle \/ ends
           THEN h.age = 0 /\ h.samples[p] = <<>>
           ELSE h.age = g.age + dt /\ h.samples[p] = s,
           IF ends /\ Len(s) >= MinSamples THEN k = n + 1 ELSE k = n,
           Due(q, g, n, p) <= Deadline
    PROVE  Due(r, h, k, p) <= Deadline
<1> DEFINE t == g.still
           a == g.age
           l == Len(g.samples[p])
           left == (Streak - n) * Window
           w == Window
           z == Settle
           d == Deadline
<1>1. t \in Nat /\ t <= z /\ a \in Nat /\ a < w
    <2>1. t \in 0 .. z /\ a \in 0 .. w - 1
        BY DEF WindowRecords
    <2>2. z \in Nat /\ w \in Nat
        BY ProbeNumbers
    <2> QED BY <2>1, <2>2
<1>2. z \in Nat /\ w \in Nat /\ dt \in Nat /\ dt > 0 /\ d \in Nat
    BY ProbeNumbers, DeadlineNat
<1>3. left \in Nat
    BY WindowsLeft
<1>4. (Streak - (n + 1)) * Window = left - w
    BY WindowsLeft
<1>5. l \in Nat /\ Len(s) = l + 1
    <2>1. g.samples[p] \in Seq(Int)
        BY DEF WindowRecords
    <2> QED BY <2>1, LenProperties
<1>6. t < z => Filling(g, p)
    BY EmptyFills
<1>7. /\ t < z => q + z - t - 1 + left <= d
      /\ ~(t < z) /\ Filling(g, p) => q - a + left <= d
      /\ ~(t < z) /\ ~Filling(g, p) => q - a + (left + w) <= d
    BY DEF Due
<1>8. ASSUME Filling(g, p)
      PROVE  /\ a + dt >= w => l + 1 >= MinSamples
             /\ \/ l + 1 >= MinSamples
                \/ (MinSamples - 1) * (a + dt) <= (l + 1) * (w - 1)
    <2>1. CASE l >= MinSamples
        <3>1. MinSamples \in Nat
            BY ProbeNumbers
        <3> HIDE DEF l
        <3> QED BY <1>5, <2>1, <3>1
    <2>2. CASE (MinSamples - 1) * a <= l * (w - 1)
        <3> HIDE DEF l, a
        <3> QED BY <1>1, <1>5, <2>2, FillsOn
    <2> QED BY <1>8, <2>1, <2>2 DEF Filling
<1>9. CASE t + dt < z
    <2>1. ~ends
        <3>1. ~(g.still + dt >= Settle)
            BY <1>1, <1>2, <1>9
        <3> QED BY <3>1
    <2>2. k = n
        BY <2>1
    <2>3. h.still = t + dt /\ t < z
        BY <1>1, <1>2, <1>9 DEF Least
    <2>4. Due(r, h, k, p) = r + z - (t + dt) - 1 + left
        BY <1>9, <2>2, <2>3 DEF Due
    <2>5. q + z - t - 1 + left <= d
        BY <1>7, <2>3
    <2> HIDE DEF t, left, z, d
    <2>6. r + z - (t + dt) - 1 + left <= d
        BY <1>1, <1>2, <1>3, <2>5, DueSums
    <2> QED BY <2>4, <2>6 DEF d
<1>10. ASSUME ~(t + dt < z)
       PROVE  /\ h.still = z /\ ~(h.still < z)
              /\ Filling(g, p) => q - a + left <= d
              /\ ~Filling(g, p) => q - a + (left + w) <= d
    <2>1. h.still = z
        BY <1>1, <1>2, <1>10 DEF Least
    <2>2. ~(h.still < z)
        BY <1>2, <2>1
    <2>3. CASE t < z
        <3>1. a = 0 /\ Filling(g, p)
            BY <1>6, <2>3
        <3>2. q + z - t - 1 + left <= d
            BY <1>7, <2>3
        <3> HIDE DEF t, a, left, w, z, d
        <3>3. q - 0 + left <= d
            BY <1>1, <1>2, <1>3, <2>3, <3>2, DueSums
        <3> QED BY <2>1, <2>2, <3>1, <3>3
    <2>4. CASE ~(t < z)
        <3> HIDE DEF t, a, left, w, z, d
        <3> QED BY <1>7, <2>1, <2>2, <2>4
    <2> QED BY <2>3, <2>4
<1>11. CASE ~(t + dt < z) /\ ~ends
    <2>1. k = n /\ h.age = a + dt /\ h.samples[p] = s
        BY <1>11
    <2>2. Filling(g, p) => Filling(h, p)
        BY <1>5, <1>8, <2>1 DEF Filling
    <2>3. Due(r, h, k, p) = r - (a + dt) + (IF Filling(h, p) THEN left
                                                           ELSE left + w)
        BY <1>10, <1>11, <2>1 DEF Due
    <2> HIDE DEF t, a, left, w, z, d
    <2>4. CASE Filling(g, p)
        <3>1. Due(r, h, k, p) = r - (a + dt) + left
            BY <2>2, <2>3, <2>4
        <3>2. r - (a + dt) + left <= d
            BY <1>1, <1>2, <1>3, <1>10, <1>11, <2>4, DueSums
        <3> QED BY <3>1, <3>2 DEF d
    <2>5. CASE ~Filling(g, p)
        <3>1. /\ r - (a + dt) + left <= d
              /\ r - (a + dt) + (left + w) <= d
            BY <1>1, <1>2, <1>3, <1>10, <1>11, <2>5, DueSums
        <3> QED BY <2>3, <3>1 DEF d
    <2> QED BY <2>4, <2>5
<1>12. CASE ~(t + dt < z) /\ ends
    <2>1. h.age = 0 /\ h.samples[p] = <<>> /\ a + dt >= w
        BY <1>12
    <2>2. Filling(h, p)
        BY <2>1, EmptyFills
    <2>3. Due(r, h, k, p) = r - 0 + (Streak - k) * Window
        BY <1>10, <1>12, <2>1, <2>2 DEF Due
    <2>4. CASE Len(s) >= MinSamples
        <3>1. k = n + 1
            BY <1>12, <2>4
        <3>2. Due(r, h, k, p) = r - 0 + (left - w)
            BY <1>4, <2>3, <3>1
        <3> HIDE DEF t, a, left, w, z, d
        <3>3. CASE Filling(g, p)
            <4>1. r - 0 + (left - w) <= d
                BY <1>1, <1>2, <1>3, <1>10, <1>12, <3>3, DueSums
            <4> QED BY <3>2, <4>1 DEF d
        <3>4. CASE ~Filling(g, p)
            <4>1. r - 0 + (left - w) <= d
                BY <1>1, <1>2, <1>3, <1>10, <1>12, <3>4, DueSums
            <4> QED BY <3>2, <4>1 DEF d
        <3> QED BY <3>3, <3>4
    <2>5. CASE ~(Len(s) >= MinSamples)
        <3>1. k = n
            BY <2>5
        <3>2. ~Filling(g, p)
            BY <1>5, <1>8, <2>1, <2>5
        <3>3. Due(r, h, k, p) = r - 0 + left
            BY <2>3, <3>1
        <3> HIDE DEF t, a, left, w, z, d
        <3>4. r - 0 + left <= d
            BY <1>1, <1>2, <1>3, <1>10, <1>12, <3>2, DueSums
        <3> QED BY <3>3, <3>4 DEF d
    <2> QED BY <2>4, <2>5
<1> QED
    BY <1>9, <1>11, <1>12

\* A step in time.
LEMMA TimelyStep ==
    ASSUME ProbeAssumption, SteadyCenter, FaultShows, WindowsFill,
           ProbesBase, ProbesBase', Kept, Timely, [ProbesNext]_probesVars
    PROVE  Timely'
<1>1. \A p \in Probes : /\ state[p] \in ProbeRecords
                        /\ state'[p] \in ProbeRecords
                        /\ state'[p].drifting \in 0 .. Streak
                        /\ state[p].drifting \in 0 .. Streak
    BY DEF ProbesBase, ProbesTyped, ProbeRecords
<1>2. settled' \subseteq Probes
    BY DEF ProbesBase, ProbesTyped
\* Whatever breaks the quiet leaves time enough.
<1>3. ASSUME quiet' = 0,
             saved' = saved \/ saved' = state',
             \A p \in Probes : InTime(state'[p])
      PROVE  Timely'
    <2>1. ASSUME NEW p \in Probes
          PROVE  Due(quiet', group', state'[p].drifting, p) <= Deadline
        <3>1. /\ group' \in WindowRecords
              /\ group'.age = 0 => group'.samples[p] = <<>>
            BY DEF ProbesBase, ProbesTyped, Sampling
        <3>2. Due(0, group', state'[p].drifting, p) <= Deadline
            BY <1>1, <3>1, DueAfresh
        <3> QED BY <1>3, <3>2
    <2> QED BY <1>2, <1>3, <2>1 DEF Timely
<1>4. ASSUME NEW p \in Probes,
             \/ SameJudgement(state[p], state'[p])
             \/ state'[p] \in {NewProbe, saved[p]}
      PROVE  InTime(state'[p])
    <2>1. CASE SameJudgement(state[p], state'[p])
        BY <1>4, <2>1 DEF Timely, SameJudgement, InTime
    <2>2. CASE state'[p] = NewProbe
        BY <2>2, ProbeNumbers DEF NewProbe, InTime
    <2>3. CASE state'[p] = saved[p]
        BY <1>4, <2>3 DEF Timely
    <2> QED BY <1>4, <2>1, <2>2, <2>3
<1>5. ASSUME NEW open \in Opened, NEW read \in Readable, NEW dt \in Steps,
             FlowingCycle(open, read, dt)
      PROVE  Timely'
    <2>1. \A p \in Probes : SameJudgement(state[p], state'[p])
        BY <1>5, FlowingEffect DEF ProbesBase
    <2>2. quiet' = 0 /\ saved' = saved
        BY <1>5 DEF FlowingCycle
    <2> QED BY <1>3, <1>4, <2>1, <2>2
<1>6. ASSUME NEW p \in Fragile, Slips(p)
      PROVE  Timely'
    <2>1. state' = state /\ quiet' = 0 /\ saved' = saved
        BY <1>6 DEF Slips
    <2> QED BY <1>3, <2>1 DEF Timely
<1>7. ASSUME \/ \E some \in Rooms : Reset(some)
             \/ \E clean \in BOOLEAN : Restart(clean)
      PROVE  Timely'
    <2>1. /\ \A p \in Probes : Renewed(state[p], saved[p], state'[p])
          /\ quiet' = 0 /\ (saved' = saved \/ saved' = state')
        BY <1>7, RenewEffect DEF ProbesBase
    <2>2. \A p \in Probes : \/ SameJudgement(state[p], state'[p])
                            \/ state'[p] \in {NewProbe, saved[p]}
        BY <2>1 DEF Renewed, SameJudgement
    <2> QED BY <1>3, <1>4, <2>1, <2>2
<1>8. ASSUME NEW read \in Readable, NEW dt \in Steps, StillCycle(read, dt)
      PROVE  Timely'
    <2>1. ASSUME NEW p \in Probes
          PROVE  InTime(state'[p])
        <3>1. CASE SameJudgement(state[p], state'[p])
            BY <1>4, <2>1, <3>1
        <3>2. CASE ~SameJudgement(state[p], state'[p])
            <4>1. StillJudged(p, state'[p])
                BY <1>8, <3>2, StillEffect DEF ProbesBase
            <4>2. PICK dev \in Int : \/ FoundOff(state[p], dev, state'[p])
                                     \/ FoundNear(state[p], dev, state'[p])
                BY <4>1 DEF StillJudged
            <4>3. CASE FoundOff(state[p], dev, state'[p]) /\ ~state'[p].drift
                <5>1. /\ ~(state[p].drifting + 1 >= Streak)
                      /\ state'[p].drifting = Least(state[p].drifting + 1, Streak)
                    BY <4>3 DEF FoundOff
                <5>2. state[p].drifting \in Int /\ Streak \in Int
                    BY <1>1, ProbeNumbers
                <5> QED BY <5>1, <5>2 DEF Least, InTime
            <4>4. CASE FoundNear(state[p], dev, state'[p])
                BY <4>4, ProbeNumbers DEF FoundNear, InTime
            <4> QED BY <4>2, <4>3, <4>4 DEF InTime
        <3> QED BY <3>1, <3>2
    <2>2. CASE read # Probes
        <3>1. quiet' = 0 /\ saved' = saved
            BY <1>8, <2>2 DEF StillCycle
        <3> QED BY <1>3, <2>1, <3>1
    <2>3. CASE read = Probes
        <3>1. /\ slipped' = slipped /\ saved' = saved
              /\ quiet' = Least(quiet + 1, Deadline)
              /\ Remember({})
            BY <1>8, <2>3 DEF StillCycle
        <3>2. /\ quiet \in Nat /\ quiet' \in Nat /\ quiet' <= quiet + 1
            <4>1. quiet \in Nat /\ quiet' \in Nat /\ Deadline \in Nat
                BY DeadlineNat DEF ProbesBase, ProbesTyped
            <4> QED BY <3>1, <4>1 DEF Least
        <3>3. ASSUME NEW p \in settled', p \in slipped', ~state'[p].drift
              PROVE  Due(quiet', group', state'[p].drifting, p) <= Deadline
            <4>1. p \in settled /\ p \in slipped /\ p \in Probes
                BY <3>1, <3>3, <1>2, RememberNone DEF ProbesBase, ProbesTyped
            <4> DEFINE s == Sampled(p, Probes, Center(Probes, slipped))
                       n == state[p].drifting
                       k == state'[p].drifting
                       ends == /\ group.still + dt >= Settle
                               /\ group.age + dt >= Window
            <4>2. WindowEnds(dt) <=> ends
                BY DEF WindowEnds
            <4>3. IF WindowEnds(dt) /\ Len(s) >= MinSamples
                  THEN StillJudged(p, state'[p])
                  ELSE SameJudgement(state[p], state'[p])
                BY <1>8, <2>3, <4>1, StillEffect DEF ProbesBase
            <4>4. ASSUME StillJudged(p, state'[p])
                  PROVE  ~state[p].drift /\ n < Streak /\ k = n + 1
                <5>1. PICK dev \in Int :
                        /\ Between(Reading(p, slipped), dev)
                        /\ \/ FoundOff(state[p], dev, state'[p])
                           \/ FoundNear(state[p], dev, state'[p])
                    BY <4>4 DEF StillJudged
                <5>2. /\ Learned(state[p])
                      /\ \A i \in DOMAIN state[p].base :
                            Between(Offset[p], state[p].base[i])
                    BY <4>1 DEF ProbesBase, Unspoilt, Kept, Own
                <5>3. Off(state[p], dev)
                    BY <1>1, <4>1, <5>1, <5>2, AlwaysOff
                <5>4. FoundOff(state[p], dev, state'[p])
                    BY <5>1, <5>3 DEF FoundNear
                <5>5. /\ ~state[p].drift /\ ~(n + 1 >= Streak)
                      /\ k = Least(n + 1, Streak)
                    BY <3>3, <5>4 DEF FoundOff
                <5>6. n \in Int /\ Streak \in Int
                    BY <1>1, <4>1, ProbeNumbers
                <5> HIDE DEF n, k
                <5> QED BY <5>5, <5>6 DEF Least
            <4>5. ASSUME SameJudgement(state[p], state'[p])
                  PROVE  ~state[p].drift /\ n < Streak /\ k = n
                BY <3>3, <4>1, <4>5 DEF SameJudgement, Timely, InTime
            <4>6. /\ ~state[p].drift /\ n < Streak
                  /\ IF WindowEnds(dt) /\ Len(s) >= MinSamples
                     THEN k = n + 1 ELSE k = n
                <5> HIDE DEF n, k, s
                <5> QED BY <4>3, <4>4, <4>5
            <4>7. Due(quiet, group, n, p) <= Deadline
                BY <4>1, <4>6 DEF Timely
            <4>8. /\ group \in WindowRecords /\ group' \in WindowRecords
                  /\ group.still < Settle => group.age = 0
                  /\ group.age = 0 => group.samples[p] = <<>>
                BY <4>1 DEF ProbesBase, ProbesTyped, Sampling
            <4>9. /\ group'.still = Least(group.still + dt, Settle)
                  /\ IF group.still + dt < Settle \/ ends
                     THEN group'.age = 0 /\ group'.samples[p] = <<>>
                     ELSE /\ group'.age = group.age + dt
                          /\ group'.samples[p] = s
                BY <1>8, <2>3, <4>1, <4>2, WindowEffect DEF ProbesBase
            <4>10. Len(s) = Len(group.samples[p]) + 1
                BY <2>3, <4>1, SampledEffect DEF ProbesBase, WindowsFill
            <4>11. n \in 0 .. Streak /\ k \in 0 .. Streak
                BY <1>1, <4>1
            <4>12. IF ends /\ Len(s) >= MinSamples THEN k = n + 1 ELSE k = n
                BY <4>2, <4>6
            <4> HIDE DEF n, k, s, ends
            <4>13. ends = (/\ group.still + dt >= Settle
                           /\ group.age + dt >= Window)
                BY DEF ends
            <4>14. Due(quiet', group', k, p) <= Deadline
                BY <3>2, <4>1, <4>6, <4>7, <4>8, <4>9, <4>10, <4>11, <4>12,
                   <4>13, DueNearer
            <4> QED BY <4>14 DEF k
        <3> QED BY <1>2, <2>1, <3>1, <3>3 DEF Timely
    <2> QED BY <2>2, <2>3
<1>9. CASE UNCHANGED probesVars
    BY <1>9 DEF probesVars, Timely
<1> QED
    BY <1>5, <1>6, <1>7, <1>8, <1>9 DEF ProbesNext

----------------------------------------------------------------------------
(* The theorems.                                                           *)

\* The monitor keeps its types and the bounds of its counters.
THEOREM ProbesTypesHold ==
    ASSUME ProbeAssumption
    PROVE  ProbesSpec => []ProbesTypeOK
<1>1. ASSUME ProbesBase
      PROVE  ProbesTypeOK
    <2>1. quiet <= Deadline
        BY <1>1, DeadlineNat DEF ProbesBase, ProbesTyped
    <2>2. ASSUME NEW p \in Probes
          PROVE  /\ Len(state[p].base) <= BaselineMax
                 /\ state[p].drifting <= Streak /\ state[p].healthy <= Streak
                 /\ state[p].since <= Spacing /\ state[p].held <= Persist
        <3>1. state[p] \in ProbeRecords
            BY <1>1 DEF ProbesBase, ProbesTyped
        <3> QED BY <3>1 DEF ProbeRecords, Baselines
    <2>3. ASSUME NEW p \in Probes
          PROVE  Len(group.samples[p]) <= Window
        <3>1. /\ group.samples[p] \in Seq(Int)
              /\ group.age \in 0 .. Window - 1
              /\ Len(group.samples[p]) <= group.age
            BY <1>1 DEF ProbesBase, ProbesTyped, WindowRecords, Sampling
        <3>2. Len(group.samples[p]) \in Int /\ Window \in Int
            BY <3>1, ProbeNumbers, LenProperties
        <3> QED BY <3>1, <3>2
    <2> QED
        BY <1>1, <2>1, <2>2, <2>3 DEF ProbesBase, ProbesTyped, ProbesTypeOK
<1> QED
    BY <1>1, BaseAlways, PTL

\* A probe that never slipped, and was not judged alone against a bad main
\* supply, is never flagged: one bad probe of a manifold, or a bad main
\* supply, hides no other probe from the safety rules.
THEOREM NeverFlagsTheGood ==
    ASSUME ProbeAssumption, OneFault, SteadyCenter
    PROVE  ProbesSpec => []NoFalseFlag
<1> DEFINE Inv == ProbesBase /\ Unflagged
<1>1. ProbesInit => Inv
    BY BaseInit DEF ProbesInit, Unflagged, NewProbe
<1>2. Inv /\ [ProbesNext]_probesVars => Inv'
    BY BaseStep, UnflaggedStep
<1>3. Inv => NoFalseFlag
    BY DEF Unflagged, NoFalseFlag, Flagged
<1> QED
    BY <1>1, <1>2, <1>3, PTL DEF ProbesSpec

LEMMA KeptAlways ==
    ASSUME ProbeAssumption, SteadyCenter, FaultShows
    PROVE  ProbesSpec => [](ProbesBase /\ Kept)
<1> DEFINE Inv == ProbesBase /\ Kept
<1>1. ProbesInit => Inv
    BY BaseInit DEF ProbesInit, Kept
<1>2. Inv /\ [ProbesNext]_probesVars => Inv'
    BY BaseStep, KeptStep
<1> QED
    BY <1>1, <1>2, PTL DEF ProbesSpec

\* The baseline a probe learned before it slipped stays within the largest
\* offset of its own, however long and however often the fault lasts.
THEOREM BaselineNotPulled ==
    ASSUME ProbeAssumption, OneFault, SteadyCenter, FaultShows, SmallOffsets
    PROVE  ProbesSpec => []BaselineStaysClean
<1>1. ASSUME ProbesBase, Kept
      PROVE  BaselineStaysClean
    <2> SUFFICES ASSUME NEW p \in settled
                 PROVE  Apart(Median(state[p].base), Offset[p]) <= Spread
        BY DEF BaselineStaysClean
    <2>1. /\ p \in Probes /\ state[p] \in ProbeRecords /\ Learned(state[p])
          /\ \A i \in DOMAIN state[p].base :
                Between(Offset[p], state[p].base[i])
        BY <1>1 DEF ProbesBase, ProbesTyped, Unspoilt, Kept, Own
    <2>2. state[p].base \in Seq(Int)
        BY <2>1 DEF ProbeRecords, Baselines
    <2>3. Len(state[p].base) > 0
        BY <2>1, <2>2, ProbeNumbers, LenProperties DEF Learned
    <2>4. Offset[p] \in Int /\ Spread \in Nat
        BY <2>1, ProbeNumbers
    <2> DEFINE m == Median(state[p].base)
    <2>5. m \in Int /\ Between(Offset[p], m)
        BY <2>1, <2>2, <2>3, <2>4, MedianOfBetween
    <2> HIDE DEF m
    <2>6. PICK c \in Centers, e \in Centers :
            Offset[p] - c <= m /\ m <= Offset[p] - e
        BY <2>5 DEF Between
    <2>7. /\ c \in Int /\ e \in Int /\ c <= Spread /\ -Spread <= e
        BY CentersInt, CentersSmall
    <2>8. Apart(m, Offset[p]) <= Spread
        BY <2>4, <2>5, <2>6, <2>7 DEF Apart
    <2> QED BY <2>8 DEF m
<1> QED
    BY <1>1, KeptAlways, PTL

\* A probe that slipped, and whose baseline was learned before, is flagged at
\* the latest Deadline cycles into still water: a restart, a relearning of
\* others or a slip back and forth never makes it later.
THEOREM FaultFlaggedInTime ==
    ASSUME ProbeAssumption, SteadyCenter, FaultShows, WindowsFill
    PROVE  ProbesSpec => []FaultIsFlagged
<1> DEFINE Inv == ProbesBase /\ Kept /\ Timely
<1>1. ProbesInit => Inv
    <2>1. ASSUME ProbesInit
          PROVE  Timely
        BY <2>1, ProbeNumbers DEF ProbesInit, Timely, InTime, NewProbe
    <2> QED BY <2>1, BaseInit DEF ProbesInit, Kept
<1>2. Inv /\ [ProbesNext]_probesVars => Inv'
    BY BaseStep, KeptStep, TimelyStep
<1>3. ASSUME Inv
      PROVE  FaultIsFlagged
    <2> SUFFICES ASSUME NEW p \in settled, p \in slipped, quiet = Deadline,
                        ~state[p].drift
                 PROVE  FALSE
        BY DEF FaultIsFlagged
    <2> DEFINE n == state[p].drifting
               left == (Streak - n) * Window
    <2>1. /\ p \in Probes /\ group \in WindowRecords
          /\ state[p] \in ProbeRecords /\ n < Streak
          /\ Due(Deadline, group, n, p) <= Deadline
        BY <1>3 DEF ProbesBase, ProbesTyped, Timely, InTime
    <2>2. n \in 0 .. Streak
        BY <2>1 DEF ProbeRecords
    <2>3. left >= Window /\ left \in Nat
        BY <2>1, <2>2, WindowsLeft
    <2>4. /\ Deadline \in Nat /\ Settle \in Nat /\ Window \in Nat
          /\ Window > 0
          /\ group.still \in 0 .. Settle /\ group.age \in 0 .. Window - 1
        BY <2>1, DeadlineNat, ProbeNumbers DEF WindowRecords
    <2>5. Due(Deadline, group, n, p) =
            IF group.still < Settle
            THEN Deadline + Settle - group.still - 1 + left
            ELSE Deadline - group.age + (IF Filling(group, p) THEN left
                                                          ELSE left + Window)
        BY DEF Due
    <2> HIDE DEF left, n
    <2> QED BY <2>1, <2>3, <2>4, <2>5
<1> QED
    BY <1>1, <1>2, <1>3, PTL DEF ProbesSpec
=============================================================================
