--------------------------- MODULE SensorReadings ---------------------------
(***************************************************************************)
(* What reaches the controller from one sensor: the short cache that       *)
(* bridges a vanished entity, the age limits, the gate that holds a jump   *)
(* for confirmation, and what the coordinator derives from the reading of  *)
(* a room temperature (the age for S5, the start-up grace, the trend's     *)
(* reference, the building's watchdog).                                    *)
(*                                                                         *)
(* A cycle is a tick or a debounced recompute; between two of them any     *)
(* number of ticks of time pass and the entity may change at any point.    *)
(***************************************************************************)
EXTENDS Integers

CONSTANTS
    None,
    Gone, Bad,  \* the states "unavailable" and not a number
    Roles,      \* "room", "water", "humidity"
    Levels,     \* the values a sensor reports
    Absurd,     \* those outside the plausible range
    Gaps,       \* the ticks that may pass between two cycles
    MaxAge,     \* ROOM_TEMP_MAX_AGE_S, HUMIDITY_STALE_MAX_AGE_S or None, by role
    Fresh,      \* HUMIDITY_MAX_AGE_S
    Jump,       \* _TEMP_MAX_JUMP_K, _WATER_MAX_JUMP_K
    Confirm,    \* _TEMP_CONFIRM_MIN_AGE_S
    Cache,      \* ENTITY_STALE_MAX_SECONDS
    Hold,       \* _WATER_HOLD_MAX_S
    MaxDt,      \* _MAX_DT_SECONDS
    Timeout,    \* WATCHDOG_TIMEOUT_MINUTES
    Recovery,   \* WATCHDOG_RECOVERY_MINUTES
    Grace,      \* _STARTUP_GRACE_CYCLES
    Rebuilds,   \* the coordinator is rebuilt
    Cap         \* no age is counted beyond it

ASSUME ReadingsAssumption ==
    /\ None \notin Int /\ Gone \notin Int /\ Bad \notin Int
    /\ None # Gone /\ None # Bad /\ Gone # Bad
    /\ Roles \subseteq {"room", "water", "humidity"}
    /\ Levels \subseteq Int /\ Absurd \subseteq Levels
    /\ Gaps \subseteq Nat
    /\ MaxAge \in [Roles -> Nat \cup {None}]
    /\ {Fresh, Jump, Confirm, Cache, Hold, MaxDt, Timeout, Recovery, Grace, Cap}
         \subseteq Nat
    /\ \A r \in Roles : MaxAge[r] # None => MaxAge[r] < Cap
    /\ Confirm > 0
    /\ Cap > Cache /\ Cap > Hold /\ Cap > Confirm /\ Cap > Grace
    /\ Cap > Timeout /\ Cap > Recovery /\ Cap > MaxDt
    /\ Rebuilds \in BOOLEAN

Distance(a, b) == IF a <= b THEN b - a ELSE a - b
Near(a, b) == Distance(a, b) <= Jump
Older(age, d) == IF age = None THEN None ELSE IF age + d < Cap THEN age + d ELSE Cap

VARIABLES
    role,      \* what the sensor is to the controller
    entity,    \* its state in Home Assistant: a level and the age of its report
    cache,     \* entity_cache
    accepted,  \* _temp_last_accepted, _water_last_accepted
    pending,   \* _temp_pending, _water_pending
    room,      \* _room_last_fresh, _room_temp_seen, _built_monotonic
    trend,     \* the age of _prev_t_room, and _pending_dt_s
    dog,       \* _last_heartbeat, _fresh_since, _watchdog_faulted, the state
    seen       \* the cycle just made, with what the properties compare it to

vars == <<role, entity, cache, accepted, pending, room, trend, dog, seen>>

\* Every record of a value remembers the age of the report it came from.
Empty == [val |-> None, age |-> None, report |-> None]

NewRoom == [fresh |-> None, known |-> FALSE, built |-> 0]
NewDog == [heartbeat |-> 0, since |-> None, faulted |-> FALSE, state |-> "stale"]
NewTrend == [age |-> None, told |-> 0]
NoCycle == [used |-> None, read |-> None, frac |-> "none", report |-> None,
            jumped |-> FALSE, straight |-> TRUE,
            streak |-> 0, run |-> 0, near |-> [v \in Levels |-> None]]

Init ==
    /\ role \in Roles
    /\ entity = [val |-> Gone, age |-> 0]
    /\ cache = Empty /\ accepted = Empty /\ pending = Empty
    /\ room = NewRoom /\ trend = NewTrend /\ dog = NewDog
    /\ seen = NoCycle

----------------------------------------------------------------------------
(* The entity, on its own.                                                 *)

Report ==
    /\ \E v \in Levels \cup {Bad} : entity' = [val |-> v, age |-> 0]
    /\ UNCHANGED <<role, cache, accepted, pending, room, trend, dog, seen>>

Vanish ==
    /\ entity.val # Gone
    /\ entity' = [val |-> Gone, age |-> 0]
    /\ UNCHANGED <<role, cache, accepted, pending, room, trend, dog, seen>>

----------------------------------------------------------------------------
(* read_float_state, over the records c and e as they are when it runs.    *)

TooOld(e) == MaxAge[role] # None /\ e.age > MaxAge[role]

FloatState(e, c) ==
    IF e.val = Gone
    THEN IF c.val # None /\ c.age <= Cache THEN c ELSE Empty
    ELSE IF TooOld(e) \/ e.val = Bad THEN Empty
    ELSE [val |-> e.val, age |-> 0, report |-> e.age]

Cached(e, c) ==
    IF e.val \in {Gone, Bad} \/ TooOld(e) THEN c
    ELSE [val |-> e.val, age |-> 0, report |-> e.age]

\* The jump gate of the room air and of the water probes.
Jumped(a, v) == a.val # None /\ ~Near(v, a.val)
ConfirmedAtOnce(p, v) == p.val # None /\ Near(v, p.val)
Confirmed(p, v) == p.val # None /\ Near(v, p.val) /\ p.age >= Confirm

Accepts(r, a, p) ==
    r.val # None /\ r.val \notin Absurd /\ (~Jumped(a, r.val) \/ Confirmed(p, r.val))

NextPendingAnew(r, a, p) ==
    IF r.val = None \/ r.val \in Absurd \/ Accepts(r, a, p) THEN Empty
    ELSE [r EXCEPT !.age = 0]

\* A candidate survives only a jump that agrees with it.
NextPending(r, a, p) ==
    IF r.val = None \/ r.val \in Absurd \/ Accepts(r, a, p) THEN Empty
    ELSE IF p.val # None /\ Near(r.val, p.val) THEN p
    ELSE [r EXCEPT !.age = 0]

\* A water probe is bridged by its last accepted value for a while.
Bridged(r, a) ==
    IF role = "water" /\ r.val # None /\ a.val # None /\ a.age <= Hold
    THEN a ELSE Empty

Value(r, a, p) ==
    IF role = "humidity" THEN IF r.val \in Absurd THEN Empty ELSE r
    ELSE IF Accepts(r, a, p) THEN r ELSE Bridged(r, a)

FractionOfLiving(u, e) ==
    IF role # "humidity" \/ u.val = None \/ e.val = Gone THEN "none"
    ELSE IF e.age <= Fresh THEN "none"
    ELSE IF e.age >= MaxAge[role] THEN "full" ELSE "part"

\* The staleness fraction of a humidity.
Fraction(u, e) ==
    IF role # "humidity" \/ u.val = None THEN "none"
    ELSE IF e.val = Gone THEN "full"
    ELSE IF e.age <= Fresh THEN "none"
    ELSE IF e.age >= MaxAge[role] THEN "full" ELSE "part"

----------------------------------------------------------------------------
(* One cycle of the coordinator, d ticks after the one before.             *)

Aged(rec, d) ==
    [rec EXCEPT !.age = Older(@, d), !.report = Older(@, d)]

WatchOnce(fresh, d) ==
    LET beat == IF fresh THEN 0 ELSE Older(dog.heartbeat, d)
        since == IF fresh /\ dog.since = None THEN 0 ELSE Older(dog.since, d)
        fault == beat > Timeout
        clear == ~fault /\ since # None /\ (~dog.faulted \/ since >= Recovery)
    IN  [heartbeat |-> beat, since |-> since,
         faulted |-> fault \/ (dog.faulted /\ ~clear),
         state |-> IF clear THEN "ok" ELSE "stale"]

\* The watchdog: a fault clears only after fresh data has kept coming.
Watch(fresh, d) ==
    LET beat == IF fresh THEN 0 ELSE Older(dog.heartbeat, d)
        since == IF ~fresh THEN None
                 ELSE IF dog.since = None THEN 0 ELSE Older(dog.since, d)
        fault == beat > Timeout
        clear == ~fault /\ since # None /\ (~dog.faulted \/ since >= Recovery)
    IN  [heartbeat |-> beat, since |-> since,
         faulted |-> fault \/ (dog.faulted /\ ~clear),
         state |-> IF clear THEN "ok" ELSE "stale"]

\* The start-up grace of a room that has not reported yet.
Stepped(known, built) == known \/ built >= Grace

\* A step is told the time since the last one up to MaxDt; when more passed,
\* the trend forgets its reference.  It samples once told time has passed.
Told(d) == IF d > MaxDt THEN MaxDt ELSE d

\* Mutant: a gap beyond the longest step is measured through.
ElapsedThrough(d) ==
    IF trend.age = None THEN NewTrend
    ELSE [age |-> Older(trend.age, d), told |-> Older(trend.told, Told(d))]

Elapsed(d) ==
    IF d > MaxDt \/ trend.age = None THEN NewTrend
    ELSE [age |-> Older(trend.age, d), told |-> Older(trend.told, Told(d))]
Samples(t) == t.age # None /\ t.told > 0
NextTrend(u, t) ==
    IF u.val = None THEN NewTrend
    ELSE IF t.age = None \/ Samples(t) THEN [age |-> 0, told |-> 0] ELSE t

\* What the properties read of a cycle: whether it took a jump over, whether
\* the trend divided by the time that really passed, how long readings have come without a gap, how long the
\* same level has been read, and how long levels near each one.
Seen(d, r, u, p, a, e, steps) ==
    [used |-> u.val, read |-> r.val, frac |-> Fraction(u, e), report |-> u.report,
     jumped |-> role # "humidity" /\ Accepts(r, a, p) /\ Jumped(a, r.val),
     straight |-> steps /\ u.val # None /\ Samples(Elapsed(d))
                  => Elapsed(d).age = Elapsed(d).told,
     streak |-> IF u.val = None \/ seen.used = None THEN 0
                ELSE IF seen.streak + d < Recovery THEN seen.streak + d ELSE Recovery,
     run |-> IF r.val = None \/ r.val # seen.read THEN 0
             ELSE IF seen.run + d < Confirm THEN seen.run + d ELSE Confirm,
     near |-> [v \in Levels |->
                 IF r.val = None \/ r.val \in Absurd \/ ~Near(r.val, v) THEN None
                 ELSE IF seen.near[v] = None THEN 0
                 ELSE IF seen.near[v] + d < Confirm THEN seen.near[v] + d ELSE Confirm]]

Cycle(d) ==
    LET e == [entity EXCEPT !.age = Older(@, d)]
        c == Aged(cache, d)
        a == Aged(accepted, d)
        p == Aged(pending, d)
        r == FloatState(e, c)
        u == Value(r, a, p)
        known == room.known \/ u.val # None
        built == Older(room.built, d)
        steps == role = "room" /\ Stepped(known, built)
    IN  /\ entity' = e
        /\ cache' = Cached(e, c)
        /\ accepted' = IF role # "humidity" /\ Accepts(r, a, p)
                       THEN [r EXCEPT !.age = 0] ELSE a
        /\ pending' = IF role = "humidity" THEN Empty ELSE NextPending(r, a, p)
        /\ room' = IF role # "room" THEN room
                   ELSE [fresh |-> IF u.val # None \/ room.fresh = None THEN 0
                                   ELSE Older(room.fresh, d),
                         known |-> known, built |-> built]
        /\ trend' = IF steps THEN NextTrend(u, Elapsed(d)) ELSE trend
        /\ dog' = IF role = "room" THEN Watch(u.val # None, d) ELSE dog
        /\ seen' = Seen(d, r, u, p, a, e, steps)
        /\ UNCHANGED role

\* A reload or a restart; the entity stays what it is.
Rebuild ==
    /\ Rebuilds
    /\ cache' = Empty /\ accepted' = Empty /\ pending' = Empty
    /\ room' = NewRoom /\ trend' = NewTrend /\ dog' = NewDog
    /\ seen' = NoCycle
    /\ UNCHANGED <<role, entity>>

Next == Report \/ Vanish \/ (\E d \in Gaps : Cycle(d)) \/ Rebuild

Spec == Init /\ [][Next]_vars

----------------------------------------------------------------------------
TypeOK ==
    /\ role \in Roles
    /\ entity.val \in Levels \cup {Gone, Bad} /\ entity.age \in 0 .. Cap
    /\ {cache.val, accepted.val, pending.val, seen.used} \subseteq Levels \cup {None}
    /\ {cache.age, accepted.age, pending.age, room.fresh, dog.since, trend.age}
         \subseteq 0 .. Cap \cup {None}
    /\ {room.built, dog.heartbeat} \subseteq 0 .. Cap
    /\ dog.state \in {"ok", "stale"}

(* A reading that jumped is taken over only after readings near it have    *)
(* come without an interruption for the time of confirmation, however many *)
(* recomputes fall into it (read_room_temperature, read_water_temperature).*)
JumpNeedsTime ==
    seen.jumped => \E w \in Levels : /\ Near(w, seen.read)
                                     /\ seen.near[w] # None /\ seen.near[w] >= Confirm

(* A humidity reported longer ago than it counts as fresh never reaches    *)
(* the dew points without its pad, whichever way it came (read_humidity).  *)
PadIsHonest ==
    role = "humidity" /\ seen.used # None /\ seen.report > Fresh => seen.frac # "none"

(* The trend divides a change by the time it really took, over recomputes, *)
(* gaps of the sensor and gaps of the coordinator (TrendEstimator,         *)
(* invalidate_trends).                                                     *)
TrendIsStraight == seen.straight

(* The watchdog's "ok" means data in this very cycle, and after a fault it *)
(* comes back only with data that has kept coming for the recovery time    *)
(* (_watchdog_state).                                                      *)
FaultClearsSlowly ==
    [][/\ dog'.state = "ok" => seen'.used # None
       /\ dog.faulted /\ ~dog'.faulted /\ dog'.state = "ok" => seen'.streak >= Recovery]_vars

(* A plausible level that has been read for the time of confirmation is    *)
(* what the controller uses: the gate never locks a real change out.       *)
RealChangeIsAdopted ==
    role # "humidity" /\ seen.run >= Confirm /\ seen.read \notin Absurd
    => seen.used = seen.read

=============================================================================
