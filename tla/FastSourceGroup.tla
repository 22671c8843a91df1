-------------------------- MODULE FastSourceGroup --------------------------
(***************************************************************************)
(* Rooms whose indoor units share one outdoor unit: BuildingController.step *)
(* with its group arbiter, over the machines of the rooms.  Every unit is   *)
(* seen and does what it is told; a user may set one by hand, a room may    *)
(* leave and rejoin live control, and a room may freeze (S3).               *)
(*                                                                         *)
(* The rooms have the same knobs.  err is setpoint - room in units of the   *)
(* arbiter's margin scale.                                                  *)
(***************************************************************************)
EXTENDS RoomFastSource, FiniteSetsExt

CONSTANTS
    Rooms,        \* the rooms of the group
    Margin,       \* _GROUP_CHALLENGER_HYSTERESIS_K
    GroupModes,   \* the building's modes considered
    Emergencies,  \* S3 can trigger
    Dt            \* the cycle

ASSUME GroupAssumption ==
    /\ IsFiniteSet(Rooms) /\ Margin \in Nat /\ Dt \in Nat \ {0}
    /\ GroupModes \subseteq Modes /\ Emergencies \in BOOLEAN
    /\ Kind = "SPLIT"

VARIABLES
    ms,      \* room -> its machine
    cmds,    \* room -> its emitted command
    units,   \* room -> what its unit does
    live,    \* the rooms under live control
    last,    \* _group_last_winner
    causes,  \* room -> what the last step was allowed to do to it
    conflict \* the last cycle's arbitration

vars == <<ms, cmds, units, live, last, causes, conflict>>

\* What an arbitration saw and did: each side's best excess (-1 without a
\* claimant), the pinned directions, the rooms that lost and the directions
\* the live rooms were told in the end.
Calm == [excess |-> [d \in {"HEATING", "COOLING"} |-> -1], pins |-> {},
         losers |-> {}, told |-> {}]

Init ==
    /\ ms = [r \in Rooms |-> ColdMachine]
    /\ cmds = [r \in Rooms |-> "OFF"]
    /\ units = [r \in Rooms |-> "off"]
    /\ live = Rooms
    /\ last = None
    /\ causes = [r \in Rooms |-> "none"]
    /\ conflict = Calm

----------------------------------------------------------------------------
(* The arbiter.  A proposal is what a room's own step produced, with the    *)
(* state the step began from.                                              *)

Propose(r, in) ==
    LET s == Step(ms[r], in, Dt)
    IN  [m |-> s.m, cmd |-> s.cmd, entry |-> Entry(ms[r], in).state,
         forced |-> "heat" \in in.alarms, dir |-> DirectionOf(s.cmd)]

\* fast_source_locked_on: it ran before the step and its minimal run is not
\* over.
LockedOn(p) == p.m.state # "OFF" /\ p.entry = p.m.state /\ p.m.dwell > 0

Pins(p) == LockedOn(p) \/ p.forced \/ Manual(p.m)

Excess(in) ==
    IF in.lost THEN 0
    ELSE Minus(IF in.err >= 0 THEN in.err ELSE -in.err, Deadband)

\* Each side's strongest claim, -1 without a claimant.
BestExcess(p, ins, on) ==
    [d \in {"HEATING", "COOLING"} |->
        Max({-1} \cup {Excess(ins[r]) : r \in {q \in on : p[q].dir = d}})]

Opposite(d) == IF d = "HEATING" THEN "COOLING" ELSE "HEATING"

\* The direction somebody already ran in, else the last winner.
Incumbent(p, on) ==
    LET running == {p[r].entry : r \in {q \in on : p[q].entry = p[q].dir}}
    IN  IF Cardinality(running) = 1 THEN CHOOSE d \in running : TRUE ELSE last

\* Mutant: the stronger claim wins outright.
StrongestClaim(p, ins, on) ==
    LET best == BestExcess(p, ins, on)
    IN  {d \in DOMAIN best : best[d] >= best[Opposite(d)]}

\* The directions that may win by strength: the incumbent is ousted only by
\* more than the margin; without one the strongest room wins (in a draw the
\* order of the rooms decides, which is left open).
ByExcess(p, ins, on) ==
    LET best == BestExcess(p, ins, on)
        inc  == Incumbent(p, on)
    IN  IF inc = None
        THEN {d \in DOMAIN best : best[d] >= best[Opposite(d)]}
        ELSE IF best[Opposite(inc)] > best[inc] + Margin THEN {Opposite(inc)}
                                                         ELSE {inc}

Pinned(p, on) == {p[r].dir : r \in {q \in on : Pins(p[q])}}

\* The possible winners among the rooms in on; None when nobody runs, or
\* when opposite directions are pinned and nobody is overridden.
Winners(p, ins, on) ==
    LET dirs == {p[r].dir : r \in on}
    IN  IF Cardinality(dirs) = 1 THEN dirs
        ELSE IF dirs = {} \/ Cardinality(Pinned(p, on)) = 2 THEN {None}
        ELSE IF Pinned(p, on) # {} THEN Pinned(p, on)
        ELSE ByExcess(p, ins, on)

\* Mutant: only the rooms that have just started can lose.
LateLosers(p, on, winner) ==
    {r \in on : winner # None /\ p[r].dir # winner /\ p[r].entry = "OFF"}

Losers(p, on, winner) == {r \in on : winner # None /\ p[r].dir # winner}

\* Mutant: the loser's command is withdrawn, its machine keeps running.
ResolvedInName(p) == [m |-> NoteCommand(p.m, "OFF"), cmd |-> "OFF"]

\* resolve_group_conflict
Resolved(p) == [m |-> NoteCommand(ForceOff(p.m), "OFF"), cmd |-> "OFF"]

----------------------------------------------------------------------------
Directed(c) == CASE c = "HEATING" -> "heat" [] c = "COOLING" -> "cool"
                 [] c = "DRY" -> "dry" [] OTHER -> "off"

InputOf(r, mode, err, frozen) ==
    [mode   |-> IF r \in live THEN mode ELSE "OFF",
     phys   |-> units[r], lost |-> FALSE,
     err    |-> err[r], dew |-> "unknown", quiet |-> FALSE,
     alarms |-> IF r = frozen THEN {"heat"} ELSE {}]

CauseOf(r, in, lost) ==
    IF Adopts(ms[r], in) THEN "adopt"
    ELSE IF Forced(in) THEN "force"
    ELSE IF r \in lost THEN "yield" ELSE "none"

\* Every room steps, then the live ones are arbitrated, then the commands of
\* the live rooms not held by the user are written and executed.
Cycle(mode, err, frozen) ==
    LET ins == [r \in Rooms |-> InputOf(r, mode, err, frozen)]
    IN \E p \in {[r \in Rooms |-> Propose(r, ins[r])]} :
       LET on == {r \in live : p[r].cmd # "OFF"}
       IN \E winner \in Winners(p, ins, on) :
          LET lost  == Losers(p, on, winner)
              after == [r \in Rooms |-> IF r \in lost THEN Resolved(p[r])
                                        ELSE [m |-> p[r].m, cmd |-> p[r].cmd]]
          IN  /\ ms' = [r \in Rooms |-> after[r].m]
              /\ cmds' = [r \in Rooms |-> after[r].cmd]
              /\ units' = [r \in Rooms |->
                             IF r \in live /\ ~Manual(after[r].m)
                             THEN Directed(after[r].cmd) ELSE units[r]]
              /\ last' = IF winner = None THEN last ELSE winner
              /\ causes' = [r \in Rooms |-> CauseOf(r, ins[r], lost)]
              /\ conflict' = [excess |-> BestExcess(p, ins, on),
                              losers |-> lost, pins |-> Pinned(p, on),
                              told |-> {DirectionOf(after[r].cmd) : r \in live}
                                           \ {"OFF"}]
              /\ UNCHANGED live

\* A user sets a unit by hand.
Touch(r, u) ==
    /\ u # units[r]
    /\ units' = [units EXCEPT ![r] = u]
    /\ UNCHANGED <<ms, cmds, live, last, causes, conflict>>

\* A room leaves live control and is parked (the farewell), or rejoins.
Leave(r) ==
    /\ r \in live
    /\ live' = live \ {r}
    /\ ms' = [ms EXCEPT ![r] = NoteCommand(ForceOff(@), "OFF")]
    /\ cmds' = [cmds EXCEPT ![r] = "OFF"]
    /\ units' = [units EXCEPT ![r] = "off"]
    /\ causes' = [q \in Rooms |-> IF q = r THEN "force" ELSE causes[q]]
    /\ UNCHANGED <<last, conflict>>

Join(r) ==
    /\ r \notin live
    /\ live' = live \cup {r}
    /\ UNCHANGED <<ms, cmds, units, last, causes, conflict>>

Next ==
    \/ \E mode \in GroupModes, err \in [Rooms -> Errors],
          frozen \in {None} \cup (IF Emergencies THEN Rooms ELSE {}) :
            Cycle(mode, err, frozen)
    \/ \E r \in Rooms, u \in {"off", "heat", "cool"} : Touch(r, u)
    \/ \E r \in Rooms : Leave(r) \/ Join(r)

Spec == Init /\ [][Next]_vars

----------------------------------------------------------------------------
(* Correctness.                                                            *)

TypeOK ==
    /\ ms \in [Rooms -> Machine]
    /\ cmds \in [Rooms -> Commands]
    /\ units \in [Rooms -> Readings]
    /\ live \subseteq Rooms
    /\ last \in {None, "HEATING", "COOLING"}
    /\ causes \in [Rooms -> {"none", "force", "adopt", "yield"}]
    /\ conflict.losers \subseteq Rooms

\* _arbitrate_fast_groups: the outdoor unit is told to heat and to cool in
\* one cycle only when both directions are pinned.
OneDirection ==
    Cardinality(conflict.told) > 1
        => conflict.pins = {"HEATING", "COOLING"}

\* resolve_group_conflict and fast_source_locked_on: losing an arbitration
\* never cuts a room's own minimal run or pause short; every room, whatever
\* the others do, keeps the promise to its compressor (CompressorGuard).
Guard(r) == INSTANCE CompressorGuard WITH
              run <- DirectionOf(cmds[r]), clock <- ms[r].timer,
              cause <- causes[r], Cap <- TimerCap, Dts <- {0, Dt}

GuardsKept ==
    /\ \A r \in Rooms : Guard(r)!Init
    /\ [][\A r \in Rooms : Guard(r)!Next \/ UNCHANGED Guard(r)!vars]_vars

\* _arbitrate_by_excess: an unpinned conflict takes the outdoor unit from
\* the direction that had it last only for a claim stronger by more than
\* the margin, however the rooms' demands and dwells fall (after a cycle in
\* which both directions were pinned nobody has the unit to himself).
TakeoverIsEarned ==
    [][conflict'.losers # {} /\ conflict'.pins = {}
         /\ last # None /\ last' # last /\ conflict.told \subseteq {last}
       => conflict'.excess[last'] > conflict'.excess[last] + Margin]_vars
============================================================================
