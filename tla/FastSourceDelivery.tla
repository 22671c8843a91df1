------------------------- MODULE FastSourceDelivery -------------------------
(***************************************************************************)
(* One room's fast source from the control step to the compressor: the     *)
(* coordinator's cycle, the writer with its command cache, the farewell of *)
(* a room that leaves live, reloads and restarts, a climate entity that    *)
(* comes and goes, a unit that executes commands late, and a user with a   *)
(* remote control.                                                         *)
(*                                                                         *)
(* A cycle is one step here: the event loop runs nothing of this room      *)
(* between its reads and its writes (service calls are fired without       *)
(* waiting), and what it wrote is executed later, in order.                *)
(***************************************************************************)
EXTENDS RoomFastSource, Sequences

CONSTANTS
    CycleLen,   \* cycle_seconds
    Lag,        \* a sent command is executed within this time
    Choices,    \* [mode, lost, err, dew] of a cycle
    Links,      \* the entity's conditions: "up", "unknown", "down"
    DryModes,   \* the entity advertises a dry mode
    Rebuilds,   \* reloads and restarts happen
    Promise,    \* how long a touch is to be left alone
    Units,      \* what a user may set the unit to
    MaxFlight   \* bound: commands sent and not executed

\* What a unit can be set to.
Settings == {"off", "heat", "cool", "dry"}

ASSUME DeliveryAssumption ==
    /\ CycleLen \in Nat \ {0} /\ HalfCycle <= CycleLen
    /\ Lag \in Nat /\ Promise \in Nat /\ MaxFlight \in Nat
    /\ Links \subseteq {"up", "unknown", "down"} /\ "up" \in Links
    /\ Units \subseteq Settings /\ Kind # "NONE"
    /\ Choices \subseteq [mode : Modes, lost : BOOLEAN, err : Errors,
                          dew : {"unknown", "low", "band", "high"}]
    /\ DryModes \in BOOLEAN /\ Rebuilds \in BOOLEAN

VARIABLES
    machine,  \* the room's machine in the current coordinator
    room,     \* "live" or "off"
    cache,    \* the writer's last command, None when forgotten
    pending,  \* an undelivered farewell OFF is to be retried
    due,      \* the farewell task of a room switched off is scheduled
    stamp,    \* how long an ON reading is still distrusted
    elapsed,  \* time since the last cycle
    first,    \* the coordinator has not stepped the core yet
    grace,    \* what is left of the start-up grace, 0 once seen
    link,     \* the climate entity as Home Assistant sees it
    flight,   \* commands sent and not executed, [c, age]
    unit,     \* what the unit physically does
    age,      \* how long it has been on, or off
    by,       \* who switched it last: "core" or "other"
    surprise, \* what the core has not absorbed: a touch, a lost or unsent OFF
    claim     \* how long the last touch is still protected

core == <<machine, cache, pending, due, stamp, elapsed, first, grace>>
plant == <<flight, unit, age, by>>
ghosts == <<surprise, claim>>
deliveryVars == <<core, room, link, plant, ghosts>>

DeliveryInit ==
    /\ machine = ColdMachine /\ room = "live"
    /\ cache = None /\ pending = FALSE /\ due = FALSE /\ stamp = 0
    /\ elapsed = CycleLen /\ first = TRUE /\ grace = 2 * CycleLen
    /\ link \in Links /\ flight = <<>>
    /\ unit \in {"off", "heat"} /\ age = TimerCap /\ by = "core"
    /\ surprise = {} /\ claim = 0

----------------------------------------------------------------------------
(* The unit, the radio and the clock.                                      *)

Effect(c) ==
    CASE c = "HEATING" -> "heat" [] c = "COOLING" -> "cool"
      [] c = "DRY" -> "dry" [] OTHER -> "off"

Toggled(p) == age' = IF Running(p) = Running(unit) THEN age ELSE 0

\* What the unit will do once it has executed what is on its way.
Outcome(f) == IF f = <<>> THEN unit ELSE Effect(f[Len(f)].c)

Send(c) == Append(flight, [c |-> c, age |-> 0])

Execute ==
    /\ flight # <<>>
    /\ flight' = Tail(flight)
    /\ unit' = Effect(Head(flight).c)
    /\ Toggled(Effect(Head(flight).c))
    /\ by' = IF unit' = unit THEN by
             ELSE IF surprise # {} THEN "other" ELSE "core"
    /\ UNCHANGED <<core, room, link, ghosts>>

\* A call to an entity that dropped out is lost, or executed after all.
Lose ==
    /\ flight # <<>> /\ link = "down"
    /\ flight' = Tail(flight)
    /\ surprise' = surprise \cup {"lost"} /\ by' = "other"
    /\ UNCHANGED <<core, room, link, unit, age, claim>>

\* The user changes the unit.  The touch is protected if the core, when it
\* next looks, can tell it from its own commands.
Touch(p) ==
    /\ p # unit
    /\ unit' = p /\ Toggled(p) /\ by' = "other"
    /\ surprise' = surprise \cup {"touch"}
    /\ claim' = IF /\ link = "up" /\ flight = <<>> /\ ~due
                   /\ room = "live" /\ machine.synced /\ stamp = 0
                   /\ Diverges(machine, p) /\ Hold > 0
                   /\ machine.since >= HalfCycle
                THEN Promise ELSE 0
    /\ UNCHANGED <<core, room, link, flight>>

\* The entity drops out or comes back; what was on its way when it dropped
\* out has been executed or lost before it is back.
LinkChange ==
    /\ link' \in Links \ {link}
    /\ link = "down" => flight = <<>>
    /\ claim' = 0
    /\ UNCHANGED <<core, room, plant, surprise>>

\* Time passes unless a cycle, a task or an execution is due now.
Pass ==
    /\ elapsed < CycleLen /\ ~due
    /\ \A i \in DOMAIN flight : flight[i].age < Lag
    /\ elapsed' = elapsed + 1
    /\ stamp' = Minus(stamp, 1)
    /\ grace' = Minus(grace, 1)
    /\ flight' = [i \in DOMAIN flight |-> [flight[i] EXCEPT !.age = @ + 1]]
    /\ age' = Least(age + 1, TimerCap)
    /\ claim' = Minus(claim, 1)
    /\ UNCHANGED <<machine, cache, pending, due, first, room, link, unit, by,
                   surprise>>

----------------------------------------------------------------------------
(* The farewell: OFF outside the control loop.                             *)

Reachable == link # "down"

\* Mutant: the farewell's OFF does not become the reference.
ParkedSilently(a) == ForceOff(a)

\* notify_fast_source_farewell.
Stopped(a) == NoteCommand(ForceOff(a), "OFF")

SwitchOff ==
    /\ room = "live" /\ room' = "off"
    /\ due' = TRUE
    /\ claim' = 0
    /\ UNCHANGED <<machine, cache, pending, stamp, elapsed, first, grace, link,
                   plant, surprise>>

SwitchOn ==
    /\ room = "off" /\ room' = "live"
    /\ pending' = FALSE
    /\ UNCHANGED <<machine, cache, due, stamp, elapsed, first, grace, link,
                   plant, ghosts>>

\* _async_farewell_room: the task set_room_state scheduled, or the unload.
Dispatched ==
    IF Reachable
    THEN /\ flight' = Send("OFF")
         /\ cache' = "OFF" /\ stamp' = CycleLen
    ELSE UNCHANGED <<flight, cache, stamp>>

\* Mutant: the farewell is one-shot.
OneShotFarewell ==
    /\ due /\ due' = FALSE
    /\ Len(flight) < MaxFlight
    /\ Dispatched
    /\ machine' = Stopped(machine)
    /\ claim' = 0
    /\ UNCHANGED <<pending, elapsed, first, grace, room, link, unit, age, by,
                   surprise>>

FarewellTask ==
    /\ due /\ due' = FALSE
    /\ Len(flight) < MaxFlight
    /\ Dispatched
    /\ machine' = Stopped(machine)
    /\ pending' = (~Reachable /\ room # "live")
    /\ surprise' = IF Reachable THEN surprise ELSE surprise \cup {"unsent"}
    /\ claim' = 0
    /\ UNCHANGED <<elapsed, first, grace, room, link, unit, age, by>>

----------------------------------------------------------------------------
(* The cycle.                                                              *)

\* The climate entity's state as the reader gives it.
Hvac == IF link = "up" THEN unit ELSE "gap"

\* A unit that reads as running within a cycle of its farewell reads as off.
Reading(dist) == IF Running(Hvac) /\ dist > 0 THEN "off" ELSE Hvac

\* A running unit distrusted after a farewell is a surprise to come.
Misread(dist) ==
    IF link = "up" /\ Reading(dist) # unit THEN {"distrust"} ELSE {}

InputOf(c, dist) ==
    [mode   |-> IF room = "off" THEN "OFF" ELSE c.mode,
     phys   |-> Reading(dist), lost |-> c.lost, err |-> c.err,
     dew    |-> c.dew, quiet |-> FALSE, alarms |-> {}]

\* A room whose sensor has not reported since the coordinator was built is
\* left alone for two cycles; another room may have been stepped meanwhile.
Waiting(c) == c.lost /\ grace > 0

\* write_fast_source: nothing for an entity that is unavailable, OFF for an
\* unsupported dry run, and a command already in the cache only for a new
\* target or the periodic re-assert.
Sent(r, again) ==
    LET demoted == r.cmd = "DRY" /\ ~DryModes
        c == IF demoted THEN "OFF" ELSE r.cmd
    IN  IF ~Reachable
        THEN machine' = r.m /\ UNCHANGED <<cache, flight>>
        ELSE /\ machine' = IF demoted THEN NoteWritten(r.m, "OFF") ELSE r.m
             /\ IF c # cache \/ again
                THEN cache' = c /\ flight' = Send(c)
                ELSE UNCHANGED <<cache, flight>>

\* A live room's command is written, unless a manual hold mirrors the unit:
\* then the last command is forgotten.
Write(r, again) ==
    IF Manual(r.m)
    THEN machine' = r.m /\ cache' = None /\ UNCHANGED flight
    ELSE Sent(r, again)

\* A retried farewell that lands leaves nothing else to write.
Retried == pending /\ room = "off" /\ Reachable

RoomCycle(c, again) ==
    LET dist == IF Retried THEN CycleLen ELSE stamp
        a    == IF Retried THEN Stopped(machine) ELSE machine
        in   == InputOf(c, dist)
        r    == Step(a, in, IF first THEN CycleLen ELSE elapsed)
    IN  /\ elapsed > 0 /\ ~due /\ Len(flight) < MaxFlight
        /\ elapsed' = 0
        /\ pending' = (pending /\ room = "off" /\ ~Retried)
        /\ stamp' = dist
        /\ IF Waiting(c)
           THEN /\ machine' = a /\ first' \in {first, FALSE}
                /\ UNCHANGED <<grace, ghosts>>
                /\ IF Retried THEN cache' = "OFF" /\ flight' = Send("OFF")
                              ELSE UNCHANGED <<cache, flight>>
           ELSE /\ first' = FALSE
                /\ grace' = IF c.lost THEN grace ELSE 0
                /\ IF Retried
                   THEN /\ machine' = r.m
                        /\ cache' = "OFF" /\ flight' = Send("OFF")
                   ELSE IF room = "live" THEN Write(r, again)
                   ELSE machine' = r.m /\ UNCHANGED <<cache, flight>>
                /\ surprise' = IF /\ machine'.visible /\ flight = <<>>
                                   /\ ~Diverges(machine', unit)
                                   /\ ~Diverges(machine', Outcome(flight'))
                                THEN {}
                                ELSE surprise \cup Misread(dist)
                /\ claim' = IF Forced(in) THEN 0 ELSE claim
        /\ UNCHANGED <<due, room, link, unit, age, by>>

----------------------------------------------------------------------------
(* A new coordinator: a cold machine, an empty cache, no pending farewell, *)
(* and a first refresh at once.                                            *)

Rebuilt ==
    /\ machine' = ColdMachine /\ pending' = FALSE
    /\ elapsed' = CycleLen /\ first' = TRUE /\ grace' = 2 * CycleLen
    /\ claim' = 0

\* Unloading parks a live room; the stamp is the module's and survives.
Reload ==
    /\ Rebuilds /\ ~due /\ Len(flight) < MaxFlight
    /\ Rebuilt /\ cache' = None
    /\ IF room = "live" /\ Reachable
       THEN flight' = Send("OFF") /\ stamp' = CycleLen
       ELSE UNCHANGED <<flight, stamp>>
    /\ UNCHANGED <<due, room, link, unit, age, by, surprise>>

\* A restart of Home Assistant parks nothing and forgets the stamp; it
\* takes longer than a command takes to be executed.
Restart ==
    /\ Rebuilds /\ flight = <<>>
    /\ Rebuilt /\ cache' = None /\ stamp' = 0 /\ due' = FALSE
    /\ link' \in Links
    /\ surprise' = IF due THEN surprise \cup {"unsent"} ELSE surprise
    /\ UNCHANGED <<room, plant>>

DeliveryNext ==
    \/ \E c \in Choices, again \in BOOLEAN : RoomCycle(c, again)
    \/ \E p \in Units : Touch(p)
    \/ Execute \/ Lose \/ LinkChange \/ Pass
    \/ SwitchOff \/ SwitchOn \/ FarewellTask
    \/ Reload \/ Restart

DeliverySpec == DeliveryInit /\ [][DeliveryNext]_deliveryVars

\* The scheduler: executions and tasks happen, time passes, and the update
\* coordinator's timer starts a cycle again and again.
Fairness ==
    /\ WF_deliveryVars(Pass) /\ WF_deliveryVars(Execute)
    /\ WF_deliveryVars(FarewellTask)
    /\ []<><<elapsed > 0 /\ elapsed' = 0>>_deliveryVars

\* An entity that drops out is, at infinitely many cycles, back.
ComesBack == []<><<Reachable /\ elapsed > 0 /\ elapsed' = 0>>_deliveryVars

FairSpec == DeliverySpec /\ Fairness /\ ComesBack

----------------------------------------------------------------------------
(* Correctness.                                                            *)

\* Every variable keeps its type and every named bound holds.
DeliveryTypeOK ==
    /\ machine \in Machine /\ room \in {"live", "off"}
    /\ cache \in Commands \cup {None}
    /\ pending \in BOOLEAN /\ due \in BOOLEAN /\ first \in BOOLEAN
    /\ stamp \in 0 .. CycleLen /\ elapsed \in 0 .. CycleLen
    /\ grace \in 0 .. 2 * CycleLen
    /\ link \in Links
    /\ flight \in Seq([c : Commands, age : 0 .. Lag])
    /\ Len(flight) <= MaxFlight
    /\ unit \in Settings /\ age \in 0 .. TimerCap /\ by \in {"core", "other"}
    /\ surprise \subseteq {"touch", "lost", "unsent", "distrust"}
    /\ claim \in 0 .. Promise

\* sync, _farewell_fast_source and write_fast_source together: the real
\* compressor, stopped by the controller, is not started by it again before
\* the minimal pause, less the one cycle of slack the sampled clock has and
\* the lag of a command, across gaps, farewells, reloads and restarts.
NoShortCycle ==
    [][by = "core" /\ unit = "off" /\ by' = "core" /\ unit' # "off"
         => age >= Minus(MinOff, CycleLen + Lag)]_deliveryVars

\* The settle rule, the farewell stamp and the re-seeded reference: a manual
\* hold begins only when something other than the controller's own delivered
\* commands has moved the unit or hidden its state.
NoFalseTouch ==
    [][machine.hold = 0 /\ machine'.hold > 0
         => surprise \cup surprise' # {}]_deliveryVars

\* The manual hold of sync, the skipped writes and forget_fast_source: a
\* unit the user set by hand is not moved by any command, the periodic
\* re-assert included, while the touch is protected.
TouchIsHonoured ==
    [][claim > 0 /\ Len(flight') < Len(flight) => unit' = unit]_deliveryVars

\* farewell_room and its retry: once the farewell has been carried out, a
\* room that is off has a stopped unit, unless somebody else started it.
OffRoomIsStopped ==
    room = "off" /\ by = "core" /\ surprise = {} /\ ~due /\ ~pending
    /\ flight = <<>> => unit = "off"

\* _async_farewell_room and the retries: a room switched off gets its unit
\* stopped in the end, however often the entity drops out meanwhile.
OffRoomStops ==
    due \/ pending ~> unit = "off" \/ room = "live" \/ "lost" \in surprise

\* decide under write_fast_source: a room whose demand persists and whose
\* unit nobody else moves is heated in the end and stays heated; no order of
\* off-cycle recomputes keeps the clocks from running out.
DemandIsServed ==
    <>[](room = "live" /\ link = "up" /\ surprise = {}) => <>[](unit = "heat")
=============================================================================
