--------------------------- MODULE CoolingBuilding ---------------------------
(***************************************************************************)
(* The rooms above the cooling setpoint: how one cycle of the coordinator   *)
(* makes the inputs of the flicker and its writer out of what every room's  *)
(* step saw, BuildingController.step with the global safe dew point and     *)
(* cooling_demand with its loop-weighted gate.  The heat-pump link below is *)
(* HpFlicker, which leaves those inputs free.                               *)
(***************************************************************************)
EXTENDS HpFlicker, FiniteSetsExt

CONSTANTS
    Rooms,    \* the configured rooms
    Openings, \* a room's final valve position times its loops
    MinOpen   \* hp_flicker_min_open_pct

VARIABLE dews \* room -> what it gave the last cycle's safe dew point

Readings ==
    [live    : BOOLEAN,              \* its state: live or off
     stepped : BOOLEAN,              \* its start-up grace is over
     fails   : BOOLEAN,              \* its controller raises
     cooled  : BOOLEAN,              \* cooling_enabled
     temp    : BOOLEAN,              \* the temperature is known
     humid   : BOOLEAN,              \* so is a humidity above zero
     dew     : Dews \ {NoReading},   \* padded for its age, with the margin
     warm    : BOOLEAN,              \* above its setpoint by the demand error
     free    : BOOLEAN,              \* hardly throttled by its own dew point
     open    : Openings]

Homes ==
    [cooling : BOOLEAN, parked : BOOLEAN, dhw : BOOLEAN,
     crashes : BOOLEAN,              \* the whole building step raises
     freq    : {"none", "idle", "runs"}, ret : Returns \cup {NoReading}]

\* A room that is off is stepped in mode OFF.  A room whose controller raised
\* still counts.
Counted(home, r) ==
    /\ r.stepped /\ ~home.crashes /\ home.cooling /\ r.live
    /\ r.cooled /\ r.temp /\ r.humid

SafeDew(home, rs) ==
    LET known == {rs[r].dew : r \in {q \in Rooms : Counted(home, rs[q])}}
    IN  IF known = {} THEN {NoReading}
        ELSE {d \in known : \A c \in known : c <= d}

\* The report of a raised step has no error to call with.
Calls(home, r) == Counted(home, r) /\ ~r.fails /\ r.warm /\ r.free

Calling(home, rs) == {r \in Rooms : Calls(home, rs[r])}

OpenPct(home, rs) ==
    MapThenSumSet(LAMBDA r : rs[r].open, Calling(home, rs))

CoolingDemand(home, rs) ==
    Calling(home, rs) # {} /\ OpenPct(home, rs) >= MinOpen

HpWritesEnabled(home, rs) == ~home.parked /\ \E r \in Rooms : rs[r].live

\* Without an active flicker the demand is not looked at, and without demand
\* neither are the pump's readings.
InputOf(home, rs, d) ==
    LET owns   == HpWritesEnabled(home, rs)
        active == home.cooling /\ owns /\ ~home.dhw /\ d # NoReading
        wanted == active /\ CoolingDemand(home, rs)
    IN  [cooling |-> home.cooling, owned |-> owns,
         dhw |-> home.dhw /\ owns /\ d # NoReading, demand |-> wanted,
         freq |-> IF wanted THEN home.freq ELSE "none",
         ret  |-> IF wanted THEN home.ret ELSE NoReading, dew |-> d]

\* A room with a temperature is never in its start-up grace.
BuildingCycle(home, rs, e) ==
    /\ \A r \in Rooms : rs[r].stepped \/ (grace > 0 /\ ~rs[r].temp)
    /\ \E d \in SafeDew(home, rs) : Cycle(InputOf(home, rs, d), e)
    /\ first' = (first /\ \A r \in Rooms : ~rs[r].stepped)
    /\ dews' = [r \in Rooms |->
                  IF Counted(home, rs[r]) THEN rs[r].dew ELSE NoReading]

BuildingInit == Init /\ dews = [r \in Rooms |-> NoReading]

BuildingNext ==
    \/ \E home \in Homes, rs \in [Rooms -> Readings], e \in Elapsed :
          BuildingCycle(home, rs, e)
    \/ (LinkChange \/ Rebuild) /\ UNCHANGED dews

BuildingSpec == BuildingInit /\ [][BuildingNext]_<<vars, dews>>

----------------------------------------------------------------------------
(* Correctness.                                                            *)

\* The water of an owned pump is not asked to be below the dew point of any
\* room the last cycle counted, pulse or not, whichever room makes the
\* maximum, whichever rooms are off, raise or are in their grace, unless it
\* was left there by a command the pump ignored.
EveryRoomIsDry ==
    owned /\ ~missed =>
        \A r \in Rooms : dews[r] # NoReading => target >= dews[r] - Reserve
=============================================================================
