--------------------------- MODULE CompressorGuard ---------------------------
(***************************************************************************)
(* What a fast source's controller promises its compressor, whatever the   *)
(* weather, the user and the radio do: left to itself it never stops a run *)
(* before MinOn, never ends a pause before MinOff and never reverses the   *)
(* refrigerant without a pause.  Only two things cut a dwell short: a      *)
(* force (safety, OFF, a lost sensor) and the adoption of what the unit    *)
(* was found doing.  An adopted unit's clock starts with at most the       *)
(* length of the cycle that found it.  A unit that yields to its multisplit *)
(* group stops only a run that was long enough.                            *)
(***************************************************************************)
EXTENDS Integers

CONSTANTS MinOn, MinOff, Cap, Dts

VARIABLES
    run,    \* the commanded direction
    clock,  \* how long the guard has known it, saturating at Cap
    cause   \* what the last step was allowed to do

vars == <<run, clock, cause>>

Dirs == {"OFF", "HEATING", "COOLING"}

Capped(t) == IF t <= Cap THEN t ELSE Cap

Init == run = "OFF" /\ clock = Cap /\ cause = "none"

Keep(dt) == run' = run /\ clock' = Capped(clock + dt)

Start(dt) ==
    /\ run = "OFF" /\ run' \in Dirs \ {"OFF"}
    /\ Capped(clock + dt) >= MinOff
    /\ clock' = 0

Stop(dt) ==
    /\ run # "OFF" /\ run' = "OFF"
    /\ Capped(clock + dt) >= MinOn
    /\ clock' = 0

Free(dt) == cause' = "none" /\ (Keep(dt) \/ Start(dt) \/ Stop(dt))

\* A forced step may change the direction at once; a change restarts the
\* clock, and the clock never gains.
Force(dt) ==
    /\ cause' = "force"
    /\ run' \in Dirs
    /\ \/ clock' = 0
       \/ Keep(dt)

Adopt(dt) ==
    /\ cause' = "adopt"
    /\ run' \in Dirs
    /\ clock' = 0 \/ clock' = Capped(dt) \/ Keep(dt)

\* A step that yields to another unit of the same outdoor unit: it may stop a
\* run that was long enough, or take back a start before it happened.
Yield(dt) ==
    /\ cause' = "yield"
    /\ run' = "OFF" /\ clock' = 0
    /\ run = "OFF" \/ Capped(clock + dt) >= MinOn

Next == \E dt \in Dts : Free(dt) \/ Force(dt) \/ Adopt(dt) \/ Yield(dt)

Spec == Init /\ [][Next]_vars
============================================================================
