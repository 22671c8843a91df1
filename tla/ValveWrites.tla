----------------------------- MODULE ValveWrites -----------------------------
(***************************************************************************)
(* How a valve command reaches one valve of one room, and how the valve is *)
(* let go: writers.py (write_valves, farewell_room, _farewell_valve) with  *)
(* the parts of coordinator.py that call it, the retry of a farewell that  *)
(* did not land, the tracker of command against feedback (S8) and the two  *)
(* ways the coordinator is rebuilt.                                        *)
(*                                                                         *)
(* Positions and commands are integers 0..Full.  A command that goes out   *)
(* lands at once, is dropped on its way (the calls do not block), or the   *)
(* call raises; an unreachable actuator gets none.                         *)
(***************************************************************************)
EXTENDS Integers

CONSTANTS
    FullyOpen,       \* 100 %
    Grid,            \* the positions the actuator can take
    Threshold,       \* valve_write_threshold_pct
    Tolerance,       \* _VALVE_FEEDBACK_DIVERGENCE_PCT, _VALVE_MISMATCH_TOLERANCE_PCT
    ReassertAge,     \* _VALVE_REASSERT_SECONDS
    MismatchCycles,  \* _VALVE_MISMATCH_CYCLES
    Elapsed          \* the times between two cycles

VARIABLES
    room,      \* "live" or "off"
    mode,      \* the home's mode
    cache,     \* the last position dispatched to the valve, or None
    age,       \* how long ago, up to ReassertAge
    pending,   \* a farewell's close did not land and is to be retried
    due,       \* farewell tasks scheduled and not yet run
    parked,    \* the entry is being unloaded
    mismatch,  \* cycles in a row with feedback away from the command
    pos,       \* where the valve stands
    lastRead,  \* the last position read, kept while a source is silent
    want,      \* history: the command of the last cycle
    met,       \* history: the last step was a cycle that reached the valve
    sure,      \* history: the last command was seen or made to stand
    stray,     \* history: a command was dropped, or someone moved the valve
    owed,      \* history: the valve was let go while the home was cooling
    blamed     \* history: a counted cycle had a stray valve or no fresh reading

writesVars == <<room, mode, cache, age, pending, due, parked, mismatch,
                pos, lastRead, want, met, sure, stray, owed, blamed>>

NotSent == -1
Positions == 0 .. FullyOpen
HomeModes == {"heating", "cooling", "transitional", "off"}
Outcomes == {"lands", "dropped", "raises", "unreachable"}

\* What a loop reads back: nothing or an implausible number, the position,
\* the last one within the stale window, or the device's own target.
Feedback == {"none", "fresh", "stale", "echo"}

Distance(a, b) == IF a < b THEN b - a ELSE a - b

\* A device takes the nearest position it has (round() for a valve entity).
Landed(v) == {g \in Grid : \A h \in Grid : Distance(g, v) <= Distance(h, v)}

Read(f) == CASE f = "fresh" -> pos
             [] f = "stale" -> lastRead
             [] f = "echo"  -> cache
             [] OTHER       -> NotSent

----------------------------------------------------------------------------
\* One service call: the cache remembers what was dispatched, whether or not
\* the device got it.
Dispatched(o) == o \in {"lands", "dropped"}

Send(v, o) ==
    /\ cache' = v /\ age' = 0
    /\ IF o = "lands"
       THEN pos' \in Landed(v) /\ stray' = FALSE
       ELSE stray' = TRUE /\ UNCHANGED pos

\* The farewell's call for one valve.
CloseValve(o) == Send(0, o)

Aged(e) == IF age + e < ReassertAge THEN age + e ELSE ReassertAge

\* The triggers, in the code's order: never written, threshold against the
\* last written, endpoint, age, feedback away from the last written.
MustWrite(v, e, f) ==
    \/ cache = NotSent
    \/ Distance(v, cache) >= Threshold
    \/ v \in {0, FullyOpen} /\ v # cache
    \/ Aged(e) >= ReassertAge
    \/ Read(f) # NotSent /\ Distance(Read(f), cache) > Tolerance

\* S8, before the write: feedback against the last written position.
Tracked(f) ==
    IF cache = NotSent \/ Read(f) = NotSent
    THEN UNCHANGED <<mismatch, blamed>>
    ELSE IF Distance(Read(f), cache) > Tolerance
    THEN /\ mismatch' = IF mismatch < MismatchCycles THEN mismatch + 1
                        ELSE MismatchCycles
         /\ blamed' = (blamed \/ stray \/ f # "fresh")
    ELSE mismatch' = 0 /\ blamed' = FALSE

\* A cycle that has an output for a live room.
LiveCycle(e, v, f, o) ==
    /\ room = "live"
    /\ Tracked(f)
    /\ lastRead' = IF f = "fresh" THEN pos ELSE lastRead
    /\ IF parked
       THEN /\ age' = Aged(e) /\ met' = FALSE
            /\ UNCHANGED <<cache, pos, stray, want, sure, owed>>
       ELSE /\ want' = v /\ owed' = FALSE
            /\ IF o # "unreachable" /\ ~MustWrite(v, e, f)
               THEN /\ age' = Aged(e) /\ met' = TRUE /\ sure' = (f = "fresh")
                    /\ UNCHANGED <<cache, pos, stray>>
               ELSE IF Dispatched(o)
               THEN Send(v, o) /\ met' = TRUE /\ sure' = (o = "lands")
               ELSE /\ age' = Aged(e) /\ met' = FALSE /\ sure' = FALSE
                    /\ UNCHANGED <<cache, pos, stray>>
    /\ UNCHANGED <<room, mode, pending, due, parked>>

\* A cycle without an output for the room: it is in its start-up grace, or
\* the building step raised.
SilentCycle(e) ==
    /\ room = "live"
    /\ age' = Aged(e) /\ met' = FALSE
    /\ UNCHANGED <<room, mode, cache, pending, due, parked, mismatch, pos,
                   lastRead, want, sure, stray, owed, blamed>>

\* A cycle of an off room: what is left of its farewell is sent again, and
\* outside COOLING nothing of the valve is left to send.
OffCycle(e, o) ==
    /\ room = "off"
    /\ mismatch' = 0 /\ blamed' = FALSE
    /\ IF pending /\ ~parked
       THEN /\ owed' = (owed /\ mode = "cooling")
            /\ IF mode = "cooling" /\ Dispatched(o)
               THEN CloseValve(o) /\ pending' = FALSE
               ELSE /\ pending' = (mode = "cooling") /\ age' = Aged(e)
                    /\ UNCHANGED <<cache, pos, stray>>
       ELSE age' = Aged(e) /\ UNCHANGED <<owed, pending, cache, pos, stray>>
    /\ met' = FALSE /\ sure' = FALSE
    /\ UNCHANGED <<room, mode, due, parked, lastRead, want>>

----------------------------------------------------------------------------
\* The farewell: in COOLING the valve is closed, otherwise left where it is.
\* It is a task of its own, so the room may be live again when it runs.
FarewellRoom(o) ==
    /\ met' = FALSE /\ sure' = FALSE
    /\ IF mode = "cooling" /\ Dispatched(o)
       THEN CloseValve(o) ELSE UNCHANGED <<cache, age, pos, stray>>
    /\ pending' = (mode = "cooling" /\ ~Dispatched(o) /\ room # "live")
    /\ owed' = (mode = "cooling" /\ (room = "off" \/ Dispatched(o)))

Farewell(o) ==
    /\ due > 0 /\ due' = due - 1
    /\ FarewellRoom(o)
    /\ UNCHANGED <<room, mode, parked, mismatch, lastRead, want, blamed>>

SwitchOff ==
    /\ room = "live" /\ room' = "off" /\ due' = due + 1
    /\ UNCHANGED <<mode, cache, age, pending, parked, mismatch, pos, lastRead,
                   want, met, sure, stray, owed, blamed>>

SwitchOn ==
    /\ room = "off" /\ room' = "live" /\ pending' = FALSE /\ owed' = FALSE
    /\ UNCHANGED <<mode, cache, age, due, parked, mismatch, pos, lastRead,
                   want, met, sure, stray, blamed>>

SetMode ==
    /\ mode' \in HomeModes \ {mode}
    /\ UNCHANGED <<room, cache, age, pending, due, parked, mismatch, pos,
                   lastRead, want, met, sure, stray, owed, blamed>>

\* The actuator's own controller, or a hand, moves the valve.
Move ==
    /\ pos' \in Grid \ {pos}
    /\ stray' = TRUE /\ sure' = FALSE
    /\ UNCHANGED <<room, mode, cache, age, pending, due, parked, mismatch,
                   lastRead, want, met, owed, blamed>>

\* The unload's farewell of a live room; from here on nothing is written.
Unload(o) ==
    /\ ~parked /\ parked' = TRUE
    /\ IF room = "live" THEN FarewellRoom(o)
       ELSE UNCHANGED <<cache, age, pos, stray, pending, owed, met, sure>>
    /\ UNCHANGED <<room, mode, due, mismatch, lastRead, want, blamed>>

\* A new coordinator: nothing written, nothing pending, nothing read yet.
Rebuilt ==
    /\ cache' = NotSent /\ age' = 0 /\ pending' = FALSE /\ parked' = FALSE
    /\ mismatch' = 0 /\ lastRead' = NotSent
    /\ met' = FALSE /\ sure' = FALSE /\ owed' = FALSE /\ blamed' = FALSE
    /\ UNCHANGED <<room, mode, pos, want, stray>>

Build   == parked /\ due = 0 /\ Rebuilt /\ UNCHANGED due
Restart == Rebuilt /\ due' = 0

WritesInit ==
    /\ room \in {"live", "off"} /\ mode \in HomeModes
    /\ cache = NotSent /\ age = 0 /\ pending = FALSE /\ due = 0
    /\ parked = FALSE /\ mismatch = 0 /\ pos \in Grid /\ lastRead = NotSent
    /\ want = 0 /\ met = FALSE /\ sure = FALSE /\ stray = FALSE
    /\ owed = FALSE /\ blamed = FALSE

WritesNext ==
    \/ \E e \in Elapsed, v \in Positions, f \in Feedback, o \in Outcomes :
           LiveCycle(e, v, f, o)
    \/ \E e \in Elapsed : SilentCycle(e)
    \/ \E e \in Elapsed, o \in Outcomes : OffCycle(e, o)
    \/ \E o \in Outcomes : Farewell(o) \/ Unload(o)
    \/ SwitchOff \/ SwitchOn \/ SetMode \/ Move \/ Build \/ Restart

WritesSpec == WritesInit /\ [][WritesNext]_writesVars

----------------------------------------------------------------------------
\* What the theorems assume of the constants: the actuator has both ends and
\* no gap in its positions wider than twice the tolerance.
ValveAssumption ==
    /\ FullyOpen \in Nat /\ FullyOpen > 0
    /\ Threshold \in Nat /\ Tolerance \in Nat
    /\ ReassertAge \in Nat /\ ReassertAge > 0
    /\ MismatchCycles \in Nat /\ MismatchCycles > 0
    /\ Elapsed \subseteq Nat
    /\ Grid \subseteq Positions /\ 0 \in Grid /\ FullyOpen \in Grid
    /\ \A v \in Positions : \E g \in Grid : Distance(g, v) <= Tolerance

\* The variables have their types.
WritesTypeOK ==
    /\ room \in {"live", "off"} /\ mode \in HomeModes
    /\ cache \in Positions \cup {NotSent} /\ age \in 0 .. ReassertAge
    /\ pending \in BOOLEAN /\ due \in Nat /\ parked \in BOOLEAN
    /\ mismatch \in 0 .. MismatchCycles
    /\ pos \in Grid /\ lastRead \in Positions \cup {NotSent}
    /\ want \in Positions
    /\ met \in BOOLEAN /\ sure \in BOOLEAN /\ stray \in BOOLEAN
    /\ owed \in BOOLEAN /\ blamed \in BOOLEAN

\* The last cycle that reached a live room's valve left its command standing:
\* what was last sent is the command up to the write threshold, exactly so at
\* the two ends, and it was sent within the re-assert period (write_valves).
Obeyed ==
    met => /\ cache # NotSent
           /\ want = cache \/ Distance(want, cache) < Threshold
           /\ want \in {0, FullyOpen} => cache = want
           /\ age < ReassertAge

\* However many commands were lost or overridden before, a valve that was read
\* back or commanded in the last cycle stands within threshold and tolerance
\* of what the controller wants of it (the five triggers together).
TracksTarget ==
    sure => Distance(pos, want) <= Threshold + Tolerance

\* A valve let go while the home cools ends closed, whatever failed on the
\* way, and nothing opens it again in the unload's window: unless its farewell
\* is still to be retried, or the command was lost on the wire or overridden,
\* no chilled water passes (farewell_room, _retry_pending_farewells, _parked).
ParkedInCooling == owed /\ ~pending /\ ~stray => pos = 0

\* The tracker never counts against a valve that took its commands: every
\* count follows a lost command, a foreign move or a reading that was not the
\* position's own (_track_valve_mismatch).
NoFalseMismatch == mismatch > 0 => blamed
=============================================================================
