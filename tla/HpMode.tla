-------------------------------- MODULE HpMode --------------------------------
(***************************************************************************)
(* The operating mode of the heat pump: the direction sync of a cycle, the *)
(* user's DHW switch and the writer, beside an external DHW automation and *)
(* people who change the pump themselves.  Both of Tortoise's writers read *)
(* an option and write a whole one, and what they write arrives later.     *)
(***************************************************************************)
EXTENDS Integers, Sequences

CONSTANTS
    CycleGaps,        \* the real time between two cycles
    DivergenceCycles, \* _HP_DIVERGENCE_CYCLES
    MinRewrite,       \* _HP_MODE_MIN_REWRITE_S
    Modes,            \* the modes of the home considered
    Moves,            \* the options that others give the pump
    MaxFlight,        \* bounds the commands on their way
    Reloads           \* reloads and restarts happen

ASSUME ModeAssumption ==
    /\ CycleGaps \subseteq Nat \ {0}
    /\ {DivergenceCycles, MinRewrite, MaxFlight} \subseteq Nat \ {0}
    /\ Modes \subseteq {"HEATING", "COOLING", "TRANSITIONAL", "OFF"}
    /\ Reloads \in BOOLEAN

\* HEISHAMON_MODE_OPTIONS.
Directions == {"Heat", "Cool", "Auto"}

\* An option is a direction with or without the DHW flag; "DHW only" and
\* whatever is not a known mode have no direction.
Options == [dir : Directions, dhw : BOOLEAN]
DhwOnly == [dir |-> "none", dhw |-> TRUE]
Strange == [dir |-> "none", dhw |-> FALSE]
Shown == Options \cup {DhwOnly, Strange}

ASSUME MovesAssumption == Moves \subseteq Shown

\* direction_option; an option that must not be written over is its own.
DirectionOption(m, o) ==
    CASE o.dir # "none" /\ m = "HEATING" -> [o EXCEPT !.dir = "Heat"]
      [] o.dir # "none" /\ m = "COOLING" -> [o EXCEPT !.dir = "Cool"]
      [] OTHER -> o

\* dhw_option; an option for which the request is refused is its own.
DhwOption(o, want) == IF o.dir = "none" THEN o ELSE [o EXCEPT !.dhw = want]

----------------------------------------------------------------------------
VARIABLES
    mode,     \* the mode of the home
    live,     \* writes are enabled: not parked, and some room is live
    up,       \* the mode select can be read and written
    pump,     \* the option the pump is in, and shows
    flight,   \* the commands sent and not yet executed
    diverged, \* _hp_divergence_cycles
    written,  \* _hp_mode_at_last_write
    age,      \* time since the last direction write, saturating at MinRewrite
    gap,      \* real time since this coordinator last sent a direction
    spacing,  \* what it was when the last one was sent
    last      \* the last event was the controller's own, or "other"

memory == <<diverged, written, age, gap, spacing>>
modeVars == <<mode, live, up, pump, flight, memory, last>>

AtMost(a, b) == IF a <= b THEN a ELSE b

\* write_hp_mode: select_option is sent and not waited for.
Sent(o) == Append(flight, o)

\* Mutant: a divergence that persists is left alone.
TriggeredOnce(d) == written # mode

\* The mode changed since the last write, or the divergence has persisted.
Triggered(d) == written # mode \/ d >= DivergenceCycles

\* Mutant: a new mode does not wait.
MayRewriteNew(a) == a >= MinRewrite \/ written # mode

MayRewrite(a) == a >= MinRewrite

\* The direction part of _sync_heat_pump.
DirectionSync(e) ==
    LET desired == DirectionOption(mode, pump)
        differs == up /\ desired # pump
        d == IF differs THEN AtMost(diverged + 1, DivergenceCycles) ELSE 0
        a == AtMost(age + e, MinRewrite)
        write == live /\ differs /\ Triggered(d) /\ MayRewrite(a)
    IN  /\ Len(flight) < MaxFlight
        /\ flight' = IF write THEN Sent(desired) ELSE flight
        /\ diverged' = IF write THEN 0 ELSE d
        /\ written' = IF write THEN mode ELSE written
        /\ age' = IF write THEN 0 ELSE a
        /\ gap' = IF write THEN 0 ELSE AtMost(gap + e, MinRewrite)
        /\ spacing' = IF write THEN AtMost(gap + e, MinRewrite) ELSE spacing
        /\ last' = "own"
        /\ UNCHANGED <<mode, live, up, pump>>

\* async_set_hp_dhw: not gated by live rooms.
DhwSwitch(want) ==
    /\ up /\ Len(flight) < MaxFlight
    /\ DhwOption(pump, want) # pump
    /\ flight' = Sent(DhwOption(pump, want))
    /\ last' = "other"
    /\ UNCHANGED <<mode, live, up, pump, memory>>

\* The pump executes a command, or the command is lost on its way.
Execute ==
    /\ flight # <<>>
    /\ pump' = Head(flight) /\ flight' = Tail(flight) /\ last' = "own"
    /\ UNCHANGED <<mode, live, up, memory>>

Lose ==
    /\ flight # <<>>
    /\ flight' = Tail(flight) /\ last' = "other"
    /\ UNCHANGED <<mode, live, up, pump, memory>>

\* The DHW automation and people at the pump; everything else that changes.
External ==
    /\ pump' \in Moves \ {pump} /\ last' = "other"
    /\ UNCHANGED <<mode, live, up, flight, memory>>

Turn ==
    /\ \/ mode' \in Modes \ {mode} /\ UNCHANGED <<live, up>>
       \/ live' = ~live /\ UNCHANGED <<mode, up>>
       \/ up' = ~up /\ UNCHANGED <<mode, live>>
    /\ last' = "other"
    /\ UNCHANGED <<pump, flight, memory>>

\* A reload or a restart forgets what was written and when.
Reload ==
    /\ Reloads
    /\ diverged' = 0 /\ written' = "none" /\ age' = MinRewrite
    /\ gap' = MinRewrite /\ spacing' = MinRewrite /\ last' = "other"
    /\ UNCHANGED <<mode, live, up, pump, flight>>

ModeInit ==
    /\ mode \in Modes /\ live \in BOOLEAN /\ up \in BOOLEAN /\ pump \in Moves
    /\ flight = <<>> /\ diverged = 0 /\ written = "none"
    /\ age = MinRewrite /\ gap = MinRewrite /\ spacing = MinRewrite
    /\ last = "other"

ModeNext ==
    \/ \E e \in CycleGaps : DirectionSync(e)
    \/ \E want \in BOOLEAN : DhwSwitch(want)
    \/ Execute
    \/ Lose
    \/ External
    \/ Turn
    \/ Reload

ModeSpec == ModeInit /\ [][ModeNext]_modeVars

\* In the end only the controller moves: cycles go on and commands arrive.
Steady ==
    /\ WF_modeVars(\E e \in CycleGaps : DirectionSync(e)) /\ WF_modeVars(Execute)
    /\ <>[](last = "own")
LiveSpec == ModeSpec /\ Steady

----------------------------------------------------------------------------
(* Correctness.                                                            *)

\* Every variable keeps its type.
ModeTypeOK ==
    /\ mode \in Modes /\ {live, up} \subseteq BOOLEAN /\ pump \in Shown
    /\ flight \in Seq(Shown)
    /\ diverged \in 0 .. DivergenceCycles /\ written \in Modes \cup {"none"}
    /\ {age, gap, spacing} \subseteq 0 .. MinRewrite
    /\ last \in {"own", "other"}

\* _sync_heat_pump: a mode that is changed to and fro, lost commands and
\* whatever others do to the pump never make one coordinator send two
\* directions within the minimum rewrite time.
NeverFlaps == spacing = MinRewrite

\* direction_option, the divergence counter and the rewrite time: whatever
\* happened before, a pump that is left to a live home, can be read and has
\* a direction, takes the direction of the mode.
InSync == live /\ up => DirectionOption(mode, pump) = pump
FollowsMode == <>[]InSync

=============================================================================
