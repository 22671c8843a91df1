------------------------ MODULE FastSourceGroupProofs ------------------------
(***************************************************************************)
(* Theorems about the rooms of one outdoor unit, for any number of rooms,  *)
(* every dwell, hold, margin and error, with users, parked rooms and       *)
(* emergencies in between.  One cycle is taken apart once (Arbitrated);    *)
(* what a single room's step does is cited from RoomFastSourceProofs.      *)
(***************************************************************************)
EXTENDS FastSourceGroup, RoomFastSourceProofs, FiniteSetTheorems

----------------------------------------------------------------------------
(* One cycle, taken apart.                                                 *)

Ins(mode, err, frozen) == [r \in Rooms |-> InputOf(r, mode, err, frozen)]
Props(ins) == [r \in Rooms |-> Propose(r, ins[r])]
On(p) == {r \in live : p[r].cmd # "OFF"}
Lost(p, w) == Losers(p, On(p), w)
After(p, w) ==
    [r \in Rooms |-> IF r \in Lost(p, w) THEN Resolved(p[r])
                     ELSE [m |-> p[r].m, cmd |-> p[r].cmd]]

Arbitrated(ins, p, w) ==
    /\ p \in {Props(ins)} /\ w \in Winners(p, ins, On(p))
    /\ ms' = [r \in Rooms |-> After(p, w)[r].m]
    /\ cmds' = [r \in Rooms |-> After(p, w)[r].cmd]
    /\ units' = [r \in Rooms |->
                   IF r \in live /\ ~Manual(After(p, w)[r].m)
                   THEN Directed(After(p, w)[r].cmd) ELSE units[r]]
    /\ last' = IF w = None THEN last ELSE w
    /\ causes' = [r \in Rooms |-> CauseOf(r, ins[r], Lost(p, w))]
    /\ conflict' = [excess |-> BestExcess(p, ins, On(p)),
                    losers |-> Lost(p, w), pins |-> Pinned(p, On(p)),
                    told |-> {DirectionOf(After(p, w)[r].cmd) : r \in live}
                                 \ {"OFF"}]
    /\ UNCHANGED live

\* A cycle of the building is one arbitration over its rooms' proposals.
LEMMA CycleIsArbitrated ==
    ASSUME NEW mode, NEW err, NEW frozen, Cycle(mode, err, frozen)
    PROVE  \E p, w : Arbitrated(Ins(mode, err, frozen), p, w)
<1> DEFINE ins == Ins(mode, err, frozen)
<1>1. \E p \in {Props(ins)} : \E w \in Winners(p, ins, On(p)) :
        Arbitrated(ins, p, w)
  BY Zenon DEF Cycle, Arbitrated, Ins, Props, On, Lost, After
<1> QED
  BY <1>1

\* What the rooms of the group may be given.
GroupInput(r, in) ==
    /\ in \in Inputs /\ in.phys = units[r] /\ ~in.lost
    /\ in.alarms \in {{}, {"heat"}}
    /\ r \notin live => in.mode = "OFF"

GroupInputs(ins) == \A r \in Rooms : GroupInput(r, ins[r])

\* The inputs of a cycle are inputs of a room's step.
LEMMA InputsOfRooms ==
    ASSUME units \in [Rooms -> Readings], NEW mode \in GroupModes,
           NEW err \in [Rooms -> Errors], NEW frozen
    PROVE  GroupInputs(Ins(mode, err, frozen))
<1> SUFFICES ASSUME NEW r \in Rooms
             PROVE  GroupInput(r, InputOf(r, mode, err, frozen))
  BY DEF GroupInputs, Ins
<1>1. mode \in Modes /\ "OFF" \in Modes
  BY GroupAssumption DEF Modes
<1>2. err[r] \in Errors /\ units[r] \in Readings
  OBVIOUS
<1> QED
  BY <1>1, <1>2 DEF InputOf, GroupInput, Inputs, Alarms

----------------------------------------------------------------------------
(* One room's proposal.                                                    *)

\* A forced step without an emergency stops the unit.
LEMMA ForcedStops ==
    ASSUME NEW a \in Machine, NEW in \in Inputs, NEW dt \in Nat,
           Entry(a, in) \in Machine, Kind = "SPLIT",
           Forced(in), in.alarms = {}
    PROVE  Step(a, in, dt).cmd = "OFF"
<1> DEFINE t == Tick(Entry(a, in), dt)
<1>1. t \in Machine
  BY TickType
<1> HIDE DEF t
<1>2. Regulate(t, in) = Emit(ForceOff(t))
  BY DEF Regulate, Forced
<1>3. ApplySafety(Emit(ForceOff(t)), in) = Emit(ForceOff(t))
  BY DEF ApplySafety
<1>4. ForceOff(t).state = "OFF"
  BY <1>1, ForceOffEffect
<1> QED
  BY <1>2, <1>3, <1>4 DEF Step, Finalize, Emit, t

\* A room that takes no part stands still, or was started by an emergency in
\* this very step: its stop before the emergency restarted its clock.
LEMMA ParkedStep ==
    ASSUME NEW a \in Machine, NEW in \in Inputs, NEW dt \in Nat,
           Entry(a, in) \in Machine, in.mode = "OFF",
           in.alarms \in {{}, {"heat"}}
    PROVE  LET b == Step(a, in, dt).m IN b.state = "OFF" \/ b.timer = 0
<1> DEFINE t == Tick(Entry(a, in), dt)
           f == ForceOff(t)
           r == Step(a, in, dt)
<1>1. t \in Machine
  BY TickType
<1>2. Regulate(t, in) = Emit(f)
  BY DEF Regulate
<1> HIDE DEF t
<1>3. f \in Machine /\ f.state = "OFF"
  BY <1>1, ForceOffType, ForceOffEffect
<1>4. r = Finalize(ApplySafety(Emit(f), in))
  BY <1>2 DEF Step, t
<1> HIDE DEF f, r
<1>5. CASE in.alarms = {}
  <2>1. ApplySafety(Emit(f), in) = Emit(f)
    BY <1>5 DEF ApplySafety
  <2>2. r.m = NoteCommand(f, "OFF")
    BY <1>3, <1>4, <2>1 DEF Finalize, Emit
  <2> QED
    BY <1>3, <2>2, NoteEffect DEF Kept, Commands, Directions, r
<1>6. CASE in.alarms = {"heat"} /\ Kind # "NONE"
  <2> DEFINE g == ForceOn(f, "HEATING")
  <2>1. ApplySafety(Emit(f), in) = Emit(g)
    BY <1>6 DEF ApplySafety, Emit
  <2>2. g \in Machine
    BY <1>3, ForceOnType DEF Directions
  <2>3. AnyMove(f, g) /\ g.state = "HEATING"
    BY <1>3, ForceOnEffect
  <2>4. g.timer = 0
    BY <1>3, <2>3 DEF AnyMove, Kept
  <2> HIDE DEF g
  <2>5. r.m = NoteCommand(g, "HEATING")
    BY <1>4, <2>1, <2>3 DEF Finalize, Emit
  <2> QED
    BY <2>2, <2>4, <2>5, NoteEffect DEF Kept, Commands, Directions, r
<1>7. CASE in.alarms = {"heat"} /\ Kind = "NONE"
  <2> DEFINE g == ForceOff(f)
  <2>1. ApplySafety(Emit(f), in) = Emit(g)
    BY <1>7 DEF ApplySafety, Emit
  <2>2. g \in Machine /\ g.state = "OFF"
    BY <1>3, ForceOffType, ForceOffEffect
  <2> HIDE DEF g
  <2>3. r.m = NoteCommand(g, "OFF")
    BY <1>4, <2>1, <2>2 DEF Finalize, Emit
  <2> QED
    BY <2>2, <2>3, NoteEffect DEF Kept, Commands, Directions, r
<1> QED
  BY <1>5, <1>6, <1>7

\* At first sight a unit's clock starts.
LEMMA FirstSightStarts ==
    ASSUME NEW a \in Machine, NEW in \in Inputs, ~a.synced,
           in.phys # "gap", Kind # "NONE"
    PROVE  Entry(a, in).timer = 0
<1> DEFINE seen == [a EXCEPT !.mismatch = FALSE,
                             !.visible = Kind # "NONE" /\ in.phys # "gap"]
<1>1. seen \in Machine
  BY FlagTypes
<1>2. Entry(a, in) = FirstSight(seen, in.phys, Kind, in.mode)
  BY DEF Entry, Sync
<1> HIDE DEF seen
<1>3. in.phys \in Readings \ {"gap"} /\ in.mode \in Modes
  BY DEF Inputs
<1> QED
  BY <1>1, <1>2, <1>3, FirstSightEffect

\* A touch is the change to another state, whose clock starts.
LEMMA TouchStarts ==
    ASSUME NEW a \in Machine, NEW in \in Inputs, Recorded(a),
           Kind = "SPLIT", Touched(a, in.phys, Kind)
    PROVE  Entry(a, in).timer = 0
<1> DEFINE seen == [a EXCEPT !.mismatch = FALSE,
                             !.visible = Kind # "NONE" /\ in.phys # "gap"]
           p == in.phys
           adopted == IF Running(p) THEN RunningDirection(p, Kind, in.mode)
                                    ELSE "OFF"
<1>1. seen \in Machine /\ seen.state = a.state
  BY FlagTypes, SeenEffect DEF Kept
<1>2. Entry(a, in) = AdoptTouch(seen, p, Kind, in.mode)
  BY DEF Entry, Sync, Touched
<1> HIDE DEF seen
<1>3. adopted # a.state
  <2>1. a.prev # None /\ DirectionOf(a.prev) = a.state /\ Diverges(a, p)
    BY DEF Touched, Diverges, Recorded
  <2>2. CASE Running(p) /\ a.prev = "OFF"
    <3>1. adopted \in {"HEATING", "COOLING"} /\ a.state = "OFF"
      BY <2>1, <2>2, Adopted DEF Inputs, DirectionOf
    <3> QED
      BY <3>1
  <2>3. CASE ~Running(p) /\ a.prev # "OFF"
    BY <2>1, <2>3 DEF DirectionOf
  <2>4. CASE Running(p) /\ Reported(p) # None
             /\ Reported(p) # DirectionOf(a.prev)
    BY <2>1, <2>4 DEF RunningDirection
  <2> QED
    BY <2>1, <2>2, <2>3, <2>4 DEF Diverges, Running
<1>4. [seen EXCEPT !.state = adopted,
                   !.timer = IF adopted = seen.state THEN @ ELSE 0,
                   !.hold = Hold].timer = 0
  BY <1>1, <1>3 DEF Machine
<1> QED
  BY <1>2, <1>4 DEF AdoptTouch

----------------------------------------------------------------------------
(* The arbiter.                                                            *)

Sides == {"HEATING", "COOLING"}

\* Sets of sides are told apart by their sizes.
LEMMA SideCount ==
    ASSUME NEW S, S \subseteq Sides
    PROVE  /\ Cardinality(S) \in Nat
           /\ Cardinality(S) = 1 => \E d \in Sides : S = {d}
           /\ Cardinality(S) = 2 => S = Sides
           /\ S = Sides => Cardinality(S) = 2
           /\ \A d \in Sides : S \subseteq {d} => Cardinality(S) <= 1
           /\ Cardinality(S) > 1 => S = Sides
<1>1. S \in {{}, {"HEATING"}, {"COOLING"}, {"HEATING", "COOLING"}}
  BY DEF Sides
<1>2. Cardinality({}) = 0
  BY FS_EmptySet
<1>3. \A d : Cardinality({d}) = 1 /\ IsFiniteSet({d})
  BY FS_Singleton
<1>4. Cardinality({"HEATING", "COOLING"}) = 2
  <2>1. {"HEATING", "COOLING"} = {"HEATING"} \cup {"COOLING"}
    OBVIOUS
  <2>2. IsFiniteSet({"HEATING"}) /\ "COOLING" \notin {"HEATING"}
    BY <1>3
  <2>3. Cardinality({"HEATING"} \cup {"COOLING"})
          = Cardinality({"HEATING"}) + 1
    BY <2>2, FS_AddElement, Zenon
  <2>4. Cardinality({"HEATING"}) = 1
    BY <1>3
  <2> QED
    BY <2>1, <2>3, <2>4
<1>5. CASE S = {}
  BY <1>2, <1>5, FS_EmptySet DEF Sides
<1>6. CASE S = Sides
  <2>1. Cardinality(S) = 2
    BY <1>4, <1>6 DEF Sides
  <2>2. \A d \in Sides : ~(S \subseteq {d})
    BY <1>6 DEF Sides
  <2> QED
    BY <1>6, <2>1, <2>2
<1>7. CASE \E d \in Sides : S = {d}
  <2>1. PICK d \in Sides : S = {d}
    BY <1>7
  <2>2. Cardinality(S) = 1
    BY <1>3, <2>1
  <2>3. S # Sides
    BY <2>1 DEF Sides
  <2> QED
    BY <2>1, <2>2, <2>3
<1> QED
  BY <1>1, <1>5, <1>6, <1>7 DEF Sides

\* Proposals whose rooms in on run in a direction.
Claims(p, on) == \A r \in on : p[r].dir \in Sides

\* A running command has a direction.
LEMMA OnClaims ==
    ASSUME NEW p,
           \A r \in Rooms : p[r].cmd \in Commands /\ p[r].dir = DirectionOf(p[r].cmd),
           live \subseteq Rooms
    PROVE  Claims(p, On(p))
  BY DEF Claims, On, Sides, DirectionOf, Commands, Directions

\* Who may win: nobody only when nobody runs or both sides are pinned;
\* otherwise no pinned room loses, and without a pin the stronger claim
\* decides over the rooms that lost.
LEMMA WinnerFacts ==
    ASSUME NEW p, NEW ins, NEW on, NEW w, w \in Winners(p, ins, on),
           Claims(p, on), last \in Sides \cup {None}
    PROVE  /\ w \in Sides \cup {None}
           /\ w = None => on = {} \/ Pinned(p, on) = Sides
           /\ \A r \in Losers(p, on, w) : ~Pins(p[r])
           /\ Losers(p, on, w) # {} /\ Pinned(p, on) = {}
                => w \in ByExcess(p, ins, on)
<1> DEFINE dirs == {p[r].dir : r \in on}
<1>1. dirs \subseteq Sides /\ Pinned(p, on) \subseteq dirs
  BY DEF Claims, Pinned
<1>2. None \notin Sides
  BY DEF None, Sides
<1>3. CASE Cardinality(dirs) = 1
  <2>1. w \in dirs
    BY <1>3 DEF Winners
  <2>2. PICK d \in Sides : dirs = {d}
    BY <1>1, <1>3, SideCount
  <2>3. w = d /\ Losers(p, on, w) = {}
    BY <2>1, <2>2 DEF Losers
  <2> QED
    BY <1>2, <2>2, <2>3
<1>4. CASE Cardinality(dirs) # 1
           /\ (dirs = {} \/ Cardinality(Pinned(p, on)) = 2)
  <2>1. w = None
    BY <1>4 DEF Winners
  <2>2. Losers(p, on, w) = {}
    BY <2>1 DEF Losers
  <2>3. on = {} \/ Pinned(p, on) = Sides
    BY <1>1, <1>4, SideCount
  <2> QED
    BY <2>1, <2>2, <2>3
<1>5. CASE /\ Cardinality(dirs) # 1 /\ dirs # {}
           /\ Cardinality(Pinned(p, on)) # 2 /\ Pinned(p, on) # {}
  <2>1. w \in Pinned(p, on)
    BY <1>5 DEF Winners
  <2>2. PICK d \in Sides : Pinned(p, on) = {d}
    <3>1. Pinned(p, on) # Sides
      BY <1>1, <1>5, SideCount
    <3> QED
      BY <1>1, <1>5, <3>1 DEF Sides
  <2>3. w = d
    BY <2>1, <2>2
  <2>4. \A r \in on : Pins(p[r]) => p[r].dir = w
    BY <2>2, <2>3 DEF Pinned
  <2> QED
    BY <1>2, <1>5, <2>2, <2>3, <2>4 DEF Losers
<1>6. CASE /\ Cardinality(dirs) # 1 /\ dirs # {} /\ Pinned(p, on) = {}
           /\ Cardinality(Pinned(p, on)) # 2
  <2>1. w \in ByExcess(p, ins, on)
    BY <1>6 DEF Winners
  <2>2. \A r \in on : ~Pins(p[r])
    BY <1>6 DEF Pinned
  <2>3. Incumbent(p, on) \in Sides \cup {None}
    <3> DEFINE running == {p[r].entry : r \in {q \in on : p[q].entry = p[q].dir}}
    <3>1. running \subseteq Sides
      BY DEF Claims
    <3>2. Cardinality(running) = 1 => \E d : d \in running
      BY <3>1, SideCount
    <3> QED
      BY <3>1, <3>2 DEF Incumbent
  <2>4. ByExcess(p, ins, on) \subseteq Sides
    BY <1>2, <2>3 DEF ByExcess, BestExcess, Opposite, Sides
  <2> QED
    BY <1>2, <2>1, <2>2, <2>4 DEF Losers
<1> QED
  BY <1>3, <1>4, <1>5, <1>6

----------------------------------------------------------------------------
(* The inductive invariant.                                                *)

\* The controller's part of the state has its type, and the command of a room
\* and the reference of its unit name the direction its machine is in.
Typed ==
    /\ TypeOK
    /\ \A r \in Rooms : /\ Referenced(ms[r]) /\ Recorded(ms[r])
                        /\ DirectionOf(cmds[r]) = ms[r].state

\* A unit that runs was told to in the last cycle, or an emergency in a parked
\* room started it in the last step: nobody runs unseen by the arbiter.
Known ==
    \A r \in Rooms : \/ ms[r].state = "OFF" \/ ms[r].timer = 0
                     \/ r \in live /\ ms[r].state \in conflict.told

IInv == Typed /\ Known

\* What a room's own step proposes to the arbiter.
Proposed(r, in, q) ==
    /\ q.m \in Machine /\ q.cmd \in Commands /\ q.dir = q.m.state
    /\ DirectionOf(q.cmd) = q.m.state
    /\ Referenced(q.m) /\ Recorded(q.m) /\ Honest(q.m)
    /\ r \notin live => q.m.state = "OFF" \/ q.m.timer = 0

LEMMA Proposal ==
    ASSUME Typed, NEW r \in Rooms, NEW in, GroupInput(r, in)
    PROVE  Proposed(r, in, Propose(r, in))
<1>1. /\ ms[r] \in Machine /\ Referenced(ms[r]) /\ in \in Inputs /\ Dt \in Nat
  BY GroupAssumption DEF Typed, TypeOK, GroupInput
<1>2. LET s == Step(ms[r], in, Dt)
      IN  /\ s.m \in Machine /\ s.cmd \in Commands
          /\ DirectionOf(s.cmd) = s.m.state
          /\ Referenced(s.m) /\ Recorded(s.m) /\ Honest(s.m)
  BY <1>1, StepReferenced
<1>3. Entry(ms[r], in) \in Machine
  BY <1>1, SyncType DEF Entry, Inputs
<1>4. r \notin live => LET b == Step(ms[r], in, Dt).m
                       IN  b.state = "OFF" \/ b.timer = 0
  BY <1>1, <1>3, ParkedStep DEF GroupInput
<1> QED
  BY <1>2, <1>4 DEF Proposed, Propose

\* What a cycle leaves a room with: its own proposal, or a parked machine.
LEMMA Aftermath ==
    ASSUME Typed, NEW ins, GroupInputs(ins), NEW p, NEW w,
           Arbitrated(ins, p, w), NEW r \in Rooms
    PROVE  /\ p[r] = Propose(r, ins[r]) /\ Proposed(r, ins[r], p[r])
           /\ ms'[r] \in Machine /\ cmds'[r] \in Commands
           /\ Referenced(ms'[r]) /\ Recorded(ms'[r])
           /\ DirectionOf(cmds'[r]) = ms'[r].state
           /\ r \notin Lost(p, w) => ms'[r] = p[r].m /\ cmds'[r] = p[r].cmd
           /\ r \in Lost(p, w) => /\ ms'[r].state = "OFF" /\ cmds'[r] = "OFF"
                                  /\ AnyMove(p[r].m, ms'[r])
           /\ causes'[r] = CauseOf(r, ins[r], Lost(p, w))
<1>1. p[r] = Propose(r, ins[r]) /\ Proposed(r, ins[r], p[r])
  BY Proposal DEF Arbitrated, Props, GroupInputs
<1>2. /\ ms'[r] = After(p, w)[r].m /\ cmds'[r] = After(p, w)[r].cmd
      /\ causes'[r] = CauseOf(r, ins[r], Lost(p, w))
  BY DEF Arbitrated
<1>3. CASE r \in Lost(p, w)
  <2>1. ms'[r] = NoteCommand(ForceOff(p[r].m), "OFF") /\ cmds'[r] = "OFF"
    BY <1>2, <1>3 DEF After, Resolved
  <2>2. LET b == NoteCommand(ForceOff(p[r].m), "OFF")
        IN  /\ b \in Machine /\ b.state = "OFF"
            /\ Referenced(b) /\ Recorded(b) /\ AnyMove(p[r].m, b)
    BY <1>1, ParkReferenced DEF Proposed
  <2> QED
    BY <1>1, <1>2, <1>3, <2>1, <2>2 DEF DirectionOf, Commands, Directions
<1>4. CASE r \notin Lost(p, w)
  BY <1>1, <1>2, <1>4 DEF After, Proposed
<1> QED
  BY <1>3, <1>4, <1>1, <1>2

\* A cycle preserves the invariant: a live room's running unit is among those
\* told, a parked one's was started this instant.
LEMMA CycleInv ==
    ASSUME IInv, NEW ins, GroupInputs(ins), NEW p, NEW w, Arbitrated(ins, p, w)
    PROVE  IInv'
<1>1. \A r \in Rooms :
        /\ ms'[r] \in Machine /\ cmds'[r] \in Commands
        /\ Referenced(ms'[r]) /\ Recorded(ms'[r])
        /\ DirectionOf(cmds'[r]) = ms'[r].state
  BY Aftermath DEF IInv
<1>2. ms' \in [Rooms -> Machine] /\ cmds' \in [Rooms -> Commands]
  BY <1>1 DEF Arbitrated
<1>3. units' \in [Rooms -> Readings]
  <2>1. \A c : Directed(c) \in Readings
    BY DEF Directed, Readings
  <2> QED
    BY <2>1 DEF Arbitrated, IInv, Typed, TypeOK
<1>4. live' \subseteq Rooms /\ Lost(p, w) \subseteq Rooms
  BY DEF Arbitrated, IInv, Typed, TypeOK, Lost, Losers, On
<1>5. last' \in {None, "HEATING", "COOLING"}
  <2>1. last \in Sides \cup {None} /\ live \subseteq Rooms
    BY DEF IInv, Typed, TypeOK, Sides
  <2>2. Claims(p, On(p))
    BY <2>1, Aftermath, OnClaims DEF IInv, Proposed
  <2>3. w \in Sides \cup {None}
    BY <2>1, <2>2, WinnerFacts DEF Arbitrated
  <2> QED
    BY <2>1, <2>3 DEF Arbitrated, Sides
<1>6. causes' \in [Rooms -> {"none", "force", "adopt", "yield"}]
  BY DEF Arbitrated, CauseOf
<1>7. conflict'.losers = Lost(p, w)
  BY DEF Arbitrated
<1>8. Typed'
  BY <1>1, <1>2, <1>3, <1>4, <1>5, <1>6, <1>7 DEF Typed, TypeOK
<1>9. Known'
  <2> SUFFICES ASSUME NEW r \in Rooms, ms'[r].state # "OFF", ms'[r].timer # 0
               PROVE  r \in live' /\ ms'[r].state \in conflict'.told
    BY DEF Known
  <2>1. r \notin Lost(p, w) /\ ms'[r] = p[r].m /\ cmds'[r] = p[r].cmd
        /\ Proposed(r, ins[r], p[r])
    BY Aftermath DEF IInv
  <2>2. r \in live
    BY <2>1 DEF Proposed
  <2>3. DirectionOf(After(p, w)[r].cmd) = ms'[r].state
    BY <2>1 DEF After, Proposed
  <2>4. conflict'.told = {DirectionOf(After(p, w)[q].cmd) : q \in live} \ {"OFF"}
    BY DEF Arbitrated
  <2> QED
    BY <2>2, <2>3, <2>4 DEF Arbitrated
<1> QED
  BY <1>8, <1>9 DEF IInv


\* A cold group satisfies it,
LEMMA InitInv == Init => IInv
<1> SUFFICES ASSUME Init
             PROVE  IInv
  OBVIOUS
<1>1. ColdMachine \in Machine
  BY Clocks, MachineAssumption
  DEF ColdMachine, Machine, Directions, Commands
<1>2. /\ Referenced(ColdMachine) /\ Recorded(ColdMachine)
      /\ ColdMachine.state = "OFF"
  BY DEF Referenced, Recorded, ColdMachine
<1>3. conflict.losers = {}
  BY DEF Init, Calm
<1>4. Typed
  BY <1>1, <1>2, <1>3
  DEF Init, Typed, TypeOK, DirectionOf, Commands, Directions, Readings
<1>5. Known
  BY <1>2 DEF Init, Known
<1> QED
  BY <1>4, <1>5 DEF IInv

\* and so does a room's leave: it is parked.
LEMMA LeaveInv ==
    ASSUME IInv, NEW r \in Rooms, Leave(r)
    PROVE  IInv'
<1> DEFINE b == NoteCommand(ForceOff(ms[r]), "OFF")
<1>1. ms \in [Rooms -> Machine] /\ cmds \in [Rooms -> Commands]
      /\ units \in [Rooms -> Readings]
      /\ causes \in [Rooms -> {"none", "force", "adopt", "yield"}]
  BY DEF IInv, Typed, TypeOK
<1>2. b \in Machine /\ b.state = "OFF" /\ Referenced(b) /\ Recorded(b)
  BY <1>1, ParkReferenced DEF IInv, Typed
<1> HIDE DEF b
<1>3. /\ ms' = [ms EXCEPT ![r] = b] /\ cmds' = [cmds EXCEPT ![r] = "OFF"]
      /\ units' = [units EXCEPT ![r] = "off"] /\ live' = live \ {r}
      /\ last' = last /\ conflict' = conflict
      /\ causes' = [q \in Rooms |-> IF q = r THEN "force" ELSE causes[q]]
  BY DEF Leave, b
<1>4. /\ ms' \in [Rooms -> Machine] /\ cmds' \in [Rooms -> Commands]
      /\ units' \in [Rooms -> Readings]
      /\ causes' \in [Rooms -> {"none", "force", "adopt", "yield"}]
  BY <1>1, <1>2, <1>3 DEF Commands, Directions, Readings
<1>5. ASSUME NEW q \in Rooms
      PROVE  /\ Referenced(ms'[q]) /\ Recorded(ms'[q])
             /\ DirectionOf(cmds'[q]) = ms'[q].state
  <2>1. CASE q = r
    BY <1>1, <1>2, <1>3, <2>1 DEF DirectionOf
  <2>2. CASE q # r
    <3>1. ms'[q] = ms[q] /\ cmds'[q] = cmds[q]
      BY <1>1, <1>3, <2>2
    <3> QED
      BY <3>1 DEF IInv, Typed
  <2> QED
    BY <2>1, <2>2
<1>6. Typed'
  BY <1>3, <1>4, <1>5 DEF IInv, Typed, TypeOK
<1>7. ASSUME NEW q \in Rooms, ms'[q].state # "OFF", ms'[q].timer # 0
      PROVE  q \in live' /\ ms'[q].state \in conflict'.told
  <2>1. q # r /\ ms'[q] = ms[q]
    BY <1>1, <1>2, <1>3, <1>7
  <2> QED
    BY <1>3, <1>7, <2>1 DEF IInv, Known
<1> QED
  BY <1>6, <1>7 DEF IInv, Known

\* A step of the group is a cycle of its rooms or leaves the arbiter's record
\* alone.
LEMMA StepKinds ==
    ASSUME IInv, [Next]_vars
    PROVE  \/ \E ins, p, w : GroupInputs(ins) /\ Arbitrated(ins, p, w)
           \/ \E r \in Rooms : Leave(r)
           \/ \E r \in Rooms : Join(r)
           \/ \E r \in Rooms, u \in {"off", "heat", "cool"} : Touch(r, u)
           \/ UNCHANGED vars
<1>1. CASE \E mode \in GroupModes, err \in [Rooms -> Errors],
              frozen \in {None} \cup (IF Emergencies THEN Rooms ELSE {}) :
                Cycle(mode, err, frozen)
  <2>1. PICK mode \in GroupModes, err \in [Rooms -> Errors],
             frozen \in {None} \cup (IF Emergencies THEN Rooms ELSE {}) :
          Cycle(mode, err, frozen)
    BY <1>1
  <2>2. GroupInputs(Ins(mode, err, frozen))
    BY InputsOfRooms DEF IInv, Typed, TypeOK
  <2>3. \E p, w : Arbitrated(Ins(mode, err, frozen), p, w)
    BY <2>1, CycleIsArbitrated
  <2> QED
    BY <2>2, <2>3
<1> QED
  BY <1>1 DEF Next

\* In every reachable state, whatever users, emergencies and leaving rooms
\* do, a running unit is one the last cycle told to run.
THEOREM GroupInvariance == Spec => []IInv
<1>1. IInv /\ [Next]_vars => IInv'
  <2> SUFFICES ASSUME IInv, [Next]_vars
               PROVE  IInv'
    OBVIOUS
  <2>1. CASE \E ins, p, w : GroupInputs(ins) /\ Arbitrated(ins, p, w)
    BY <2>1, CycleInv
  <2>2. CASE \E r \in Rooms : Leave(r)
    BY <2>2, LeaveInv
  <2>3. CASE \E r \in Rooms : Join(r)
    <3>1. PICK r \in Rooms : Join(r)
      BY <2>3
    <3>2. live' = live \cup {r} /\ UNCHANGED <<ms, cmds, units, last, causes, conflict>>
      BY <3>1 DEF Join
    <3> QED
      BY <3>2 DEF IInv, Typed, TypeOK, Known
  <2>4. CASE \E r \in Rooms, u \in {"off", "heat", "cool"} : Touch(r, u)
    <3>1. PICK r \in Rooms, u \in {"off", "heat", "cool"} : Touch(r, u)
      BY <2>4
    <3>2. units' = [units EXCEPT ![r] = u]
          /\ UNCHANGED <<ms, cmds, live, last, causes, conflict>>
      BY <3>1 DEF Touch
    <3>3. units' \in [Rooms -> Readings]
      BY <3>2 DEF IInv, Typed, TypeOK, Readings
    <3> QED
      BY <3>2, <3>3 DEF IInv, Typed, TypeOK, Known
  <2>5. CASE UNCHANGED vars
    BY <2>5 DEF vars, IInv, Typed, TypeOK, Known
  <2> QED
    BY <2>1, <2>2, <2>3, <2>4, <2>5, StepKinds
<1> QED
  BY <1>1, InitInv, PTL DEF Spec

----------------------------------------------------------------------------
(* One outdoor unit, one direction.                                        *)

\* What one arbitration tells: the winner's direction, or what the pinned
\* rooms already do.
LEMMA ToldOneSide ==
    ASSUME IInv, NEW ins, GroupInputs(ins), NEW p, NEW w,
           Arbitrated(ins, p, w)
    PROVE  OneDirection'
<1>1. /\ live \subseteq Rooms /\ last \in Sides \cup {None}
      /\ \A r \in Rooms : Proposed(r, ins[r], p[r])
  BY Aftermath DEF IInv, Typed, TypeOK, Sides
<1>2. Claims(p, On(p))
  BY <1>1, OnClaims DEF Proposed
<1>3. /\ w \in Sides \cup {None}
      /\ w = None => On(p) = {} \/ Pinned(p, On(p)) = Sides
  BY <1>1, <1>2, WinnerFacts DEF Arbitrated
<1>4. conflict'.pins = Pinned(p, On(p))
      /\ conflict'.told = {DirectionOf(After(p, w)[r].cmd) : r \in live} \ {"OFF"}
  BY DEF Arbitrated
<1>5. ASSUME NEW d \in conflict'.told
      PROVE  \E r \in On(p) : r \notin Lost(p, w) /\ d = p[r].dir
  <2>1. PICK r \in live : d = DirectionOf(After(p, w)[r].cmd) /\ d # "OFF"
    BY <1>4
  <2>2. r \in Rooms /\ Proposed(r, ins[r], p[r])
    BY <1>1
  <2>3. r \notin Lost(p, w)
    BY <2>1, <2>2 DEF After, Resolved, DirectionOf
  <2>4. d = DirectionOf(p[r].cmd)
    BY <2>1, <2>2, <2>3 DEF After
  <2>5. p[r].cmd # "OFF"
    BY <2>1, <2>4 DEF DirectionOf
  <2> QED
    BY <2>2, <2>3, <2>4, <2>5 DEF On, Proposed
<1>6. CASE w = None
  <2>1. On(p) = {} => conflict'.told = {}
    BY <1>5
  <2>2. Cardinality(conflict'.told) > 1 => On(p) # {}
    BY <2>1, FS_EmptySet
  <2> QED
    BY <1>3, <1>4, <1>6, <2>2 DEF OneDirection, Sides
<1>7. CASE w \in Sides /\ w # None
  <2>1. \A d \in conflict'.told : d = w
    BY <1>5, <1>7 DEF Lost, Losers
  <2>2. conflict'.told \subseteq {w} /\ conflict'.told \subseteq Sides
    BY <1>7, <2>1
  <2>3. Cardinality(conflict'.told) \in Nat /\ Cardinality(conflict'.told) <= 1
    BY <1>7, <2>2, SideCount
  <2> QED
    BY <2>3 DEF OneDirection
<1> QED
  BY <1>3, <1>6, <1>7

\* The outdoor unit is told to heat and to cool in one cycle only when a room
\* of each side may not be overridden (_arbitrate_fast_groups).
THEOREM OneUnitOneDirection == Spec => []OneDirection
<1>1. Init => OneDirection
  BY FS_EmptySet DEF Init, Calm, OneDirection
<1>2. IInv /\ OneDirection /\ [Next]_vars => OneDirection'
  <2> SUFFICES ASSUME IInv, OneDirection, [Next]_vars
               PROVE  OneDirection'
    OBVIOUS
  <2>1. CASE \E ins, p, w : GroupInputs(ins) /\ Arbitrated(ins, p, w)
    BY <2>1, ToldOneSide
  <2>2. CASE conflict' = conflict
    BY <2>2 DEF OneDirection
  <2> QED
    BY <2>1, <2>2, StepKinds DEF Leave, Join, Touch, vars
<1> QED
  BY <1>1, <1>2, GroupInvariance, PTL DEF Spec

----------------------------------------------------------------------------
(* The outdoor unit changes hands only for the stronger claim.             *)

\* A cycle is shorter than the minimal run, 300 s against 30 minutes by
\* default (core/config.py:278, 328).  A minimal run that ends within the cycle
\* that began it protects no run from the arbiter, and a unit adopted in that
\* cycle is the incumbent already.
CyclesAreShort == Dt < MinOn

\* A room that goes on in the direction it was found in, and that nothing
\* pins, was told to in the cycle before.
LEMMA UnpinnedWasTold ==
    ASSUME IInv, CyclesAreShort, NEW r \in live, NEW in, GroupInput(r, in),
           LET q == Propose(r, in)
           IN  q.cmd # "OFF" /\ q.entry = q.dir /\ ~Pins(q)
    PROVE  Propose(r, in).dir \in conflict.told
<1> DEFINE a == ms[r]
           e == Entry(a, in)
           q == Step(a, in, Dt)
<1>1. /\ r \in Rooms /\ a \in Machine /\ in \in Inputs
      /\ Referenced(a) /\ Recorded(a)
      /\ Dt \in Nat /\ Kind = "SPLIT"
  BY GroupAssumption DEF IInv, Typed, TypeOK, GroupInput
<1>2. PICK t, d : StepResult(a, in, Dt, e, t, d, q)
  BY <1>1, StepParts
<1>3. /\ q.m \in Machine /\ q.cmd \in Commands
      /\ DirectionOf(q.cmd) = q.m.state /\ Honest(q.m)
  BY <1>1, StepReferenced
<1>4. /\ q.cmd # "OFF" /\ e.state = DirectionOf(q.cmd)
      /\ ~LockedOn([m |-> q.m, cmd |-> q.cmd, entry |-> e.state,
                    forced |-> "heat" \in in.alarms,
                    dir |-> DirectionOf(q.cmd)])
      /\ "heat" \notin in.alarms /\ ~Manual(q.m)
  BY DEF Propose, Pins
<1>5. e \in Machine /\ SyncResult(a, e, in)
  BY <1>2 DEF StepResult, SyncResult
<1>6. Propose(r, in).dir = e.state
  BY <1>4 DEF Propose
<1> HIDE DEF e, q
<1>8. e.state = q.m.state /\ q.m.state # "OFF"
  BY <1>3, <1>4 DEF DirectionOf
<1>9. q.m.timer >= MinOn
  <2>1. q.m.dwell \in Nat /\ q.m.timer \in Nat
    BY <1>3 DEF Machine
  <2>2. ~(q.m.dwell > 0)
    BY <1>4, <1>8 DEF LockedOn
  <2> QED
    BY <1>3, <1>8, <2>1, <2>2, MachineAssumption DEF Honest, Minus
<1>10. ~Forced(in)
  BY <1>1, <1>4, <1>5, ForcedStops DEF GroupInput, e, q
<1>11. q.m.timer <= e.timer + Dt
  <2>1. FreeMove(t, d.m) /\ Kept(d.m, q.m) /\ t.state = e.state
        /\ t.timer = Least(e.timer + Dt, TimerCap)
    BY <1>2, <1>10 DEF StepResult, Decided
  <2>2. Kept(t, d.m)
    BY <1>8, <2>1 DEF FreeMove, Kept
  <2> QED
    BY <1>1, <1>5, <2>1, <2>2, MachineAssumption DEF Kept, Least, Machine
<1>12. e.timer # 0
  <2>1. q.m.timer \in Nat
    BY <1>3, MachineAssumption DEF Machine
  <2> QED
    BY <1>1, <1>9, <1>11, <2>1, MachineAssumption DEF CyclesAreShort
<1>13. ~Touched(a, in.phys, Kind)
  BY <1>1, <1>12, TouchStarts DEF e
<1>14. ~Adopts(a, in)
  <2>1. a.synced
        \/ in.phys = "gap"
    BY <1>1, <1>12, FirstSightStarts DEF e
  <2> QED
    BY <1>13, <2>1 DEF Adopts
<1>15. Kept(a, e)
  BY <1>5, <1>14 DEF SyncResult
<1> QED
  BY <1>1, <1>6, <1>8, <1>12, <1>15 DEF IInv, Known, Kept

\* So an unpinned conflict that takes the unit from its last winner was won
\* by more than the margin.
LEMMA TakeoverInCycle ==
    ASSUME IInv, CyclesAreShort, NEW ins, GroupInputs(ins), NEW p, NEW w,
           Arbitrated(ins, p, w),
           conflict'.losers # {}, conflict'.pins = {},
           last # None, last' # last, conflict.told \subseteq {last}
    PROVE  conflict'.excess[last'] > conflict'.excess[last] + Margin
<1>1. /\ live \subseteq Rooms /\ last \in Sides
      /\ \A r \in Rooms : /\ Proposed(r, ins[r], p[r])
                          /\ p[r] = Propose(r, ins[r])
                          /\ GroupInput(r, ins[r])
  BY Aftermath DEF IInv, Typed, TypeOK, Sides, GroupInputs
<1>2. Claims(p, On(p))
  BY <1>1, OnClaims DEF Proposed
<1>3. /\ conflict'.excess = BestExcess(p, ins, On(p))
      /\ conflict'.losers = Lost(p, w) /\ conflict'.pins = Pinned(p, On(p))
      /\ last' = (IF w = None THEN last ELSE w)
      /\ w \in Winners(p, ins, On(p))
  BY DEF Arbitrated
<1>4. w # None /\ last' = w /\ w # last
  BY <1>3
<1>5. w \in ByExcess(p, ins, On(p))
  BY <1>1, <1>2, <1>3, WinnerFacts DEF Lost
<1>6. \A r \in On(p) : ~Pins(p[r])
  BY <1>3 DEF Pinned
<1>7. Incumbent(p, On(p)) = last
  <2> DEFINE running == {p[r].entry : r \in {q \in On(p) : p[q].entry = p[q].dir}}
  <2>1. \A d \in running : d = last
    <3> SUFFICES ASSUME NEW r \in On(p), p[r].entry = p[r].dir
                 PROVE  p[r].dir = last
      OBVIOUS
    <3>1. r \in live /\ r \in Rooms /\ p[r].cmd # "OFF"
      BY <1>1 DEF On
    <3>2. p[r].dir \in conflict.told
      BY <1>1, <1>6, <3>1, UnpinnedWasTold
    <3> QED
      BY <3>2
  <2>2. running \subseteq Sides
    BY <1>2 DEF Claims
  <2>3. Cardinality(running) = 1 => (CHOOSE d \in running : TRUE) \in running
    BY <2>2, SideCount
  <2> HIDE DEF running
  <2>4. Incumbent(p, On(p)) = IF Cardinality(running) = 1
                              THEN CHOOSE d \in running : TRUE ELSE last
    BY DEF Incumbent, running
  <2> QED
    BY <2>1, <2>3, <2>4
<1> DEFINE best == BestExcess(p, ins, On(p))
<1>8. w \in IF best[Opposite(last)] > best[last] + Margin
            THEN {Opposite(last)} ELSE {last}
  BY <1>5, <1>7 DEF ByExcess
<1> QED
  BY <1>3, <1>4, <1>8

\* However the rooms' demands and dwells fall and whoever sets a unit by hand,
\* an unpinned conflict takes the outdoor unit from the direction that had it
\* to itself only for a claim stronger by more than the margin
\* (_arbitrate_by_excess).
THEOREM TakeoversAreEarned ==
    ASSUME CyclesAreShort
    PROVE  Spec => TakeoverIsEarned
<1> DEFINE Earned ==
        conflict'.losers # {} /\ conflict'.pins = {}
          /\ last # None /\ last' # last /\ conflict.told \subseteq {last}
        => conflict'.excess[last'] > conflict'.excess[last] + Margin
<1>1. IInv /\ [Next]_vars => [Earned]_vars
  <2> SUFFICES ASSUME IInv, [Next]_vars
               PROVE  Earned
    OBVIOUS
  <2>1. CASE \E ins, p, w : GroupInputs(ins) /\ Arbitrated(ins, p, w)
    BY <2>1, TakeoverInCycle
  <2>2. CASE last' = last
    BY <2>2
  <2> QED
    BY <2>1, <2>2, StepKinds DEF Leave, Join, Touch, vars
<1> QED
  BY <1>1, GroupInvariance, PTL DEF Spec, TakeoverIsEarned

----------------------------------------------------------------------------
(* Sharing an outdoor unit breaks no room's promise to its compressor.     *)

\* The machine's clock and the guard's saturate alike.
LEMMA Clocked ==
    ASSUME NEW r, NEW a \in Machine, NEW dt \in Nat
    PROVE  /\ Least(a.timer + dt, TimerCap) = Guard(r)!Capped(a.timer + dt)
           /\ a.timer = Guard(r)!Capped(a.timer + 0)
  BY MachineAssumption DEF Least, Guard!Capped, Machine

\* A room that keeps its proposal takes a step of its guard,
LEMMA WinnerGuarded ==
    ASSUME IInv, NEW ins, GroupInputs(ins), NEW p, NEW w,
           Arbitrated(ins, p, w), NEW r \in Rooms, r \notin Lost(p, w)
    PROVE  Guard(r)!Next
<1> DEFINE a == ms[r]
           in == ins[r]
           s == Entry(a, in)
<1>1. /\ a \in Machine /\ Referenced(a) /\ in \in Inputs /\ Dt \in Nat
      /\ DirectionOf(cmds[r]) = a.state
  BY GroupAssumption DEF IInv, Typed, TypeOK, GroupInputs, GroupInput
<1>2. /\ ms'[r] = Step(a, in, Dt).m /\ ms'[r] \in Machine
      /\ DirectionOf(cmds'[r]) = ms'[r].state
      /\ causes'[r] = CauseOf(r, in, Lost(p, w))
  <2>1. /\ ms'[r] = p[r].m /\ ms'[r] \in Machine
        /\ DirectionOf(cmds'[r]) = ms'[r].state
        /\ causes'[r] = CauseOf(r, ins[r], Lost(p, w))
        /\ p[r] = Propose(r, ins[r])
    BY Aftermath DEF IInv
  <2>2. Propose(r, in).m = Step(a, in, Dt).m
    BY DEF Propose
  <2> QED
    BY <2>1, <2>2
<1>3. PICK t, d : StepResult(a, in, Dt, s, t, d, Step(a, in, Dt))
  BY <1>1, StepParts
<1> HIDE DEF s
<1>4. /\ s \in Machine /\ t \in Machine
      /\ a.state \in Directions /\ ms'[r].state \in Directions
  BY <1>1, <1>2, <1>3 DEF StepResult, SyncResult, Machine
<1>5. t.state = s.state /\ t.timer = Guard(r)!Capped(s.timer + Dt)
  BY <1>1, <1>3, <1>4, Clocked DEF StepResult
<1>6. AnyMove(t, ms'[r]) /\ (~Forced(in) => FreeMove(t, ms'[r]))
  BY <1>2, <1>3 DEF StepResult, Decided, AnyMove, FreeMove, Kept
<1>7. AnyMove(a, s) /\ (~Adopts(a, in) => Kept(a, s))
  BY <1>3 DEF StepResult, SyncResult
<1>8. Dt \in {0, Dt}
  OBVIOUS
<1>9. CASE Adopts(a, in)
  <2>1. s.timer = 0 => Guard(r)!Capped(s.timer + Dt) = Guard(r)!Capped(Dt)
    BY <1>1
  <2>2. \/ ms'[r].timer = 0 \/ ms'[r].timer = Guard(r)!Capped(Dt)
        \/ Guard(r)!Keep(Dt)
    BY <1>1, <1>2, <1>5, <1>6, <1>7, <2>1 DEF AnyMove, Kept, Guard!Keep
  <2>3. Guard(r)!Adopt(Dt)
    BY <1>2, <1>4, <1>9, <2>2
    DEF Guard!Adopt, Guard!Dirs, Directions, CauseOf
  <2> QED
    BY <1>8, <2>3 DEF Guard!Next
<1>10. CASE ~Adopts(a, in) /\ Forced(in)
  <2>1. Guard(r)!Force(Dt)
    BY <1>1, <1>2, <1>4, <1>5, <1>6, <1>7, <1>10
    DEF Guard!Force, Guard!Keep, Guard!Dirs, Directions, CauseOf, AnyMove,
        Kept
  <2> QED
    BY <1>8, <2>1 DEF Guard!Next
<1>11. CASE ~Adopts(a, in) /\ ~Forced(in)
  <2>1. Guard(r)!Free(Dt)
    BY <1>1, <1>2, <1>4, <1>5, <1>6, <1>7, <1>11
    DEF Guard!Free, Guard!Keep, Guard!Start, Guard!Stop, Guard!Dirs,
        Directions, CauseOf, FreeMove, Kept
  <2> QED
    BY <1>8, <2>1 DEF Guard!Next
<1> QED
  BY <1>9, <1>10, <1>11

\* and so does one that loses: what it takes back had not begun, or was long
\* enough.
LEMMA LoserGuarded ==
    ASSUME IInv, NEW ins, GroupInputs(ins), NEW p, NEW w,
           Arbitrated(ins, p, w), NEW r \in Lost(p, w)
    PROVE  Guard(r)!Next
<1> DEFINE a == ms[r]
           in == ins[r]
           s == Entry(a, in)
           q == p[r].m
<1>1. /\ live \subseteq Rooms /\ last \in Sides \cup {None}
      /\ \A u \in Rooms : Proposed(u, ins[u], p[u])
  BY Aftermath DEF IInv, Typed, TypeOK, Sides
<1>2. Claims(p, On(p))
  BY <1>1, OnClaims DEF Proposed
<1>3. r \in On(p) /\ r \in Rooms /\ p[r].cmd # "OFF"
  BY <1>1 DEF Lost, Losers, On
<1>4. ~Pins(p[r])
  BY <1>1, <1>2, WinnerFacts DEF Lost, Arbitrated
<1>5. /\ a \in Machine /\ Referenced(a) /\ in \in Inputs /\ Dt \in Nat
      /\ DirectionOf(cmds[r]) = a.state
  BY <1>3, GroupAssumption DEF IInv, Typed, TypeOK, GroupInputs, GroupInput
<1>6. /\ p[r] = Propose(r, in) /\ Proposed(r, in, p[r])
      /\ cmds'[r] = "OFF" /\ ms'[r].state = "OFF" /\ AnyMove(q, ms'[r])
      /\ causes'[r] = CauseOf(r, in, Lost(p, w))
  BY <1>3, Aftermath DEF IInv
<1>7. q = Step(a, in, Dt).m /\ p[r].entry = s.state
  BY <1>6 DEF Propose
<1>8. q \in Machine /\ q.state # "OFF" /\ Honest(q)
  BY <1>3, <1>6 DEF Proposed, DirectionOf
<1>9. PICK t, d : StepResult(a, in, Dt, s, t, d, Step(a, in, Dt))
  BY <1>5, StepParts
<1> HIDE DEF s
<1>10. DirectionOf(cmds'[r]) = "OFF" /\ ms'[r].timer = 0
  BY <1>6, <1>8 DEF AnyMove, Kept, DirectionOf
<1>11. Dt \in {0, Dt} /\ "OFF" \in Guard(r)!Dirs
  BY DEF Guard!Dirs
<1>12. CASE Adopts(a, in)
  <2>1. Guard(r)!Adopt(Dt)
    BY <1>6, <1>10, <1>11, <1>12 DEF Guard!Adopt, CauseOf
  <2> QED
    BY <1>11, <2>1 DEF Guard!Next
<1>13. CASE ~Adopts(a, in) /\ Forced(in)
  <2>1. Guard(r)!Force(Dt)
    BY <1>6, <1>10, <1>11, <1>13 DEF Guard!Force, CauseOf
  <2> QED
    BY <1>11, <2>1 DEF Guard!Next
<1>14. CASE ~Adopts(a, in) /\ ~Forced(in)
  <2>1. Kept(a, s) /\ s \in Machine
    BY <1>9, <1>14 DEF StepResult, SyncResult
  <2>2. /\ FreeMove(t, q) /\ t.state = s.state
        /\ t.timer = Guard(r)!Capped(s.timer + Dt)
    BY <1>5, <1>7, <1>9, <1>14, <2>1, Clocked
    DEF StepResult, Decided, FreeMove, Kept
  <2>3. CASE t.state = "OFF"
    <3>1. DirectionOf(cmds[r]) = "OFF"
      BY <1>5, <2>1, <2>2, <2>3 DEF Kept
    <3>2. Guard(r)!Yield(Dt)
      BY <1>6, <1>10, <1>14, <3>1 DEF Guard!Yield, CauseOf
    <3> QED
      BY <1>11, <3>2 DEF Guard!Next
  <2>4. CASE t.state # "OFF"
    <3>1. Kept(t, q)
      BY <1>8, <2>2, <2>4 DEF FreeMove
    <3>2. q.dwell \in Nat /\ ~(q.dwell > 0)
      <4>1. p[r].entry = p[r].m.state
        BY <1>7, <2>2, <3>1 DEF Kept
      <4> QED
        BY <1>4, <1>8, <4>1, MachineAssumption DEF Pins, LockedOn, Machine
    <3>3. q.timer >= MinOn
      BY <1>8, <3>2, MachineAssumption DEF Honest, Minus, Machine
    <3>4. Guard(r)!Capped(a.timer + Dt) >= MinOn
      BY <2>1, <2>2, <3>1, <3>3 DEF Kept
    <3>5. Guard(r)!Yield(Dt)
      BY <1>6, <1>10, <1>14, <3>4 DEF Guard!Yield, CauseOf
    <3> QED
      BY <1>11, <3>5 DEF Guard!Next
  <2> QED
    BY <2>3, <2>4
<1> QED
  BY <1>12, <1>13, <1>14

\* and so does a room that leaves.
LEMMA LeaveGuarded ==
    ASSUME IInv, NEW r \in Rooms, Leave(r)
    PROVE  /\ Guard(r)!Next
           /\ \A q \in Rooms \ {r} : UNCHANGED Guard(q)!vars
<1> DEFINE b == NoteCommand(ForceOff(ms[r]), "OFF")
<1>1. ms \in [Rooms -> Machine] /\ cmds \in [Rooms -> Commands]
      /\ causes \in [Rooms -> {"none", "force", "adopt", "yield"}]
      /\ DirectionOf(cmds[r]) = ms[r].state
  BY DEF IInv, Typed, TypeOK
<1>2. AnyMove(ms[r], b) /\ b.state = "OFF"
  BY <1>1, ParkReferenced DEF IInv, Typed
<1> HIDE DEF b
<1>3. /\ ms' = [ms EXCEPT ![r] = b] /\ cmds' = [cmds EXCEPT ![r] = "OFF"]
      /\ causes' = [q \in Rooms |-> IF q = r THEN "force" ELSE causes[q]]
  BY DEF Leave, b
<1>4. ms'[r] = b /\ DirectionOf(cmds'[r]) = "OFF" /\ causes'[r] = "force"
  BY <1>1, <1>3 DEF DirectionOf
<1>5. ms[r].timer = Guard(r)!Capped(ms[r].timer + 0)
  BY <1>1, Clocked
<1>6. Guard(r)!Force(0)
  BY <1>1, <1>2, <1>4, <1>5
  DEF Guard!Force, Guard!Keep, Guard!Dirs, AnyMove, Kept
<1>7. ASSUME NEW q \in Rooms \ {r}
      PROVE  UNCHANGED Guard(q)!vars
  <2>1. ms'[q] = ms[q] /\ cmds'[q] = cmds[q] /\ causes'[q] = causes[q]
    BY <1>1, <1>3
  <2> QED
    BY <2>1 DEF Guard!vars
<1> QED
  BY <1>6, <1>7 DEF Guard!Next

\* Every room of the group, whatever the others do, keeps the promise to its
\* compressor: a lost arbitration cuts no minimal run and no pause short
\* (resolve_group_conflict, fast_source_locked_on).
THEOREM AllGuardsKept == Spec => GuardsKept
<1> DEFINE Cold == \A r \in Rooms : Guard(r)!Init
           Guarded == \A r \in Rooms : Guard(r)!Next \/ UNCHANGED Guard(r)!vars
<1>1. Init => Cold
  BY DEF Init, Guard!Init, ColdMachine, DirectionOf
<1>2. IInv /\ [Next]_vars => [Guarded]_vars
  <2> SUFFICES ASSUME IInv, [Next]_vars
               PROVE  Guarded
    OBVIOUS
  <2>1. CASE \E ins, p, w : GroupInputs(ins) /\ Arbitrated(ins, p, w)
    BY <2>1, WinnerGuarded, LoserGuarded
  <2>2. CASE \E r \in Rooms : Leave(r)
    BY <2>2, LeaveGuarded
  <2>3. CASE UNCHANGED <<ms, cmds, causes>>
    BY <2>3 DEF Guard!vars
  <2> QED
    BY <2>1, <2>2, <2>3, StepKinds DEF Join, Touch, vars
<1> QED
  BY <1>1, <1>2, GroupInvariance, PTL DEF Spec, GuardsKept

=============================================================================
