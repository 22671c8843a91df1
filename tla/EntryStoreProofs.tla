--------------------------- MODULE EntryStoreProofs ---------------------------
(***************************************************************************)
(* Proofs about the config entry and the coordinator's copies of it: for   *)
(* any rooms, wirings and number of browser tabs, a running coordinator    *)
(* works with the states and the tuning of the options, and an actuator    *)
(* under command belongs to one of its live rooms or was left by a restart *)
(* and not taken over yet.  With one tab the coordinator also regulates to *)
(* the offset each room was last given.  The second half is about what an  *)
(* entry stores: through migrations, saves and releases it stands for what *)
(* the user chose.                                                         *)
(***************************************************************************)
EXTENDS EntryStore, EntryTuning, SequenceTheorems, WellFoundedInduction,
        TLAPS

----------------------------------------------------------------------------
(* The shape of the records.                                               *)

OptionsShaped ==
    /\ DOMAIN options = {"states", "tuning"}
    /\ options = [f \in {"states", "tuning"} |-> options[f]]

Shaped(m) ==
    /\ DOMAIN m = {"rooms", "states", "offset", "sig"}
    /\ m = [f \in {"rooms", "states", "offset", "sig"} |-> m[f]]
    /\ DOMAIN m.states = NamesOf(m.rooms)
    /\ m.states = [n \in NamesOf(m.rooms) |-> m.states[n]]

\* The copies follow the options.
Adopted ==
    /\ mem.sig = Signature(options)
    /\ \A n \in NamesOf(mem.rooms) : mem.states[n] = StateOf(options, n)

AdoptedWhenRunning ==
    phase \in {"ready", "starting"} /\ ~due /\ ~missed => Adopted

\* The entry is left without a coordinator only when all is parked that a
\* coordinator has taken over.
AllParkedWhenDown == phase \in {"parked", "down"} => driven \subseteq stranded

IInv ==
    /\ OptionsShaped /\ Shaped(mem)
    /\ AdoptedWhenRunning
    /\ ParkedOnLeave /\ AllParkedWhenDown

----------------------------------------------------------------------------
(* Lemmas.                                                                 *)

\* The state written for a room is the one read back.
LEMMA UpdateReads ==
    ASSUME NEW f, NEW key, NEW value
    PROVE  Get(Update(f, key, value), key, "off") = value
  BY DEF Get, Update

\* A listener that lets an options write pass without a reload has seen that
\* the copies agree with it; a write during the set-up is remembered.
LEMMA SaveAdopts ==
    ASSUME AdoptedWhenRunning, NEW d, NEW o, NEW m, Save(d, o, m), phase' = phase,
           phase = "starting" => m = mem,
           options' = options /\ Adopted => Adopted'
    PROVE  AdoptedWhenRunning'
  <1>. SUFFICES ASSUME phase \in {"ready", "starting"}, ~due', ~missed'
                PROVE  Adopted'
    BY DEF AdoptedWhenRunning
  <1>1. ~due /\ ~missed
    BY DEF Save
  <1>2. Adopted
    BY <1>1 DEF AdoptedWhenRunning
  <1>3. CASE <<d, o>> = entry
    BY <1>2, <1>3 DEF Save, entry
  <1>4. CASE <<d, o>> # entry
    <2>1. phase = "ready"
      BY <1>4 DEF Save
    <2>2. ~RequiresReload(o, m)
      BY <1>4, <2>1 DEF Save, Listening
    <2>. QED  BY <2>2 DEF Save, RequiresReload, Adopted
  <1>. QED  BY <1>3, <1>4

\* A write that leaves the copies alone.
LEMMA SaveKeeps ==
    ASSUME IInv, NEW d, NEW o, Save(d, o, mem), phase' = phase, driven' = driven,
           stranded' = stranded, OptionsShaped'
    PROVE  IInv'
  <1>1. mem' = mem
    BY DEF Save
  <1>2. options' = options /\ Adopted => Adopted'
    BY <1>1 DEF Adopted
  <1>3. AdoptedWhenRunning'
    BY <1>2, SaveAdopts DEF IInv
  <1>4. Shaped(mem)'
    BY <1>1 DEF IInv, Shaped
  <1>5. ParkedOnLeave' /\ AllParkedWhenDown'
    BY <1>1 DEF IInv, ParkedOnLeave, AllParkedWhenDown
  <1>. QED  BY <1>3, <1>4, <1>5 DEF IInv

\* A step that writes neither the options nor the copies' states.
LEMMA OffsetsOnly ==
    ASSUME IInv, options' = options, Shaped(mem)',
           mem'.rooms = mem.rooms, mem'.states = mem.states, mem'.sig = mem.sig,
           phase' = phase, due' = due, missed' = missed, driven' = driven,
           stranded' = stranded
    PROVE  IInv'
  <1>1. OptionsShaped'
    BY DEF IInv, OptionsShaped
  <1>2. AdoptedWhenRunning'
    BY DEF IInv, AdoptedWhenRunning, Adopted
  <1>3. ParkedOnLeave' /\ AllParkedWhenDown'
    BY DEF IInv, ParkedOnLeave, AllParkedWhenDown, LiveWirings, Live
  <1>. QED  BY <1>1, <1>2, <1>3 DEF IInv

LEMMA ShapeOfOffsets ==
    ASSUME Shaped(mem), NEW f, mem' = [mem EXCEPT !.offset = f]
    PROVE  /\ Shaped(mem)'
           /\ mem'.rooms = mem.rooms /\ mem'.states = mem.states /\ mem'.sig = mem.sig
  BY DEF Shaped

\* set_setpoint_offset and the removal's pruning touch the offsets alone.
LEMMA OffsetsInv ==
    ASSUME IInv, SetOffset \/ DelayedSave \/ \E t \in Tabs : RemoveBegin(t)
    PROVE  IInv'
  <1>1. CASE SetOffset
    <2>1. PICK n, o : mem' = [mem EXCEPT !.offset[n] = o]
      BY <1>1 DEF SetOffset
    <2>2. mem' = [mem EXCEPT !.offset = [mem.offset EXCEPT ![n] = o]]
      BY <2>1
    <2>. QED  BY <1>1, <2>2, ShapeOfOffsets, OffsetsOnly DEF SetOffset, IInv
  <1>2. CASE DelayedSave
    BY <1>2, OffsetsOnly DEF DelayedSave, IInv, Shaped
  <1>3. CASE \E t \in Tabs : RemoveBegin(t)
    <2>1. PICK n : mem' = Pruned(mem, n)
      BY <1>3 DEF RemoveBegin
    <2>2. mem' = [mem EXCEPT !.offset = Drop(mem.offset, n)]
      BY <2>1 DEF Pruned
    <2>. QED  BY <1>3, <2>2, ShapeOfOffsets, OffsetsOnly DEF RemoveBegin, IInv
  <1>. QED  BY <1>1, <1>2, <1>3

----------------------------------------------------------------------------
(* The actions that write the entry.                                       *)

\* set_room_state changes the copy and the options alike, and parks the
\* wiring of the room that leaves live.
LEMMA SetRoomStateInv == ASSUME IInv, SetRoomState PROVE IInv'
  <1>1. PICK n \in NamesOf(mem.rooms), s \in {"off", "live"} :
            /\ driven' = driven \ Farewelled(mem, n, s)
            /\ stranded' = stranded \ Farewelled(mem, n, s)
            /\ Save(data, [options EXCEPT !.states = Update(@, n, s)],
                    [mem EXCEPT !.states[n] = s])
    BY DEF SetRoomState
  <1>. DEFINE o == [options EXCEPT !.states = Update(@, n, s)]
              m == [mem EXCEPT !.states[n] = s]
  <1>2. /\ phase \in {"ready", "flushed", "parked"} /\ phase' = phase
        /\ options' = o /\ mem' = m
    BY <1>1 DEF SetRoomState, Save
  <1>3. OptionsShaped' /\ StateOf(o, n) = s
    <2>1. OptionsShaped'
      BY <1>2 DEF IInv, OptionsShaped
    <2>2. o.states = Update(options.states, n, s)
      BY DEF IInv, OptionsShaped
    <2>. QED  BY <2>1, <2>2, UpdateReads DEF StateOf
  <1>4. /\ m.rooms = mem.rooms /\ m.sig = mem.sig
        /\ m.states = [mem.states EXCEPT ![n] = s]
        /\ \A x \in NamesOf(mem.rooms) : m.states[x] = IF x = n THEN s ELSE mem.states[x]
        /\ Shaped(m)
    BY DEF IInv, Shaped
  <1>. HIDE DEF o, m
  <1>5. options' = options /\ Adopted => Adopted'
    BY <1>2, <1>3, <1>4 DEF Adopted
  <1>6. AdoptedWhenRunning'
    BY <1>1, <1>2, <1>5, SaveAdopts DEF IInv, o, m
  <1>7. ParkedOnLeave'
    <2>. SUFFICES ASSUME NEW w \in driven, w \notin Farewelled(mem, n, s),
                         w \notin stranded
                  PROVE  w \in LiveWirings(m)
      BY <1>1, <1>2 DEF ParkedOnLeave
    <2>1. PICK i \in DOMAIN mem.rooms :
              mem.states[mem.rooms[i].name] = "live" /\ w = mem.rooms[i].wiring
      BY DEF IInv, ParkedOnLeave, LiveWirings, Live
    <2>2. mem.rooms[i].name \in NamesOf(mem.rooms)
      BY DEF NamesOf
    <2>3. m.states[mem.rooms[i].name] = "live"
      <3>1. CASE mem.rooms[i].name # n
        BY <1>4, <2>1, <2>2, <3>1
      <3>2. CASE mem.rooms[i].name = n
        <4>1. s # "off"
          BY <2>1, <3>2 DEF Farewelled
        <4>. QED  BY <1>4, <2>2, <3>2, <4>1
      <3>. QED  BY <3>1, <3>2
    <2>. QED  BY <1>4, <2>1, <2>3 DEF LiveWirings, Live
  <1>8. AllParkedWhenDown'
    BY <1>1, <1>2 DEF IInv, AllParkedWhenDown
  <1>9. Shaped(mem)'
    BY <1>2, <1>4 DEF Shaped
  <1>. QED  BY <1>3, <1>6, <1>7, <1>8, <1>9 DEF IInv

\* ws_set_tuning and the flows write the entry behind the coordinator's back.
LEMMA FormsInv ==
    ASSUME IInv, \/ SetRoomTuning
                 \/ \E t \in Tabs : SubmitSettings(t) \/ SubmitAdd(t) \/ SubmitEdit(t)
    PROVE  IInv'
  <1>1. /\ phase' = phase /\ driven' = driven /\ stranded' = stranded
        /\ \E d, o : /\ Save(d, o, mem)
                     /\ \/ o = options
                        \/ \E x : o = [options EXCEPT !.states = x]
                        \/ \E x : o = [options EXCEPT !.tuning = x]
    <2>1. CASE SetRoomTuning
      BY <2>1 DEF SetRoomTuning
    <2>2. CASE \E t \in Tabs : SubmitSettings(t)
      BY <2>2 DEF SubmitSettings
    <2>3. CASE \E t \in Tabs : SubmitAdd(t)
      BY <2>3 DEF SubmitAdd
    <2>4. CASE \E t \in Tabs : SubmitEdit(t)
      BY <2>4 DEF SubmitEdit
    <2>. QED  BY <2>1, <2>2, <2>3, <2>4
  <1>2. PICK d, o : /\ Save(d, o, mem)
                    /\ \/ o = options
                       \/ \E x : o = [options EXCEPT !.states = x]
                       \/ \E x : o = [options EXCEPT !.tuning = x]
    BY <1>1
  <1>3. OptionsShaped'
    <2>1. options' = o
      BY <1>2 DEF Save
    <2>. QED  BY <1>2, <2>1 DEF IInv, OptionsShaped
  <1>. QED  BY <1>1, <1>2, <1>3, SaveKeeps

LEMMA RemoveEndInv ==
    ASSUME IInv, NEW t \in Tabs, RemoveEnd(t)
    PROVE  IInv'
  <1>. DEFINE n == form[t].name
              d == Without(form[t].rooms, n)
              x == Drop(options.states, n)
              y == {Overridden \ {n}}
              o == [options EXCEPT !.states = x, !.tuning = y]
  <1>1. Save(d, o, mem) /\ phase' = phase /\ driven' = driven /\ stranded' = stranded
    BY DEF RemoveEnd
  <1>. HIDE DEF d, x, y
  <1>2. options' = o
    BY <1>1 DEF Save
  <1>3. OptionsShaped'
    BY <1>2 DEF IInv, OptionsShaped
  <1>. HIDE DEF o
  <1>. QED  BY <1>1, <1>3, SaveKeeps

\* Opening a leaf of a flow writes nothing.
LEMMA PickInv ==
    ASSUME IInv, \E t \in Tabs : OpenSettings(t) \/ PickAdd(t) \/ PickEdit(t)
    PROVE  IInv'
  <1>1. UNCHANGED <<options, mem, phase, due, missed, driven, stranded>>
    BY DEF OpenSettings, PickAdd, PickEdit
  <1>. QED  BY <1>1, OffsetsOnly DEF IInv, Shaped

----------------------------------------------------------------------------
(* The cycle, the reload and the crash.                                    *)

LEMMA CycleInv == ASSUME IInv, Cycle PROVE IInv'
  <1>1. /\ phase \in {"ready", "starting"}
        /\ driven' = driven \cup (LiveWirings(mem) \cap Followed)
        /\ stranded' = stranded \ LiveWirings(mem)
        /\ UNCHANGED <<options, mem, phase, due, missed>>
    BY DEF Cycle
  <1>2. ParkedOnLeave' /\ AllParkedWhenDown'
    BY <1>1 DEF IInv, ParkedOnLeave, AllParkedWhenDown
  <1>3. OptionsShaped' /\ Shaped(mem)' /\ AdoptedWhenRunning'
    BY <1>1 DEF IInv, OptionsShaped, Shaped, AdoptedWhenRunning, Adopted
  <1>. QED  BY <1>2, <1>3 DEF IInv

\* The coordinator that is built anew is a copy of the entry.
LEMMA BuiltIsAdopted ==
    ASSUME NEW d, NEW o, NEW m, m = Loaded(Coordinator(d, o))
    PROVE  /\ Shaped(m) /\ m.sig = Signature(o)
           /\ \A n \in NamesOf(m.rooms) : m.states[n] = StateOf(o, n)
  <1>. DEFINE c == Coordinator(d, o)
              f == [n \in NamesOf(c.rooms) |-> Get(disk, n, c.offset[n])]
  <1>1. m = [rooms |-> d, states |-> [n \in NamesOf(d) |-> StateOf(o, n)],
             offset |-> f, sig |-> Signature(o)]
    BY DEF Loaded, Coordinator
  <1>. HIDE DEF f
  <1>2. m.rooms = d /\ m.states = [n \in NamesOf(d) |-> StateOf(o, n)]
        /\ m.sig = Signature(o)
    BY <1>1
  <1>3. Shaped(m)
    BY <1>1, <1>2 DEF Shaped
  <1>. QED  BY <1>2, <1>3

LEMMA NoCoordinatorShaped ==
    Shaped(NoCoordinator) /\ LiveWirings(NoCoordinator) = {}
  BY DEF NoCoordinator, Shaped, NamesOf, LiveWirings, Live

LEMMA ReloadInv == ASSUME IInv, Reload PROVE IInv'
  <1>1. CASE Flush
    BY <1>1 DEF Flush, IInv, OptionsShaped, Shaped, AdoptedWhenRunning,
                ParkedOnLeave, AllParkedWhenDown
  <1>2. CASE Park
    <2>1. /\ phase' = "parked" /\ driven' = driven \ LiveWirings(mem)
          /\ stranded' = stranded \ LiveWirings(mem)
          /\ options' = options /\ mem' = mem
      BY <1>2 DEF Park
    <2>2. driven' \subseteq stranded'
      BY <2>1 DEF IInv, ParkedOnLeave
    <2>. QED  BY <2>1, <2>2 DEF IInv, OptionsShaped, Shaped, AdoptedWhenRunning,
                               ParkedOnLeave, AllParkedWhenDown
  <1>3. CASE UnloadPlatforms
    <2>1. /\ phase = "parked" /\ phase' = "down" /\ mem' = NoCoordinator
          /\ options' = options /\ driven' = driven /\ stranded' = stranded
      BY <1>3 DEF UnloadPlatforms
    <2>2. driven' \subseteq stranded'
      BY <2>1 DEF IInv, AllParkedWhenDown
    <2>3. Shaped(mem)'
      BY <2>1, NoCoordinatorShaped DEF Shaped
    <2>. QED  BY <2>1, <2>2, <2>3 DEF IInv, OptionsShaped, AdoptedWhenRunning,
                               ParkedOnLeave, AllParkedWhenDown
  <1>4. CASE Build
    <2>1. /\ phase = "down" /\ phase' = "starting"
          /\ mem' = Loaded(Coordinator(data, options))
          /\ options' = options /\ driven' = driven
          /\ stranded' = stranded \ LiveWirings(mem')
      BY <1>4 DEF Build
    <2>2. /\ Shaped(mem)' /\ mem'.sig = Signature(options)
          /\ \A n \in NamesOf(mem'.rooms) : mem'.states[n] = StateOf(options, n)
      BY <2>1, BuiltIsAdopted DEF Shaped
    <2>3. driven' \subseteq LiveWirings(mem') \cup stranded'
      BY <2>1 DEF IInv, AllParkedWhenDown
    <2>. QED  BY <2>1, <2>2, <2>3 DEF IInv, OptionsShaped, AdoptedWhenRunning, Adopted,
                               ParkedOnLeave, AllParkedWhenDown
  <1>5. CASE Listen
    <2>1. /\ phase = "starting" /\ phase' = "ready"
          /\ UNCHANGED <<options, mem, due, missed, driven, stranded>>
      BY <1>5 DEF Listen
    <2>. QED  BY <2>1 DEF IInv, OptionsShaped, Shaped, AdoptedWhenRunning, Adopted,
                         ParkedOnLeave, AllParkedWhenDown
  <1>. QED  BY <1>1, <1>2, <1>3, <1>4, <1>5 DEF Reload

LEMMA CrashInv == ASSUME IInv, Crash PROVE IInv'
  <1>1. /\ phase' = "down" /\ mem' = NoCoordinator /\ options' = options
        /\ driven' = driven /\ stranded' = driven
    BY DEF Crash
  <1>2. Shaped(mem)'
    BY <1>1, NoCoordinatorShaped DEF Shaped
  <1>. QED  BY <1>1, <1>2 DEF IInv, OptionsShaped, AdoptedWhenRunning,
                         ParkedOnLeave, AllParkedWhenDown

LEMMA InitInv == Init => IInv
  <1>. SUFFICES ASSUME Init PROVE IInv
    OBVIOUS
  <1>1. OptionsShaped
    BY DEF Init, OptionsShaped
  <1>2. Shaped(mem)
    BY NoCoordinatorShaped DEF Init
  <1>. QED  BY <1>1, <1>2 DEF Init, IInv, AdoptedWhenRunning, ParkedOnLeave,
                              AllParkedWhenDown

LEMMA NextInv == IInv /\ [Next]_vars => IInv'
  <1>. SUFFICES ASSUME IInv, [Next]_vars PROVE IInv'
    OBVIOUS
  <1>1. CASE SetOffset \/ DelayedSave
    BY <1>1, OffsetsInv
  <1>2. CASE SetRoomState
    BY <1>2, SetRoomStateInv
  <1>3. CASE SetRoomTuning
    BY <1>3, FormsInv
  <1>4. CASE Cycle
    BY <1>4, CycleInv
  <1>5. CASE Reload
    BY <1>5, ReloadInv
  <1>6. CASE Crash
    BY <1>6, CrashInv
  <1>7. CASE \E t \in Tabs : Flow(t)
    BY <1>7, OffsetsInv, FormsInv, RemoveEndInv, PickInv DEF Flow
  <1>8. CASE UNCHANGED vars
    BY <1>8, OffsetsOnly DEF vars, IInv, Shaped
  <1>. QED  BY <1>1, <1>2, <1>3, <1>4, <1>5, <1>6, <1>7, <1>8 DEF Next

LEMMA Invariant == Spec => []IInv
  BY InitInv, NextInv, PTL DEF Spec

----------------------------------------------------------------------------
(* The results.                                                            *)

\* A running coordinator with no reload on its way works with the states and
\* the tuning of the options, for any rooms and any number of tabs, flows
\* and crashes.
THEOREM OptionsAreAdopted == Spec => []StatesAdopted
  <1>1. IInv => StatesAdopted
    BY DEF IInv, AdoptedWhenRunning, Adopted, StatesAdopted
  <1>. QED  BY <1>1, Invariant, PTL

\* Whatever was removed, remapped or switched off in the entry has been
\* parked by the coordinator that drove it, over any number of reloads and
\* flows; only what a restart left commanded may have no owner, until a
\* coordinator takes it over.
THEOREM LeftIsParked == Spec => []ParkedOnLeave
  <1>1. IInv => ParkedOnLeave
    BY DEF IInv
  <1>. QED  BY <1>1, Invariant, PTL

----------------------------------------------------------------------------
(* Setpoints.  What a room was last given is in the coordinator's memory,  *)
(* and in the Store once no save is pending; neither keeps anything of a   *)
(* room that is gone, so a room of the same name starts from its seed.     *)
(* The options flow is open in one tab: it writes back what it read.       *)

OneTab == \A t, u \in Tabs : t = u

RoomRecords == [name : Names, wiring : UNION {Wirings[n] : n \in Names}]

RoomsShaped == data \in Seq(RoomRecords) /\ DOMAIN form = Tabs

StoredAreRooms == DOMAIN mem.offset \cup DOMAIN disk \subseteq NamesOf(data)

FormFollows(t) ==
    /\ form[t].kind = "add" => form[t].name \in Names \ NamesOf(data)
    /\ form[t].kind = "edit" =>
         form[t].index \in DOMAIN data /\ form[t].name = data[form[t].index].name
    /\ form[t].kind = "remove" =>
         /\ form[t].rooms = data /\ form[t].name \in NamesOf(data)
         /\ form[t].name \notin DOMAIN mem.offset \cup DOMAIN disk

FormsFollow == \A t \in Tabs : FormFollows(t)

Regulated ==
    \A n \in DOMAIN mem.offset \cap DOMAIN want : mem.offset[n] = want[n]

Recorded == ~timer => \A n \in DOMAIN want : Get(disk, n, Seed) = want[n]

SeedUntilLoaded ==
    phase # "down" => \A n \in DOMAIN want \ DOMAIN mem.offset : want[n] = Seed

SavedWhenDown == phase = "down" => ~timer /\ mem = NoCoordinator

KInv ==
    /\ RoomsShaped /\ StoredAreRooms /\ FormsFollow
    /\ Regulated /\ Recorded /\ SeedUntilLoaded /\ SavedWhenDown

\* A room that is added or edited, and the names that leaves.
LEMMA NamesAppend ==
    ASSUME NEW S, NEW d \in Seq(S), NEW r \in S
    PROVE  Append(d, r) \in Seq(S) /\ NamesOf(d) \subseteq NamesOf(Append(d, r))
           /\ r.name \in NamesOf(Append(d, r))
  <1>1. /\ Append(d, r) \in Seq(S) /\ Len(Append(d, r)) = Len(d) + 1
        /\ \A i \in 1..Len(d) : Append(d, r)[i] = d[i]
        /\ Append(d, r)[Len(d) + 1] = r
    BY AppendProperties
  <1>2. DOMAIN d = 1..Len(d) /\ Len(d) \in Nat
        /\ DOMAIN Append(d, r) = 1..(Len(d) + 1)
    BY <1>1, LenProperties
  <1>3. \A i \in 1..Len(d) : i \in 1..(Len(d) + 1)
    BY <1>2
  <1>4. Len(d) + 1 \in 1..(Len(d) + 1)
    BY <1>2
  <1>. QED  BY <1>1, <1>2, <1>3, <1>4 DEF NamesOf

LEMMA NamesExcept ==
    ASSUME NEW S, NEW d \in Seq(S), NEW i \in DOMAIN d, NEW r \in S, r.name = d[i].name
    PROVE  [d EXCEPT ![i] = r] \in Seq(S)
           /\ NamesOf([d EXCEPT ![i] = r]) = NamesOf(d)
  <1>. DEFINE e == [d EXCEPT ![i] = r]
  <1>1. DOMAIN d = 1..Len(d)
    BY LenProperties
  <1>2. e \in Seq(S) /\ DOMAIN e = DOMAIN d
    BY <1>1, ExceptSeq
  <1>3. \A j \in DOMAIN d : e[j].name = d[j].name
    OBVIOUS
  <1>. HIDE DEF e
  <1>4. NamesOf(e) = NamesOf(d)
    BY <1>2, <1>3 DEF NamesOf
  <1>. QED  BY <1>2, <1>4 DEF e

\* A removal takes one name away at most.
LEMMA NamesWithout ==
    ASSUME NEW S, NEW d \in Seq(S), NEW n \in NamesOf(d)
    PROVE  /\ Without(d, n) \in Seq(S) /\ Len(Without(d, n)) = Len(d) - 1
           /\ NamesOf(d) \ {n} \subseteq NamesOf(Without(d, n))
  <1>. DEFINE First(i) == d[i].name = n /\ \A j \in 1..(i - 1) : d[j].name # n
              named == {i \in DOMAIN d : d[i].name = n}
              index == CHOOSE i \in DOMAIN d : First(i)
              left == SubSeq(d, 1, index - 1)
              right == SubSeq(d, index + 1, Len(d))
  <1>1. /\ DOMAIN d = 1..Len(d) /\ Len(d) \in Nat
        /\ \A i \in 1..Len(d) : d[i] \in S
    BY LenProperties
  <1>2. index \in DOMAIN d /\ d[index].name = n
    <2>1. named \in SUBSET Nat /\ named # {}
      BY <1>1 DEF NamesOf
    <2>2. PICK m \in named : \A k \in named : m <= k
      <3>1. PICK m \in named : \A k \in named : <<k, m>> \notin OpToRel(<, Nat)
        BY <2>1, NatLessThanWellFounded, WFMin, Zenon
      <3>2. ASSUME NEW k \in named PROVE m <= k
        <4>1. <<k, m>> \in Nat \X Nat /\ k \in Nat /\ m \in Nat
          BY <2>1, <3>1, <3>2
        <4>2. ~(k < m)
          BY <3>1, <3>2, <4>1, Zenon DEF OpToRel
        <4>. QED  BY <4>1, <4>2
      <3>. QED  BY <3>1, <3>2
    <2>3. m \in DOMAIN d /\ First(m)
      <3>1. m \in 1..Len(d) /\ d[m].name = n
        BY <1>1, <2>2
      <3>2. ASSUME NEW j \in 1..(m - 1) PROVE d[j].name # n
        <4>1. j \in DOMAIN d /\ j < m
          BY <1>1, <3>1
        <4>2. j \notin named
          BY <2>1, <2>2, <3>1, <4>1
        <4>. QED  BY <4>1, <4>2
      <3>. QED  BY <1>1, <3>1, <3>2
    <2>. HIDE DEF First
    <2>4. index \in DOMAIN d /\ First(index)
      BY <2>3
    <2>. QED  BY <2>4 DEF First
  <1>3. Without(d, n) = left \o right
    BY DEF Without
  <1>. HIDE DEF index
  <1>4. /\ left \in Seq(S) /\ Len(left) = index - 1
        /\ \A i \in 1..(index - 1) : left[i] = d[i]
    <2>1. index \in Nat /\ index >= 1 /\ \A i \in 1..(index - 1) : d[i] \in S
      BY <1>1, <1>2
    <2>2. /\ left \in Seq(S)
          /\ Len(left) = IF 1 <= index - 1 THEN (index - 1) - 1 + 1 ELSE 0
          /\ \A i \in 1..((index - 1) - 1 + 1) : left[i] = d[1 + i - 1]
      BY <2>1, SubSeqProperties
    <2>. HIDE DEF left
    <2>. QED  BY <2>1, <2>2
  <1>5. /\ right \in Seq(S) /\ Len(right) = Len(d) - index
        /\ \A i \in 1..(Len(d) - index) : right[i] = d[index + i]
    <2>1. /\ index \in Nat /\ index >= 1 /\ index <= Len(d)
          /\ \A i \in (index + 1)..Len(d) : d[i] \in S
      BY <1>1, <1>2
    <2>2. /\ right \in Seq(S)
          /\ Len(right) = IF index + 1 <= Len(d) THEN Len(d) - (index + 1) + 1 ELSE 0
          /\ \A i \in 1..(Len(d) - (index + 1) + 1) : right[i] = d[(index + 1) + i - 1]
      BY <1>1, <2>1, SubSeqProperties
    <2>. HIDE DEF right
    <2>3. \A i \in 1..(Len(d) - index) :
             i \in 1..(Len(d) - (index + 1) + 1) /\ (index + 1) + i - 1 = index + i
      BY <1>1, <2>1
    <2>4. ASSUME NEW i \in 1..(Len(d) - index)
          PROVE  right[i] = d[index + i]
      <3>1. right[i] = d[(index + 1) + i - 1]
        BY <2>2, <2>3
      <3>. QED  BY <2>3, <3>1
    <2>5. Len(right) = Len(d) - index
      <3>1. Len(right) = IF index + 1 <= Len(d) THEN Len(d) - (index + 1) + 1 ELSE 0
        BY <2>2
      <3>2. index \in Nat /\ Len(d) \in Nat /\ index <= Len(d)
        BY <1>1, <2>1
      <3>. QED  BY <3>1, <3>2
    <2>. QED  BY <2>2, <2>4, <2>5
  <1>. HIDE DEF left, right
  <1>6. /\ left \o right \in Seq(S)
        /\ Len(left \o right) = Len(left) + Len(right)
        /\ \A i \in 1..(Len(left) + Len(right)) :
             (left \o right)[i] = IF i <= Len(left) THEN left[i] ELSE right[i - Len(left)]
    BY <1>4, <1>5, ConcatProperties
  <1>7. ASSUME NEW x \in NamesOf(d) \ {n}
        PROVE  x \in NamesOf(left \o right)
    <2>1. PICK i \in DOMAIN d : x = d[i].name
      BY <1>7 DEF NamesOf
    <2>2. i # index /\ i \in 1..Len(d) /\ index \in 1..Len(d)
      BY <1>1, <1>2, <1>7, <2>1
    <2>3. DOMAIN (left \o right) = 1..(Len(left) + Len(right))
      BY <1>6, LenProperties
    <2>4. CASE i < index
      <3>1. /\ i \in 1..(index - 1) /\ i \in 1..(Len(left) + Len(right)) /\ i <= Len(left)
        BY <1>1, <1>4, <1>5, <2>2, <2>4
      <3>2. (left \o right)[i] = d[i]
        BY <1>4, <1>6, <3>1
      <3>. QED  BY <2>1, <2>3, <3>1, <3>2 DEF NamesOf
    <2>5. CASE i > index
      <3>1. /\ i - 1 \in 1..(Len(left) + Len(right)) /\ ~(i - 1 <= Len(left))
            /\ (i - 1) - Len(left) = i - index /\ i - index \in 1..(Len(d) - index)
            /\ index + (i - index) = i
        <4>1. Len(left) = index - 1 /\ Len(right) = Len(d) - index /\ Len(d) \in Nat
          BY <1>1, <1>4, <1>5
        <4>. QED  BY <2>2, <2>5, <4>1
      <3>2. (left \o right)[i - 1] = right[i - index]
        <4>1. (left \o right)[i - 1] = IF i - 1 <= Len(left) THEN left[i - 1]
                                       ELSE right[(i - 1) - Len(left)]
          BY <1>6, <3>1
        <4>. QED  BY <3>1, <4>1
      <3>3. right[i - index] = d[i]
        BY <1>5, <3>1
      <3>. QED  BY <2>1, <2>3, <3>1, <3>2, <3>3 DEF NamesOf
    <2>. QED  BY <2>2, <2>4, <2>5
  <1>8. Len(left \o right) = Len(d) - 1
    <2>1. /\ index \in Nat /\ Len(d) \in Nat
          /\ Len(left) = index - 1 /\ Len(right) = Len(d) - index
          /\ Len(left \o right) = Len(left) + Len(right)
      BY <1>1, <1>2, <1>4, <1>5, <1>6
    <2>. QED  BY <2>1
  <1>. QED  BY <1>3, <1>6, <1>7, <1>8

----------------------------------------------------------------------------
(* The steps.                                                              *)

\* A step that leaves the setpoints, the rooms and the flows alone.
LEMMA SameSetpoints ==
    ASSUME KInv, UNCHANGED <<data, disk, timer, form, want>>,
           mem'.offset = mem.offset,
           phase' = "down" <=> phase = "down", phase = "down" => mem' = mem
    PROVE  KInv'
  <1>1. RoomsShaped' /\ StoredAreRooms'
    BY DEF KInv, RoomsShaped, StoredAreRooms
  <1>2. FormsFollow'
    BY DEF KInv, FormsFollow, FormFollows
  <1>3. Regulated' /\ Recorded'
    BY DEF KInv, Regulated, Recorded
  <1>4. SeedUntilLoaded' /\ SavedWhenDown'
    BY DEF KInv, SeedUntilLoaded, SavedWhenDown
  <1>. QED  BY <1>1, <1>2, <1>3, <1>4 DEF KInv

\* A step that changes nothing but the flow, which follows the entry again.
LEMMA OnlyTheFlow ==
    ASSUME OneTab, KInv, NEW t \in Tabs, NEW f, Keep(t, f),
           UNCHANGED <<data, mem, phase, disk, timer, want>>,
           form'[t] = f => FormFollows(t)'
    PROVE  KInv'
  <1>1. RoomsShaped' /\ form'[t] = f
    BY DEF KInv, RoomsShaped, Keep
  <1>2. FormsFollow'
    BY <1>1 DEF OneTab, FormsFollow
  <1>3. StoredAreRooms' /\ Regulated' /\ Recorded'
    BY DEF KInv, StoredAreRooms, Regulated, Recorded
  <1>4. SeedUntilLoaded' /\ SavedWhenDown'
    BY DEF KInv, SeedUntilLoaded, SavedWhenDown
  <1>. QED  BY <1>1, <1>2, <1>3, <1>4 DEF KInv

\* A flow that has ended follows the entry, whatever it becomes.
LEMMA EndedFlow ==
    ASSUME OneTab, KInv, NEW t \in Tabs, Keep(t, Idle)
    PROVE  FormsFollow' /\ DOMAIN form' = Tabs
  <1>1. form'[t] = Idle /\ DOMAIN form' = Tabs
    BY DEF KInv, RoomsShaped, Keep
  <1>2. FormFollows(t)'
    BY <1>1 DEF FormFollows, Idle
  <1>. QED  BY <1>1, <1>2 DEF OneTab, FormsFollow

\* What a save of the memory leaves in the Store.
LEMMA SaveRecords ==
    ASSUME KInv, phase # "down"
    PROVE  \A n \in DOMAIN want : Get(mem.offset, n, Seed) = want[n]
  BY DEF KInv, Regulated, SeedUntilLoaded, Get

\* What the memory is after a change of the offsets alone.
LEMMA OffsetChanged ==
    ASSUME IInv, NEW f, mem' = [mem EXCEPT !.offset = f]
    PROVE  mem'.offset = f /\ mem'.states = mem.states
  BY DEF IInv, Shaped

LEMMA KSetOffset == ASSUME IInv, KInv, SetOffset PROVE KInv'
  <1>1. PICK n \in Adjusted \cap DOMAIN mem.offset, o \in Offsets :
            mem' = [mem EXCEPT !.offset[n] = o] /\ want' = Update(want, n, o)
    BY DEF SetOffset
  <1>2. mem' = [mem EXCEPT !.offset = [mem.offset EXCEPT ![n] = o]]
    BY <1>1
  <1>3. mem'.offset = [mem.offset EXCEPT ![n] = o]
    BY <1>2, OffsetChanged
  <1>4. DOMAIN mem'.offset = DOMAIN mem.offset
        /\ \A x \in DOMAIN mem.offset : mem'.offset[x] = IF x = n THEN o ELSE mem.offset[x]
    BY <1>3
  <1>5. /\ phase # "down" /\ timer' = TRUE
        /\ UNCHANGED <<data, phase, disk, form>>
    BY DEF SetOffset
  <1>6. DOMAIN want' = DOMAIN want \cup {n}
        /\ \A x \in DOMAIN want' : want'[x] = IF x = n THEN o ELSE want[x]
    BY <1>1 DEF Update
  <1>7. RoomsShaped' /\ StoredAreRooms' /\ FormsFollow'
    BY <1>4, <1>5 DEF KInv, RoomsShaped, StoredAreRooms, FormsFollow, FormFollows
  <1>8. Regulated'
    BY <1>4, <1>6 DEF KInv, Regulated
  <1>9. SeedUntilLoaded'
    BY <1>1, <1>4, <1>5, <1>6 DEF KInv, SeedUntilLoaded
  <1>. QED  BY <1>5, <1>7, <1>8, <1>9 DEF KInv, Recorded, SavedWhenDown

LEMMA KDelayedSave == ASSUME KInv, DelayedSave PROVE KInv'
  <1>1. /\ timer /\ timer' = FALSE /\ disk' = mem.offset
        /\ UNCHANGED <<data, mem, phase, form, want>>
    BY DEF DelayedSave
  <1>2. phase # "down"
    BY <1>1 DEF KInv, SavedWhenDown
  <1>3. Recorded'
    BY <1>1, <1>2, SaveRecords DEF Recorded
  <1>4. RoomsShaped' /\ StoredAreRooms' /\ FormsFollow'
    BY <1>1 DEF KInv, RoomsShaped, StoredAreRooms, FormsFollow, FormFollows
  <1>5. Regulated' /\ SeedUntilLoaded' /\ SavedWhenDown'
    BY <1>1, <1>2 DEF KInv, Regulated, SeedUntilLoaded, SavedWhenDown
  <1>. QED  BY <1>3, <1>4, <1>5 DEF KInv

LEMMA KSetRoomState == ASSUME IInv, KInv, SetRoomState PROVE KInv'
  <1>1. PICK n, s : Save(data, [options EXCEPT !.states = Update(@, n, s)],
                         [mem EXCEPT !.states[n] = s])
    BY DEF SetRoomState
  <1>2. mem' = [mem EXCEPT !.states[n] = s] /\ data' = data
    BY <1>1 DEF Save
  <1>3. mem'.offset = mem.offset
    BY <1>2 DEF IInv, Shaped
  <1>4. phase # "down" /\ UNCHANGED <<phase, disk, timer, form, want>>
    BY DEF SetRoomState
  <1>. QED  BY <1>2, <1>3, <1>4, SameSetpoints

\* The steps that write no setpoint and no room.
LEMMA KQuiet ==
    ASSUME KInv, SetRoomTuning \/ Cycle \/ Park \/ Listen
    PROVE  KInv'
  <1>1. UNCHANGED <<data, disk, timer, form, want, mem>>
    <2>1. CASE SetRoomTuning
      BY <2>1 DEF SetRoomTuning, Save
    <2>2. CASE Cycle \/ Park \/ Listen
      BY <2>2 DEF Cycle, Park, Listen
    <2>. QED  BY <2>1, <2>2
  <1>2. phase # "down" /\ phase' # "down"
    BY DEF SetRoomTuning, Cycle, Park, Listen
  <1>. QED  BY <1>1, <1>2, SameSetpoints

LEMMA KOpen ==
    ASSUME OneTab, KInv, NEW t \in Tabs,
           OpenSettings(t) \/ SubmitSettings(t) \/ PickAdd(t) \/ PickEdit(t)
    PROVE  KInv'
  <1>1. CASE OpenSettings(t)
    BY <1>1, OnlyTheFlow DEF OpenSettings, FormFollows
  <1>2. CASE SubmitSettings(t)
    BY <1>2, OnlyTheFlow DEF SubmitSettings, Save, FormFollows, Idle
  <1>3. CASE PickAdd(t)
    BY <1>3, OnlyTheFlow DEF PickAdd, FormFollows
  <1>4. CASE PickEdit(t)
    BY <1>4, OnlyTheFlow DEF PickEdit, FormFollows
  <1>. QED  BY <1>1, <1>2, <1>3, <1>4

\* A room is added under a name that nothing is kept of.
LEMMA KSubmitAdd ==
    ASSUME OneTab, KInv, NEW t \in Tabs, SubmitAdd(t)
    PROVE  KInv'
  <1>. DEFINE n == form[t].name
  <1>1. /\ form[t].kind = "add" /\ want' = Update(want, n, Seed) /\ Keep(t, Idle)
        /\ UNCHANGED <<mem, phase, disk, timer>>
    BY DEF SubmitAdd, Save
  <1>2. PICK w \in Wirings[n] : data' = Append(data, [name |-> n, wiring |-> w])
    BY DEF SubmitAdd, Save
  <1>3. n \in Names \ NamesOf(data)
    BY <1>1 DEF KInv, FormsFollow, FormFollows
  <1>4. [name |-> n, wiring |-> w] \in RoomRecords
    BY <1>2, <1>3 DEF RoomRecords
  <1>5. data' \in Seq(RoomRecords) /\ NamesOf(data) \subseteq NamesOf(data')
    BY <1>2, <1>4, NamesAppend DEF KInv, RoomsShaped
  <1>6. n \notin DOMAIN mem.offset /\ n \notin DOMAIN disk
    BY <1>3 DEF KInv, StoredAreRooms
  <1>. HIDE DEF n
  <1>7. DOMAIN want' = DOMAIN want \cup {n}
        /\ \A x \in DOMAIN want' : want'[x] = IF x = n THEN Seed ELSE want[x]
    BY <1>1 DEF Update
  <1>8. RoomsShaped' /\ StoredAreRooms' /\ FormsFollow'
    <2>1. NamesOf(data)' = NamesOf(data')
      BY DEF NamesOf
    <2>. QED  BY <1>1, <1>5, <2>1, EndedFlow DEF KInv, RoomsShaped, StoredAreRooms
  <1>9. Regulated' /\ Recorded' /\ SeedUntilLoaded' /\ SavedWhenDown'
    BY <1>1, <1>6, <1>7 DEF KInv, Regulated, Recorded, SeedUntilLoaded, SavedWhenDown, Get
  <1>. QED  BY <1>8, <1>9 DEF KInv

LEMMA KSubmitEdit ==
    ASSUME OneTab, KInv, NEW t \in Tabs, SubmitEdit(t)
    PROVE  KInv'
  <1>. DEFINE n == form[t].name
              i == form[t].index
  <1>1. /\ form[t].kind = "edit" /\ i \in DOMAIN data /\ Keep(t, Idle)
        /\ UNCHANGED <<mem, phase, disk, timer, want>>
    BY DEF SubmitEdit, Save
  <1>2. PICK w \in Wirings[n] : data' = [data EXCEPT ![i] = [name |-> n, wiring |-> w]]
    BY DEF SubmitEdit, Save
  <1>3. n = data[i].name /\ data[i] \in RoomRecords
    BY <1>1, ElementOfSeq, LenProperties DEF KInv, RoomsShaped, FormsFollow, FormFollows
  <1>4. [name |-> n, wiring |-> w] \in RoomRecords
    BY <1>2, <1>3 DEF RoomRecords
  <1>5. data' \in Seq(RoomRecords) /\ NamesOf(data') = NamesOf(data)
    <2>1. data \in Seq(RoomRecords)
      BY DEF KInv, RoomsShaped
    <2>2. \A r \in RoomRecords : r.name = data[i].name =>
             /\ [data EXCEPT ![i] = r] \in Seq(RoomRecords)
             /\ NamesOf([data EXCEPT ![i] = r]) = NamesOf(data)
      BY <1>1, <2>1, NamesExcept
    <2>. QED  BY <1>2, <1>3, <1>4, <2>2
  <1>6. RoomsShaped' /\ StoredAreRooms' /\ FormsFollow'
    <2>1. NamesOf(data)' = NamesOf(data')
      BY DEF NamesOf
    <2>. QED  BY <1>1, <1>5, <2>1, EndedFlow DEF KInv, RoomsShaped, StoredAreRooms
  <1>7. Regulated' /\ Recorded' /\ SeedUntilLoaded' /\ SavedWhenDown'
    BY <1>1 DEF KInv, Regulated, Recorded, SeedUntilLoaded, SavedWhenDown
  <1>. QED  BY <1>6, <1>7 DEF KInv

\* The flow that removes a room remembers the list it will write back.
LEMMA PrunedFlow ==
    ASSUME OneTab, KInv, NEW t \in Tabs, NEW n \in NamesOf(data), data' = data,
           Keep(t, [kind |-> "remove", name |-> n, rooms |-> data]),
           DOMAIN mem'.offset = DOMAIN mem.offset \ {n},
           \/ DOMAIN disk' = DOMAIN disk \ {n}
           \/ DOMAIN disk' = DOMAIN mem.offset \ {n}
    PROVE  RoomsShaped' /\ StoredAreRooms' /\ FormsFollow'
  <1>1. RoomsShaped' /\ form'[t] = [kind |-> "remove", name |-> n, rooms |-> data]
    BY DEF KInv, RoomsShaped, Keep
  <1>2. FormFollows(t)'
    BY <1>1 DEF FormFollows
  <1>3. StoredAreRooms'
    BY DEF KInv, StoredAreRooms
  <1>. QED  BY <1>1, <1>2, <1>3 DEF OneTab, FormsFollow

\* The pruning forgets a room in the memory and in the Store alike.
LEMMA KRemoveBegin ==
    ASSUME OneTab, IInv, KInv, NEW t \in Tabs, RemoveBegin(t)
    PROVE  KInv'
  <1>1. PICK n \in NamesOf(data) :
            /\ mem' = Pruned(mem, n)
            /\ disk' = IF phase = "down" THEN Drop(disk, n) ELSE mem'.offset
            /\ want' = Drop(want, n)
            /\ Keep(t, [kind |-> "remove", name |-> n, rooms |-> data])
    BY DEF RemoveBegin
  <1>2. timer' = FALSE /\ UNCHANGED <<data, phase>>
    BY DEF RemoveBegin
  <1>3. mem' = [mem EXCEPT !.offset = Drop(mem.offset, n)]
    BY <1>1 DEF Pruned
  <1>4. mem'.offset = Drop(mem.offset, n)
    BY <1>3, OffsetChanged
  <1>5. /\ DOMAIN mem'.offset = DOMAIN mem.offset \ {n}
        /\ \A x \in DOMAIN mem'.offset : mem'.offset[x] = mem.offset[x]
    BY <1>4 DEF Drop
  <1>6. /\ DOMAIN want' = DOMAIN want \ {n}
        /\ \A x \in DOMAIN want' : want'[x] = want[x]
    BY <1>1 DEF Drop
  <1>7. CASE phase = "down"
    <2>1. mem = NoCoordinator /\ ~timer /\ mem.offset = <<>>
      BY <1>7 DEF KInv, SavedWhenDown, NoCoordinator
    <2>2. /\ DOMAIN disk' = DOMAIN disk \ {n}
          /\ \A x \in DOMAIN disk' : disk'[x] = disk[x]
      BY <1>1, <1>7 DEF Drop
    <2>3. mem' = NoCoordinator
      <3>1. Drop(mem.offset, n) = <<>>
        BY <2>1 DEF Drop
      <3>. QED  BY <1>3, <2>1, <3>1 DEF NoCoordinator
    <2>4. Recorded'
      BY <1>6, <2>1, <2>2 DEF KInv, Recorded, Get
    <2>. QED  BY <1>1, <1>2, <1>5, <1>6, <1>7, <2>2, <2>3, <2>4, PrunedFlow
              DEF KInv, Regulated, SeedUntilLoaded, SavedWhenDown
  <1>8. CASE phase # "down"
    <2>1. disk' = mem'.offset
      BY <1>1, <1>8
    <2>2. Recorded'
      <3>1. \A x \in DOMAIN want : Get(mem.offset, x, Seed) = want[x]
        BY <1>8, SaveRecords
      <3>. QED  BY <1>5, <1>6, <2>1, <3>1 DEF Recorded, Get
    <2>3. /\ DOMAIN disk' = DOMAIN mem.offset \ {n}
      BY <1>5, <2>1
    <2>. QED  BY <1>1, <1>2, <1>5, <1>6, <1>8, <2>2, <2>3, PrunedFlow
              DEF KInv, Regulated, SeedUntilLoaded, SavedWhenDown
  <1>. QED  BY <1>7, <1>8

LEMMA KRemoveEnd ==
    ASSUME OneTab, KInv, NEW t \in Tabs, RemoveEnd(t)
    PROVE  KInv'
  <1>. DEFINE n == form[t].name
  <1>1. /\ form[t].kind = "remove" /\ Keep(t, Idle) /\ data' = Without(form[t].rooms, n)
        /\ UNCHANGED <<mem, phase, disk, timer, want>>
    BY DEF RemoveEnd, Save
  <1>2. form[t].rooms = data /\ n \in NamesOf(data) /\ n \notin DOMAIN mem.offset \cup DOMAIN disk
    BY <1>1 DEF KInv, FormsFollow, FormFollows
  <1>3. data' \in Seq(RoomRecords) /\ NamesOf(data) \ {n} \subseteq NamesOf(data')
    BY <1>1, <1>2, NamesWithout DEF KInv, RoomsShaped
  <1>4. RoomsShaped' /\ StoredAreRooms' /\ FormsFollow'
    <2>1. NamesOf(data)' = NamesOf(data')
      BY DEF NamesOf
    <2>. QED  BY <1>1, <1>2, <1>3, <2>1, EndedFlow DEF KInv, RoomsShaped, StoredAreRooms
  <1>5. Regulated' /\ Recorded' /\ SeedUntilLoaded' /\ SavedWhenDown'
    BY <1>1 DEF KInv, Regulated, Recorded, SeedUntilLoaded, SavedWhenDown
  <1>. QED  BY <1>4, <1>5 DEF KInv

LEMMA KFlush == ASSUME KInv, Flush PROVE KInv'
  <1>1. /\ phase = "ready" /\ phase' = "flushed" /\ disk' = mem.offset /\ timer' = FALSE
        /\ UNCHANGED <<data, mem, form, want>>
    BY DEF Flush
  <1>2. Recorded'
    BY <1>1, SaveRecords DEF Recorded
  <1>3. RoomsShaped' /\ StoredAreRooms' /\ FormsFollow'
    BY <1>1 DEF KInv, RoomsShaped, StoredAreRooms, FormsFollow, FormFollows
  <1>. QED  BY <1>1, <1>2, <1>3 DEF KInv, Regulated, SeedUntilLoaded, SavedWhenDown

LEMMA Nothing == NoCoordinator.offset = <<>> /\ DOMAIN NoCoordinator.offset = {}
  BY DEF NoCoordinator

LEMMA KUnload == ASSUME KInv, UnloadPlatforms PROVE KInv'
  <1>1. /\ phase = "parked" /\ phase' = "down" /\ disk' = mem.offset /\ timer' = FALSE
        /\ mem' = NoCoordinator /\ UNCHANGED <<data, form, want>>
    BY DEF UnloadPlatforms
  <1>2. Recorded'
    BY <1>1, SaveRecords DEF Recorded
  <1>3. RoomsShaped' /\ StoredAreRooms' /\ FormsFollow'
    BY <1>1, Nothing DEF KInv, RoomsShaped, StoredAreRooms, FormsFollow, FormFollows
  <1>. QED  BY <1>1, <1>2, <1>3, Nothing DEF KInv, Regulated, SeedUntilLoaded, SavedWhenDown

\* The coordinator that is built anew takes from the Store what is there.
LEMMA KBuild == ASSUME KInv, Build PROVE KInv'
  <1>1. /\ phase = "down" /\ phase' = "starting"
        /\ \A t \in Tabs : form[t].kind # "remove"
        /\ mem' = Loaded(Coordinator(data, options))
        /\ UNCHANGED <<data, disk, timer, form, want>>
    BY DEF Build
  <1>2. mem'.offset = [n \in NamesOf(data) |-> Get(disk, n, Seed)]
    <2>. DEFINE c == Coordinator(data, options)
    <2>1. /\ c.rooms = data /\ c.offset = [n \in NamesOf(data) |-> Seed]
          /\ DOMAIN c = {"rooms", "states", "offset", "sig"}
      BY DEF Coordinator
    <2>. HIDE DEF c
    <2>2. mem' = [c EXCEPT !.offset = [n \in NamesOf(data) |-> Get(disk, n, @[n])]]
      BY <1>1, <2>1 DEF Loaded, c
    <2>3. mem'.offset = [n \in NamesOf(data) |-> Get(disk, n, c.offset[n])]
      BY <2>1, <2>2
    <2>. QED  BY <2>1, <2>3
  <1>3. ~timer /\ \A n \in DOMAIN want : Get(disk, n, Seed) = want[n]
    BY <1>1 DEF KInv, SavedWhenDown, Recorded
  <1>4. Regulated'
    BY <1>1, <1>2, <1>3 DEF Regulated
  <1>5. SeedUntilLoaded'
    BY <1>1, <1>2, <1>3 DEF KInv, StoredAreRooms, SeedUntilLoaded, Get
  <1>6. RoomsShaped' /\ StoredAreRooms' /\ FormsFollow'
    BY <1>1, <1>2 DEF KInv, RoomsShaped, StoredAreRooms, FormsFollow, FormFollows
  <1>. QED  BY <1>1, <1>3, <1>4, <1>5, <1>6 DEF KInv, Recorded, SavedWhenDown

LEMMA KCrash == ASSUME KInv, Crash PROVE KInv'
  <1>1. /\ phase' = "down" /\ mem' = NoCoordinator /\ timer' = FALSE
        /\ form' = [t \in Tabs |-> Idle] /\ UNCHANGED <<data, disk>>
        /\ want' = IF timer THEN [n \in DOMAIN want |-> Get(disk, n, Seed)] ELSE want
    BY DEF Crash
  <1>2. Recorded'
    BY <1>1 DEF KInv, Recorded
  <1>3. FormsFollow'
    BY <1>1 DEF FormsFollow, FormFollows, Idle
  <1>4. RoomsShaped' /\ StoredAreRooms'
    BY <1>1, Nothing DEF KInv, RoomsShaped, StoredAreRooms
  <1>. QED  BY <1>1, <1>2, <1>3, <1>4, Nothing
            DEF KInv, Regulated, SeedUntilLoaded, SavedWhenDown

LEMMA KInit == Init => KInv
  <1>. SUFFICES ASSUME Init PROVE KInv
    OBVIOUS
  <1>1. PICK n \in Names : \E w \in Wirings[n] : data = <<[name |-> n, wiring |-> w]>>
    BY DEF Init
  <1>2. data \in Seq(RoomRecords)
    BY <1>1 DEF RoomRecords
  <1>3. /\ mem = NoCoordinator /\ phase = "down" /\ ~timer /\ disk = <<>>
        /\ form = [t \in Tabs |-> Idle] /\ want = [x \in NamesOf(data) |-> Seed]
    BY DEF Init
  <1>4. FormsFollow
    BY <1>3 DEF FormsFollow, FormFollows, Idle
  <1>5. Recorded
    BY <1>3 DEF Recorded, Get
  <1>. QED  BY <1>2, <1>3, <1>4, <1>5, Nothing
            DEF KInv, RoomsShaped, StoredAreRooms, Regulated, SeedUntilLoaded, SavedWhenDown

LEMMA KNext == ASSUME OneTab PROVE IInv /\ KInv /\ [Next]_vars => KInv'
  <1>. SUFFICES ASSUME IInv, KInv, [Next]_vars PROVE KInv'
    OBVIOUS
  <1>1. CASE SetOffset \/ DelayedSave \/ SetRoomState
    BY <1>1, KSetOffset, KDelayedSave, KSetRoomState
  <1>2. CASE SetRoomTuning \/ Cycle
    BY <1>2, KQuiet
  <1>3. CASE Reload
    BY <1>3, KQuiet, KFlush, KUnload, KBuild DEF Reload
  <1>4. CASE Crash
    BY <1>4, KCrash
  <1>5. CASE \E t \in Tabs : Flow(t)
    BY <1>5, KOpen, KSubmitAdd, KSubmitEdit, KRemoveBegin, KRemoveEnd DEF Flow
  <1>6. CASE UNCHANGED vars
    BY <1>6, SameSetpoints DEF vars
  <1>. QED  BY <1>1, <1>2, <1>3, <1>4, <1>5, <1>6 DEF Next

\* A running coordinator regulates to the offset each of its rooms was last
\* given, over every reload, removal, re-adding and crash, as long as the
\* options flow is open in one tab: two of them can each add the same room,
\* and removing one takes the setpoint of both.
THEOREM SetpointsSurvive == ASSUME OneTab PROVE Spec => []SetpointSurvives
  <1>1. KInv => SetpointSurvives
    BY DEF KInv, Regulated, SetpointSurvives
  <1>. QED  BY <1>1, KInit, KNext, Invariant, PTL DEF Spec

----------------------------------------------------------------------------
(* Types, with any number of tabs: whatever two flows write over each      *)
(* other, a room is left, and each has a wiring of its own.                *)

RoomMaps == {r \in RoomRecords : r.wiring \in Wirings[r.name]}

FormTyped(t) ==
    /\ form[t].kind \in {"add", "edit"} => form[t].name \in Names
    /\ form[t].kind = "remove" =>
         /\ form[t].rooms \in Seq(RoomMaps) /\ Len(form[t].rooms) > 1
         /\ form[t].name \in NamesOf(form[t].rooms)

DataTyped == data \in Seq(RoomMaps) /\ Len(data) > 0

CopyTyped == mem.rooms \in Seq(RoomMaps)

FormsTyped == DOMAIN form = Tabs /\ \A t \in Tabs : FormTyped(t)

OptionsTyped ==
    /\ DOMAIN options.states \subseteq Names
    /\ options.tuning \subseteq SUBSET Names

FlagsTyped ==
    /\ phase \in {"ready", "flushed", "parked", "down", "starting"}
    /\ due \in BOOLEAN /\ missed \in BOOLEAN /\ timer \in BOOLEAN

DrivenTyped ==
    driven \subseteq UNION {Wirings[n] : n \in Names} /\ stranded \subseteq driven

EntryTyped ==
    /\ DataTyped /\ CopyTyped /\ FormsTyped
    /\ OptionsTyped /\ FlagsTyped /\ DrivenTyped

LEMMA NamesTyped ==
    ASSUME NEW d \in Seq(RoomMaps)
    PROVE  /\ NamesOf(d) \subseteq Names
           /\ \A i \in DOMAIN d : d[i] \in RoomMaps
           /\ \A i \in DOMAIN d : d[i].name \in Names /\ d[i].wiring \in Wirings[d[i].name]
  <1>1. \A i \in DOMAIN d : d[i] \in RoomMaps
    BY ElementOfSeq, LenProperties
  <1>. QED  BY <1>1 DEF NamesOf, RoomMaps, RoomRecords

\* A room of the entry that is added or edited.
LEMMA RoomTyped ==
    ASSUME NEW n \in Names, NEW w \in Wirings[n]
    PROVE  [name |-> n, wiring |-> w] \in RoomMaps
  BY DEF RoomMaps, RoomRecords

LEMMA DataStaysTyped == ASSUME EntryTyped, Next PROVE DataTyped'
  <1>1. ASSUME NEW t \in Tabs, SubmitAdd(t) PROVE DataTyped'
    <2>1. PICK w \in Wirings[form[t].name] :
              data' = Append(data, [name |-> form[t].name, wiring |-> w])
      BY <1>1 DEF SubmitAdd, Save
    <2>2. form[t].name \in Names
      BY <1>1 DEF SubmitAdd, EntryTyped, FormsTyped, FormTyped
    <2>3. [name |-> form[t].name, wiring |-> w] \in RoomMaps
      BY <2>1, <2>2, RoomTyped
    <2>4. data \in Seq(RoomMaps)
      BY DEF EntryTyped, DataTyped
    <2>5. data' \in Seq(RoomMaps) /\ Len(data') = Len(data) + 1
      BY <2>1, <2>3, <2>4, AppendProperties
    <2>. QED  BY <2>4, <2>5, LenProperties DEF DataTyped
  <1>2. ASSUME NEW t \in Tabs, SubmitEdit(t) PROVE DataTyped'
    <2>. DEFINE i == form[t].index
    <2>1. PICK w \in Wirings[form[t].name] :
              data' = [data EXCEPT ![i] = [name |-> form[t].name, wiring |-> w]]
      BY <1>2 DEF SubmitEdit, Save
    <2>2. form[t].name \in Names /\ i \in DOMAIN data
      BY <1>2 DEF SubmitEdit, EntryTyped, FormsTyped, FormTyped
    <2>3. [name |-> form[t].name, wiring |-> w] \in RoomMaps
      BY <2>1, <2>2, RoomTyped
    <2>4. data \in Seq(RoomMaps) /\ Len(data) > 0 /\ DOMAIN data = 1 .. Len(data)
      BY LenProperties DEF EntryTyped, DataTyped
    <2>. HIDE DEF i
    <2>5. data' \in Seq(RoomMaps) /\ Len(data') = Len(data)
      BY <2>1, <2>2, <2>3, <2>4, ExceptSeq
    <2>. QED  BY <2>4, <2>5 DEF DataTyped
  <1>3. ASSUME NEW t \in Tabs, RemoveEnd(t) PROVE DataTyped'
    <2>1. data' = Without(form[t].rooms, form[t].name)
      BY <1>3 DEF RemoveEnd, Save
    <2>2. /\ form[t].rooms \in Seq(RoomMaps) /\ Len(form[t].rooms) > 1
          /\ form[t].name \in NamesOf(form[t].rooms)
      BY <1>3 DEF RemoveEnd, EntryTyped, FormsTyped, FormTyped
    <2>3. data' \in Seq(RoomMaps) /\ Len(data') = Len(form[t].rooms) - 1
      BY <2>1, <2>2, NamesWithout
    <2>. QED  BY <2>2, <2>3, LenProperties DEF DataTyped
  <1>4. CASE data' = data
    BY <1>4 DEF EntryTyped, DataTyped
  <1>5. CASE SetOffset \/ DelayedSave \/ SetRoomState \/ SetRoomTuning \/ Cycle \/ Crash
    BY <1>4, <1>5 DEF SetOffset, DelayedSave, SetRoomState, SetRoomTuning, Cycle, Crash, Save
  <1>6. CASE Reload
    BY <1>4, <1>6 DEF Reload, Flush, Park, UnloadPlatforms, Build, Listen
  <1>7. ASSUME NEW t \in Tabs,
               \/ OpenSettings(t) \/ SubmitSettings(t) \/ PickAdd(t) \/ PickEdit(t)
               \/ RemoveBegin(t)
        PROVE  DataTyped'
    BY <1>4, <1>7 DEF OpenSettings, SubmitSettings, PickAdd, PickEdit, RemoveBegin, Save
  <1>. QED  BY <1>1, <1>2, <1>3, <1>5, <1>6, <1>7 DEF Next, Flow

LEMMA CopyStaysTyped == ASSUME IInv, EntryTyped, Next PROVE CopyTyped'
  <1>1. CASE mem' = mem
    BY <1>1 DEF EntryTyped, CopyTyped
  <1>2. CASE mem' = NoCoordinator
    BY <1>2, EmptySeq DEF NoCoordinator, CopyTyped
  <1>3. ASSUME NEW f, mem' = [mem EXCEPT !.offset = f] PROVE CopyTyped'
    <2>1. mem'.rooms = mem.rooms
      BY <1>3 DEF IInv, Shaped
    <2>. QED  BY <2>1 DEF EntryTyped, CopyTyped
  <1>4. CASE SetOffset
    <2>1. PICK n, o : mem' = [mem EXCEPT !.offset[n] = o]
      BY <1>4 DEF SetOffset
    <2>2. mem' = [mem EXCEPT !.offset = [mem.offset EXCEPT ![n] = o]]
      BY <2>1
    <2>. QED  BY <1>3, <2>2
  <1>5. CASE SetRoomState
    <2>1. PICK n, s : mem' = [mem EXCEPT !.states[n] = s]
      BY <1>5 DEF SetRoomState, Save
    <2>2. mem'.rooms = mem.rooms
      BY <2>1 DEF IInv, Shaped
    <2>. QED  BY <2>2 DEF EntryTyped, CopyTyped
  <1>6. ASSUME NEW t \in Tabs, RemoveBegin(t) PROVE CopyTyped'
    <2>1. PICK n : mem' = Pruned(mem, n)
      BY <1>6 DEF RemoveBegin
    <2>. DEFINE f == Drop(mem.offset, n)
    <2>2. mem' = [mem EXCEPT !.offset = f]
      BY <2>1 DEF Pruned
    <2>. HIDE DEF f
    <2>. QED  BY <1>3, <2>2
  <1>7. CASE Build
    <2>1. mem'.rooms = data
      BY <1>7 DEF Build, Loaded, Coordinator
    <2>. QED  BY <2>1 DEF EntryTyped, DataTyped, CopyTyped
  <1>8. CASE DelayedSave \/ SetRoomTuning \/ Cycle
    BY <1>1, <1>8 DEF DelayedSave, SetRoomTuning, Cycle, Save
  <1>9. CASE Flush \/ Park \/ Listen
    BY <1>1, <1>9 DEF Flush, Park, Listen
  <1>10. CASE Crash \/ UnloadPlatforms
    BY <1>2, <1>10 DEF Crash, UnloadPlatforms
  <1>11. ASSUME NEW t \in Tabs,
                \/ OpenSettings(t) \/ SubmitSettings(t) \/ PickAdd(t) \/ SubmitAdd(t)
                \/ PickEdit(t) \/ SubmitEdit(t) \/ RemoveEnd(t)
         PROVE  CopyTyped'
    BY <1>1, <1>11 DEF OpenSettings, SubmitSettings, PickAdd, SubmitAdd, PickEdit,
                       SubmitEdit, RemoveEnd, Save
  <1>. QED  BY <1>4, <1>5, <1>6, <1>7, <1>8, <1>9, <1>10, <1>11 DEF Next, Flow, Reload

\* A flow that begins, or has ended.
LEMMA KeptTyped ==
    ASSUME FormsTyped, NEW t \in Tabs, NEW f, Keep(t, f),
           f.kind \in {"add", "edit"} => f.name \in Names,
           f.kind = "remove" => /\ f.rooms \in Seq(RoomMaps) /\ Len(f.rooms) > 1
                                /\ f.name \in NamesOf(f.rooms)
    PROVE  FormsTyped'
  <1>1. /\ DOMAIN form' = Tabs /\ form'[t] = f
        /\ \A u \in Tabs : u # t => form'[u] = form[u]
    BY DEF Keep, FormsTyped
  <1>2. \A u \in Tabs : u # t => FormTyped(u)'
    BY <1>1 DEF FormsTyped, FormTyped
  <1>3. FormTyped(t)'
    <2>1. NamesOf(f.rooms) = NamesOf(form'[t].rooms)
      BY <1>1
    <2>. QED  BY <1>1, <2>1 DEF FormTyped
  <1>. QED  BY <1>1, <1>2, <1>3 DEF FormsTyped

LEMMA FormsStayTyped == ASSUME EntryTyped, Next PROVE FormsTyped'
  <1>. USE DEF EntryTyped
  <1>1. CASE form' = form
    BY <1>1 DEF FormsTyped, FormTyped
  <1>2. ASSUME NEW t \in Tabs, OpenSettings(t) PROVE FormsTyped'
    BY <1>2, KeptTyped DEF OpenSettings
  <1>3. ASSUME NEW t \in Tabs, Keep(t, Idle) PROVE FormsTyped'
    BY <1>3, KeptTyped DEF Idle
  <1>4. ASSUME NEW t \in Tabs, PickAdd(t) PROVE FormsTyped'
    <2>1. PICK n \in Names \ NamesOf(data) : Keep(t, [kind |-> "add", name |-> n])
      BY <1>4 DEF PickAdd
    <2>. QED  BY <2>1, KeptTyped
  <1>5. ASSUME NEW t \in Tabs, PickEdit(t) PROVE FormsTyped'
    <2>1. PICK i \in DOMAIN data :
              Keep(t, [kind |-> "edit", index |-> i, name |-> data[i].name])
      BY <1>5 DEF PickEdit
    <2>2. data[i].name \in Names
      BY NamesTyped DEF DataTyped
    <2>. QED  BY <2>1, <2>2, KeptTyped
  <1>6. ASSUME NEW t \in Tabs, RemoveBegin(t) PROVE FormsTyped'
    <2>1. PICK n \in NamesOf(data) :
              Keep(t, [kind |-> "remove", name |-> n, rooms |-> data])
      BY <1>6 DEF RemoveBegin
    <2>2. Len(data) > 1 /\ data \in Seq(RoomMaps)
      BY <1>6 DEF RemoveBegin, DataTyped
    <2>. QED  BY <2>1, <2>2, KeptTyped
  <1>7. CASE Crash
    BY <1>7 DEF Crash, FormsTyped, FormTyped, Idle
  <1>8. CASE SetOffset \/ DelayedSave \/ SetRoomState \/ SetRoomTuning \/ Cycle \/ Reload
    BY <1>1, <1>8 DEF SetOffset, DelayedSave, SetRoomState, SetRoomTuning, Cycle, Reload,
                      Flush, Park, UnloadPlatforms, Build, Listen
  <1>9. ASSUME NEW t \in Tabs,
               SubmitSettings(t) \/ SubmitAdd(t) \/ SubmitEdit(t) \/ RemoveEnd(t)
        PROVE  FormsTyped'
    BY <1>3, <1>9 DEF SubmitSettings, SubmitAdd, SubmitEdit, RemoveEnd
  <1>. QED  BY <1>2, <1>4, <1>5, <1>6, <1>7, <1>8, <1>9 DEF Next, Flow

LEMMA OptionsStayTyped == ASSUME IInv, EntryTyped, Next PROVE OptionsTyped'
  <1>. USE DEF EntryTyped
  <1>1. /\ NamesOf(data) \subseteq Names /\ NamesOf(mem.rooms) \subseteq Names
        /\ options = [f \in {"states", "tuning"} |-> options[f]]
    BY NamesTyped DEF IInv, OptionsShaped, DataTyped, CopyTyped
  <1>2. CASE options' = options
    BY <1>2 DEF OptionsTyped
  <1>3. ASSUME NEW x, NEW y, DOMAIN x \subseteq Names, y \subseteq SUBSET Names,
               \/ options' = [options EXCEPT !.states = x]
               \/ options' = [options EXCEPT !.tuning = y]
               \/ options' = [options EXCEPT !.states = x, !.tuning = y]
        PROVE  OptionsTyped'
    BY <1>1, <1>3 DEF OptionsTyped
  <1>4. Overridden \subseteq Names
    BY DEF Overridden, OptionsTyped
  <1>5. CASE SetRoomState
    <2>1. PICK n \in NamesOf(mem.rooms), s \in {"off", "live"} :
              options' = [options EXCEPT !.states = Update(@, n, s)]
      BY <1>5 DEF SetRoomState, Save
    <2>2. options' = [options EXCEPT !.states = Update(options.states, n, s)]
      BY <1>1, <2>1
    <2>3. DOMAIN Update(options.states, n, s) \subseteq Names
      BY <1>1 DEF Update, OptionsTyped
    <2>. QED  BY <1>3, <2>2, <2>3
  <1>6. CASE SetRoomTuning
    <2>1. PICK n \in NamesOf(mem.rooms) : \E map \in {Overridden \cup {n}, Overridden \ {n}} :
              options' = [options EXCEPT !.tuning = {map}]
      BY <1>6 DEF SetRoomTuning, Save
    <2>2. PICK map \in SUBSET Names : options' = [options EXCEPT !.tuning = {map}]
      BY <1>1, <1>4, <2>1
    <2>. DEFINE y == {map}
    <2>3. y \subseteq SUBSET Names /\ options' = [options EXCEPT !.tuning = y]
      BY <2>2
    <2>. HIDE DEF y
    <2>4. DOMAIN options.states \subseteq Names
      BY DEF OptionsTyped
    <2>. QED  BY <1>3, <2>3, <2>4
  <1>7. ASSUME NEW t \in Tabs, SubmitSettings(t) PROVE OptionsTyped'
    <2>1. PICK x : DOMAIN x = NamesOf(data) /\ options' = [options EXCEPT !.states = x]
      BY <1>7 DEF SubmitSettings, Save
    <2>. QED  BY <1>1, <1>3, <2>1
  <1>8. ASSUME NEW t \in Tabs, RemoveEnd(t) PROVE OptionsTyped'
    <2>. DEFINE x == Drop(options.states, form[t].name)
                y == {Overridden \ {form[t].name}}
    <2>1. options' = [options EXCEPT !.states = x, !.tuning = y]
      BY <1>1, <1>8 DEF RemoveEnd, Save
    <2>2. DOMAIN x \subseteq Names /\ y \subseteq SUBSET Names
      BY <1>4 DEF Drop, OptionsTyped
    <2>. HIDE DEF x, y
    <2>. QED  BY <1>3, <2>1, <2>2
  <1>9. CASE SetOffset \/ DelayedSave \/ Cycle \/ Reload \/ Crash
    BY <1>2, <1>9 DEF SetOffset, DelayedSave, Cycle, Reload, Crash,
                      Flush, Park, UnloadPlatforms, Build, Listen
  <1>10. ASSUME NEW t \in Tabs,
                \/ OpenSettings(t) \/ PickAdd(t) \/ SubmitAdd(t)
                \/ PickEdit(t) \/ SubmitEdit(t) \/ RemoveBegin(t)
         PROVE  OptionsTyped'
    BY <1>2, <1>10 DEF OpenSettings, PickAdd, SubmitAdd, PickEdit, SubmitEdit,
                       RemoveBegin, Save
  <1>. QED  BY <1>5, <1>6, <1>7, <1>8, <1>9, <1>10 DEF Next, Flow

LEMMA FlagsStayTyped == ASSUME EntryTyped, Next PROVE FlagsTyped'
  <1>. USE DEF EntryTyped
  <1>1. ASSUME NEW d, NEW o, NEW m, Save(d, o, m), UNCHANGED <<phase, timer>>
        PROVE  FlagsTyped'
    <2>1. due' \in BOOLEAN /\ missed' \in BOOLEAN
      BY <1>1 DEF Save
    <2>. QED  BY <1>1, <2>1 DEF FlagsTyped
  <1>2. CASE SetRoomState \/ SetRoomTuning
    BY <1>1, <1>2 DEF SetRoomState, SetRoomTuning
  <1>3. ASSUME NEW t \in Tabs,
               SubmitSettings(t) \/ SubmitAdd(t) \/ SubmitEdit(t) \/ RemoveEnd(t)
        PROVE  FlagsTyped'
    BY <1>1, <1>3 DEF SubmitSettings, SubmitAdd, SubmitEdit, RemoveEnd
  <1>4. ASSUME NEW t \in Tabs,
               OpenSettings(t) \/ PickAdd(t) \/ PickEdit(t) \/ RemoveBegin(t)
        PROVE  FlagsTyped'
    BY <1>4 DEF OpenSettings, PickAdd, PickEdit, RemoveBegin, FlagsTyped
  <1>5. CASE SetOffset \/ DelayedSave \/ Cycle \/ Crash
    BY <1>5 DEF SetOffset, DelayedSave, Cycle, Crash, FlagsTyped
  <1>6. CASE Reload
    BY <1>6 DEF Reload, Flush, Park, UnloadPlatforms, Build, Listen, FlagsTyped
  <1>. QED  BY <1>2, <1>3, <1>4, <1>5, <1>6 DEF Next, Flow

LEMMA DrivenStaysTyped == ASSUME EntryTyped, Next PROVE DrivenTyped'
  <1>. USE DEF EntryTyped, DrivenTyped
  <1>1. LiveWirings(mem) \subseteq UNION {Wirings[n] : n \in Names}
    BY NamesTyped DEF CopyTyped, LiveWirings, Live
  <1>2. CASE driven' \subseteq driven \cup LiveWirings(mem) /\ stranded' \subseteq driven'
    BY <1>1, <1>2 DEF DrivenTyped
  <1>3. CASE SetOffset \/ DelayedSave \/ SetRoomState \/ SetRoomTuning \/ Cycle \/ Crash
    BY <1>2, <1>3 DEF SetOffset, DelayedSave, SetRoomState, SetRoomTuning, Cycle, Crash
  <1>4. CASE Reload
    BY <1>2, <1>4 DEF Reload, Flush, Park, UnloadPlatforms, Build, Listen
  <1>5. ASSUME NEW t \in Tabs, Flow(t) PROVE DrivenTyped'
    BY <1>2, <1>5 DEF Flow, OpenSettings, SubmitSettings, PickAdd, SubmitAdd, PickEdit,
                      SubmitEdit, RemoveBegin, RemoveEnd
  <1>. QED  BY <1>3, <1>4, <1>5 DEF Next

LEMMA TypedInit == Init => EntryTyped
  <1>. SUFFICES ASSUME Init PROVE EntryTyped
    OBVIOUS
  <1>1. DataTyped
    <2>1. PICK n \in Names : \E w \in Wirings[n] : data = <<[name |-> n, wiring |-> w]>>
      BY DEF Init
    <2>2. PICK r \in RoomMaps : data = <<r>>
      BY <2>1, RoomTyped
    <2>. QED  BY <2>2 DEF DataTyped
  <1>2. CopyTyped
    BY EmptySeq DEF Init, NoCoordinator, CopyTyped
  <1>3. FormsTyped
    BY DEF Init, FormsTyped, FormTyped, Idle
  <1>4. OptionsTyped
    <2>1. options.states = <<>> /\ options.tuning = {} /\ DOMAIN <<>> = {}
      BY DEF Init
    <2>. QED  BY <2>1 DEF OptionsTyped
  <1>5. FlagsTyped /\ DrivenTyped
    BY DEF Init, FlagsTyped, DrivenTyped
  <1>. QED  BY <1>1, <1>2, <1>3, <1>4, <1>5 DEF EntryTyped

\* Every variable keeps its type, for any number of tabs: flows that write
\* over each other leave at least one room, and every room of the entry with
\* a wiring it may be mapped to (TortoiseUfhOptionsFlow).
THEOREM EntryTypesHold == Spec => []TypeOK
  <1>1. IInv /\ EntryTyped /\ [Next]_vars => EntryTyped'
    <2>. SUFFICES ASSUME IInv, EntryTyped, [Next]_vars PROVE EntryTyped'
      OBVIOUS
    <2>1. CASE Next
      BY <2>1, DataStaysTyped, CopyStaysTyped, FormsStayTyped, OptionsStayTyped,
         FlagsStayTyped, DrivenStaysTyped DEF EntryTyped
    <2>2. CASE UNCHANGED vars
      BY <2>2 DEF vars, EntryTyped, DataTyped, CopyTyped, FormsTyped, FormTyped,
                  OptionsTyped, FlagsTyped, DrivenTyped
    <2>. QED  BY <2>1, <2>2
  <1>2. IInv /\ EntryTyped => TypeOK
    <2>. SUFFICES ASSUME IInv, EntryTyped PROVE TypeOK
      OBVIOUS
    <2>1. \A i \in DOMAIN data : data[i].wiring \in Wirings[data[i].name]
      BY NamesTyped DEF EntryTyped, DataTyped
    <2>2. DOMAIN mem.states = NamesOf(mem.rooms)
      BY DEF IInv, Shaped
    <2>. QED  BY <2>1, <2>2 DEF TypeOK, EntryTyped, DataTyped, OptionsTyped, FlagsTyped,
                               DrivenTyped
  <1>. QED  BY <1>1, <1>2, TypedInit, Invariant, PTL DEF Spec

----------------------------------------------------------------------------
(* The tuning.  Migrated or edited, what is stored for the building is     *)
(* what the user chose for it, field by field; a room's map lies over it.  *)

\* Later defaults leave room for what is stored: between two fields that are
\* checked together none, and none the migration puts in the place of an
\* earlier one, narrows the gap.
LaterDefaultsFit ==
    \A p \in Pairs :
        /\ \A v \in Superseded[p[1]] : v >= Default[p[1]]
        /\ \A v \in Superseded[p[2]] : v <= Default[p[2]]
        /\ Retuned[p[1]] <= Default[p[1]] /\ Retuned[p[2]] >= Default[p[2]]

\* A map laid over the defaults, in numbers that stand the right way round.
Apart(d) ==
    /\ \A k \in Knobs : Filled(d)[k] \in Int
    /\ Ordered(Filled(d))

\* What the migration makes of a snapshot.
Migrated(d) ==
    LET kept == Sparse(d, TRUE)
    IN Put(kept, IF "ff" \in DOMAIN kept /\ "curve" \notin DOMAIN kept
                 THEN [k \in {"curve"} |-> kept.ff] ELSE None)

\* Before the migration the snapshot holds the choice, after it is the choice.
ChoiceKept ==
    /\ version < 6 => defaults = Default /\ choice = Migrated(Global)
    /\ version = 6 => /\ seeded = None /\ stored = choice
                      /\ stored = [k \in DOMAIN stored |-> stored[k]]
                      /\ DOMAIN stored \subseteq Knobs
    /\ version < 6 => "curve" \notin DOMAIN Global
    /\ Apart(Global)

\* A room's map holds its choices, and retired fields only before version 5.
RoomsKept ==
    /\ DOMAIN tuned = Rooms /\ DOMAIN own = Rooms
    /\ \A r \in Rooms :
         /\ own[r] = Only(tuned[r], Knobs)
         /\ DOMAIN tuned[r] \subseteq (Knobs \ GlobalOnly) \cup Retired
         /\ version > 4 => DOMAIN tuned[r] \cap Retired = {}

TInv ==
    /\ version \in 1 .. 6 /\ defaults \in {Default, Retuned}
    /\ ChoiceKept /\ RoomsKept

----------------------------------------------------------------------------
(* Lemmas about maps.                                                      *)

LEMMA OnlyIs ==
    ASSUME NEW f, NEW S
    PROVE  /\ DOMAIN Only(f, S) = DOMAIN f \cap S
           /\ \A k \in DOMAIN f \cap S : Only(f, S)[k] = f[k]
  BY DEF Only

LEMMA OverIs ==
    ASSUME NEW f, NEW g
    PROVE  /\ DOMAIN Over(f, g) = DOMAIN f \cup DOMAIN g
           /\ \A k \in DOMAIN f \cup DOMAIN g :
                Over(f, g)[k] = IF k \in DOMAIN f THEN f[k] ELSE g[k]
  BY DEF Over

LEMMA NoneIs == DOMAIN None = {}
  BY DEF None

LEMMA Fields ==
    /\ Knobs \subseteq DOMAIN Default /\ Knobs \subseteq DOMAIN Retuned
    /\ "ff" \in Knobs /\ "curve" \in Knobs
    /\ Knobs \cap Retired = {} /\ Hidden \cap Retired = {}
    /\ \A k \in Knobs : /\ Default[k] \in Int /\ Retuned[k] \in Int
                        /\ Superseded[k] \subseteq Int /\ Values[k] \subseteq Int
    /\ \A p \in Pairs : p[1] \in Knobs \ {"curve"} /\ p[2] \in Knobs \ {"curve"}
    /\ Ordered(Default)
  BY TuningAssumption

\* Where no lower field rises and no upper one falls, the order stands.
LEMMA Looser ==
    ASSUME NEW f, NEW g, Ordered(f),
           \A p \in Pairs : /\ f[p[1]] \in Int /\ f[p[2]] \in Int
                            /\ g[p[1]] \in Int /\ g[p[2]] \in Int
                            /\ g[p[1]] <= f[p[1]] /\ f[p[2]] <= g[p[2]]
    PROVE  Ordered(g)
  BY DEF Ordered, Pairs

LEMMA SameOrder ==
    ASSUME NEW f, NEW g, Ordered(f), \A k \in Knobs : g[k] = f[k]
    PROVE  Ordered(g)
  <1>1. \A p \in Pairs : g[p[1]] = f[p[1]] /\ g[p[2]] = f[p[2]]
    BY Fields
  <1>. QED  BY <1>1 DEF Ordered, Pairs

\* A map over the defaults, field by field.
LEMMA FilledIs ==
    ASSUME NEW d, NEW k \in Knobs, defaults \in {Default, Retuned}
    PROVE  Filled(d)[k] = IF k \in DOMAIN d THEN d[k] ELSE defaults[k]
  BY Fields DEF Filled, Over

\* Maps that agree on the knobs are worth the same, and stand as far apart.
Agree(f, g) ==
    /\ DOMAIN f \cap Knobs = DOMAIN g \cap Knobs
    /\ \A k \in DOMAIN f \cap Knobs : f[k] = g[k]

LEMMA AgreeSparse ==
    ASSUME NEW f, NEW g, Agree(f, g), NEW b
    PROVE  Sparse(f, b) = Sparse(g, b)
  <1>. DEFINE F == {k \in Knobs \cap DOMAIN f :
                      f[k] # defaults[k] /\ ~(b /\ f[k] \in Superseded[k])}
              G == {k \in Knobs \cap DOMAIN g :
                      g[k] # defaults[k] /\ ~(b /\ g[k] \in Superseded[k])}
  <1>1. F = G
    BY DEF Agree
  <1>2. DOMAIN f \cap F = DOMAIN g \cap G /\ \A k \in DOMAIN f \cap F : f[k] = g[k]
    BY <1>1 DEF Agree
  <1>3. Sparse(f, b) = Only(f, F) /\ Sparse(g, b) = Only(g, G)
    BY DEF Sparse
  <1>. HIDE DEF F, G
  <1>. QED  BY <1>2, <1>3 DEF Only

LEMMA AgreeApart ==
    ASSUME NEW f, NEW g, Agree(f, g), Apart(f), defaults \in {Default, Retuned}
    PROVE  Apart(g)
  <1>1. \A k \in Knobs : Filled(g)[k] = Filled(f)[k]
    BY FilledIs DEF Agree
  <1>. QED  BY <1>1, SameOrder DEF Apart

LEMMA AgreeMigrated ==
    ASSUME NEW f, NEW g, Agree(f, g)
    PROVE  Migrated(f) = Migrated(g)
  BY AgreeSparse DEF Migrated

----------------------------------------------------------------------------
(* The initial states.                                                     *)

LEMMA FreshInv == ASSUME defaults = Default, Fresh PROVE TInv
  <1>1. /\ version = 6 /\ seeded = None /\ stored = None /\ choice = None
        /\ tuned = [r \in Rooms |-> None] /\ own = tuned /\ states = None
        /\ meant = {} /\ wrote = {}
    BY DEF Fresh
  <1>2. DOMAIN Global = {} /\ \A k \in Knobs : Filled(Global)[k] = Default[k]
    BY <1>1, Fields, NoneIs DEF Global, Filled, Over
  <1>3. ChoiceKept
    <2>1. None = [k \in DOMAIN None |-> None[k]]
      BY DEF None
    <2>2. Apart(Global)
      BY <1>2, Fields, SameOrder DEF Apart
    <2>. QED  BY <1>1, <1>2, <2>1, <2>2, NoneIs DEF ChoiceKept
  <1>4. RoomsKept
    <2>1. None = Only(None, Knobs)
      BY DEF None, Only
    <2>. QED  BY <1>1, <2>1, NoneIs DEF RoomsKept
  <1>. QED  BY <1>1, <1>3, <1>4 DEF TInv

LEMMA LegacyInv ==
    ASSUME defaults = Default, NEW v \in 1 .. 5, Legacy(v)
    PROVE  TInv
  <1>. DEFINE latest == IF stored = None THEN seeded ELSE stored
              real == {k \in Knobs \cap DOMAIN latest :
                         latest[k] \notin Superseded[k] \cup {defaults[k]}}
  <1>1. /\ version = v /\ seeded \in Snapshots /\ stored \in Snapshots \cup {None}
        /\ tuned \in [Rooms -> Overrides] /\ own = [r \in Rooms |-> Only(tuned[r], Knobs)]
        /\ v > 4 => \A r \in Rooms : DOMAIN tuned[r] \cap Retired = {}
        /\ choice = [k \in real \cup (IF "ff" \in real THEN {"curve"} ELSE {}) |->
                       IF k = "curve" THEN latest.ff ELSE latest[k]]
    BY DEF Legacy
  <1>2. latest \in Snapshots /\ (stored # None => DOMAIN stored \cap Knobs = DOMAIN seeded \cap Knobs)
    BY <1>1, OldEntryAssumption
  <1>3. Agree(latest, Global)
    <2>1. CASE stored = None
      BY <2>1, NoneIs DEF Agree, Global, Over
    <2>2. CASE stored # None
      BY <1>2, <2>2 DEF Agree, Global, Over
    <2>. QED  BY <2>1, <2>2
  <1>4. "curve" \notin DOMAIN latest /\ "curve" \notin DOMAIN Global
    BY <1>2, <1>3, OldEntryAssumption, Fields DEF Agree
  <1>5. Apart(latest)
    <2>1. \A k \in DOMAIN latest \cap Knobs : latest[k] \in Int
      BY <1>2, OldEntryAssumption
    <2>2. Ordered(Filled(latest))
      BY <1>2, OldEntryAssumption DEF Filled
    <2>. HIDE DEF latest
    <2>. QED  BY <2>1, <2>2, FilledIs, Fields DEF Apart
  <1>. HIDE DEF latest
  <1>6. choice = Migrated(latest)
    <2>. DEFINE kept == Sparse(latest, TRUE)
    <2>1. DOMAIN kept = real /\ \A k \in real : kept[k] = latest[k]
      BY DEF Sparse, Only
    <2>2. "curve" \notin real
      BY <1>4
    <2>. HIDE DEF kept, real
    <2>3. CASE "ff" \in real
      <3>1. Migrated(latest) = Over([k \in {"curve"} |-> kept.ff], kept)
        BY <2>1, <2>2, <2>3 DEF Migrated, Put, kept
      <3>. QED  BY <1>1, <2>1, <2>2, <2>3, <3>1 DEF Over
    <2>4. CASE "ff" \notin real
      <3>1. Migrated(latest) = Over(None, kept)
        BY <2>1, <2>4 DEF Migrated, Put, kept
      <3>. QED  BY <1>1, <2>1, <2>2, <2>4, <3>1, NoneIs DEF Over
    <2>. QED  BY <2>3, <2>4
  <1>7. choice = Migrated(Global) /\ Apart(Global)
    BY <1>3, <1>5, <1>6, AgreeMigrated, AgreeApart
  <1>8. version \in 1 .. 5
    BY <1>1
  <1>9. ChoiceKept
    BY <1>4, <1>7, <1>8 DEF ChoiceKept
  <1>10. RoomsKept
    BY <1>1, OldEntryAssumption DEF RoomsKept
  <1>. QED  BY <1>8, <1>9, <1>10 DEF TInv

LEMMA TuningInitInv == TuningInit => TInv
  BY FreshInv, LegacyInv DEF TuningInit

----------------------------------------------------------------------------
(* The migrations.                                                         *)

LEMMA KnownAgrees ==
    ASSUME NEW f
    PROVE  Agree(f, Known(f)) /\ DOMAIN Known(f) = DOMAIN f \ Retired
  BY Fields DEF Agree, Known, Only

LEMMA SameTuning ==
    ASSUME ChoiceKept, RoomsKept, version \in 1 .. 3, version' \in 1 .. 4,
           UNCHANGED <<defaults, choice, own, seeded, stored, tuned>>
    PROVE  ChoiceKept' /\ RoomsKept'
  <1>1. ChoiceKept'
    <2>1. Global' = Global
      BY DEF Global
    <2>2. Migrated(Global)' = Migrated(Global) /\ Apart(Global)' = Apart(Global)
      BY <2>1 DEF Migrated, Sparse, Apart, Filled, Ordered
    <2>. QED  BY <2>1, <2>2 DEF ChoiceKept
  <1>2. RoomsKept'
    BY DEF RoomsKept
  <1>. QED  BY <1>1, <1>2

\* A step that raises no lower field of the building's and lowers no upper
\* one.  Such is the step to the sparse map, where a default may take the
\* place of an earlier one.
Wider ==
    \A p \in Pairs : /\ Filled(Global)'[p[1]] <= Filled(Global)[p[1]]
                     /\ Filled(Global)[p[2]] <= Filled(Global)'[p[2]]

LEMMA WiderApart ==
    ASSUME Apart(Global), Wider, \A k \in Knobs : Filled(Global)'[k] \in Int
    PROVE  Apart(Global)'
  <1>1. Ordered(Filled(Global)')
    BY Looser, Fields DEF Apart, Wider
  <1>2. Apart(Global)' <=> /\ \A k \in Knobs : Filled(Global)'[k] \in Int
                           /\ Ordered(Filled(Global)')
    BY DEF Apart, Ordered
  <1>. QED  BY <1>1, <1>2

LEMMA SparseWider ==
    ASSUME LaterDefaultsFit, ChoiceKept, version = 5,
           stored' = Migrated(Global), seeded' = None, UNCHANGED defaults
    PROVE  /\ Wider /\ \A k \in Knobs : Filled(Global)'[k] \in Int
           /\ DOMAIN stored' \subseteq Knobs /\ stored' = [k \in DOMAIN stored' |-> stored'[k]]
  <1>1. defaults = Default /\ Apart(Global) /\ "curve" \notin DOMAIN Global
    BY DEF ChoiceKept
  <1>. DEFINE kept == Sparse(Global, TRUE)
              curve == IF "ff" \in DOMAIN kept /\ "curve" \notin DOMAIN kept
                       THEN [k \in {"curve"} |-> kept.ff] ELSE None
  <1>2. /\ DOMAIN kept \subseteq Knobs
        /\ \A k \in DOMAIN kept : k \in DOMAIN Global /\ kept[k] = Global[k]
        /\ \A k \in (Knobs \cap DOMAIN Global) \ DOMAIN kept :
             Global[k] = defaults[k] \/ Global[k] \in Superseded[k]
    BY DEF Sparse, Only
  <1>3. /\ stored' = Over(curve, kept) /\ DOMAIN curve \subseteq {"curve"}
        /\ "curve" \in DOMAIN curve => "ff" \in DOMAIN kept /\ curve["curve"] = kept.ff
    BY NoneIs DEF Migrated, Put
  <1>. HIDE DEF kept, curve
  <1>4. /\ DOMAIN stored' \subseteq Knobs /\ stored' = [k \in DOMAIN stored' |-> stored'[k]]
        /\ \A k \in Knobs \ {"curve"} :
             /\ k \in DOMAIN stored' <=> k \in DOMAIN kept
             /\ k \in DOMAIN kept => stored'[k] = kept[k]
        /\ "curve" \in DOMAIN stored' => "ff" \in DOMAIN kept /\ stored'["curve"] = kept.ff
    BY <1>1, <1>2, <1>3, Fields DEF Over
  <1>5. \A k \in Knobs : Filled(Global)'[k] = IF k \in DOMAIN stored' THEN stored'[k]
                                             ELSE Default[k]
    BY <1>1, NoneIs, Fields DEF Filled, Global, Over
  <1>6. \A k \in Knobs : Filled(Global)[k] = IF k \in DOMAIN Global THEN Global[k]
                                            ELSE Default[k]
    BY <1>1, FilledIs
  <1>7. \A k \in Knobs : k \in DOMAIN Global => Global[k] \in Int
    BY <1>1, <1>6 DEF Apart
  <1>8. \A k \in Knobs : Filled(Global)'[k] \in Int
    BY <1>2, <1>4, <1>5, <1>7, Fields
  <1>9. ASSUME NEW p \in Pairs
        PROVE  /\ Filled(Global)'[p[1]] <= Filled(Global)[p[1]]
               /\ Filled(Global)[p[2]] <= Filled(Global)'[p[2]]
    <2>1. p[1] \in Knobs \ {"curve"} /\ p[2] \in Knobs \ {"curve"}
      BY Fields
    <2>2. \A v \in Superseded[p[1]] : v >= Default[p[1]]
      BY DEF LaterDefaultsFit
    <2>3. \A v \in Superseded[p[2]] : v <= Default[p[2]]
      BY DEF LaterDefaultsFit
    <2>4. Filled(Global)'[p[1]] <= Filled(Global)[p[1]]
      BY <1>1, <1>2, <1>4, <1>5, <1>6, <1>7, <2>1, <2>2, Fields
    <2>5. Filled(Global)[p[2]] <= Filled(Global)'[p[2]]
      BY <1>1, <1>2, <1>4, <1>5, <1>6, <1>7, <2>1, <2>3, Fields
    <2>. QED  BY <2>4, <2>5
  <1>. QED  BY <1>4, <1>8, <1>9 DEF Wider

LEMMA SparseFits ==
    ASSUME LaterDefaultsFit, ChoiceKept, version = 5, version' = 6,
           stored' = Migrated(Global), seeded' = None, UNCHANGED <<defaults, choice>>
    PROVE  ChoiceKept'
  <1>1. choice = Migrated(Global) /\ Apart(Global)
    BY DEF ChoiceKept
  <1>2. Apart(Global)'
    BY <1>1, SparseWider, WiderApart
  <1>. QED  BY <1>1, <1>2, SparseWider DEF ChoiceKept

LEMMA MigrateInv == ASSUME LaterDefaultsFit, TInv, Migrate PROVE TInv'
  <1>1. UNCHANGED <<defaults, choice, own>>
    BY DEF Migrate
  <1>2. CASE JoinFlags
    <2>1. version = 1 /\ version' = 2 /\ UNCHANGED <<seeded, stored, tuned>>
      BY <1>2 DEF JoinFlags
    <2>2. ChoiceKept' /\ RoomsKept'
      BY <1>1, <2>1, SameTuning DEF TInv
    <2>. QED  BY <1>1, <2>1, <2>2 DEF TInv
  <1>3. CASE DropShadow \/ DropModeEntity
    <2>1. version \in {2, 3} /\ version' = version + 1 /\ UNCHANGED <<seeded, stored, tuned>>
      BY <1>3 DEF DropShadow, DropModeEntity
    <2>2. ChoiceKept' /\ RoomsKept'
      BY <1>1, <2>1, SameTuning DEF TInv
    <2>. QED  BY <1>1, <2>1, <2>2 DEF TInv
  <1>4. CASE StripRetired
    <2>1. /\ version = 4 /\ version' = 5
          /\ seeded' = Known(seeded) /\ stored' = Known(stored)
          /\ tuned' = [r \in Rooms |-> Known(tuned[r])]
      BY <1>4 DEF StripRetired
    <2>2. Agree(Global, Over(stored', seeded')) /\ "curve" \notin DOMAIN Over(stored', seeded')
      <3>1. "curve" \notin DOMAIN Global
        BY <2>1 DEF TInv, ChoiceKept
      <3>2. Agree(Global, Over(stored', seeded'))
        BY <2>1, Fields DEF Agree, Global, Over, Known, Only
      <3>. QED  BY <3>1, <3>2, Fields DEF Agree
    <2>3. ChoiceKept'
      <3>1. Migrated(Over(stored', seeded')) = Migrated(Global)
            /\ Apart(Over(stored', seeded'))
        BY <2>2, AgreeMigrated, AgreeApart DEF TInv, ChoiceKept
      <3>2. /\ Migrated(Global)' = Migrated(Over(stored', seeded'))
            /\ Apart(Global)' <=> Apart(Over(stored', seeded'))
        BY <1>1 DEF Global, Migrated, Sparse, Apart, Filled, Ordered
      <3>. QED  BY <1>1, <2>1, <2>2, <3>1, <3>2 DEF TInv, ChoiceKept, Global
    <2>4. RoomsKept'
      <3>. SUFFICES ASSUME NEW r \in Rooms
                    PROVE  /\ own[r] = Only(tuned'[r], Knobs)
                           /\ DOMAIN tuned'[r] \subseteq (Knobs \ GlobalOnly) \cup Retired
                           /\ DOMAIN tuned'[r] \cap Retired = {}
        BY <1>1, <2>1 DEF TInv, RoomsKept
      <3>1. tuned'[r] = Known(tuned[r]) /\ own[r] = Only(tuned[r], Knobs)
            /\ DOMAIN tuned[r] \subseteq (Knobs \ GlobalOnly) \cup Retired
        BY <2>1 DEF TInv, RoomsKept
      <3>2. Only(Known(tuned[r]), Knobs) = Only(tuned[r], Knobs)
        BY Fields DEF Known, Only
      <3>. QED  BY <3>1, <3>2, KnownAgrees
    <2>. QED  BY <1>1, <2>1, <2>3, <2>4 DEF TInv
  <1>5. CASE MakeSparse
    <2>1. /\ version = 5 /\ version' = 6 /\ stored' = Migrated(Global) /\ seeded' = None
          /\ UNCHANGED tuned
      BY <1>5 DEF MakeSparse, Migrated
    <2>2. RoomsKept'
      BY <1>1, <2>1 DEF TInv, RoomsKept
    <2>3. ChoiceKept'
      BY <1>1, <2>1, SparseFits DEF TInv
    <2>. QED  BY <1>1, <2>1, <2>2, <2>3 DEF TInv
  <1>. QED  BY <1>2, <1>3, <1>4, <1>5 DEF Migrate

----------------------------------------------------------------------------
(* The panel and a later release.                                          *)

LEMMA Running ==
    ASSUME TInv, version = 6
    PROVE  Agree(Global, stored) /\ DOMAIN Global = DOMAIN stored
           /\ Global = stored /\ Apart(stored) /\ Accepted(Global)
           /\ Known(Global) = stored
  <1>1. /\ seeded = None /\ stored = [k \in DOMAIN stored |-> stored[k]]
        /\ DOMAIN stored \subseteq Knobs /\ Apart(Global)
        /\ defaults \in {Default, Retuned}
    BY DEF TInv, ChoiceKept
  <1>2. Global = stored
    BY <1>1, NoneIs DEF Global, Over
  <1>3. DOMAIN stored \cap Retired = {}
    BY <1>1, Fields
  <1>4. Known(stored) = stored
    BY <1>1, <1>3 DEF Known, Only
  <1>5. Accepted(stored)
    BY <1>1, <1>2, Fields DEF Accepted, Apart
  <1>. QED  BY <1>1, <1>2, <1>4, <1>5 DEF Agree

\* A save stores the choice, a knob set back to its default being no choice;
\* what it runs with is what was checked.
LEMMA SavedGlobal ==
    ASSUME TInv, NEW changes, NEW resets, SetGlobal(changes, resets),
           DOMAIN changes \subseteq Knobs,
           NEW m, m = Changed(Only(Global, Knobs), changes, resets)
    PROVE  /\ m = Changed(choice, changes, resets) /\ stored' = Chosen(m)
           /\ DOMAIN stored' \subseteq Knobs /\ stored' = [k \in DOMAIN stored' |-> stored'[k]]
           /\ \A k \in Knobs : Filled(Global)'[k] = Filled(m)[k]
           /\ \A k \in DOMAIN m : k \in Knobs
                 /\ m[k] = IF k \in DOMAIN changes THEN changes[k] ELSE Filled(Global)[k]
  <1>1. version = 6 /\ stored' = Sparse(Filled(m), FALSE) /\ seeded' = None /\ UNCHANGED defaults
    BY DEF SetGlobal
  <1>2. choice = stored /\ Global = stored /\ DOMAIN stored \subseteq Knobs
        /\ stored = [k \in DOMAIN stored |-> stored[k]]
        /\ defaults \in {Default, Retuned}
    BY <1>1, Running DEF TInv, ChoiceKept
  <1>3. Only(Global, Knobs) = stored
    BY <1>2 DEF Only
  <1>4. m = Changed(choice, changes, resets) /\ DOMAIN m \subseteq Knobs
        /\ Knobs \subseteq DOMAIN defaults
    BY <1>2, <1>3, Fields DEF Changed, Put, Over, Only
  <1>5. Filled(m) = Over(m, defaults)
    BY DEF Filled
  <1>6. \A k \in Knobs : /\ k \in DOMAIN Filled(m)
                         /\ Filled(m)[k] = IF k \in DOMAIN m THEN m[k] ELSE defaults[k]
    BY <1>4, <1>5 DEF Over
  <1>7. stored' = Chosen(m)
    <2>. DEFINE S == {k \in Knobs \cap DOMAIN Filled(m) :
                        /\ Filled(m)[k] # defaults[k]
                        /\ ~(FALSE /\ Filled(m)[k] \in Superseded[k])}
                C == {k \in DOMAIN m : m[k] # defaults[k]}
    <2>1. S = C
      BY <1>4, <1>6
    <2>2. stored' = Only(Filled(m), S) /\ Chosen(m) = Only(m, C)
      BY <1>1 DEF Sparse, Chosen
    <2>3. C \subseteq DOMAIN m /\ C \subseteq Knobs
      BY <1>4
    <2>. HIDE DEF S, C
    <2>4. DOMAIN Filled(m) \cap C = DOMAIN m \cap C
          /\ \A k \in DOMAIN m \cap C : Filled(m)[k] = m[k]
      BY <1>6, <2>3
    <2>. QED  BY <2>1, <2>2, <2>4 DEF Only
  <1>8. /\ DOMAIN stored' \subseteq Knobs /\ stored' = [k \in DOMAIN stored' |-> stored'[k]]
    BY <1>4, <1>7 DEF Chosen, Only
  <1>9. \A k \in Knobs : Filled(Global)'[k] = Filled(m)[k]
    <2>1. \A k \in Knobs : Filled(Global)'[k] = IF k \in DOMAIN stored' THEN stored'[k]
                                               ELSE defaults[k]
      BY <1>1, <1>4, NoneIs DEF Filled, Global, Over
    <2>2. \A k \in Knobs : /\ k \in DOMAIN stored' <=> k \in DOMAIN m /\ m[k] # defaults[k]
                           /\ k \in DOMAIN stored' => stored'[k] = m[k]
      BY <1>7 DEF Chosen, Only
    <2>. QED  BY <1>6, <2>1, <2>2
  <1>10. \A k \in DOMAIN m :
           m[k] = IF k \in DOMAIN changes THEN changes[k] ELSE Filled(Global)[k]
    <2>1. \A k \in DOMAIN m : /\ k \in DOMAIN changes => m[k] = changes[k]
                              /\ k \notin DOMAIN changes => k \in DOMAIN stored
                                                            /\ m[k] = stored[k]
      BY <1>3 DEF Changed, Put, Over, Only
    <2>. QED  BY <1>2, <2>1, FilledIs
  <1>. QED  BY <1>4, <1>7, <1>8, <1>9, <1>10

LEMMA SetGlobalInv ==
    ASSUME TInv, NEW changes, NEW resets, SetGlobal(changes, resets),
           DOMAIN changes \subseteq Knobs,
           \A k \in DOMAIN changes : changes[k] \in Int
    PROVE  TInv'
  <1>. DEFINE m == Changed(Only(Global, Knobs), changes, resets)
  <1>1. /\ version = 6 /\ Accepted(m) /\ seeded' = None
        /\ choice' = Chosen(Changed(choice, changes, resets))
        /\ UNCHANGED <<version, tuned, defaults, own>>
    BY DEF SetGlobal
  <1>2. /\ m = Changed(choice, changes, resets) /\ stored' = Chosen(m)
        /\ DOMAIN stored' \subseteq Knobs /\ stored' = [k \in DOMAIN stored' |-> stored'[k]]
        /\ \A k \in Knobs : Filled(Global)'[k] = Filled(m)[k]
        /\ \A k \in DOMAIN m : k \in Knobs
              /\ m[k] = IF k \in DOMAIN changes THEN changes[k] ELSE Filled(Global)[k]
    BY SavedGlobal
  <1>. HIDE DEF m
  <1>3. stored' = choice'
    BY <1>1, <1>2
  <1>4. Apart(Global)'
    <2>1. \A k \in Knobs : Filled(m)[k] \in Int
      <3>1. Apart(Global) /\ defaults \in {Default, Retuned}
        BY DEF TInv, ChoiceKept
      <3>. QED  BY <1>2, <3>1, FilledIs, Fields DEF Apart
    <2>2. Ordered(Filled(Global)')
      BY <1>1, <1>2, SameOrder DEF Accepted
    <2>3. Apart(Global)' <=> /\ \A k \in Knobs : Filled(Global)'[k] \in Int
                             /\ Ordered(Filled(Global)')
      BY DEF Apart, Ordered
    <2>. QED  BY <1>2, <2>1, <2>2, <2>3
  <1>5. ChoiceKept'
    <2>1. version' = 6 /\ ~(version' < 6)
      BY <1>1
    <2>. QED  BY <1>1, <1>2, <1>3, <1>4, <2>1, Zenon DEF ChoiceKept
  <1>6. RoomsKept'
    BY <1>1 DEF TInv, RoomsKept
  <1>. QED  BY <1>1, <1>5, <1>6 DEF TInv

LEMMA SetRoomInv ==
    ASSUME TInv, NEW r \in Rooms, NEW changes, NEW resets, SetRoom(r, changes, resets),
           DOMAIN changes \subseteq Knobs
    PROVE  TInv'
  <1>. DEFINE o == Changed(OwnFields(r), changes, resets)
  <1>1. /\ version = 6 /\ DOMAIN changes \cap GlobalOnly = {}
        /\ tuned' = [tuned EXCEPT ![r] = o]
        /\ own' = [own EXCEPT ![r] = Changed(own[r], changes, resets)]
        /\ UNCHANGED <<version, seeded, stored, defaults, choice>>
    BY DEF SetRoom
  <1>2. /\ own[r] = Only(tuned[r], Knobs)
        /\ DOMAIN tuned[r] \subseteq (Knobs \ GlobalOnly) \cup Retired
        /\ DOMAIN tuned[r] \cap Retired = {}
        /\ DOMAIN tuned = Rooms /\ DOMAIN own = Rooms
    BY <1>1 DEF TInv, RoomsKept
  <1>3. OwnFields(r) = own[r]
    BY <1>2 DEF OwnFields, Only
  <1>4. o = Changed(own[r], changes, resets)
    BY <1>3
  <1>5. DOMAIN o \subseteq Knobs \ GlobalOnly /\ o = [k \in DOMAIN o |-> o[k]]
    BY <1>1 DEF OwnFields, Changed, Put, Over, Only
  <1>. HIDE DEF o
  <1>6. Only(o, Knobs) = o
    BY <1>5 DEF Only
  <1>7. RoomsKept'
    <2>. SUFFICES ASSUME NEW x \in Rooms
                  PROVE  /\ own'[x] = Only(tuned'[x], Knobs)
                         /\ DOMAIN tuned'[x] \subseteq (Knobs \ GlobalOnly) \cup Retired
                         /\ DOMAIN tuned'[x] \cap Retired = {}
      BY <1>1, <1>2 DEF RoomsKept
    <2>1. CASE x = r
      BY <1>1, <1>2, <1>4, <1>5, <1>6, <2>1, Fields
    <2>2. CASE x # r
      BY <1>1, <1>2, <2>2 DEF TInv, RoomsKept
    <2>. QED  BY <2>1, <2>2
  <1>8. Global' = Global
    BY <1>1 DEF Global
  <1>9. ChoiceKept'
    BY <1>1, <1>8 DEF TInv, ChoiceKept, Apart, Filled, Ordered
  <1>. QED  BY <1>1, <1>7, <1>8, <1>9 DEF TInv

LEMMA SetStateInv ==
    ASSUME TInv, NEW r \in Rooms, SetState(r)
    PROVE  TInv'
  <1>1. UNCHANGED <<version, seeded, stored, tuned, defaults, choice, own>>
    BY DEF SetState
  <1>2. Global' = Global /\ Migrated(Global)' = Migrated(Global) /\ Apart(Global)' = Apart(Global)
    BY <1>1 DEF Global, Migrated, Sparse, Apart, Filled, Ordered
  <1>3. ChoiceKept'
    BY <1>1, <1>2 DEF TInv, ChoiceKept
  <1>4. RoomsKept'
    BY <1>1 DEF TInv, RoomsKept
  <1>. QED  BY <1>1, <1>3, <1>4 DEF TInv

LEMMA RetuneWider ==
    ASSUME LaterDefaultsFit, TInv, Retune
    PROVE  Wider /\ \A k \in Knobs : Filled(Global)'[k] \in Int
  <1>1. version = 6 /\ defaults' = Retuned /\ UNCHANGED <<seeded, stored>>
    BY DEF Retune, config
  <1>2. Global' = Global /\ Apart(Global) /\ defaults \in {Default, Retuned}
    BY <1>1 DEF Global, TInv, ChoiceKept
  <1>3. \A k \in Knobs : /\ Filled(Global)[k] = IF k \in DOMAIN Global THEN Global[k]
                                                ELSE defaults[k]
                         /\ Filled(Global)'[k] = IF k \in DOMAIN Global THEN Global[k]
                                                 ELSE Retuned[k]
    BY <1>1, <1>2, FilledIs, Fields DEF Filled, Over
  <1>4. \A k \in Knobs : Filled(Global)'[k] \in Int
    BY <1>2, <1>3, Fields DEF Apart
  <1>5. ASSUME NEW p \in Pairs
        PROVE  /\ Filled(Global)'[p[1]] <= Filled(Global)[p[1]]
               /\ Filled(Global)[p[2]] <= Filled(Global)'[p[2]]
    <2>1. p[1] \in Knobs /\ p[2] \in Knobs
      BY Fields
    <2>2. Retuned[p[1]] <= Default[p[1]] /\ Retuned[p[2]] >= Default[p[2]]
      BY DEF LaterDefaultsFit
    <2>3. Filled(Global)'[p[1]] <= Filled(Global)[p[1]]
      BY <1>2, <1>3, <2>1, <2>2, Fields DEF Apart
    <2>4. Filled(Global)[p[2]] <= Filled(Global)'[p[2]]
      BY <1>2, <1>3, <2>1, <2>2, Fields DEF Apart
    <2>. QED  BY <2>3, <2>4
  <1>. QED  BY <1>4, <1>5 DEF Wider

LEMMA RetuneInv == ASSUME LaterDefaultsFit, TInv, Retune PROVE TInv'
  <1>1. /\ version = 6 /\ defaults' = Retuned
        /\ UNCHANGED <<version, seeded, stored, tuned, choice, own>>
    BY DEF Retune, config, choices
  <1>2. Apart(Global)'
    BY RetuneWider, WiderApart DEF TInv, ChoiceKept
  <1>3. ChoiceKept' /\ RoomsKept'
    BY <1>1, <1>2 DEF TInv, ChoiceKept, RoomsKept
  <1>. QED  BY <1>1, <1>3 DEF TInv

\* A save of the panel changes knobs, to whole numbers.
LEMMA ChangesTyped ==
    ASSUME NEW c \in Changes
    PROVE  DOMAIN c \subseteq Knobs /\ \A k \in DOMAIN c : c[k] \in Int
  <1>1. PICK S \in SavedTogether :
          c \in {d \in [S -> UNION {Values[k] : k \in S}] : \A k \in S : d[k] \in Values[k]}
    BY DEF Changes
  <1>2. S \subseteq Knobs
    BY <1>1, Fields DEF SavedTogether
  <1>3. DOMAIN c = S /\ \A k \in S : c[k] \in Values[k]
    BY <1>1
  <1>. QED  BY <1>2, <1>3, Fields

LEMMA TuningNextInv ==
    ASSUME LaterDefaultsFit PROVE TInv /\ [TuningNext]_tuningVars => TInv'
  <1>. SUFFICES ASSUME TInv, [TuningNext]_tuningVars PROVE TInv'
    OBVIOUS
  <1>1. CASE Migrate
    BY <1>1, MigrateInv
  <1>3. DOMAIN None \subseteq Knobs /\ \A k \in DOMAIN None : None[k] \in Int
    BY NoneIs
  <1>4. CASE Edit
    BY <1>3, <1>4, ChangesTyped, SetGlobalInv, SetRoomInv, SetStateInv DEF Edit
  <1>5. CASE Retune
    BY <1>5, RetuneInv
  <1>6. CASE UNCHANGED tuningVars
    <2>1. UNCHANGED <<version, seeded, stored, tuned, defaults, choice, own>>
      BY <1>6 DEF tuningVars, config, choices
    <2>2. Global' = Global /\ Migrated(Global)' = Migrated(Global) /\ Apart(Global)' = Apart(Global)
      BY <2>1 DEF Global, Migrated, Sparse, Apart, Filled, Ordered
    <2>3. ChoiceKept'
      BY <2>1, <2>2 DEF TInv, ChoiceKept
    <2>4. RoomsKept'
      BY <2>1 DEF TInv, RoomsKept
    <2>. QED  BY <2>1, <2>3, <2>4 DEF TInv
  <1>. QED  BY <1>1, <1>4, <1>5, <1>6 DEF TuningNext

LEMMA TuningInvariant == ASSUME LaterDefaultsFit PROVE TuningSpec => []TInv
  BY TuningInitInv, TuningNextInv, PTL DEF TuningSpec

\* A migrated entry runs with what the user once chose and with today's
\* defaults in everything else, over every save, reset and release whose
\* hysteresis is no narrower (controller_overrides, async_migrate_entry).
THEOREM ChoicesStand == ASSUME LaterDefaultsFit PROVE TuningSpec => []ChoiceStands
  <1>1. TInv => ChoiceStands
    <2>. SUFFICES ASSUME TInv, version = 6
                  PROVE  /\ GlobalRunning = Filled(choice)
                         /\ \A r \in Rooms : Accepted(Over(own[r], choice))
                              => RoomRunning(r) = Filled(Over(own[r], choice))
      BY DEF ChoiceStands
    <2>1. Known(Global) = choice /\ Accepted(choice)
      BY Running DEF TInv, ChoiceKept
    <2>2. GlobalRunning = Filled(choice)
      BY <2>1 DEF GlobalRunning
    <2>3. ASSUME NEW r \in Rooms, Accepted(Over(own[r], choice))
          PROVE  RoomRunning(r) = Filled(Over(own[r], choice))
      <3>1. Known(tuned[r]) = own[r]
        <4>1. /\ own[r] = Only(tuned[r], Knobs)
              /\ DOMAIN tuned[r] \subseteq (Knobs \ GlobalOnly) \cup Retired
              /\ DOMAIN tuned[r] \cap Retired = {}
          BY DEF TInv, RoomsKept
        <4>. QED  BY <4>1 DEF Known, Only
      <3>2. CASE own[r] = None
        <4>1. Over(own[r], choice) = choice
          <5>1. choice = [k \in DOMAIN choice |-> choice[k]]
            BY DEF TInv, ChoiceKept
          <5>. QED  BY <3>2, <5>1, NoneIs DEF Over
        <4>. QED  BY <2>2, <3>1, <3>2, <4>1 DEF RoomRunning
      <3>3. CASE own[r] # None
        BY <2>1, <2>3, <3>1, <3>3 DEF RoomRunning
      <3>. QED  BY <3>2, <3>3
    <2>. QED  BY <2>2, <2>3
  <1>. QED  BY <1>1, TuningInvariant, PTL

\* The rooms that will be live are those the user meant, and those the kill
\* switch alone held back.
StatesKept ==
    /\ version \in 1 .. 6 /\ wrote \subseteq Rooms
    /\ version = 1 => /\ meant = IF killed THEN {} ELSE wrote \ away
                      /\ woken = {}
    /\ version # 1 => {r \in DOMAIN states : states[r] = "live"} = meant \cup woken

LEMMA StatesInit == TuningInit => StatesKept
  <1>1. Fresh => StatesKept
    BY NoneIs DEF Fresh, StatesKept
  <1>2. ASSUME NEW v \in 1 .. 5, Legacy(v) PROVE StatesKept
    BY <1>2 DEF Legacy, StatesKept
  <1>. QED  BY <1>1, <1>2 DEF TuningInit

LEMMA StatesNext == StatesKept /\ [TuningNext]_tuningVars => StatesKept'
  <1>. SUFFICES ASSUME StatesKept, [TuningNext]_tuningVars PROVE StatesKept'
    OBVIOUS
  <1>1. CASE JoinFlags /\ UNCHANGED meant
    <2>1. \A r : JoinedState(r) = "live" <=> r \in wrote \ away
      BY DEF JoinedState
    <2>2. /\ version = 1 /\ version' = 2 /\ wrote' = {}
          /\ states' = [r \in Rooms |-> JoinedState(r)]
          /\ woken' = IF killed THEN wrote \ away ELSE {}
      BY <1>1 DEF JoinFlags
    <2>3. meant \cup woken' = wrote \ away
      BY <2>2 DEF StatesKept
    <2>4. {r \in DOMAIN states' : states'[r] = "live"} = wrote \ away
      BY <2>1, <2>2 DEF StatesKept
    <2>. QED  BY <1>1, <2>2, <2>3, <2>4 DEF StatesKept
  <1>2. CASE (DropShadow \/ DropModeEntity \/ StripRetired \/ MakeSparse) /\ UNCHANGED meant
    <2>1. version \in 2 .. 5 /\ version' = version + 1 /\ UNCHANGED <<wrote, meant, woken>>
      <3>1. UNCHANGED <<wrote, meant, woken>>
        BY <1>2 DEF DropShadow, DropModeEntity, StripRetired, MakeSparse
      <3>2. \/ version = 2 /\ version' = 3
            \/ version = 3 /\ version' = 4
            \/ version = 4 /\ version' = 5
            \/ version = 5 /\ version' = 6
        BY <1>2, Zenon DEF DropShadow, DropModeEntity, StripRetired, MakeSparse
      <3>. QED  BY <3>1, <3>2
    <2>2. /\ DOMAIN states' = DOMAIN states
          /\ \A r \in DOMAIN states : states'[r] = "live" <=> states[r] = "live"
      <3>1. CASE DropShadow
        BY <3>1 DEF DropShadow
      <3>2. CASE DropModeEntity \/ StripRetired \/ MakeSparse
        BY <3>2 DEF DropModeEntity, StripRetired, MakeSparse
      <3>. QED  BY <1>2, <3>1, <3>2
    <2>. QED  BY <2>1, <2>2 DEF StatesKept
  <1>3. ASSUME NEW r \in Rooms, SetState(r) PROVE StatesKept'
    <2>1. PICK s \in {"off", "live"} :
            /\ states' = Put(states, [x \in {r} |-> s])
            /\ meant' = IF s = "live" THEN meant \cup {r} ELSE meant \ {r}
      BY <1>3 DEF SetState
    <2>2. version = 6 /\ woken' = woken \ {r} /\ UNCHANGED <<version, wrote>>
      BY <1>3 DEF SetState
    <2>3. /\ DOMAIN states' = DOMAIN states \cup {r}
          /\ \A x \in DOMAIN states' : states'[x] = IF x = r THEN s ELSE states[x]
      BY <2>1 DEF Put, Over
    <2>4. ASSUME NEW x
          PROVE  x \in {y \in DOMAIN states' : states'[y] = "live"} <=> x \in meant' \cup woken'
      <3>1. x \in {y \in DOMAIN states : states[y] = "live"} <=> x \in meant \cup woken
        BY <2>2 DEF StatesKept
      <3>. QED  BY <2>1, <2>2, <2>3, <3>1
    <2>5. version' = 6 /\ wrote' \subseteq Rooms
      BY <2>2 DEF StatesKept
    <2>. QED  BY <2>4, <2>5 DEF StatesKept
  <1>4. CASE UNCHANGED <<version, away, wrote, killed, states, meant, woken>>
    BY <1>4 DEF StatesKept
  <1>5. CASE Edit
    BY <1>3, <1>4, <1>5 DEF Edit, SetGlobal, SetRoom
  <1>6. CASE Migrate
    BY <1>1, <1>2, <1>6 DEF Migrate
  <1>. QED  BY <1>4, <1>5, <1>6 DEF TuningNext, Retune, tuningVars, config, choices

\* No migration lets the integration drive a room it did not drive before, or
\* stop one it drove, but for those with live control that only the kill
\* switch of version 1 held back (async_migrate_entry, set_room_state).
THEOREM MeantAreLive == TuningSpec => []OnlyMeantIsLive
  <1>1. StatesKept => OnlyMeantIsLive
    BY DEF StatesKept, OnlyMeantIsLive
  <1>. QED  BY <1>1, StatesInit, StatesNext, PTL DEF TuningSpec

----------------------------------------------------------------------------
(* The rooms' tuning.  A room the building's saves have kept clear of      *)
(* stands the right way round over the building's.                         *)

Mixed(o, g) == Filled(Over(Known(o), Known(g)))

RoomsFit ==
    /\ \A r \in Rooms : \A k \in DOMAIN tuned[r] \cap Knobs : tuned[r][k] \in Int
    /\ \A r \in Rooms \ overtaken : Ordered(Mixed(tuned[r], Global))

LEMMA MixedIs ==
    ASSUME NEW o, NEW g, NEW k \in Knobs, defaults \in {Default, Retuned}
    PROVE  Mixed(o, g)[k] = IF k \in DOMAIN o THEN o[k] ELSE Filled(g)[k]
  BY Fields DEF Mixed, Filled, Over, Known, Only

LEMMA MixedLater ==
    ASSUME TInv', NEW r \in Rooms, NEW k \in Knobs
    PROVE  Mixed(tuned[r], Global)'[k]
             = IF k \in DOMAIN tuned'[r] THEN tuned'[r][k] ELSE Filled(Global)'[k]
  <1>1. defaults' \in {Default, Retuned}
    BY DEF TInv
  <1>. QED  BY <1>1, Fields DEF Mixed, Filled, Over, Known, Only

\* A room keeps its fit where its own fields stay and the building's move
\* away from them.
LEMMA RoomsStay ==
    ASSUME TInv, TInv', RoomsFit, Wider, overtaken \subseteq overtaken',
           \A r \in Rooms : Agree(tuned[r], tuned'[r])
    PROVE  RoomsFit'
  <1>1. ASSUME NEW r \in Rooms, NEW k \in DOMAIN tuned'[r] \cap Knobs PROVE tuned'[r][k] \in Int
    BY DEF RoomsFit, Agree
  <1>2. ASSUME NEW r \in Rooms \ overtaken' PROVE Ordered(Mixed(tuned[r], Global)')
    <2>1. r \in Rooms \ overtaken /\ Ordered(Mixed(tuned[r], Global))
      BY DEF RoomsFit
    <2>2. \A k \in Knobs : /\ Filled(Global)[k] \in Int /\ Filled(Global)'[k] \in Int
                           /\ k \in DOMAIN tuned[r] <=> k \in DOMAIN tuned'[r]
                           /\ k \in DOMAIN tuned[r] => tuned[r][k] \in Int
                                                       /\ tuned'[r][k] = tuned[r][k]
      BY DEF TInv, ChoiceKept, Apart, RoomsFit, Agree
    <2>3. ASSUME NEW k \in Knobs
          PROVE  /\ Mixed(tuned[r], Global)[k] = IF k \in DOMAIN tuned[r] THEN tuned[r][k]
                                                 ELSE Filled(Global)[k]
                 /\ Mixed(tuned[r], Global)'[k] = IF k \in DOMAIN tuned[r] THEN tuned[r][k]
                                                  ELSE Filled(Global)'[k]
      BY <2>2, MixedIs, MixedLater DEF TInv
    <2>4. ASSUME NEW p \in Pairs
          PROVE  /\ Mixed(tuned[r], Global)[p[1]] \in Int /\ Mixed(tuned[r], Global)[p[2]] \in Int
                 /\ Mixed(tuned[r], Global)'[p[1]] \in Int /\ Mixed(tuned[r], Global)'[p[2]] \in Int
                 /\ Mixed(tuned[r], Global)'[p[1]] <= Mixed(tuned[r], Global)[p[1]]
                 /\ Mixed(tuned[r], Global)[p[2]] <= Mixed(tuned[r], Global)'[p[2]]
      <3>1. p[1] \in Knobs /\ p[2] \in Knobs
        BY Fields
      <3>2. /\ Filled(Global)'[p[1]] <= Filled(Global)[p[1]]
            /\ Filled(Global)[p[2]] <= Filled(Global)'[p[2]]
        BY DEF Wider
      <3>. QED  BY <2>2, <2>3, <3>1, <3>2
    <2>. QED  BY <2>1, <2>4, Looser
  <1>. QED  BY <1>1, <1>2 DEF RoomsFit, Ordered

LEMMA RoomsInit == TuningInit => RoomsFit
  <1>. SUFFICES ASSUME TuningInit PROVE RoomsFit
    OBVIOUS
  <1>1. defaults = Default
    BY DEF TuningInit
  <1>2. CASE Fresh
    <2>1. \A r \in Rooms : tuned[r] = None
      BY <1>2 DEF Fresh
    <2>2. \A k \in Knobs : Mixed(None, Global)[k] = Default[k]
      <3>1. DOMAIN Global = {}
        BY <1>2, NoneIs DEF Fresh, Global, Over
      <3>. QED  BY <1>1, <3>1, MixedIs, FilledIs, NoneIs
    <2>3. Ordered(Mixed(None, Global))
      BY <2>2, Fields, SameOrder
    <2>. QED  BY <2>1, <2>3, NoneIs DEF RoomsFit
  <1>3. ASSUME NEW v \in 1 .. 5, Legacy(v) PROVE RoomsFit
    <2>1. /\ tuned \in [Rooms -> Overrides]
          /\ overtaken = {r \in Rooms : ~Accepted(Over(Known(tuned[r]), Known(Global)))}
      BY <1>3 DEF Legacy
    <2>2. \A r \in Rooms : \A k \in DOMAIN tuned[r] \cap Knobs : tuned[r][k] \in Int
      BY <2>1, OldEntryAssumption
    <2>3. \A r \in Rooms \ overtaken : Ordered(Mixed(tuned[r], Global))
      BY <2>1 DEF Mixed, Accepted
    <2>. QED  BY <2>2, <2>3 DEF RoomsFit
  <1>. QED  BY <1>2, <1>3 DEF TuningInit

\* A save of the building's tuning spares the rooms it does not move towards.
LEMMA RoomsAfterGlobal ==
    ASSUME TInv, TInv', RoomsFit, NEW c, NEW R, SetGlobal(c, R), DOMAIN c \subseteq Knobs
    PROVE  RoomsFit'
  <1>. DEFINE m == Changed(Only(Global, Knobs), c, R)
  <1>1. /\ Accepted(m) /\ UNCHANGED <<tuned, defaults>>
        /\ overtaken' = overtaken \cup {r \in Rooms : Overtaken(r, Filled(Global), Filled(m))}
    BY DEF SetGlobal
  <1>2. \A k \in Knobs : Filled(Global)'[k] = Filled(m)[k]
    BY SavedGlobal
  <1>. HIDE DEF m
  <1>3. ASSUME NEW r \in Rooms \ overtaken' PROVE Ordered(Mixed(tuned[r], Global)')
    <2>. DEFINE o == tuned[r]
                before == Filled(Global)
                after == Filled(m)
                was == Mixed(tuned[r], Global)
                now == Mixed(tuned[r], Global)'
    <2>1. Ordered(was) /\ Ordered(after)
      BY <1>1 DEF RoomsFit, Accepted
    <2>2. \A p \in Pairs : /\ p[1] \in DOMAIN o => ~(after[p[2]] < before[p[2]])
                           /\ p[2] \in DOMAIN o => ~(after[p[1]] > before[p[1]])
      BY <1>1 DEF Overtaken
    <2>3. \A k \in Knobs : /\ was[k] = IF k \in DOMAIN o THEN o[k] ELSE before[k]
                           /\ now[k] = IF k \in DOMAIN o THEN o[k] ELSE after[k]
                           /\ before[k] \in Int /\ after[k] \in Int
                           /\ k \in DOMAIN o => o[k] \in Int
      <3>1. \A k \in Knobs : was[k] = IF k \in DOMAIN o THEN o[k] ELSE before[k]
        BY MixedIs DEF TInv
      <3>2. \A k \in Knobs : now[k] = IF k \in DOMAIN o THEN o[k] ELSE after[k]
        BY <1>1, <1>2, MixedLater
      <3>3. \A k \in Knobs : before[k] \in Int /\ after[k] \in Int
        BY <1>2 DEF TInv, ChoiceKept, Apart
      <3>4. \A k \in Knobs : k \in DOMAIN o => o[k] \in Int
        BY DEF RoomsFit
      <3>. QED  BY <3>1, <3>2, <3>3, <3>4
    <2>4. \A p \in Pairs : p[1] \in Knobs /\ p[2] \in Knobs
      BY Fields
    <2>. HIDE DEF o, before, after, was, now
    <2>5. ASSUME NEW p \in Below PROVE now[p[1]] < now[p[2]]
      <3>1. was[p[1]] < was[p[2]] /\ after[p[1]] < after[p[2]] /\ p \in Pairs
        BY <2>1 DEF Ordered, Pairs
      <3>. QED  BY <2>2, <2>3, <2>4, <3>1
    <2>6. ASSUME NEW p \in NotAbove PROVE now[p[1]] <= now[p[2]]
      <3>1. was[p[1]] <= was[p[2]] /\ after[p[1]] <= after[p[2]] /\ p \in Pairs
        BY <2>1 DEF Ordered, Pairs
      <3>. QED  BY <2>2, <2>3, <2>4, <3>1
    <2>. QED  BY <2>5, <2>6 DEF Ordered, now
  <1>4. \A r \in Rooms : \A k \in DOMAIN tuned'[r] \cap Knobs : tuned'[r][k] \in Int
    BY <1>1 DEF RoomsFit
  <1>. QED  BY <1>3, <1>4 DEF RoomsFit, Ordered

\* A save of a room is checked over the building's tuning.
LEMMA RoomsAfterRoom ==
    ASSUME TInv, TInv', RoomsFit, NEW r \in Rooms, NEW c, NEW R, SetRoom(r, c, R),
           DOMAIN c \subseteq Knobs, \A k \in DOMAIN c : c[k] \in Int
    PROVE  RoomsFit'
  <1>. DEFINE override == Changed(OwnFields(r), c, R)
  <1>1. /\ version = 6 /\ Accepted(Over(override, Global))
        /\ tuned' = [tuned EXCEPT ![r] = override] /\ overtaken' = overtaken \ {r}
        /\ UNCHANGED <<seeded, stored, defaults>>
    BY DEF SetRoom
  <1>2. DOMAIN tuned = Rooms /\ Global' = Global /\ Known(Global) = Global
    BY <1>1, Running DEF TInv, RoomsKept, Global
  <1>3. \A k \in DOMAIN override : k \in Knobs /\ override[k] \in Int
    <2>1. \A k \in DOMAIN OwnFields(r) : k \in Knobs /\ OwnFields(r)[k] \in Int
      BY DEF OwnFields, Only, RoomsFit
    <2>2. \A k \in DOMAIN override :
            \/ k \in DOMAIN c /\ override[k] = c[k]
            \/ k \in DOMAIN OwnFields(r) /\ override[k] = OwnFields(r)[k]
      BY DEF Changed, Put, Over, Only
    <2>. QED  BY <2>1, <2>2
  <1>. HIDE DEF override
  <1>4. tuned'[r] = override /\ \A x \in Rooms \ {r} : tuned'[x] = tuned[x]
    BY <1>1, <1>2
  <1>5. \A x \in Rooms : \A k \in DOMAIN tuned'[x] \cap Knobs : tuned'[x][k] \in Int
    BY <1>3, <1>4 DEF RoomsFit
  <1>6. \A k \in Knobs : Filled(Global)'[k] = Filled(Global)[k]
    BY <1>1, <1>2 DEF Filled
  <1>7. ASSUME NEW x \in Rooms \ overtaken' PROVE Ordered(Mixed(tuned[x], Global)')
    <2>1. CASE x = r
      <3>1. Ordered(Filled(Over(override, Global)))
        BY <1>1 DEF Accepted
      <3>2. \A k \in Knobs : Mixed(tuned[x], Global)'[k]
                               = IF k \in DOMAIN override THEN override[k] ELSE Filled(Global)[k]
        BY <1>4, <1>6, <2>1, MixedLater
      <3>3. \A k \in Knobs : Filled(Over(override, Global))[k]
                               = IF k \in DOMAIN override THEN override[k] ELSE Filled(Global)[k]
        BY Fields DEF Filled, Over, TInv
      <3>. QED  BY <3>1, <3>2, <3>3, SameOrder
    <2>2. CASE x # r
      <3>1. Ordered(Mixed(tuned[x], Global))
        BY <1>1, <2>2 DEF RoomsFit
      <3>2. \A k \in Knobs : Mixed(tuned[x], Global)'[k] = Mixed(tuned[x], Global)[k]
        BY <1>4, <1>6, <2>2, MixedIs, MixedLater DEF TInv
      <3>. QED  BY <3>1, <3>2, SameOrder
    <2>. QED  BY <2>1, <2>2
  <1>. QED  BY <1>5, <1>7 DEF RoomsFit, Ordered

LEMMA RoomsNext ==
    ASSUME LaterDefaultsFit, TInv, TInv', RoomsFit, [TuningNext]_tuningVars
    PROVE  RoomsFit'
  <1>1. ASSUME Wider, UNCHANGED <<tuned, overtaken>> PROVE RoomsFit'
    BY <1>1, RoomsStay DEF Agree
  <1>2. ASSUME UNCHANGED <<seeded, stored, defaults>> PROVE Wider
    <2>1. Filled(Global)' = Filled(Global)
      BY <1>2 DEF Filled, Global
    <2>2. \A k \in Knobs : Filled(Global)[k] \in Int
      BY DEF TInv, ChoiceKept, Apart
    <2>. QED  BY <2>1, <2>2, Fields DEF Wider
  <1>3. CASE Migrate
    <2>1. UNCHANGED <<defaults, overtaken>>
      BY <1>3 DEF Migrate
    <2>2. CASE JoinFlags \/ DropShadow \/ DropModeEntity
      BY <1>1, <1>2, <2>1, <2>2 DEF JoinFlags, DropShadow, DropModeEntity
    <2>3. CASE StripRetired
      <3>1. /\ seeded' = Known(seeded) /\ stored' = Known(stored)
            /\ tuned' = [r \in Rooms |-> Known(tuned[r])]
        BY <2>3 DEF StripRetired
      <3>2. Agree(Global, Global')
        BY <3>1, Fields DEF Agree, Global, Over, Known, Only
      <3>3. \A k \in Knobs : Filled(Global)'[k] = Filled(Global)[k]
        BY <2>1, <3>2, Fields DEF Filled, Over, Agree, TInv
      <3>4. \A k \in Knobs : Filled(Global)[k] \in Int
        BY DEF TInv, ChoiceKept, Apart
      <3>5. Wider
        BY <3>3, <3>4, Fields DEF Wider
      <3>6. \A r \in Rooms : Agree(tuned[r], tuned'[r])
        BY <3>1, KnownAgrees
      <3>. QED  BY <2>1, <3>5, <3>6, RoomsStay
    <2>4. CASE MakeSparse
      <3>1. /\ version = 5 /\ stored' = Migrated(Global) /\ seeded' = None /\ UNCHANGED tuned
        BY <2>4 DEF MakeSparse, Migrated
      <3>2. Wider
        BY <2>1, <3>1, SparseWider DEF TInv
      <3>. QED  BY <1>1, <2>1, <3>1, <3>2
    <2>. QED  BY <1>3, <2>2, <2>3, <2>4 DEF Migrate
  <1>4. DOMAIN None \subseteq Knobs /\ \A k \in DOMAIN None : None[k] \in Int
    BY NoneIs
  <1>5. ASSUME NEW r \in Rooms, SetState(r) PROVE RoomsFit'
    BY <1>1, <1>2, <1>5 DEF SetState
  <1>6. CASE Edit
    BY <1>4, <1>5, <1>6, ChangesTyped, RoomsAfterGlobal, RoomsAfterRoom DEF Edit
  <1>7. CASE Retune
    BY <1>1, <1>7, RetuneWider DEF Retune, config, choices
  <1>8. CASE UNCHANGED tuningVars
    BY <1>1, <1>2, <1>8 DEF tuningVars, config, choices
  <1>. QED  BY <1>3, <1>6, <1>7, <1>8 DEF TuningNext

\* The panel accepts what is stored, for the building and for every room a
\* save of the building has not moved towards since the room's own last save
\* (ws_set_tuning, ControllerConfig).
THEOREM StoredStaysAccepted == ASSUME LaterDefaultsFit PROVE TuningSpec => []StoredIsAccepted
  <1>1. TInv /\ RoomsFit => StoredIsAccepted
    <2>. SUFFICES ASSUME TInv, RoomsFit, version = 6
                  PROVE  /\ Accepted(Global)
                         /\ \A r \in Rooms \ overtaken : Accepted(Over(OwnFields(r), Global))
      BY DEF StoredIsAccepted
    <2>1. Accepted(Global) /\ Known(Global) = Global
      BY Running
    <2>2. ASSUME NEW r \in Rooms \ overtaken PROVE Accepted(Over(OwnFields(r), Global))
      <3>1. /\ DOMAIN tuned[r] \subseteq (Knobs \ GlobalOnly) \cup Retired
            /\ DOMAIN tuned[r] \cap Retired = {}
        BY DEF TInv, RoomsKept
      <3>2. OwnFields(r) = Known(tuned[r])
        BY <3>1, Fields DEF OwnFields, Known, Only
      <3>3. Ordered(Filled(Over(OwnFields(r), Global)))
        BY <2>1, <3>2 DEF RoomsFit, Mixed
      <3>4. DOMAIN Over(OwnFields(r), Global) \subseteq DOMAIN defaults
        <4>1. DOMAIN OwnFields(r) \subseteq Knobs /\ Knobs \subseteq DOMAIN defaults
          BY Fields DEF OwnFields, Only, TInv
        <4>2. DOMAIN Global \subseteq DOMAIN defaults
          BY <2>1 DEF Accepted
        <4>. QED  BY <4>1, <4>2 DEF Over
      <3>. QED  BY <3>3, <3>4 DEF Accepted
    <2>. QED  BY <2>1, <2>2
  <1>2. TuningInit => TInv /\ RoomsFit
    BY TuningInitInv, RoomsInit
  <1>3. TInv /\ RoomsFit /\ [TuningNext]_tuningVars => (TInv /\ RoomsFit)'
    BY TuningNextInv, RoomsNext
  <1>. QED  BY <1>1, <1>2, <1>3, PTL DEF TuningSpec

\* What the type invariant needs: the defaults keep their fields, and the
\* flags of version 1 are gone after it.
TuningTyped ==
    /\ TuningTypeOK
    /\ version # 1 => away = {} /\ wrote = {} /\ ~killed
    /\ DOMAIN defaults = Knobs \cup Hidden
    /\ DOMAIN tuned = Rooms

LEMMA TypedFromLegacy ==
    ASSUME defaults = Default, NEW v \in 1 .. 5, Legacy(v)
    PROVE  TuningTyped
  <1>1. version = v /\ tuned \in [Rooms -> Overrides] /\ stored \in Snapshots \cup {None}
    BY DEF Legacy
  <1>2. \A r \in Rooms : DOMAIN tuned[r] \subseteq (Knobs \ GlobalOnly) \cup Retired
    BY <1>1, OldEntryAssumption
  <1>3. DOMAIN defaults = Knobs \cup Hidden
    BY TuningAssumption
  <1>4. DOMAIN stored \subseteq DOMAIN defaults \cup Retired
    BY <1>1, <1>3, NoneIs, OldEntryAssumption
  <1>5. v # 1 => away = {} /\ wrote = {} /\ ~killed
    BY DEF Legacy
  <1>. QED  BY <1>1, <1>2, <1>3, <1>4, <1>5 DEF TuningTyped, TuningTypeOK

LEMMA TypedMigrate == ASSUME TuningTyped, Migrate PROVE TuningTyped'
  <1>. USE DEF TuningTyped, TuningTypeOK
  <1>1. UNCHANGED defaults
    BY DEF Migrate
  <1>2. ASSUME NEW f, NEW S, NEW x \in DOMAIN Only(f, S) PROVE x \in DOMAIN f
    BY <1>2, OnlyIs
  <1>3. CASE JoinFlags
    BY <1>1, <1>3 DEF JoinFlags
  <1>4. CASE DropShadow \/ DropModeEntity
    BY <1>1, <1>4 DEF DropShadow, DropModeEntity
  <1>5. CASE StripRetired
    <2>1. DOMAIN stored' \subseteq DOMAIN stored
      BY <1>2, <1>5 DEF StripRetired, Known
    <2>2. DOMAIN tuned' = Rooms /\ \A r \in Rooms : tuned'[r] = Known(tuned[r])
      BY <1>5 DEF StripRetired
    <2>3. \A r \in Rooms : DOMAIN tuned'[r] \subseteq DOMAIN tuned[r]
      BY <1>2, <2>2 DEF Known
    <2>4. version = 4 /\ version' = 5 /\ UNCHANGED <<away, wrote, killed>>
      BY <1>5 DEF StripRetired
    <2>. QED  BY <1>1, <2>1, <2>2, <2>3, <2>4
  <1>6. CASE MakeSparse
    <2>. DEFINE kept == Sparse(Global, TRUE)
                curve == IF "ff" \in DOMAIN kept /\ "curve" \notin DOMAIN kept
                         THEN [k \in {"curve"} |-> kept.ff] ELSE None
    <2>1. /\ stored' = Put(kept, curve) /\ seeded' = None /\ version = 5 /\ version' = 6
          /\ UNCHANGED <<away, wrote, killed, tuned>>
      BY <1>6 DEF MakeSparse
    <2>2. DOMAIN kept \subseteq Knobs
      BY DEF Sparse, Only
    <2>. HIDE DEF kept
    <2>3. DOMAIN curve \subseteq Knobs
      BY NoneIs, Fields
    <2>. HIDE DEF curve
    <2>4. DOMAIN stored' \subseteq Knobs
      BY <2>1, <2>2, <2>3 DEF Put, Over
    <2>. QED  BY <1>1, <2>1, <2>4
  <1>. QED  BY <1>3, <1>4, <1>5, <1>6 DEF Migrate

LEMMA TypedSetGlobal ==
    ASSUME TuningTyped, NEW c, NEW R, SetGlobal(c, R)
    PROVE  TuningTyped'
  <1>1. PICK d : stored' = Sparse(d, FALSE)
    BY DEF SetGlobal
  <1>2. DOMAIN stored' \subseteq Knobs
    BY <1>1 DEF Sparse, Only
  <1>. QED  BY <1>2 DEF SetGlobal, TuningTyped, TuningTypeOK

LEMMA TypedSetRoom ==
    ASSUME TuningTyped, NEW r \in Rooms, NEW c, NEW R, SetRoom(r, c, R),
           DOMAIN c \subseteq Knobs
    PROVE  TuningTyped'
  <1>. DEFINE override == Changed(OwnFields(r), c, R)
  <1>1. /\ tuned' = [tuned EXCEPT ![r] = override] /\ DOMAIN c \cap GlobalOnly = {}
        /\ UNCHANGED <<version, away, wrote, killed, seeded, stored, defaults>>
    BY DEF SetRoom
  <1>2. DOMAIN override \subseteq Knobs \ GlobalOnly
    <2>. DEFINE base == OwnFields(r)
                left == Only(base, DOMAIN base \ R)
    <2>1. DOMAIN left \subseteq DOMAIN base /\ DOMAIN base \subseteq Knobs \ GlobalOnly
      BY DEF OwnFields, Only
    <2>2. override = Over(c, left)
      BY DEF Changed, Put
    <2>3. DOMAIN Over(c, left) = DOMAIN c \cup DOMAIN left
      BY DEF Over
    <2>. HIDE DEF override, left, base
    <2>. QED  BY <1>1, <2>1, <2>2, <2>3
  <1>. HIDE DEF override
  <1>. QED  BY <1>1, <1>2 DEF TuningTyped, TuningTypeOK

\* Every variable keeps its type, whatever earlier releases stored and later
\* ones call a default: nothing but fields of the library, retired ones among
\* them, is ever stored, and no room overrides what is the building's
\* (async_migrate_entry, ws_set_tuning).
THEOREM TuningTypesHold == TuningSpec => []TuningTypeOK
  <1>1. TuningInit => TuningTyped
    <2>1. ASSUME Fresh, defaults = Default PROVE TuningTyped
      BY <2>1, NoneIs, TuningAssumption DEF Fresh, TuningTyped, TuningTypeOK
    <2>. QED  BY <2>1, TypedFromLegacy DEF TuningInit
  <1>2. TuningTyped /\ [TuningNext]_tuningVars => TuningTyped'
    <2>. SUFFICES ASSUME TuningTyped, [TuningNext]_tuningVars PROVE TuningTyped'
      OBVIOUS
    <2>1. CASE Migrate
      BY <2>1, TypedMigrate
    <2>2. \A c \in Changes : DOMAIN c \subseteq Knobs
      BY ChangesTyped
    <2>3. ASSUME NEW r \in Rooms, SetState(r) PROVE TuningTyped'
      BY <2>3 DEF SetState, TuningTyped, TuningTypeOK
    <2>4. CASE Edit
      BY <2>2, <2>3, <2>4, NoneIs, TypedSetGlobal, TypedSetRoom DEF Edit
    <2>5. CASE Retune
      BY <2>5, TuningAssumption DEF Retune, config, TuningTyped, TuningTypeOK
    <2>6. CASE UNCHANGED tuningVars
      BY <2>6 DEF tuningVars, config, TuningTyped, TuningTypeOK
    <2>. QED  BY <2>1, <2>4, <2>5, <2>6 DEF TuningNext
  <1>3. TuningTyped => TuningTypeOK
    BY DEF TuningTyped
  <1>. QED  BY <1>1, <1>2, <1>3, PTL DEF TuningSpec

=============================================================================
