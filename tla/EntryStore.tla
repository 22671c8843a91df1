----------------------------- MODULE EntryStore -----------------------------
(***************************************************************************)
(* What survives a reload: the config entry (rooms in entry.data, states   *)
(* and tuning in entry.options), the coordinator's copies of both, the     *)
(* private setpoint Store with its delayed save, and the flows, panel and  *)
(* entities that write them (__init__.py, coordinator.py, config_flow.py,  *)
(* websocket.py).  An options write runs the update listener, which asks   *)
(* the coordinator whether it has to be rebuilt.  A rebuild unloads first: *)
(* setpoints flushed, live rooms parked, platforms unloaded.               *)
(*                                                                         *)
(* A wiring stands for a room's actuators, an offset for its setpoint.     *)
(* "tuning" is {} while the key is absent, else the set of its one map, a  *)
(* map being the set of the rooms with an override; it stands for the      *)
(* global sections too, which take the same path to the listener.          *)
(* Farewells land at once here; FastSourceDelivery has their delays.       *)
(***************************************************************************)
EXTENDS Naturals, Sequences, FiniteSets

CONSTANTS Names,      \* room names
          Wirings,    \* the actuator wirings each room may be mapped to
          Offsets,    \* setpoint offsets
          Seed,       \* the offset stored with a room when it is added
          Adjusted,   \* bound: the rooms that are remapped, removed or tuned
          Followed,   \* bound: the wirings whose commands are followed
          Tabs        \* browser tabs that may hold an options flow

ASSUME EntryAssumption == Seed \in Offsets

VARIABLES data,       \* entry.data["rooms"]
          options,    \* entry.options
          mem,        \* the coordinator's copies
          phase,      \* of the entry's life
          due,        \* a reload requested by the update listener
          missed,     \* written while no listener was registered
          disk,       \* offsets in the setpoint Store
          timer,      \* its delayed save is pending
          form,       \* what each tab's options flow remembers
          want,       \* the offset each room was last given
          driven,     \* wirings (followed) commanded and not parked since
          stranded    \* those a restart left, until a coordinator takes them over

entry == <<data, options>>
vars == <<data, options, mem, phase, due, missed, disk, timer, form, want,
          driven, stranded>>

Update(f, key, value) == [x \in DOMAIN f \cup {key} |-> IF x = key THEN value ELSE f[x]]
Drop(f, key) == [x \in DOMAIN f \ {key} |-> f[x]]
Get(f, key, default) == IF key \in DOMAIN f THEN f[key] ELSE default

NamesOf(rooms) == {rooms[i].name : i \in DOMAIN rooms}
StateOf(o, name) == Get(o.states, name, "off")
Signature(o) == o.tuning
Live(m) == {i \in DOMAIN m.rooms : m.states[m.rooms[i].name] = "live"}
LiveWirings(m) == {m.rooms[i].wiring : i \in Live(m)}

Idle == [kind |-> "idle"]
NoCoordinator == [rooms |-> <<>>, states |-> <<>>, offset |-> <<>>,
                  sig |-> {}]

Coordinator(d, o) ==
  [rooms |-> d,
   states |-> [n \in NamesOf(d) |-> StateOf(o, n)],
   offset |-> [n \in NamesOf(d) |-> Seed],
   sig |-> Signature(o)]

-----------------------------------------------------------------------------
(* Writing the entry.  async_update_entry runs the listener when something *)
(* changed; the listener lives from the end of set-up to the unload.       *)

Listening == phase \in {"ready", "flushed", "parked"}

(* Mutants: a check that forgets the states, one that reloads on any change. *)
RequiresReloadOfTuning(o, m) == Signature(o) # m.sig

RequiresReload(o, m) ==
  \/ Signature(o) # m.sig
  \/ \E n \in NamesOf(m.rooms) : StateOf(o, n) # m.states[n]

Save(d, o, m) ==
  /\ data' = d
  /\ options' = o
  /\ mem' = m
  /\ due' = (due \/ (Listening /\ <<d, o>> # entry /\ RequiresReload(o, m)))
  /\ missed' = (missed \/ (phase = "starting" /\ <<d, o>> # entry))

-----------------------------------------------------------------------------
(* Entities and panel.  The panel needs a loaded entry, an entity lives    *)
(* until its platform is unloaded.                                         *)

SetOffset ==
  /\ phase \in {"ready", "flushed", "parked"}
  /\ \E n \in Adjusted \cap DOMAIN mem.offset, o \in Offsets :
       /\ mem' = [mem EXCEPT !.offset[n] = o]
       /\ want' = Update(want, n, o)
  /\ timer' = TRUE
  /\ UNCHANGED <<data, options, phase, due, missed, disk, form, driven, stranded>>

DelayedSave ==
  /\ timer
  /\ timer' = FALSE
  /\ disk' = mem.offset
  /\ UNCHANGED <<data, options, mem, phase, due, missed, form, want, driven, stranded>>

Farewelled(m, n, s) ==
  IF m.states[n] = "live" /\ s = "off"
  THEN {m.rooms[i].wiring : i \in {j \in DOMAIN m.rooms : m.rooms[j].name = n}}
  ELSE {}

SetRoomState ==
  /\ phase \in {"ready", "flushed", "parked"}
  /\ \E n \in NamesOf(mem.rooms), s \in {"off", "live"} :
       /\ driven' = driven \ Farewelled(mem, n, s)
       /\ stranded' = stranded \ Farewelled(mem, n, s)
       /\ Save(data, [options EXCEPT !.states = Update(@, n, s)],
               [mem EXCEPT !.states[n] = s])
  /\ UNCHANGED <<phase, disk, timer, form, want>>

(* ws_set_tuning, room scope: an override is added, or cleared and pruned. *)
Overridden == UNION options.tuning

SetRoomTuning ==
  /\ phase = "ready"
  /\ \E n \in Adjusted \cap NamesOf(mem.rooms) : \E map \in {Overridden \cup {n}, Overridden \ {n}} :
       Save(data, [options EXCEPT !.tuning = {map}], mem)
  /\ UNCHANGED <<phase, disk, timer, form, want, driven, stranded>>

(* A control cycle commands the rooms that are live; the first refresh is one. *)
Cycle ==
  /\ phase \in {"ready", "starting"}
  /\ driven' = driven \cup (LiveWirings(mem) \cap Followed)
  /\ stranded' = stranded \ LiveWirings(mem)
  /\ UNCHANGED <<data, options, mem, phase, due, missed, disk, timer, form, want>>

-----------------------------------------------------------------------------
(* The options flow.  A leaf of several steps keeps in the tab what it     *)
(* read at the first one.                                                  *)

Keep(t, f) == form' = [form EXCEPT ![t] = f]

OpenSettings(t) ==
  /\ form[t] = Idle
  /\ Keep(t, [kind |-> "settings", shown |-> Len(data)])
  /\ UNCHANGED <<data, options, mem, phase, due, missed, disk, timer, want, driven, stranded>>

(* The whole state map is rewritten, by position; a room that was not shown *)
(* is off.                                                                  *)
SubmitSettings(t) ==
  /\ form[t].kind = "settings"
  /\ \E chosen \in [1..form[t].shown -> {"off", "live"}] :
       LET stateAt(i) == Get(chosen, i, "off")
           states == [n \in NamesOf(data) |->
                        stateAt(CHOOSE i \in DOMAIN data : data[i].name = n)]
       IN Save(data, [options EXCEPT !.states = states], mem)
  /\ Keep(t, Idle)
  /\ UNCHANGED <<phase, disk, timer, want, driven, stranded>>

PickAdd(t) ==
  /\ form[t] = Idle
  /\ \E n \in Names \ NamesOf(data) : Keep(t, [kind |-> "add", name |-> n])
  /\ UNCHANGED <<data, options, mem, phase, due, missed, disk, timer, want, driven, stranded>>

SubmitAdd(t) ==
  /\ form[t].kind = "add"
  /\ Len(data) < Cardinality(Names)
  /\ \E w \in Wirings[form[t].name] :
       Save(Append(data, [name |-> form[t].name, wiring |-> w]), options, mem)
  /\ want' = Update(want, form[t].name, Seed)
  /\ Keep(t, Idle)
  /\ UNCHANGED <<phase, disk, timer, driven, stranded>>

PickEdit(t) ==
  /\ form[t] = Idle
  /\ \E i \in DOMAIN data :
       /\ data[i].name \in Adjusted
       /\ Keep(t, [kind |-> "edit", index |-> i, name |-> data[i].name])
  /\ UNCHANGED <<data, options, mem, phase, due, missed, disk, timer, want, driven, stranded>>

SubmitEdit(t) ==
  /\ form[t].kind = "edit"
  /\ form[t].index \in DOMAIN data
  /\ \E w \in Wirings[form[t].name] :
       Save([data EXCEPT ![form[t].index] = [name |-> form[t].name, wiring |-> w]],
            options, mem)
  /\ Keep(t, Idle)
  /\ UNCHANGED <<phase, disk, timer, want, driven, stranded>>

(* Removal prunes the Store through the coordinator, if there is one, and  *)
(* writes the entry after that await, with the room list read before it.   *)
(* Bounds: no removal while the entry is starting, and its await, one file *)
(* write, ends before the entry is rebuilt.                                *)
Pruned(m, n) == [m EXCEPT !.offset = Drop(@, n)]

RemoveBegin(t) ==
  /\ form[t] = Idle
  /\ phase # "starting"
  /\ Len(data) > 1
  /\ \E n \in Adjusted \cap NamesOf(data) :
       /\ mem' = Pruned(mem, n)
       /\ disk' = IF phase = "down" THEN Drop(disk, n) ELSE mem'.offset
       /\ want' = Drop(want, n)
       /\ Keep(t, [kind |-> "remove", name |-> n, rooms |-> data])
  /\ timer' = FALSE
  /\ UNCHANGED <<data, options, phase, due, missed, driven, stranded>>

(* The list without the first room of that name. *)
Without(rooms, name) ==
  LET index == CHOOSE i \in DOMAIN rooms :
                 rooms[i].name = name /\ \A j \in 1..(i - 1) : rooms[j].name # name
  IN SubSeq(rooms, 1, index - 1) \o SubSeq(rooms, index + 1, Len(rooms))

RemoveEnd(t) ==
  /\ form[t].kind = "remove"
  /\ LET n == form[t].name IN
       Save(Without(form[t].rooms, n),
            [options EXCEPT !.states = Drop(@, n), !.tuning = {Overridden \ {n}}], mem)
  /\ Keep(t, Idle)
  /\ UNCHANGED <<phase, disk, timer, want, driven, stranded>>

-----------------------------------------------------------------------------
(* The reload: unload (flush, park, platforms and second flush), rebuild.  *)

Flush ==
  /\ phase = "ready"
  /\ due
  /\ due' = FALSE
  /\ phase' = "flushed"
  /\ disk' = mem.offset
  /\ timer' = FALSE
  /\ UNCHANGED <<data, options, mem, missed, form, want, driven, stranded>>

(* Mutant: the farewell follows the entry instead of the coordinator. *)
ParkFromEntry ==
  /\ phase = "flushed"
  /\ phase' = "parked"
  /\ driven' = driven \ {data[i].wiring :
                          i \in {j \in DOMAIN data : StateOf(options, data[j].name) = "live"}}
  /\ UNCHANGED <<data, options, mem, due, missed, disk, timer, form, want, stranded>>

Park ==
  /\ phase = "flushed"
  /\ phase' = "parked"
  /\ driven' = driven \ LiveWirings(mem)
  /\ stranded' = stranded \ LiveWirings(mem)
  /\ UNCHANGED <<data, options, mem, due, missed, disk, timer, form, want>>

(* Mutant: the coordinator's own shutdown callback does not flush again. *)
UnloadUnflushed ==
  /\ phase = "parked"
  /\ phase' = "down"
  /\ timer' = FALSE
  /\ mem' = NoCoordinator
  /\ UNCHANGED <<data, options, due, missed, disk, form, want, driven, stranded>>

UnloadPlatforms ==
  /\ phase = "parked"
  /\ phase' = "down"
  /\ disk' = mem.offset
  /\ timer' = FALSE
  /\ mem' = NoCoordinator
  /\ UNCHANGED <<data, options, due, missed, form, want, driven, stranded>>

Loaded(m) == [m EXCEPT !.offset = [n \in NamesOf(m.rooms) |-> Get(disk, n, @[n])]]

Build ==
  /\ phase = "down"
  /\ \A t \in Tabs : form[t].kind # "remove"
  /\ phase' = "starting"
  /\ mem' = Loaded(Coordinator(data, options))
  /\ missed' = FALSE
  /\ stranded' = stranded \ LiveWirings(mem')
  /\ UNCHANGED <<data, options, due, disk, timer, form, want, driven>>

Listen ==
  /\ phase = "starting"
  /\ phase' = "ready"
  /\ UNCHANGED <<data, options, mem, due, missed, disk, timer, form, want, driven, stranded>>

(* A restart of Home Assistant or a power loss: memory and the pending     *)
(* save go, the flows with them.  Nothing is parked: the actuators stay as *)
(* they were commanded.                                                    *)
Crash ==
  /\ phase' = "down"
  /\ mem' = NoCoordinator
  /\ due' = FALSE
  /\ missed' = FALSE
  /\ timer' = FALSE
  /\ form' = [t \in Tabs |-> Idle]
  /\ want' = IF timer THEN [n \in DOMAIN want |-> Get(disk, n, Seed)] ELSE want
  /\ stranded' = driven
  /\ UNCHANGED <<data, options, disk, driven>>

Flow(t) ==
  \/ OpenSettings(t) \/ SubmitSettings(t)
  \/ PickAdd(t) \/ SubmitAdd(t)
  \/ PickEdit(t) \/ SubmitEdit(t)
  \/ RemoveBegin(t) \/ RemoveEnd(t)

Reload == Flush \/ Park \/ UnloadPlatforms \/ Build \/ Listen

Next ==
  \/ SetOffset \/ DelayedSave \/ SetRoomState \/ SetRoomTuning
  \/ Cycle \/ Reload \/ Crash
  \/ \E t \in Tabs : Flow(t)

(* The entry as the set-up wizard leaves it: rooms, all of them off. *)
Init ==
  /\ \E n \in Names : \E w \in Wirings[n] : data = <<[name |-> n, wiring |-> w]>>
  /\ options = [states |-> <<>>, tuning |-> {}]
  /\ mem = NoCoordinator
  /\ phase = "down"
  /\ due = FALSE /\ missed = FALSE /\ timer = FALSE
  /\ disk = <<>>
  /\ form = [t \in Tabs |-> Idle]
  /\ want = [n \in NamesOf(data) |-> Seed]
  /\ driven = {} /\ stranded = {}

Spec == Init /\ [][Next]_vars

-----------------------------------------------------------------------------
TypeOK ==
  /\ Len(data) > 0
  /\ \A i \in DOMAIN data : data[i].wiring \in Wirings[data[i].name]
  /\ DOMAIN options.states \subseteq Names
  /\ options.tuning \subseteq SUBSET Names
  /\ phase \in {"ready", "flushed", "parked", "down", "starting"}
  /\ DOMAIN mem.states = NamesOf(mem.rooms)
  /\ due \in BOOLEAN /\ missed \in BOOLEAN /\ timer \in BOOLEAN
  /\ stranded \subseteq driven
  /\ driven \subseteq UNION {Wirings[n] : n \in Names}

(* A running coordinator with no reload on its way works with the states   *)
(* and the tuning of the options, whoever wrote them, except those written *)
(* in the instant between its construction and its listener's registration *)
(* (the listener and options_require_reload).                              *)
StatesAdopted ==
  phase = "ready" /\ ~due /\ ~missed =>
    /\ mem.sig = Signature(options)
    /\ \A n \in NamesOf(mem.rooms) : mem.states[n] = StateOf(options, n)

(* A running coordinator regulates to the offset each of its rooms was     *)
(* last given, over every reload, removal and re-adding of a room; a crash *)
(* costs at most the change of the last second (Store, async_shutdown,     *)
(* async_prune_room_setpoint).                                             *)
SetpointSurvives ==
  phase = "ready" =>
    \A n \in DOMAIN mem.offset \cap DOMAIN want : mem.offset[n] = want[n]

(* An actuator under command belongs to a live room of the coordinator in  *)
(* charge: through every reload, whatever was removed, remapped or         *)
(* switched off in the entry has been parked by the coordinator that drove *)
(* it (async_farewell_all, the parked flag, set_room_state).  A restart    *)
(* parks nothing: it excepts the actuators under command when it came, as  *)
(* long as no coordinator takes them over.                                 *)
ParkedOnLeave == driven \subseteq LiveWirings(mem) \cup stranded

=============================================================================
