---------------------------- MODULE EntryTuning -----------------------------
(***************************************************************************)
(* The controller tuning and the room states kept in the config entry, and *)
(* the migrations that bring an old entry to version 6 (__init__.py,       *)
(* tuning.py, core/config.py, websocket.py, coordinator.py).               *)
(*                                                                         *)
(* A tuning is a sparse function from fields to values: the library        *)
(* defaults fill the rest.  The global one is stored in entry.options and, *)
(* before version 6, also in entry.data; a room's lies over it.  Fields    *)
(* are checked against each other: boost must exceed deadband, and the     *)
(* heating water's base lies between its clamps.  ff is the feedforward's  *)
(* neutral point, curve the heating curve's.                               *)
(*                                                                         *)
(* Each migration step is written on its own.  A crash between two repeats *)
(* the later ones from what was written: a state the chain went through.   *)
(***************************************************************************)
EXTENDS Integers

CONSTANTS Rooms,
          Knobs,        \* fields the user can set
          GlobalOnly,   \* those no room may override
          Hidden,       \* fields no surface shows
          Retired,      \* fields of the removed flow watchdog
          Values,       \* of each knob: bound, a few of its range
          Below,        \* pairs of fields: the first is less than the second
          NotAbove,     \* pairs of fields: the first is no more than the second
          Default,      \* library defaults, of knobs and hidden fields
          Superseded,   \* earlier defaults of each knob
          Retuned,      \* the defaults of a later release
          Snapshots,    \* global tunings an old entry may hold
          Overrides     \* room tunings an old entry may hold

(* A map is a function; Only keeps some of its fields. *)
Only(f, S) == [k \in DOMAIN f \cap S |-> f[k]]
(* A map laid over another: where both have a field, the upper one counts. *)
Over(top, base) ==
  [k \in DOMAIN top \cup DOMAIN base |-> IF k \in DOMAIN top THEN top[k] ELSE base[k]]
Put(f, changes) == Over(changes, f)

Pairs == Below \cup NotAbove
Ordered(full) ==
  /\ \A p \in Below : full[p[1]] < full[p[2]]
  /\ \A p \in NotAbove : full[p[1]] <= full[p[2]]

ASSUME TuningAssumption ==
  /\ {"ff", "curve"} \subseteq Knobs
  /\ GlobalOnly \subseteq Knobs
  /\ DOMAIN Default = Knobs \cup Hidden /\ DOMAIN Retuned = Knobs \cup Hidden
  /\ Knobs \cap Retired = {} /\ Hidden \cap Retired = {}
  /\ Pairs \subseteq (Knobs \ {"curve"}) \X (Knobs \ {"curve"})
  /\ \A k \in Knobs : /\ Values[k] \subseteq Int /\ Superseded[k] \subseteq Int
                      /\ Default[k] \in Int /\ Retuned[k] \in Int
  /\ Ordered(Default)

(* What earlier releases stored: a snapshot of every knob they had, checked *)
(* before it was saved, and no heating curve of its own.                    *)
ASSUME OldEntryAssumption ==
  /\ \A s \in Snapshots : /\ DOMAIN s \subseteq Knobs \cup Hidden \cup Retired
                          /\ "curve" \notin DOMAIN s
                          /\ \A k \in DOMAIN s \cap Knobs : s[k] \in Int
                          /\ Ordered(Over(s, Default))
  /\ \A s, t \in Snapshots : DOMAIN s \cap Knobs = DOMAIN t \cap Knobs
  /\ \A o \in Overrides : /\ DOMAIN o \subseteq (Knobs \ GlobalOnly) \cup Retired
                          /\ \A k \in DOMAIN o \cap Knobs : o[k] \in Int

VARIABLES version,   \* of the entry's schema
          away,      \* version 1: rooms whose "participates" is off
          wrote,     \* version 1: rooms with live control
          killed,    \* version 1: the kill switch forbids every command
          states,    \* room states of later versions
          seeded,    \* entry.data's tuning
          stored,    \* entry.options' tuning
          tuned,     \* each room's
          defaults,  \* of the installed release
          choice,    \* what the user chose for the whole building
          own,       \* and for each room
          meant,     \* the rooms the user lets it drive
          woken,     \* those only the kill switch held back, till chosen anew
          overtaken  \* those a save for the building moved towards, likewise

config == <<version, away, wrote, killed, states, seeded, stored, tuned>>
choices == <<choice, own, meant, woken, overtaken>>
tuningVars == <<config, defaults, choices>>

None == <<>>

-----------------------------------------------------------------------------
(* ControllerConfig(...): an unknown field or one on the wrong side of     *)
(* another is refused.                                                     *)

Filled(d) == Over(d, defaults)
Accepted(d) ==
  /\ DOMAIN d \subseteq DOMAIN defaults
  /\ Ordered(Filled(d))

Global == Over(stored, seeded)

(* Mutant: a value equal to the default is stored too. *)
SparseDense(d, dropSuperseded) == Only(d, Knobs)

(* What is worth storing: user-facing values that differ from the default. *)
Sparse(d, dropSuperseded) ==
  Only(d, {k \in Knobs \cap DOMAIN d : /\ d[k] # defaults[k]
                                       /\ ~(dropSuperseded /\ d[k] \in Superseded[k])})

(* What the coordinator runs with: an invalid global tuning gives way to   *)
(* the defaults, an invalid room tuning to the global one.                 *)
Known(d) == Only(d, DOMAIN d \ Retired)
GlobalRunning == IF Accepted(Known(Global)) THEN Filled(Known(Global)) ELSE defaults

RoomRunning(r) ==
  LET merged == Over(Known(tuned[r]), Known(Global))
  IN IF Known(tuned[r]) = None \/ ~Accepted(merged) THEN GlobalRunning ELSE Filled(merged)

-----------------------------------------------------------------------------
(* async_migrate_entry, one step per schema version.                       *)

JoinedState(r) ==
  CASE r \in away -> "off"
    [] r \in wrote \ away -> "live"
    [] OTHER -> "shadow"

(* Two participation flags become one state per room.  The kill switch is  *)
(* dropped unread: the rooms it held back are driven from here on.         *)
JoinFlags ==
  /\ version = 1
  /\ version' = 2
  /\ states' = [r \in Rooms |-> JoinedState(r)]
  /\ away' = {} /\ wrote' = {} /\ killed' = FALSE
  /\ woken' = IF killed THEN wrote \ away ELSE {}
  /\ UNCHANGED <<seeded, stored, tuned>>

(* Mutant: a room in shadow goes live. *)
DropShadowLive ==
  /\ version = 2
  /\ version' = 3
  /\ states' = [r \in DOMAIN states |-> IF states[r] = "off" THEN "off" ELSE "live"]
  /\ UNCHANGED <<away, wrote, killed, seeded, stored, tuned, woken>>

DropShadow ==
  /\ version = 2
  /\ version' = 3
  /\ states' = [r \in DOMAIN states |-> IF states[r] = "live" THEN "live" ELSE "off"]
  /\ UNCHANGED <<away, wrote, killed, seeded, stored, tuned, woken>>

(* The external mode entity goes: it is not modelled. *)
DropModeEntity ==
  /\ version = 3
  /\ version' = 4
  /\ UNCHANGED <<away, wrote, killed, states, seeded, stored, tuned, woken>>

StripRetired ==
  /\ version = 4
  /\ version' = 5
  /\ seeded' = Known(seeded) /\ stored' = Known(stored)
  /\ tuned' = [r \in Rooms |-> Known(tuned[r])]
  /\ UNCHANGED <<away, wrote, killed, states, woken>>

(* Snapshots become overrides; the heating curve keeps its neutral point.  *)
MakeSparse ==
  LET kept == Sparse(Global, TRUE)
      curve == IF "ff" \in DOMAIN kept /\ "curve" \notin DOMAIN kept
               THEN [k \in {"curve"} |-> kept.ff] ELSE None
  IN /\ version = 5
     /\ version' = 6
     /\ stored' = Put(kept, curve)
     /\ seeded' = None
     /\ UNCHANGED <<away, wrote, killed, states, tuned, woken>>

Migrate ==
  /\ JoinFlags \/ DropShadow \/ DropModeEntity \/ StripRetired \/ MakeSparse
  /\ UNCHANGED <<defaults, choice, own, meant, overtaken>>

-----------------------------------------------------------------------------
(* ws_set_tuning.  A change is a set of fields with new values and a set   *)
(* of fields to reset.                                                     *)

Changed(d, changes, resets) == Put(Only(d, DOMAIN d \ resets), changes)

(* The user's choice, apart from where it is stored: picking the default   *)
(* is no choice.                                                           *)
Chosen(d) == Only(d, {k \in DOMAIN d : d[k] # defaults[k]})

(* The building's tuning moved a field towards the one a room holds against *)
(* it; that the room's own stays the right side of it is not checked.       *)
Overtaken(r, before, after) ==
  \E p \in Pairs :
    \/ /\ p[1] \in DOMAIN tuned[r]
       /\ after[p[2]] < before[p[2]]
    \/ /\ p[2] \in DOMAIN tuned[r]
       /\ after[p[1]] > before[p[1]]

SetGlobal(changes, resets) ==
  LET merged == Changed(Only(Global, Knobs), changes, resets)
  IN /\ version = 6
     /\ Accepted(merged)
     /\ stored' = Sparse(Filled(merged), FALSE)
     /\ seeded' = None
     /\ choice' = Chosen(Changed(choice, changes, resets))
     /\ overtaken' = overtaken \cup {r \in Rooms : Overtaken(r, Filled(Global), Filled(merged))}
     /\ UNCHANGED <<version, away, wrote, killed, states, tuned, defaults, own, meant, woken>>

(* What a save of a room starts from: its own fields over the building's. *)
OwnFields(r) == Only(tuned[r], Knobs \ GlobalOnly)

(* Mutant: a room's overrides are checked by themselves. *)
SetRoomAlone(r, changes, resets) ==
  LET override == Changed(OwnFields(r), changes, resets)
  IN /\ version = 6
     /\ DOMAIN changes \cap GlobalOnly = {}
     /\ Accepted(override)
     /\ tuned' = [tuned EXCEPT ![r] = override]
     /\ own' = [own EXCEPT ![r] = Changed(@, changes, resets)]
     /\ overtaken' = overtaken \ {r}
     /\ UNCHANGED <<version, away, wrote, killed, states, seeded, stored, defaults, choice, meant,
                    woken>>

SetRoom(r, changes, resets) ==
  LET override == Changed(OwnFields(r), changes, resets)
  IN /\ version = 6
     /\ DOMAIN changes \cap GlobalOnly = {}
     /\ Accepted(Over(override, Global))
     /\ tuned' = [tuned EXCEPT ![r] = override]
     /\ own' = [own EXCEPT ![r] = Changed(@, changes, resets)]
     /\ overtaken' = overtaken \ {r}
     /\ UNCHANGED <<version, away, wrote, killed, states, seeded, stored, defaults, choice, meant,
                    woken>>

SetState(r) ==
  /\ version = 6
  /\ \E s \in {"off", "live"} :
       /\ states' = Put(states, [x \in {r} |-> s])
       /\ meant' = IF s = "live" THEN meant \cup {r} ELSE meant \ {r}
  /\ woken' = woken \ {r}
  /\ UNCHANGED <<version, away, wrote, killed, seeded, stored, tuned, defaults, choice, own,
                 overtaken>>

(* A release with other defaults. *)
Retune ==
  /\ version = 6
  /\ defaults' = Retuned
  /\ UNCHANGED <<config, choices>>

(* bound: a save changes one field, or two that are checked together. *)
SavedTogether == {{k} : k \in Knobs} \cup {{p[1], p[2]} : p \in Pairs}
Changes == UNION {{c \in [S -> UNION {Values[k] : k \in S}] : \A k \in S : c[k] \in Values[k]} :
                    S \in SavedTogether}

Edit ==
  \/ \E c \in Changes : SetGlobal(c, {}) \/ \E r \in Rooms : SetRoom(r, c, {})
  \/ \E k \in Knobs : SetGlobal(None, {k}) \/ \E r \in Rooms : SetRoom(r, None, {k})
  \/ \E r \in Rooms : SetState(r)

TuningNext == Migrate \/ Edit \/ Retune

(* A new entry (what is set in the wizard is its first save), or one an    *)
(* earlier release left behind.  The later of its two snapshots counts,    *)
(* and what equals a default, today's or an earlier, was no choice.        *)
Legacy(v) ==
  /\ version = v
  /\ seeded \in Snapshots
  /\ stored \in Snapshots \cup {None}
  /\ tuned \in [Rooms -> Overrides]
  /\ v > 4 => DOMAIN Global \cap Retired = {} /\ \A r \in Rooms : DOMAIN tuned[r] \cap Retired = {}
  /\ overtaken = {r \in Rooms : ~Accepted(Over(Known(tuned[r]), Known(Global)))}
  /\ IF v = 1
     THEN away \in SUBSET Rooms /\ wrote \in SUBSET Rooms /\ killed \in BOOLEAN /\ states = None
     ELSE /\ away = {} /\ wrote = {} /\ killed = FALSE
          /\ states \in [Rooms -> IF v = 2 THEN {"off", "live", "shadow"} ELSE {"off", "live"}]
  /\ meant = IF v > 1 THEN {r \in Rooms : states[r] = "live"}
             ELSE IF killed THEN {} ELSE wrote \ away
  /\ woken = {}
  /\ LET latest == IF stored = None THEN seeded ELSE stored
         real == {k \in Knobs \cap DOMAIN latest :
                    latest[k] \notin Superseded[k] \cup {defaults[k]}}
     IN choice = [k \in real \cup (IF "ff" \in real THEN {"curve"} ELSE {}) |->
                    IF k = "curve" THEN latest.ff ELSE latest[k]]
  /\ own = [r \in Rooms |-> Only(tuned[r], Knobs)]

Fresh ==
  /\ version = 6
  /\ away = {} /\ wrote = {} /\ killed = FALSE /\ states = None
  /\ seeded = None /\ stored = None
  /\ tuned = [r \in Rooms |-> None]
  /\ meant = {} /\ choice = None /\ own = tuned /\ woken = {} /\ overtaken = {}

TuningInit ==
  /\ defaults = Default
  /\ Fresh \/ \E v \in 1 .. 5 : Legacy(v)

TuningSpec == TuningInit /\ [][TuningNext]_tuningVars

-----------------------------------------------------------------------------
TuningTypeOK ==
  /\ version \in 1 .. 6
  /\ DOMAIN stored \subseteq DOMAIN defaults \cup Retired
  /\ version = 6 => seeded = None /\ away = {} /\ wrote = {} /\ ~killed
  /\ \A r \in Rooms : DOMAIN tuned[r] \subseteq (Knobs \ GlobalOnly) \cup Retired

(* A migrated entry runs with what the user once chose and with today's    *)
(* defaults in everything else, through every later save, reset and        *)
(* release (sparse overrides, DECISIONS §35).  A room runs with its own    *)
(* choices over those of the building, unless together they are invalid:   *)
(* then all of its own are dropped.                                        *)
ChoiceStands ==
  version = 6 =>
    /\ GlobalRunning = Filled(choice)
    /\ \A r \in Rooms : Accepted(Over(own[r], choice)) => RoomRunning(r) = Filled(Over(own[r], choice))

(* No migration lets the integration drive a room it did not drive before, *)
(* or stop one it drove, but for the rooms of a version 1 entry whose kill *)
(* switch forbade every command: those with live control are driven.       *)
OnlyMeantIsLive ==
  version = 6 => {r \in DOMAIN states : states[r] = "live"} = meant \cup woken

(* The panel accepts what is stored, over every migration, save, reset and *)
(* release: it refuses no save of the building for a field the user did    *)
(* not touch, and none of a room, but for a room a save of the building    *)
(* moved a checked field towards after the room's own last save.           *)
StoredIsAccepted ==
  version = 6 =>
    /\ Accepted(Global)
    /\ \A r \in Rooms \ overtaken : Accepted(Over(OwnFields(r), Global))
=============================================================================
