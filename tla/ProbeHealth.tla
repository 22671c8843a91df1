---------------------------- MODULE ProbeHealth -----------------------------
(***************************************************************************)
(* Health of the loop water probes of one manifold (core/probe_health.py,  *)
(* probes.py): baselines learned over windows of still water, drift judged *)
(* against them, and the check of an open loop's supply against the main   *)
(* supply while water circulates.                                          *)
(*                                                                         *)
(* A probe reads the water plus its own static offset, plus Fault once it  *)
(* has slipped.  Times are in control cycles.  Return probes are learned   *)
(* like supplies and are left out.  schedule_save puts the save off by two *)
(* cycles in every cycle, since the clock it saves has always moved, so    *)
(* the Store is written at an unload only.                                 *)
(***************************************************************************)
EXTENDS Integers, FiniteSets, Sequences

CONSTANTS Probes,        \* the supply probes, one per loop
          Fragile,       \* those that may slip
          Offset,        \* static offset of each probe
          Fault,         \* what a slipped probe adds
          Spread,        \* the largest static offset
          Drift,         \* DRIFT_K
          Settle, Window, MinSamples, MinProbes,
          BaselineMin, BaselineMax, Spacing, Streak, Persist,
          Steps,         \* lengths of a cycle
          Rooms,         \* the probes of each room, relearned together
          Opened,        \* the loops that may be open together
          Readable       \* the probes that may have a reading together

ASSUME ProbeAssumption ==
  /\ IsFiniteSet(Probes) /\ Fragile \subseteq Probes
  /\ Offset \in [Probes -> Int] /\ Fault \in Int
  /\ Spread \in Nat /\ Drift \in Nat
  /\ {} \notin Opened /\ Probes \in Readable
  /\ Opened \union Readable \union Rooms \subseteq SUBSET Probes
  /\ Steps \subseteq Nat \ {0}
  /\ {Settle, Window, MinSamples, MinProbes, BaselineMin, BaselineMax,
      Spacing, Streak, Persist} \subseteq Nat \ {0}
  /\ BaselineMin <= BaselineMax

VARIABLES state,     \* per probe: what the monitor has learned
          group,     \* the manifold's still-water window
          saved,     \* what the Store holds of it
          slipped,   \* probes that read wrong now
          quiet,     \* cycles of still water, every probe read, no disturbance
          settled,   \* probes whose baseline was learned before they slipped
          excused    \* probes a flag of which is no mistake of the monitor

probesVars == <<state, group, saved, slipped, quiet, settled, excused>>

Least(a, b) == IF a < b THEN a ELSE b
Apart(a, b) == IF a < b THEN b - a ELSE a - b

(* The k-th smallest of the values of a function.                          *)
IsRanked(f, k, v) ==
  /\ Cardinality({i \in DOMAIN f : f[i] < v}) < k
  /\ k <= Cardinality({i \in DOMAIN f : f[i] <= v})
Ranked(f, k) == CHOOSE v \in {f[i] : i \in DOMAIN f} : IsRanked(f, k, v)
(* The middle one, or halfway between two.                                 *)
Median(f) ==
  LET n == Cardinality(DOMAIN f)
  IN (Ranked(f, (n + 1) \div 2) + Ranked(f, (n + 2) \div 2)) \div 2

NewProbe == [base |-> <<>>, since |-> Spacing, drifting |-> 0, healthy |-> 0,
             drift |-> FALSE, gap |-> "unjudged", held |-> 0, far |-> FALSE]
NoWindow == [still |-> 0, age |-> 0, samples |-> [p \in Probes |-> <<>>]]

Flagged(s) == {p \in Probes : s[p].drift \/ s[p].far}
Learned(st) == Len(st.base) >= BaselineMin

-----------------------------------------------------------------------------
(* The flowing check.  Nobody is judged without a main probe or visible    *)
(* circulation, and when most judged loops disagree the main probe is the  *)
(* suspect: every timer is held.                                           *)

Gap(p, main) == p \in slipped \/ main = "bad"

CirculatesAtOne(witnesses, pair) == pair \/ Cardinality(witnesses \ Flagged(state)) >= 1
Circulates(witnesses, pair) == pair \/ Cardinality(witnesses \ Flagged(state)) >= 2

MainSuspect(judged, apart) ==
  Cardinality(judged) >= 2 /\ 2 * Cardinality(apart) > Cardinality(judged)

Held(st, gap, dt) ==
  LET held == IF st.gap = gap THEN Least(st.held + dt, Persist) ELSE Least(dt, Persist)
  IN [st EXCEPT !.gap = gap, !.held = held, !.far = IF held >= Persist THEN gap = "far" ELSE @]

Flowing(st, p, judged, apart, circulates, dt) ==
  IF ~circulates \/ MainSuspect(judged, apart) \/ p \notin judged THEN st
  ELSE Held(st, IF p \in apart THEN "far" ELSE "near", dt)

-----------------------------------------------------------------------------
(* The still-water check: after Settle with every valve closed, deviations *)
(* from the median are sampled over windows, and each window is judged.    *)

Reading(p, bad) == Offset[p] + IF p \in bad THEN Fault ELSE 0

Center(read, bad) == Median([p \in read |-> Reading(p, bad)])

Sampled(p, read, center) ==
  IF Cardinality(read) < MinProbes \/ p \notin read THEN group.samples[p]
  ELSE Append(group.samples[p], Reading(p, slipped) - center)

Off(st, deviation) == Learned(st) /\ Apart(deviation, Median(st.base)) > Drift

JudgedWindowLate(st, off) ==
  IF off
  THEN [st EXCEPT !.healthy = 0, !.drifting = Least(@ + 1, Streak),
                  !.drift = @ \/ st.drifting >= Streak]
  ELSE [st EXCEPT !.drifting = 0, !.healthy = Least(@ + 1, Streak),
                  !.drift = @ /\ st.healthy + 1 < Streak]
(* Streak windows in a row raise the flag, and as many clear it.           *)
JudgedWindow(st, off) ==
  IF off
  THEN [st EXCEPT !.healthy = 0, !.drifting = Least(@ + 1, Streak),
                  !.drift = @ \/ st.drifting + 1 >= Streak]
  ELSE [st EXCEPT !.drifting = 0, !.healthy = Least(@ + 1, Streak),
                  !.drift = @ /\ st.healthy + 1 < Streak]

Admitted(st, deviation) ==
  LET kept == Append(st.base, deviation)
      size == Least(Len(kept), BaselineMax)
  IN IF st.since < Spacing THEN st
     ELSE [st EXCEPT !.since = 0, !.base = SubSeq(kept, Len(kept) - size + 1, Len(kept))]

CloseWindowAdmitting(st, deviation) ==
  Admitted(JudgedWindow(st, Off(st, deviation)), deviation)
(* Neither a window off the baseline nor one of a probe still flagged is   *)
(* learned from.                                                           *)
CloseWindow(st, deviation) ==
  LET judged == JudgedWindow(st, Off(st, deviation))
  IN IF Off(st, deviation) \/ judged.drift THEN judged ELSE Admitted(judged, deviation)

StillTime(dt) == Least(group.still + dt, Settle)

WindowEnds(dt) == group.still + dt >= Settle /\ group.age + dt >= Window

GroupAfter(read, center, dt) ==
  IF group.still + dt < Settle \/ WindowEnds(dt) THEN [NoWindow EXCEPT !.still = StillTime(dt)]
  ELSE [still |-> StillTime(dt), age |-> group.age + dt,
        samples |-> [p \in Probes |-> Sampled(p, read, center)]]

AfterWindow(st, samples) ==
  IF Len(samples) >= MinSamples THEN CloseWindow(st, Median(samples)) ELSE st

-----------------------------------------------------------------------------
(* One control cycle.  While a valve is open the still-water window is     *)
(* dropped, while all are closed nobody is judged against the main supply. *)
(* read are the probes with a reading.                                     *)

(* The longest a fault can go unnoticed: what is left of the settling or   *)
(* of a window missing readings, and the windows that must agree.          *)
Deadline == (IF Settle > Window THEN Settle ELSE Window) - 1 + Streak * Window

Advanced(st, dt) == [st EXCEPT !.since = Least(@ + dt, Spacing)]

Remember(lost) ==
  /\ excused' = excused \union lost
  /\ settled' = {p \in Probes : Learned(state'[p]) /\ (p \in settled \/ p \notin excused)}

(* moves: water circulates.  While it stands, an open loop may read far    *)
(* from the main supply, and a loop whose probe slipped may look as if its *)
(* water moved.                                                            *)
FlowingCycle(open, read, dt) ==
  \E main \in {"good", "bad", "none"}, moves \in BOOLEAN, far \in SUBSET (open \intersect read) :
    LET judged == open \intersect read
        apart == IF moves THEN {p \in judged : Gap(p, main)} ELSE far
        pair == main # "none" /\ (moves \/ main = "bad")
        witnesses == {p \in read : p \in slipped \/ (moves /\ p \in open)}
        circulates == main # "none" /\ Circulates(witnesses, pair)
    IN /\ moves \/ main = "none" => far = {}
       /\ state' = [p \in Probes |->
                      Flowing(Advanced(state[p], dt), p, judged, apart, circulates, dt)]
       /\ group' = NoWindow
       /\ quiet' = 0
       /\ Remember(IF main = "bad" /\ (~moves \/ Cardinality(judged) = 1)
                   THEN judged ELSE {})
       /\ UNCHANGED <<saved, slipped>>

StillCycle(read, dt) ==
  LET center == Center(read, slipped)
  IN /\ state' = [p \in Probes |->
                    IF WindowEnds(dt)
                    THEN AfterWindow(Advanced(state[p], dt), Sampled(p, read, center))
                    ELSE Advanced(state[p], dt)]
     /\ group' = GroupAfter(read, center, dt)
     /\ quiet' = IF read = Probes THEN Least(quiet + 1, Deadline) ELSE 0
     /\ Remember({})
     /\ UNCHANGED <<saved, slipped>>

(* The resistance of a probe shifts, or its thermal contact comes back:    *)
(* here never while a window is being sampled.                             *)
Slips(p) ==
  /\ group.age = 0
  /\ slipped' = IF p \in slipped THEN slipped \ {p} ELSE slipped \union {p}
  /\ excused' = excused \union {p}
  /\ quiet' = 0
  /\ UNCHANGED <<state, group, saved, settled>>

(* The button: relearn these probes.                                       *)
Reset(some) ==
  /\ state' = [p \in Probes |-> IF p \in some THEN NewProbe ELSE state[p]]
  /\ group' = NoWindow
  /\ Remember({})
  /\ quiet' = 0
  /\ UNCHANGED <<saved, slipped>>

Restored(s) ==
  [p \in Probes |-> [s[p] EXCEPT !.gap = "unjudged", !.held = 0, !.far = FALSE]]

(* An unload writes what was learned, a crash brings back what the last    *)
(* unload wrote.                                                           *)
Restart(clean) ==
  /\ saved' = IF clean THEN Restored(state) ELSE saved
  /\ state' = saved'
  /\ group' = NoWindow
  /\ Remember({})
  /\ quiet' = 0
  /\ UNCHANGED slipped

ProbesInit ==
  /\ state = [p \in Probes |-> NewProbe]
  /\ group = NoWindow
  /\ saved = state
  /\ slipped = {}
  /\ quiet = 0
  /\ settled = {}
  /\ excused = {}

ProbesNext ==
  \/ \E open \in Opened, read \in Readable, dt \in Steps : FlowingCycle(open, read, dt)
  \/ \E read \in Readable, dt \in Steps : StillCycle(read, dt)
  \/ \E p \in Fragile : Slips(p)
  \/ \E some \in Rooms : Reset(some)
  \/ \E clean \in BOOLEAN : Restart(clean)

ProbesSpec == ProbesInit /\ [][ProbesNext]_probesVars

-----------------------------------------------------------------------------
(* When the monitor can be relied on.                                      *)

(* One probe of the manifold may slip, and a median is taken of three.     *)
OneFault == MinProbes >= 3 /\ \A p, q \in Fragile : p = q

(* What the deviations are taken from.                                     *)
Centers ==
  {Center(read, bad) :
     read \in {r \in Readable : Cardinality(r) >= MinProbes}, bad \in SUBSET Fragile}

(* Neither a slip nor a lost reading moves it by more than Drift.          *)
SteadyCenter == \A c, d \in Centers : Apart(c, d) <= Drift

(* A slip is more than the center and the judgement can hide.              *)
FaultShows == Apart(Fault, 0) > 2 * Drift

(* The static offsets are small.                                           *)
SmallOffsets == \A p \in Probes : Apart(Offset[p], 0) <= Spread

(* A window without missing readings has enough of them.                   *)
WindowsFill ==
  /\ Cardinality(Probes) >= MinProbes
  /\ \A dt \in Steps : (MinSamples - 1) * dt < Window

-----------------------------------------------------------------------------
ProbesTypeOK ==
  /\ quiet <= Deadline /\ slipped \subseteq Fragile
  /\ settled \subseteq Probes /\ excused \subseteq Probes
  /\ \A p \in Probes :
       /\ Len(state[p].base) <= BaselineMax /\ Len(group.samples[p]) <= Window
       /\ state[p].drifting <= Streak /\ state[p].healthy <= Streak
       /\ state[p].since <= Spacing /\ state[p].held <= Persist

(* A probe that never slipped is never flagged, whatever happens to its    *)
(* neighbours: a flag hides the probe from the safety rules.  Judged alone *)
(* against a bad main supply it is, and that is left out.                  *)
NoFalseFlag == Flagged(state) \subseteq excused

(* What a probe learned before it slipped is not pulled towards the fault, *)
(* however long the fault lasts and however often it comes back.           *)
BaselineStaysClean ==
  \A p \in settled : Apart(Median(state[p].base), Offset[p]) <= Spread

(* A probe that reads wrong, and whose baseline was learned before, is     *)
(* flagged at the latest Deadline cycles into still water.                 *)
FaultIsFlagged ==
  \A p \in settled \intersect slipped : quiet = Deadline => state[p].drift
=============================================================================
