--------------------------- MODULE MCEntryTuning ----------------------------
(* One room; the default of boost rose from 2 to 4 before version 6, that  *)
(* of ff rises later.  min and max clamp the heating water's base.         *)
EXTENDS EntryTuning, TLC

KnobsMC == {"deadband", "boost", "ff", "curve", "min", "base", "max"}
DefaultMC == [deadband |-> 1, boost |-> 4, ff |-> 1, curve |-> 1, kd |-> 1,
              min |-> 1, base |-> 2, max |-> 3]
RetunedMC == [DefaultMC EXCEPT !.ff = 2]
SupersededMC == [k \in KnobsMC |-> IF k = "boost" THEN {2} ELSE {}]
ValuesMC == [deadband |-> 1 .. 4, boost |-> 1 .. 4, ff |-> {1, 2}, curve |-> {1, 2},
             min |-> {1, 2}, base |-> {1, 2}, max |-> {2, 3}]
BelowMC == {<<"deadband", "boost">>, <<"min", "max">>}
NotAboveMC == {<<"min", "base">>, <<"base", "max">>}

Bare == {[deadband |-> d, boost |-> b, ff |-> f, base |-> c, kd |-> 2] :
           d \in {1, 3}, b \in {2, 4}, f \in {1, 2}, c \in {1, 2}}
Checked == {s \in Bare : s.boost > s.deadband}
SnapshotsMC == Checked \cup {s @@ [flow |-> 1] : s \in Checked}
OverridesMC == {<<>>, [deadband |-> 2], [boost |-> 3], [flow |-> 1], [deadband |-> 2, flow |-> 1]}
=============================================================================
