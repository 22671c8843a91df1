--------------------------- MODULE MCProbeHealth ----------------------------
(***************************************************************************)
(* ProbeHealth on one manifold of three loops, one of whose probes may     *)
(* slip.  Temperatures are in fifths of a kelvin, times in cycles; Spacing *)
(* and Persist only put off what is admitted or flagged: they are least.   *)
(***************************************************************************)
EXTENDS ProbeHealth

MCOffset == [p \in Probes |-> CASE p = "a" -> -4 [] p = "b" -> 0 [] OTHER -> 4]
MCOpened == {{"a", "b"}}
MCReadable == {{"a", "b"}, {"a", "b", "c"}}

(* The monitor can be relied on here.                                      *)
ASSUME MCReliable ==
  OneFault /\ SteadyCenter /\ FaultShows /\ SmallOffsets /\ WindowsFill
=============================================================================
