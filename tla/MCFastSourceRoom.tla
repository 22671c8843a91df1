-------------------------- MODULE MCFastSourceRoom --------------------------
(* One room in every mode: a cycle of 4 units and an off-cycle recompute of *)
(* 1; the dwells and the hold last between one and three cycles.            *)
EXTENDS FastSourceRoom

MCDts == {1, 4}
MCErrors == -3 .. 3
============================================================================
