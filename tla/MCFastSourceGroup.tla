------------------------- MODULE MCFastSourceGroup -------------------------
(* Two rooms on one outdoor unit.  A cycle of 3 units, dwells and hold of   *)
(* one or two cycles; the errors give claims of 4 against 3, within the    *)
(* margin, and of 4 against 2, beyond it.                                  *)
EXTENDS FastSourceGroup, TLC

CONSTANTS r1, r2

MCRooms == {r1, r2}
MCErrors == {-5, 3, 4}
MCSymmetry == Permutations(MCRooms)
============================================================================
