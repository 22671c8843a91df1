---------------------------- MODULE MCEntryStore ----------------------------
(* Two rooms, one of which may be remapped, removed and tuned, one browser *)
(* tab; one of its two wirings is followed, the other is its mirror image. *)
EXTENDS EntryStore, TLC
CONSTANTS living, bath, w0, w1, w2
NamesMC == {living, bath}
WiringsMC == (living :> {w0}) @@ (bath :> {w1, w2})
AdjustedMC == {bath}
=============================================================================
