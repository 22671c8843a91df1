------------------------ MODULE MCFastSourceDelivery ------------------------
(* Cycles of 2 units with off-cycle recomputes: the room wants nothing,     *)
(* wants heat, or is blind.                                                 *)
EXTENDS FastSourceDelivery

MCErrors == {0, 3}

Choice(mode, lost, err, dew) ==
    [mode |-> mode, lost |-> lost, err |-> err, dew |-> dew]

MCDemand == {Choice("HEATING", FALSE, 3, "unknown")}
MCHeating == MCDemand \cup {Choice("HEATING", FALSE, 0, "unknown"),
                            Choice("HEATING", TRUE, 0, "unknown")}

=============================================================================
