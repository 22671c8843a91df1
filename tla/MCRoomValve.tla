----------------------------- MODULE MCRoomValve -----------------------------
(* Surroundings: healthy water, water inside the throttle's ramp, water at  *)
(* the dew point, water too hot for the floor, a room without humidity, and *)
(* a room whose data has gone stale.                                        *)
EXTENDS RoomValve

Around(lo, hi, dew, pad, age) == [lo |-> lo, hi |-> hi, dew |-> dew, pad |-> pad, age |-> age]
MCSurroundings ==
    {Around(18, 18, 12, 0, 0), Around(18, 41, 16, 1, 0), Around(11, 13, 12, 0, 10),
     Around(18, 18, None, 0, 20)}
MCTrip == [r \in Rules |-> CASE r = "S1" -> 40 [] r = "S2" -> 0 [] r = "S3" -> 18
                             [] r = "S4" -> 23 [] r = "S5" -> 15]
MCClear == [r \in Rules |-> CASE r = "S1" -> 38 [] r = "S2" -> 1 [] r = "S3" -> 19
                              [] r = "S4" -> 22 [] r = "S5" -> 5]
=============================================================================
