-------------------------- MODULE MCSensorReadings --------------------------
(* Three plausible levels, the outer two a jump apart, and an implausible   *)
(* one.                                                                     *)
EXTENDS SensorReadings

MCMaxAge == [r \in Roles |-> IF r = "water" THEN None ELSE 3]
=============================================================================
