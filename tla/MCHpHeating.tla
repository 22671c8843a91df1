---------------------------- MODULE MCHpHeating ----------------------------
(* Temperatures in half kelvins on a grid of one kelvin: curve values whose *)
(* difference is more and less than the hysteresis, outlets below, inside  *)
(* and above the restart band of each target.                              *)
EXTENDS HpHeating

MCCurves == {20, 23}
MCOutlets == {12, 17, 25}
MCBands == {}
MCBandRange == 2 .. 20
=============================================================================
