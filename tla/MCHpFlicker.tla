---------------------------- MODULE MCHpFlicker ----------------------------
(* Temperatures in half kelvins, relative to 15 degrees: a base of 19, safe *)
(* dew points below and off the grid above it, return water that starts the *)
(* pump under the first and under both.                                     *)
EXTENDS HpFlicker

MCDews == {NoReading, 5, 11}
MCReturns == {14, 17}
=============================================================================
