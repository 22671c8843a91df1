------------------------------ MODULE MCHpMode ------------------------------
(* Others move the pump between a heating, a cooling, a DHW-only and an     *)
(* automatic option, with and without the flag.                             *)
EXTENDS HpMode

MCMoves == {[dir |-> "Heat", dhw |-> FALSE], [dir |-> "Cool", dhw |-> TRUE],
            [dir |-> "Auto", dhw |-> TRUE], DhwOnly}
=============================================================================
