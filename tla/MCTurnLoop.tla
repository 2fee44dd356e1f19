------------------------------ MODULE MCTurnLoop ------------------------------
(***************************************************************************)
(* Instances of TurnLoop for TLC: the bounds are all it needs.               *)
(***************************************************************************)
EXTENDS TurnLoop
===============================================================================
