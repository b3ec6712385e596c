------------------------------ MODULE MCCooker ------------------------------
(* Values for Cooker's constants: a second is two ticks.                   *)
EXTENDS Cooker

FirstEdit == {1}
=============================================================================
