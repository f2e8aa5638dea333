------------------------------- MODULE MCBusName -------------------------------
(* Instances of BusName for TLC. *)
EXTENDS BusName, TLC
===============================================================================
