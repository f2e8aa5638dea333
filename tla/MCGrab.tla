-------------------------------- MODULE MCGrab --------------------------------
(* Grab for TLC: three lock windows, so that a grab can move between two of   *)
(* them and one can be unplugged besides.                                     *)
EXTENDS Grab

CONSTANTS w1, w2, w3
MCWindows == {w1, w2, w3}
==============================================================================
