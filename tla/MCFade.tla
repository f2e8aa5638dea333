-------------------------------- MODULE MCFade --------------------------------
(* Instances of Fade for TLC. *)
EXTENDS Fade
===============================================================================
