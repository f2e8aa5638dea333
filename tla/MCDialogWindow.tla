---------------------------- MODULE MCDialogWindow ----------------------------
(* Instances of DialogWindow for TLC. *)
EXTENDS DialogWindow
===============================================================================
