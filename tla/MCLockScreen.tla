----------------------------- MODULE MCLockScreen -----------------------------
(* LockScreen for TLC. *)
EXTENDS LockScreen
==============================================================================
