-------------------------------- MODULE Dialog --------------------------------
(***************************************************************************)
(* What the daemon relies on of an unlock dialog (LockScreen!DialogSays):  *)
(* the first answer is the one that counts, and it is OK only after an     *)
(* authentication, unless locking is not supported at all.                 *)
(* AuthConversation implements this module.                                *)
(***************************************************************************)

VARIABLES
    canLock,       \* the dialog can ask for an authentication at all
    child,         \* the dialog by its output: "silent", "ok", "cancel", "gone"
    authenticated  \* PAM has accepted the user

vars == <<canLock, child, authenticated>>

Init == canLock \in BOOLEAN /\ child = "silent" /\ authenticated = FALSE

Authenticate ==
    /\ ~authenticated
    /\ authenticated' = TRUE
    /\ UNCHANGED <<canLock, child>>

Answer(a) ==
    /\ child = "silent"
    /\ a = "ok" => authenticated \/ ~canLock
    /\ child' = a
    /\ UNCHANGED <<canLock, authenticated>>

Next == Authenticate \/ \E a \in {"ok", "cancel", "gone"} : Answer(a)

Spec == Init /\ [][Next]_vars
==============================================================================
