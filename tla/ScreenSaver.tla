----------------------------- MODULE ScreenSaver -----------------------------
(***************************************************************************)
(* What the daemon promises to the session, whatever its parts do: the     *)
(* screen is off (the desktop shows), blank, or locked; the bus hears of   *)
(* every change; a screen that is up ends because a client of the bus asks *)
(* for it or because somebody at the screen was allowed to end it -- by    *)
(* any activity on a blank screen, by authenticating on a locked one.      *)
(* Session and LockScreen implement this module.                           *)
(***************************************************************************)

VARIABLES
    state,      \* "off", "blank" or "locked"
    announced,  \* the value of the last ActiveChanged signal
    allowed,    \* the permissions to end the screen that are on their way
    endedBy     \* what ended the last activation, "none" while one lasts

vars == <<state, announced, allowed, endedBy>>

Init ==
    /\ state = "off"
    /\ announced = FALSE
    /\ allowed = {}
    /\ endedBy = "none"

\* The screen goes blank, or locked at once.
Activate ==
    /\ state = "off"
    /\ state' \in {"blank", "locked"}
    /\ announced' = TRUE
    /\ endedBy' = "none"
    /\ UNCHANGED allowed

\* A blank screen becomes locked; there is no way back to blank.
Lock ==
    /\ state = "blank"
    /\ state' = "locked"
    /\ UNCHANGED <<announced, allowed, endedBy>>

\* Any activity is enough to end a blank screen, and only a blank one.
Activity ==
    /\ state = "blank"
    /\ allowed' = allowed \union {"activity"}
    /\ UNCHANGED <<state, announced, endedBy>>

\* Only on a locked screen can the user authenticate.
Authenticate ==
    /\ state = "locked"
    /\ allowed' = allowed \union {"auth"}
    /\ UNCHANGED <<state, announced, endedBy>>

\* A permission is spent on a screen that is up.  Those that its windows were still
\* to hand on may be lost with them.
End ==
    /\ state # "off"
    /\ state' = "off"
    /\ announced' = FALSE
    /\ allowed' \subseteq allowed
    /\ endedBy' \in allowed \union {"request"}

\* A permission finds the screen already off, or nobody hears of it any more
\* because the window it was given on is gone.
Expire ==
    /\ allowed' \subseteq allowed
    /\ UNCHANGED <<state, announced, endedBy>>

Next == Activate \/ Lock \/ Activity \/ Authenticate \/ End \/ Expire

Spec == Init /\ [][Next]_vars
==============================================================================
