------------------------------ MODULE MCSession ------------------------------
(* Session for TLC: two lock delays, and settings in which each key takes     *)
(* both values: a disabled lock with the lock enabled (disabled and not       *)
(* enabled differ in nothing), and without idle activation one delay only.    *)
(* For the claim on present users, idle activation is on.                     *)
EXTENDS Session

MCLockTimeouts == {0, 1}
MCPrefs == {p \in PrefType : /\ p.lockEnabled \/ ~p.lockDisabled
                             /\ p.idleActivation \/ p.lockTimeout = 1}
MCActivating == {p \in PrefType : p.idleActivation}
==============================================================================
