---------------------------- MODULE SessionProofs ----------------------------
(***************************************************************************)
(* What Session promises for every space of settings, every lock delay and *)
(* every bound on the queued callbacks.  The conjunction IInv of the       *)
(* invariants is inductive: no part of it is by itself (that a dark        *)
(* desktop has a notice needs the watcher to be on, which needs the three  *)
(* objects to agree, which needs each refusal to leave all of them alone). *)
(***************************************************************************)
EXTENDS Session, TLAPS

IInv ==
    /\ TypeOK
    /\ Synchronised
    /\ InactiveIsClean
    /\ DialogOnlyWhenLocked
    /\ GrabHasOwner
    /\ NoDarkDesktop

USE TimeoutAssumption, PrefAssumption, BoundAssumption

\* A queue of causes keeps its type when a cause is added at its end.
LEMMA QueueAppend ==
    ASSUME NEW q \in Seq(Causes), NEW c \in Causes
    PROVE  Append(q, c) \in Seq(Causes)
  OBVIOUS

\* A queue that is not empty gives a cause and leaves a queue.
LEMMA QueueHeadTail ==
    ASSUME NEW q \in Seq(Causes), q # <<>>
    PROVE  Head(q) \in Causes /\ Tail(q) \in Seq(Causes)
  OBVIOUS

\* The start of the daemon satisfies the invariant.
LEMMA InitIInv == Init => IInv
<1> SUFFICES ASSUME Init PROVE IInv
  OBVIOUS
<1>1. prefs \in PrefType
  BY DEF Init
<1>2. lockEnabled \in BOOLEAN /\ activationEnabled \in BOOLEAN
  BY <1>1 DEF Init, PrefType
<1>3. emitQ \in Seq(Causes) /\ mgrQ \in Seq(Causes)
  BY DEF Init
<1>4. TypeOK
  BY <1>1, <1>2, <1>3 DEF Init, TypeOK, SettingTypes, ListenerTypes,
     WatcherTypes, ManagerTypes, WindowTypes, SeatTypes
<1>5. Synchronised /\ InactiveIsClean /\ DialogOnlyWhenLocked
      /\ GrabHasOwner /\ NoDarkDesktop
  BY DEF Init, Synchronised, InactiveIsClean, DialogOnlyWhenLocked,
         GrabHasOwner, NoDarkDesktop
<1> QED BY <1>4, <1>5 DEF IInv

\* SetActiveTo, by whomever: the state goes up or down in all three objects or
\* in none.  The callers say what becomes of the manager's queue and flag.
LEMMA SetActiveToIInv ==
    ASSUME IInv, NEW on \in BOOLEAN, NEW cause \in Causes \union {"request"},
           SetActiveTo(on, cause),
           running' \in BOOLEAN, mgrQ' \in Seq(Causes),
           on => lockActive' \in BOOLEAN /\ (lockActive' => mActive')
                 /\ (lockActive => lockActive')
    PROVE  IInv'
<1> USE DEF IInv, TypeOK
<1>1. UNCHANGED <<prefs, lockEnabled, activationEnabled, idleTimer, status,
                  releaseTimer>>
  BY DEF SetActiveTo, prefVars
<1>2. CASE ~Accepts(on)
  <2>1. /\ UNCHANGED <<lActive, announced, wActive, wIdle, wNotice, mActive,
                       lockTimer, unfadeTimer, dialogUp, dialog, response,
                       unmapped, emitQ, orphans, endedBy, grab, fade>>
        /\ sessionIdle' = (sessionIdle /\ (lActive = on \/ ~on))
        /\ on \/ UNCHANGED lockActive
    BY <1>2 DEF SetActiveTo, ListenerSetActive, windowVars, watcherState
  <2>2. TypeOK'
    BY <1>1, <2>1 DEF SettingTypes, ListenerTypes, WatcherTypes, ManagerTypes,
                      WindowTypes, SeatTypes
  <2>3. Synchronised'
    BY <1>2, <2>1 DEF Synchronised, Accepts
  <2>4. InactiveIsClean' /\ DialogOnlyWhenLocked'
    BY <2>1 DEF InactiveIsClean, DialogOnlyWhenLocked
  <2>5. GrabHasOwner' /\ NoDarkDesktop'
    BY <1>1, <2>1 DEF GrabHasOwner, NoDarkDesktop
  <2> QED BY <2>2, <2>3, <2>4, <2>5
<1>3. CASE Accepts(on) /\ on
  <2>1. /\ UNCHANGED <<dialogUp, dialog, response, emitQ, orphans, fade>>
        /\ lActive' = TRUE /\ sessionIdle' = TRUE /\ announced' = TRUE
        /\ mActive' = TRUE /\ lockTimer' = TRUE /\ unfadeTimer' = TRUE
        /\ unmapped' = TRUE /\ grab' \in {grab, "screen"} /\ endedBy' = "none"
        /\ wActive' = FALSE
        /\ wIdle' = (wIdle /\ wActive = FALSE)
        /\ wNotice' = (wNotice /\ wActive = FALSE)
    BY <1>3 DEF SetActiveTo, ListenerSetActive, ManagerActivate, ShowWindow,
                Announce, SetWatcher
  <2>2. lockActive' \in BOOLEAN /\ (lockActive => lockActive')
    BY <1>3
  <2>3. TypeOK'
    <3>1. SettingTypes'
      BY <1>1, <2>1, <2>2 DEF SettingTypes
    <3>2. ListenerTypes'
      BY <1>1, <2>1, <2>2 DEF ListenerTypes
    <3>3. WatcherTypes'
      BY <1>1, <2>1, <2>2 DEF WatcherTypes
    <3>4. ManagerTypes'
      BY <1>1, <2>1, <2>2 DEF ManagerTypes
    <3>5. WindowTypes'
      BY <1>1, <2>1, <2>2 DEF WindowTypes
    <3>6. SeatTypes'
      BY <1>1, <2>1, <2>2 DEF SeatTypes
    <3> QED BY <3>1, <3>2, <3>3, <3>4, <3>5, <3>6
  <2>4. Synchronised' /\ InactiveIsClean' /\ GrabHasOwner' /\ NoDarkDesktop'
    BY <2>1 DEF Synchronised, InactiveIsClean, GrabHasOwner, NoDarkDesktop
  <2>5. DialogOnlyWhenLocked'
    BY <2>1, <2>2 DEF DialogOnlyWhenLocked
  <2> QED BY <2>3, <2>4, <2>5
<1>4. CASE Accepts(on) /\ ~on
  <2>1. /\ lActive' = FALSE /\ sessionIdle' = FALSE /\ announced' = FALSE
        /\ mActive' = FALSE /\ lockActive' = FALSE /\ dialogUp' = FALSE
        /\ lockTimer' = FALSE /\ unfadeTimer' = FALSE
        /\ dialog' = "none" /\ response' = "cancel" /\ unmapped' = FALSE
        /\ emitQ' = <<>>
        /\ orphans' = orphans \union {emitQ[i] : i \in DOMAIN emitQ}
        /\ fade' = "clear" /\ grab' = "none" /\ endedBy' = cause
        /\ wActive' = TRUE
        /\ wIdle' = (wIdle /\ wActive = TRUE)
        /\ wNotice' = (wNotice /\ wActive = TRUE)
    BY <1>4 DEF SetActiveTo, ListenerSetActive, ManagerDeactivate, Announce,
                SetWatcher, RemoveTimers, FadeReset, GrabRelease, DestroyWindows
  <2>2. emitQ' \in Seq(Causes) /\ orphans' \subseteq Causes
    <3>1. \A i \in DOMAIN emitQ : emitQ[i] \in Causes
      BY DEF WindowTypes
    <3> QED BY <2>1, <3>1 DEF WindowTypes
  <2>3. TypeOK'
    BY <1>1, <2>1, <2>2 DEF SettingTypes, ListenerTypes, WatcherTypes,
                            ManagerTypes, WindowTypes, SeatTypes
  <2>4. Synchronised' /\ InactiveIsClean' /\ DialogOnlyWhenLocked'
        /\ GrabHasOwner' /\ NoDarkDesktop'
    BY <2>1 DEF Synchronised, InactiveIsClean, DialogOnlyWhenLocked,
                GrabHasOwner, NoDarkDesktop
  <2> QED BY <2>3, <2>4
<1> QED BY <1>2, <1>3, <1>4

\* One step of the daemon keeps the invariant: a step per action, the types
\* first.
LEMMA NextIInv == IInv /\ [Next]_vars => IInv'
<1> SUFFICES ASSUME IInv, [Next]_vars PROVE IInv'
  OBVIOUS
<1> USE DEF IInv, prefVars, listenerVars, watcherState, watcherVars,
            managerVars, windowVars, monitorVars
<1>1. ASSUME UserActs, running PROVE IInv'
  <2>1. SettingTypes' /\ ListenerTypes' /\ WatcherTypes'
    BY <1>1 DEF UserActs, RequestUnlock, QueueEmit, NeedsAuthentication,
       TypeOK, SettingTypes, ListenerTypes, WatcherTypes
  <2>2. ManagerTypes' /\ SeatTypes'
    BY <1>1 DEF UserActs, RequestUnlock, QueueEmit, NeedsAuthentication,
       TypeOK, ManagerTypes, SeatTypes
  <2>3. emitQ' \in Seq(Causes)
    <3>1. CASE UNCHANGED emitQ
      BY <3>1 DEF TypeOK, WindowTypes
    <3>2. CASE emitQ' = Append(emitQ, "activity")
      BY <3>2, QueueAppend DEF TypeOK, WindowTypes, Causes
    <3> QED BY <1>1, <3>1, <3>2 DEF UserActs, RequestUnlock, QueueEmit
  <2>4. WindowTypes'
    BY <1>1, <2>3 DEF UserActs, RequestUnlock, TypeOK, WindowTypes
  <2>5. Synchronised' /\ InactiveIsClean' /\ DialogOnlyWhenLocked'
    BY <1>1 DEF UserActs, RequestUnlock, QueueEmit, NeedsAuthentication,
       Synchronised, InactiveIsClean, DialogOnlyWhenLocked
  <2>6. GrabHasOwner' /\ NoDarkDesktop'
    BY <1>1 DEF UserActs, RequestUnlock, QueueEmit, NeedsAuthentication,
       Synchronised, InactiveIsClean, GrabHasOwner, NoDarkDesktop
  <2> QED
    BY <2>1, <2>2, <2>3, <2>4, <2>5, <2>6 DEF TypeOK
<1>2. ASSUME WindowMapped PROVE IInv'
  <2>1. SettingTypes' /\ ListenerTypes' /\ WatcherTypes'
    BY <1>2 DEF WindowMapped, TypeOK, SettingTypes, ListenerTypes,
       WatcherTypes
  <2>2. ManagerTypes' /\ WindowTypes' /\ SeatTypes'
    BY <1>2 DEF WindowMapped, TypeOK, ManagerTypes, WindowTypes, SeatTypes
  <2>3. Synchronised' /\ InactiveIsClean' /\ DialogOnlyWhenLocked'
    BY <1>2 DEF WindowMapped, Synchronised, InactiveIsClean,
       DialogOnlyWhenLocked
  <2>4. GrabHasOwner' /\ NoDarkDesktop'
    BY <1>2 DEF WindowMapped, Synchronised, InactiveIsClean, GrabHasOwner,
       NoDarkDesktop
  <2> QED
    BY <2>1, <2>2, <2>3, <2>4 DEF TypeOK
<1>3. ASSUME PopupDialogIdle PROVE IInv'
  <2>1. SettingTypes' /\ ListenerTypes' /\ WatcherTypes'
    BY <1>3 DEF PopupDialogIdle, TypeOK, SettingTypes, ListenerTypes,
       WatcherTypes
  <2>2. ManagerTypes' /\ WindowTypes' /\ SeatTypes'
    BY <1>3 DEF PopupDialogIdle, TypeOK, ManagerTypes, WindowTypes, SeatTypes
  <2>3. Synchronised' /\ InactiveIsClean' /\ DialogOnlyWhenLocked'
    BY <1>3 DEF PopupDialogIdle, Synchronised, InactiveIsClean,
       DialogOnlyWhenLocked
  <2>4. GrabHasOwner' /\ NoDarkDesktop'
    BY <1>3 DEF PopupDialogIdle, Synchronised, InactiveIsClean, GrabHasOwner,
       NoDarkDesktop
  <2> QED
    BY <2>1, <2>2, <2>3, <2>4 DEF TypeOK
<1>4. ASSUME EmitDeactivatedIdle PROVE IInv'
  <2>1. SettingTypes' /\ ListenerTypes' /\ WatcherTypes'
    BY <1>4 DEF EmitDeactivatedIdle, ManagerQueues, TypeOK, SettingTypes,
       ListenerTypes, WatcherTypes
  <2>2. ManagerTypes' /\ WindowTypes' /\ SeatTypes'
    BY <1>4 DEF EmitDeactivatedIdle, ManagerQueues, TypeOK, ManagerTypes,
       WindowTypes, SeatTypes
  <2>3. Synchronised' /\ InactiveIsClean' /\ DialogOnlyWhenLocked'
    BY <1>4 DEF EmitDeactivatedIdle, ManagerQueues, Synchronised,
       InactiveIsClean, DialogOnlyWhenLocked
  <2>4. GrabHasOwner' /\ NoDarkDesktop'
    BY <1>4 DEF EmitDeactivatedIdle, ManagerQueues, Synchronised,
       InactiveIsClean, GrabHasOwner, NoDarkDesktop
  <2> QED
    BY <2>1, <2>2, <2>3, <2>4 DEF TypeOK
<1>5. ASSUME OrphanEmit PROVE IInv'
  <2>1. PICK c \in orphans :
          /\ orphans' \in {orphans, orphans \ {c}}
          /\ \/ running' \in BOOLEAN /\ UNCHANGED mgrQ
             \/ mgrQ' = Append(mgrQ, c) /\ UNCHANGED running
    BY <1>5 DEF OrphanEmit, ManagerQueues
  <2>2. UNCHANGED <<prefVars, listenerVars, watcherVars, managerVars, dialog,
                    response, unmapped, emitQ, endedBy, monitorVars>>
    BY <1>5 DEF OrphanEmit
  <2>3. c \in Causes /\ running' \in BOOLEAN
    BY <2>1 DEF TypeOK, WindowTypes, SettingTypes
  <2>4. mgrQ' \in Seq(Causes)
    BY <2>1, <2>3, QueueAppend DEF TypeOK, ManagerTypes
  <2>5. SettingTypes' /\ ListenerTypes' /\ WatcherTypes'
    BY <2>2, <2>3 DEF TypeOK, SettingTypes, ListenerTypes, WatcherTypes
  <2>6. ManagerTypes' /\ SeatTypes'
    BY <2>2, <2>4 DEF TypeOK, ManagerTypes, SeatTypes
  <2>7. WindowTypes'
    BY <2>1, <2>2 DEF TypeOK, WindowTypes
  <2>8. Synchronised' /\ InactiveIsClean' /\ DialogOnlyWhenLocked'
    BY <2>2 DEF Synchronised, InactiveIsClean, DialogOnlyWhenLocked
  <2>9. GrabHasOwner' /\ NoDarkDesktop'
    BY <2>2 DEF Synchronised, InactiveIsClean, GrabHasOwner, NoDarkDesktop
  <2> QED
    BY <2>5, <2>6, <2>7, <2>8, <2>9 DEF TypeOK
<1>6. ASSUME StatusIdle PROVE IInv'
  <2>1. SettingTypes' /\ ListenerTypes' /\ WatcherTypes'
    BY <1>6 DEF StatusIdle, TypeOK, SettingTypes, ListenerTypes, WatcherTypes
  <2>2. ManagerTypes' /\ WindowTypes' /\ SeatTypes'
    BY <1>6 DEF StatusIdle, TypeOK, ManagerTypes, WindowTypes, SeatTypes
  <2>3. Synchronised' /\ InactiveIsClean' /\ DialogOnlyWhenLocked'
    BY <1>6 DEF StatusIdle, Synchronised, InactiveIsClean,
       DialogOnlyWhenLocked
  <2>4. GrabHasOwner' /\ NoDarkDesktop'
    BY <1>6 DEF StatusIdle, Synchronised, InactiveIsClean, GrabHasOwner,
       NoDarkDesktop
  <2> QED
    BY <2>1, <2>2, <2>3, <2>4 DEF TypeOK
<1>7. ASSUME StatusPresent PROVE IInv'
  <2>1. SettingTypes' /\ ListenerTypes' /\ WatcherTypes'
    BY <1>7 DEF StatusPresent, EndNotice, CancelNotice, TypeOK, SettingTypes,
       ListenerTypes, WatcherTypes
  <2>2. ManagerTypes' /\ SeatTypes'
    BY <1>7 DEF StatusPresent, EndNotice, CancelNotice, TypeOK, ManagerTypes,
       SeatTypes
  <2>3. WindowTypes'
    BY <1>7 DEF StatusPresent, EndNotice, CancelNotice, TypeOK, ManagerTypes,
       WindowTypes
  <2>4. Synchronised' /\ InactiveIsClean' /\ DialogOnlyWhenLocked'
    BY <1>7 DEF StatusPresent, EndNotice, CancelNotice, Synchronised,
       InactiveIsClean, DialogOnlyWhenLocked
  <2>5. GrabHasOwner' /\ NoDarkDesktop'
    BY <1>7 DEF StatusPresent, EndNotice, CancelNotice, Synchronised,
       InactiveIsClean, GrabHasOwner, NoDarkDesktop
  <2> QED
    BY <2>1, <2>2, <2>3, <2>4, <2>5 DEF TypeOK
<1>8. ASSUME StatusIgnored PROVE IInv'
  <2>1. SettingTypes' /\ ListenerTypes' /\ WatcherTypes'
    BY <1>8 DEF StatusIgnored, TypeOK, SettingTypes, ListenerTypes,
       WatcherTypes
  <2>2. ManagerTypes' /\ WindowTypes' /\ SeatTypes'
    BY <1>8 DEF StatusIgnored, TypeOK, ManagerTypes, WindowTypes, SeatTypes
  <2>3. Synchronised' /\ InactiveIsClean' /\ DialogOnlyWhenLocked'
    BY <1>8 DEF StatusIgnored, Synchronised, InactiveIsClean,
       DialogOnlyWhenLocked
  <2>4. GrabHasOwner' /\ NoDarkDesktop'
    BY <1>8 DEF StatusIgnored, Synchronised, InactiveIsClean, GrabHasOwner,
       NoDarkDesktop
  <2> QED
    BY <2>1, <2>2, <2>3, <2>4 DEF TypeOK
<1>9. ASSUME IdleUnhandled PROVE IInv'
  <2>1. SettingTypes' /\ ListenerTypes' /\ WatcherTypes'
    BY <1>9 DEF IdleUnhandled, EndNotice, CancelNotice, TypeOK, SettingTypes,
       ListenerTypes, WatcherTypes
  <2>2. ManagerTypes' /\ SeatTypes'
    BY <1>9 DEF IdleUnhandled, EndNotice, CancelNotice, TypeOK, ManagerTypes,
       SeatTypes
  <2>3. WindowTypes'
    BY <1>9 DEF IdleUnhandled, EndNotice, CancelNotice, TypeOK, ManagerTypes,
       WindowTypes
  <2>4. Synchronised' /\ InactiveIsClean' /\ DialogOnlyWhenLocked'
    BY <1>9 DEF IdleUnhandled, EndNotice, CancelNotice, Synchronised,
       InactiveIsClean, DialogOnlyWhenLocked
  <2>5. GrabHasOwner' /\ NoDarkDesktop'
    BY <1>9 DEF IdleUnhandled, EndNotice, CancelNotice, Synchronised,
       InactiveIsClean, GrabHasOwner, NoDarkDesktop
  <2> QED
    BY <2>1, <2>2, <2>3, <2>4, <2>5 DEF TypeOK
<1>10. ASSUME IdleNoted PROVE IInv'
  <2>1. SettingTypes' /\ ListenerTypes' /\ WatcherTypes'
    BY <1>10 DEF IdleNoted, EndNotice, CancelNotice, TypeOK, SettingTypes,
       ListenerTypes, WatcherTypes
  <2>2. ManagerTypes' /\ SeatTypes'
    BY <1>10 DEF IdleNoted, EndNotice, CancelNotice, TypeOK, ManagerTypes,
       SeatTypes
  <2>3. WindowTypes'
    BY <1>10 DEF IdleNoted, EndNotice, CancelNotice, TypeOK, ManagerTypes,
       WindowTypes
  <2>4. Synchronised' /\ InactiveIsClean' /\ DialogOnlyWhenLocked'
    BY <1>10 DEF IdleNoted, EndNotice, CancelNotice, Synchronised,
       InactiveIsClean, DialogOnlyWhenLocked
  <2>5. GrabHasOwner' /\ NoDarkDesktop'
    BY <1>10 DEF IdleNoted, EndNotice, CancelNotice, Synchronised,
       InactiveIsClean, GrabHasOwner, NoDarkDesktop
  <2> QED
    BY <2>1, <2>2, <2>3, <2>4, <2>5 DEF TypeOK
<1>11. ASSUME ReleaseGrabTimeout PROVE IInv'
  <2>1. SettingTypes' /\ ListenerTypes' /\ WatcherTypes'
    BY <1>11 DEF ReleaseGrabTimeout, GrabRelease, TypeOK, SettingTypes,
       ListenerTypes, WatcherTypes
  <2>2. ManagerTypes' /\ SeatTypes'
    BY <1>11 DEF ReleaseGrabTimeout, GrabRelease, TypeOK, ManagerTypes,
       SeatTypes
  <2>3. WindowTypes'
    BY <1>11 DEF ReleaseGrabTimeout, GrabRelease, TypeOK, ManagerTypes,
       WindowTypes
  <2>4. Synchronised' /\ InactiveIsClean' /\ DialogOnlyWhenLocked'
    BY <1>11 DEF ReleaseGrabTimeout, GrabRelease, Synchronised,
       InactiveIsClean, DialogOnlyWhenLocked
  <2>5. GrabHasOwner' /\ NoDarkDesktop'
    BY <1>11 DEF ReleaseGrabTimeout, GrabRelease, Synchronised,
       InactiveIsClean, GrabHasOwner, NoDarkDesktop
  <2> QED
    BY <2>1, <2>2, <2>3, <2>4, <2>5 DEF TypeOK
<1>12. ASSUME FadeFinished PROVE IInv'
  <2>1. SettingTypes' /\ ListenerTypes' /\ WatcherTypes'
    BY <1>12 DEF FadeFinished, TypeOK, SettingTypes, ListenerTypes,
       WatcherTypes
  <2>2. ManagerTypes' /\ WindowTypes' /\ SeatTypes'
    BY <1>12 DEF FadeFinished, TypeOK, ManagerTypes, WindowTypes, SeatTypes
  <2>3. Synchronised' /\ InactiveIsClean' /\ DialogOnlyWhenLocked'
    BY <1>12 DEF FadeFinished, Synchronised, InactiveIsClean,
       DialogOnlyWhenLocked
  <2>4. GrabHasOwner' /\ NoDarkDesktop'
    BY <1>12 DEF FadeFinished, Synchronised, InactiveIsClean, GrabHasOwner,
       NoDarkDesktop
  <2> QED
    BY <2>1, <2>2, <2>3, <2>4 DEF TypeOK
<1>13. ASSUME UnfadeTimeout PROVE IInv'
  <2>1. SettingTypes' /\ ListenerTypes' /\ WatcherTypes'
    BY <1>13 DEF UnfadeTimeout, FadeReset, TypeOK, SettingTypes,
       ListenerTypes, WatcherTypes
  <2>2. ManagerTypes' /\ WindowTypes' /\ SeatTypes'
    BY <1>13 DEF UnfadeTimeout, FadeReset, TypeOK, ManagerTypes, WindowTypes,
       SeatTypes
  <2>3. Synchronised' /\ InactiveIsClean' /\ DialogOnlyWhenLocked'
    BY <1>13 DEF UnfadeTimeout, FadeReset, Synchronised, InactiveIsClean,
       DialogOnlyWhenLocked
  <2>4. GrabHasOwner' /\ NoDarkDesktop'
    BY <1>13 DEF UnfadeTimeout, FadeReset, Synchronised, InactiveIsClean,
       GrabHasOwner, NoDarkDesktop
  <2> QED
    BY <2>1, <2>2, <2>3, <2>4 DEF TypeOK
<1>14. ASSUME ActivateLockTimeout PROVE IInv'
  <2>1. SettingTypes' /\ ListenerTypes' /\ WatcherTypes'
    BY <1>14 DEF ActivateLockTimeout, LockWhenDue, TypeOK, SettingTypes,
       ListenerTypes, WatcherTypes
  <2>2. ManagerTypes' /\ WindowTypes' /\ SeatTypes'
    BY <1>14 DEF ActivateLockTimeout, LockWhenDue, TypeOK, ManagerTypes,
       WindowTypes, SeatTypes
  <2>3. Synchronised' /\ InactiveIsClean' /\ DialogOnlyWhenLocked'
    BY <1>14 DEF ActivateLockTimeout, LockWhenDue, Synchronised,
       InactiveIsClean, DialogOnlyWhenLocked
  <2>4. GrabHasOwner' /\ NoDarkDesktop'
    BY <1>14 DEF ActivateLockTimeout, LockWhenDue, Synchronised,
       InactiveIsClean, GrabHasOwner, NoDarkDesktop
  <2> QED
    BY <2>1, <2>2, <2>3, <2>4 DEF TypeOK
<1>15. ASSUME NEW r \in {"ok", "cancel", "gone"}, DialogResponse(r) PROVE IInv'
  <2>1. SettingTypes' /\ ListenerTypes' /\ WatcherTypes'
    BY <1>15 DEF DialogResponse, TypeOK, SettingTypes, ListenerTypes,
                 WatcherTypes
  <2>2. ManagerTypes' /\ SeatTypes'
    BY <1>15 DEF DialogResponse, Popdown, TypeOK, ManagerTypes, SeatTypes
  <2>3. emitQ' \in Seq(Causes)
    <3>1. CASE UNCHANGED emitQ
      BY <3>1 DEF TypeOK, WindowTypes
    <3>2. CASE emitQ' = Append(emitQ, "auth")
      BY <3>2, QueueAppend DEF TypeOK, WindowTypes, Causes
    <3> QED BY <1>15, <3>1, <3>2 DEF DialogResponse, QueueEmit
  <2>4. WindowTypes'
    BY <1>15, <2>3 DEF DialogResponse, Answer, Popdown, TypeOK, WindowTypes
  <2>5. mActive
    BY <1>15 DEF DialogResponse, InactiveIsClean
  <2>6. Synchronised' /\ InactiveIsClean' /\ DialogOnlyWhenLocked'
        /\ GrabHasOwner' /\ NoDarkDesktop'
    BY <1>15, <2>5 DEF DialogResponse, Popdown, Synchronised, InactiveIsClean,
                       DialogOnlyWhenLocked, GrabHasOwner, NoDarkDesktop
  <2> QED BY <2>1, <2>2, <2>4, <2>6 DEF TypeOK
<1>16. ASSUME WindowDeactivatedIdle PROVE IInv'
  <2>1. Head(mgrQ) \in Causes /\ mgrQ' \in Seq(Causes)
    BY <1>16, QueueHeadTail DEF WindowDeactivatedIdle, TypeOK, ManagerTypes
  <2>2. running' \in BOOLEAN
    BY <1>16 DEF WindowDeactivatedIdle, TypeOK, SettingTypes
  <2> QED BY <1>16, <2>1, <2>2, SetActiveToIInv DEF WindowDeactivatedIdle
<1>17. ASSUME NEW on \in BOOLEAN, SetActive(on) PROVE IInv'
  <2>1. running' \in BOOLEAN /\ mgrQ' \in Seq(Causes)
    BY <1>17 DEF SetActive, TypeOK, SettingTypes, ManagerTypes
  <2>2. SetActiveTo(on, "request")
    BY <1>17 DEF SetActive
  <2>3. ASSUME on
        PROVE  lockActive' \in BOOLEAN /\ (lockActive' => mActive')
               /\ (lockActive => lockActive')
    <3>1. lockActive' = lockActive /\ lockActive \in BOOLEAN
      BY <1>17, <2>3 DEF SetActive, TypeOK, ManagerTypes
    <3>2. lockActive => mActive
      BY DEF InactiveIsClean
    <3>3. mActive => mActive'
      BY <2>2, <2>3 DEF SetActiveTo, ListenerSetActive, ManagerActivate, Accepts
    <3> QED BY <3>1, <3>2, <3>3
  <2> QED BY <2>1, <2>2, <2>3, SetActiveToIInv
<1>18. ASSUME LockScreen, running PROVE IInv'
  <2>1. CASE mActive
    <3>1. lockActive' = TRUE
          /\ UNCHANGED <<running, prefVars, listenerVars, watcherVars, mActive,
                         lockTimer, unfadeTimer, dialogUp, mgrQ, windowVars,
                         endedBy, monitorVars>>
      BY <1>18, <2>1 DEF LockScreen
    <3>2. SettingTypes' /\ ListenerTypes' /\ WatcherTypes'
      BY <3>1 DEF TypeOK, SettingTypes, ListenerTypes, WatcherTypes
    <3>3. ManagerTypes' /\ WindowTypes' /\ SeatTypes'
      BY <3>1 DEF TypeOK, ManagerTypes, WindowTypes, SeatTypes
    <3>4. Synchronised' /\ InactiveIsClean' /\ DialogOnlyWhenLocked'
          /\ GrabHasOwner' /\ NoDarkDesktop'
      BY <2>1, <3>1 DEF Synchronised, InactiveIsClean, DialogOnlyWhenLocked,
                        GrabHasOwner, NoDarkDesktop
    <3> QED BY <3>2, <3>3, <3>4 DEF TypeOK
  <2>2. CASE ~mActive
    <3>1. SetActiveTo(TRUE, "request") /\ UNCHANGED <<running, mgrQ>>
      BY <1>18, <2>2 DEF LockScreen
    <3>2. running' \in BOOLEAN /\ mgrQ' \in Seq(Causes)
      BY <3>1 DEF TypeOK, SettingTypes, ManagerTypes
    <3>3. Accepts(TRUE)
      BY <2>2 DEF Accepts, Synchronised
    <3>4. lockActive' = TRUE
      BY <1>18, <3>3 DEF LockScreen, TypeOK, ManagerTypes
    <3>5. mActive' = TRUE
      BY <3>1, <3>3 DEF SetActiveTo, ListenerSetActive, ManagerActivate
    <3> QED BY <3>1, <3>2, <3>4, <3>5, SetActiveToIInv
  <2> QED BY <2>1, <2>2
<1>19. ASSUME Quit PROVE IInv'
  <2>1. running' \in BOOLEAN /\ mgrQ' \in Seq(Causes)
    BY <1>19 DEF Quit, TypeOK, ManagerTypes
  <2> QED BY <1>19, <2>1, SetActiveToIInv DEF Quit
<1>20. ASSUME IdleActivates PROVE IInv'
  <2>1. /\ UNCHANGED <<running, prefs, lockEnabled, activationEnabled, status,
                       lockActive, dialogUp, mgrQ, dialog, response, emitQ,
                       orphans, releaseTimer, fade>>
        /\ lActive' = TRUE /\ sessionIdle' = TRUE /\ announced' = TRUE
        /\ mActive' = TRUE /\ lockTimer' = TRUE /\ unfadeTimer' = TRUE
        /\ unmapped' = TRUE /\ grab' \in {grab, "screen"} /\ endedBy' = "none"
        /\ wActive' = FALSE /\ wIdle' = TRUE /\ wNotice' = FALSE
        /\ idleTimer' = FALSE
    BY <1>20 DEF IdleActivates, ListenerSetActive, ManagerActivate, ShowWindow,
                 Announce
  <2>2. SettingTypes' /\ ListenerTypes' /\ WatcherTypes'
    BY <2>1 DEF TypeOK, SettingTypes, ListenerTypes, WatcherTypes
  <2>3. ManagerTypes' /\ WindowTypes'
    BY <2>1 DEF TypeOK, ManagerTypes, WindowTypes
  <2>4. SeatTypes'
    BY <2>1 DEF TypeOK, SeatTypes
  <2>5. Synchronised' /\ InactiveIsClean' /\ DialogOnlyWhenLocked'
        /\ GrabHasOwner' /\ NoDarkDesktop'
    BY <2>1 DEF Synchronised, InactiveIsClean, DialogOnlyWhenLocked,
                GrabHasOwner, NoDarkDesktop
  <2> QED BY <2>2, <2>3, <2>4, <2>5 DEF TypeOK
<1>21. ASSUME NEW p \in PrefSpace, PrefsChanged(p) PROVE IInv'
  <2>1. p \in PrefType /\ lockEnabled' \in BOOLEAN
        /\ activationEnabled' \in BOOLEAN
    BY <1>21 DEF PrefsChanged, PrefType
  <2>2. /\ lockActive' \in BOOLEAN /\ lockTimer' \in BOOLEAN
        /\ ~mActive => UNCHANGED <<lockActive, lockTimer>>
        /\ lockActive => lockActive'
    BY <1>21, <2>1 DEF PrefsChanged, SetLockTimeout, TypeOK, ManagerTypes
  <2>3. UNCHANGED <<wActive, wIdle, wNotice>>
    BY <1>21 DEF PrefsChanged, SetWatcher, TypeOK, WatcherTypes, Synchronised
  <2>4. SettingTypes' /\ ListenerTypes' /\ WatcherTypes'
    BY <1>21, <2>1, <2>3 DEF PrefsChanged, TypeOK, SettingTypes, ListenerTypes,
                             WatcherTypes
  <2>5. ManagerTypes' /\ WindowTypes' /\ SeatTypes'
    BY <1>21, <2>2 DEF PrefsChanged, TypeOK, ManagerTypes, WindowTypes,
                       SeatTypes
  <2>6. Synchronised' /\ InactiveIsClean' /\ DialogOnlyWhenLocked'
        /\ GrabHasOwner' /\ NoDarkDesktop'
    BY <1>21, <2>2, <2>3 DEF PrefsChanged, Synchronised, InactiveIsClean,
                             DialogOnlyWhenLocked, GrabHasOwner, NoDarkDesktop
  <2> QED BY <2>4, <2>5, <2>6 DEF TypeOK
<1>22. CASE UNCHANGED vars
  <2>1. TypeOK'
    BY <1>22 DEF vars, TypeOK, SettingTypes, ListenerTypes, WatcherTypes,
                 ManagerTypes, WindowTypes, SeatTypes
  <2>2. Synchronised' /\ InactiveIsClean' /\ DialogOnlyWhenLocked'
        /\ GrabHasOwner' /\ NoDarkDesktop'
    BY <1>22 DEF vars, Synchronised, InactiveIsClean, DialogOnlyWhenLocked,
                 GrabHasOwner, NoDarkDesktop
  <2> QED BY <2>1, <2>2
<1>23. CASE User
  BY <1>23, <1>1, <1>15 DEF User, WindowActivity, SimulateUserActivity,
                            ShowMessage
<1>24. CASE Request
  BY <1>24, <1>6, <1>7, <1>8, <1>17, <1>18, <1>19, <1>21 DEF Request, Lock,
     PrepareForSleep
<1>25. CASE Loop
  BY <1>25, <1>2, <1>3, <1>4, <1>5, <1>9, <1>10, <1>11, <1>12, <1>13, <1>14,
     <1>16, <1>20 DEF Loop, OnIdleTimeout
<1> QED BY <1>22, <1>23, <1>24, <1>25 DEF Next

\* The conjunction of the invariants holds throughout.
THEOREM Invariance == Spec => []IInv
<1>1. Init => IInv
  BY InitIInv
<1>2. IInv /\ [Next]_vars => IInv'
  BY NextIInv
<1> QED BY <1>1, <1>2, PTL DEF Spec

\* Every variable keeps its type.
THEOREM TypeCorrect == Spec => []TypeOK
<1>1. IInv => TypeOK
  BY DEF IInv
<1> QED BY <1>1, Invariance, PTL

\* GSListener, GSWatcher and GSManager agree on whether the screen is up and
\* the bus knows it, so that no request is refused for ever.
THEOREM AlwaysSynchronised == Spec => []Synchronised
<1>1. IInv => Synchronised
  BY DEF IInv
<1> QED BY <1>1, Invariance, PTL

\* Nothing of an activation outlives gs_manager_deactivate.
THEOREM AlwaysCleanWhenInactive == Spec => []InactiveIsClean
<1>1. IInv => InactiveIsClean
  BY DEF IInv
<1> QED BY <1>1, Invariance, PTL

\* A dialog is up only on a locked screen, and the manager knows of it.
THEOREM DialogsOnlyWhenLocked == Spec => []DialogOnlyWhenLocked
<1>1. IInv => DialogOnlyWhenLocked
  BY DEF IInv
<1> QED BY <1>1, Invariance, PTL

\* The seat is never held on an inactive screen without something due that
\* gives it back.
THEOREM GrabAlwaysOwned == Spec => []GrabHasOwner
<1>1. IInv => GrabHasOwner
  BY DEF IInv
<1> QED BY <1>1, Invariance, PTL

\* The desktop is never dark without a notice whose timer runs.
THEOREM NeverDarkDesktop == Spec => []NoDarkDesktop
<1>1. IInv => NoDarkDesktop
  BY DEF IInv
<1> QED BY <1>1, Invariance, PTL

\* A locked screen stays locked but in a step that ends it, announces that,
\* and has been requested or was queued.
LEMMA LockStep ==
    ASSUME IInv, [Next]_vars, lockActive, ~lockActive'
    PROVE  /\ ~mActive' /\ announced' = FALSE
           /\ endedBy' = "request" \/ Pending(endedBy')
<1> USE DEF IInv, TypeOK, ManagerTypes
<1>1. ASSUME NEW on \in BOOLEAN, NEW cause, SetActiveTo(on, cause),
             on => lockActive'
      PROVE  ~mActive' /\ announced' = FALSE /\ endedBy' = cause
  BY <1>1 DEF SetActiveTo, ListenerSetActive, ManagerDeactivate, Announce
<1>2. CASE \E on \in BOOLEAN : SetActive(on)
  BY <1>1, <1>2 DEF SetActive
<1>3. CASE Quit
  BY <1>1, <1>3 DEF Quit
<1>4. CASE WindowDeactivatedIdle
  <2>1. ~mActive' /\ announced' = FALSE /\ endedBy' = Head(mgrQ)
    BY <1>1, <1>4 DEF WindowDeactivatedIdle
  <2>2. 1 \in 1..Len(mgrQ) /\ mgrQ[1] = Head(mgrQ)
    BY <1>4 DEF WindowDeactivatedIdle
  <2> QED BY <2>1, <2>2 DEF Pending
<1>5. CASE LockScreen
  BY <1>5 DEF LockScreen
<1>6. CASE IdleActivates
  BY <1>6 DEF IdleActivates
<1>7. CASE ActivateLockTimeout
  BY <1>7 DEF ActivateLockTimeout, LockWhenDue
<1>8. CASE \E p \in PrefSpace : PrefsChanged(p)
  BY <1>8 DEF PrefsChanged, SetLockTimeout
<1>9. CASE User \/ WindowMapped \/ PopupDialogIdle \/ EmitDeactivatedIdle
           \/ OrphanEmit
  BY <1>9 DEF User, WindowActivity, SimulateUserActivity, ShowMessage, UserActs,
     DialogResponse, WindowMapped, PopupDialogIdle, EmitDeactivatedIdle,
     OrphanEmit, managerVars
<1>10. CASE StatusIdle \/ StatusPresent \/ StatusIgnored \/ IdleUnhandled
            \/ IdleNoted
  BY <1>10 DEF StatusIdle, StatusPresent, StatusIgnored, IdleUnhandled,
     IdleNoted, managerVars
<1>11. CASE ReleaseGrabTimeout \/ FadeFinished \/ UnfadeTimeout
            \/ UNCHANGED vars
  BY <1>11 DEF ReleaseGrabTimeout, FadeFinished, UnfadeTimeout, managerVars,
     vars
<1> QED BY <1>2, <1>3, <1>4, <1>5, <1>6, <1>7, <1>8, <1>9, <1>10, <1>11
        DEF Next, Request, Loop, Lock, PrepareForSleep, OnIdleTimeout

\* No timer, setting, notice or window event unlocks a screen.
THEOREM NeverSilentUnlock == Spec => NoSilentUnlock
<1>1. IInv /\ [Next]_vars =>
        [lockActive /\ ~lockActive' =>
           /\ ~mActive' /\ announced' = FALSE
           /\ endedBy' = "request" \/ Pending(endedBy')]_vars
  BY LockStep
<1> QED BY <1>1, Invariance, PTL DEF Spec, NoSilentUnlock
------------------------------------------------------------------------------
(***************************************************************************)
(* Session implements ScreenSaver, for every value of the constants.  The  *)
(* abstract permissions are the causes in the two queues of idle           *)
(* callbacks, and those that windows of the past have left; a change of a  *)
(* queue is a change of that set, and the lemmas on In say which.          *)
(***************************************************************************)

In(q, c) == \E i \in 1..Len(q) : q[i] = c

\* A cause is pending when it is in either queue, or a past window's.
LEMMA PendingIn ==
    ASSUME NEW c
    PROVE  Pending(c) <=> In(emitQ, c) \/ In(mgrQ, c) \/ c \in orphans
  BY DEF Pending, In

\* The same, a step later.
LEMMA PendingInNext ==
    ASSUME NEW c
    PROVE  Pending(c)' <=> In(emitQ', c) \/ In(mgrQ', c) \/ c \in orphans'
  BY DEF Pending, In

\* The empty queue has no cause.
LEMMA InEmpty == ASSUME NEW c PROVE ~In(<<>>, c)
  BY DEF In

\* What is in a queue after a cause is added.
LEMMA InAppend ==
    ASSUME NEW q \in Seq(Causes), NEW x \in Causes, NEW c
    PROVE  In(Append(q, x), c) <=> In(q, c) \/ c = x
<1>1. /\ Len(Append(q, x)) = Len(q) + 1
      /\ \A i \in 1..Len(q) : Append(q, x)[i] = q[i]
      /\ Append(q, x)[Len(q) + 1] = x
      /\ Len(q) \in Nat
  OBVIOUS
<1>2. ASSUME In(Append(q, x), c) PROVE In(q, c) \/ c = x
  BY <1>1, <1>2 DEF In
<1>3. ASSUME In(q, c) PROVE In(Append(q, x), c)
  BY <1>1, <1>3 DEF In
<1>4. ASSUME c = x PROVE In(Append(q, x), c)
  BY <1>1, <1>4 DEF In
<1> QED BY <1>2, <1>3, <1>4

\* A queue holds its head and what is in its tail.
LEMMA InTail ==
    ASSUME NEW q \in Seq(Causes), q # <<>>, NEW c
    PROVE  In(q, c) <=> In(Tail(q), c) \/ c = Head(q)
<1>1. /\ Len(q) \in Nat \ {0} /\ Len(Tail(q)) = Len(q) - 1
      /\ \A i \in 1..Len(q) - 1 : Tail(q)[i] = q[i + 1]
      /\ Head(q) = q[1]
  OBVIOUS
<1>2. ASSUME In(q, c) PROVE In(Tail(q), c) \/ c = Head(q)
  <2>1. PICK i \in 1..Len(q) : q[i] = c
    BY <1>2 DEF In
  <2>2. CASE i = 1
    BY <1>1, <2>1, <2>2
  <2>3. CASE i # 1
    <3>1. i - 1 \in 1..Len(Tail(q)) /\ Tail(q)[i - 1] = c
      BY <1>1, <2>1, <2>3
    <3> QED BY <3>1 DEF In
  <2> QED BY <2>2, <2>3
<1>3. ASSUME In(Tail(q), c) PROVE In(q, c)
  <2>1. PICK i \in 1..Len(Tail(q)) : Tail(q)[i] = c
    BY <1>3 DEF In
  <2>2. i + 1 \in 1..Len(q) /\ q[i + 1] = c
    BY <1>1, <2>1
  <2> QED BY <2>2 DEF In
<1>4. ASSUME c = Head(q) PROVE In(q, c)
  BY <1>1, <1>4 DEF In
<1> QED BY <1>2, <1>3, <1>4

\* Queues that stay leave the permissions.
LEMMA QueuedStays ==
    ASSUME UNCHANGED <<emitQ, mgrQ, orphans>> PROVE Queued' = Queued
  BY DEF Queued, Pending

\* An activation is one of the abstract screen.
LEMMA UpStep ==
    ASSUME IInv, ListenerSetActive(TRUE), Accepts(TRUE), endedBy' = "none",
           UNCHANGED mgrQ
    PROVE  Abstract!Activate
<1>1. lActive = FALSE /\ lActive' = TRUE /\ announced' = TRUE
      /\ UNCHANGED <<emitQ, orphans>>
  BY DEF ListenerSetActive, Accepts, Announce, ManagerActivate, IInv, TypeOK,
         ListenerTypes
<1>2. Queued' = Queued
  BY <1>1, QueuedStays
<1> QED BY <1>1, <1>2 DEF Abstract!Activate, ScreenState

\* A deactivation with a cause that is permitted ends the abstract screen, and
\* one that finds the screen off is the end of a permission, or nothing.
LEMMA DownStep ==
    ASSUME IInv, NEW cause \in Queued \union {"request"},
           SetActiveTo(FALSE, cause),
           \A c \in Causes : In(mgrQ', c) => In(mgrQ, c)
    PROVE  [Abstract!Next]_Abstract!vars
<1>1. CASE Accepts(FALSE)
  <2>1. /\ lActive = TRUE /\ lActive' = FALSE /\ announced' = FALSE
        /\ endedBy' = cause /\ emitQ' = <<>>
        /\ orphans' = orphans \union {emitQ[i] : i \in DOMAIN emitQ}
    BY <1>1 DEF SetActiveTo, ListenerSetActive, Accepts, Announce,
                ManagerDeactivate, DestroyWindows, IInv, TypeOK, ListenerTypes
  <2>2. ASSUME NEW c \in orphans' PROVE c \in orphans \/ In(emitQ, c)
    <3>1. DOMAIN emitQ = 1..Len(emitQ)
      BY DEF IInv, TypeOK, WindowTypes
    <3> QED BY <2>1, <2>2, <3>1 DEF In
  <2>3. Queued' \subseteq Queued
    BY <2>1, <2>2, PendingIn, PendingInNext, InEmpty DEF Queued
  <2> QED BY <2>1, <2>3 DEF Abstract!Next, Abstract!End, ScreenState
<1>2. CASE ~Accepts(FALSE)
  <2>1. lActive = FALSE
    BY <1>2 DEF Accepts, IInv, Synchronised, TypeOK, ListenerTypes
  <2>2. UNCHANGED <<lActive, announced, endedBy, emitQ, orphans>>
    BY <1>2 DEF SetActiveTo, ListenerSetActive, windowVars
  <2>3. Queued' \subseteq Queued
    BY <2>2, PendingIn, PendingInNext DEF Queued
  <2> QED BY <2>1, <2>2, <2>3 DEF Abstract!Next, Abstract!Expire, ScreenState
<1> QED BY <1>1, <1>2

\* A step that only raises the lock flag, of a screen that is up or of none.
LEMMA FlagStep ==
    ASSUME UNCHANGED <<lActive, announced, endedBy, emitQ, mgrQ, orphans>>,
           lockActive => lockActive'
    PROVE  [Abstract!Next]_Abstract!vars
<1>1. Queued' = Queued
  BY QueuedStays
<1>2. CASE ScreenState' = ScreenState
  BY <1>1, <1>2 DEF Abstract!vars
<1>3. CASE ScreenState' # ScreenState
  <2>1. ScreenState = "blank" /\ ScreenState' = "locked"
    BY <1>3 DEF ScreenState
  <2> QED BY <1>1, <2>1 DEF Abstract!Next, Abstract!Lock
<1> QED BY <1>2, <1>3

\* Every step of the daemon is one of the abstract screen, or none.
LEMMA NextImplements ==
    ASSUME IInv, [Next]_vars PROVE [Abstract!Next]_Abstract!vars
<1> USE DEF prefVars, listenerVars, watcherState, watcherVars, managerVars,
            windowVars, monitorVars
<1>1. ASSUME UserActs PROVE [Abstract!Next]_Abstract!vars
  <2>1. UNCHANGED <<lActive, announced, endedBy, lockActive, mgrQ, orphans>>
    BY <1>1 DEF UserActs, RequestUnlock
  <2>2. CASE UNCHANGED emitQ
    BY <2>1, <2>2, FlagStep
  <2>3. CASE mActive /\ ~lockActive /\ emitQ' = Append(emitQ, "activity")
    <3>1. lActive
      BY <2>3 DEF IInv, Synchronised
    <3>2. emitQ \in Seq(Causes) /\ "activity" \in Causes
      BY DEF IInv, TypeOK, WindowTypes, Causes
    <3>3. Queued' = Queued \union {"activity"}
      BY <2>1, <2>3, <3>2, PendingIn, PendingInNext, InAppend DEF Queued
    <3> QED BY <2>1, <2>3, <3>1, <3>3 DEF Abstract!Next, Abstract!Activity,
                                          ScreenState
  <2> QED BY <1>1, <2>2, <2>3 DEF UserActs, RequestUnlock, QueueEmit,
                                  NeedsAuthentication
<1>2. ASSUME NEW r \in {"ok", "cancel", "gone"}, DialogResponse(r)
      PROVE  [Abstract!Next]_Abstract!vars
  <2>1. UNCHANGED <<lActive, announced, endedBy, lockActive, mgrQ, orphans>>
    BY <1>2 DEF DialogResponse
  <2>2. CASE UNCHANGED emitQ
    BY <2>1, <2>2, FlagStep
  <2>3. CASE emitQ' = Append(emitQ, "auth")
    <3>1. lActive /\ lockActive
      BY <1>2 DEF DialogResponse, IInv, Synchronised, InactiveIsClean,
                  DialogOnlyWhenLocked
    <3>2. emitQ \in Seq(Causes) /\ "auth" \in Causes
      BY DEF IInv, TypeOK, WindowTypes, Causes
    <3>3. Queued' = Queued \union {"auth"}
      BY <2>1, <2>3, <3>2, PendingIn, PendingInNext, InAppend DEF Queued
    <3> QED BY <2>1, <3>1, <3>3 DEF Abstract!Next, Abstract!Authenticate,
                                    ScreenState
  <2> QED BY <1>2, <2>2, <2>3 DEF DialogResponse, QueueEmit
<1>3. ASSUME EmitDeactivatedIdle PROVE [Abstract!Next]_Abstract!vars
  <2>1. /\ UNCHANGED <<lActive, announced, endedBy, lockActive, orphans>>
        /\ emitQ # <<>> /\ emitQ' = Tail(emitQ)
        /\ mgrQ' = Append(mgrQ, Head(emitQ))
    BY <1>3 DEF EmitDeactivatedIdle, ManagerQueues
  <2>2. emitQ \in Seq(Causes) /\ mgrQ \in Seq(Causes) /\ Head(emitQ) \in Causes
    BY <2>1, QueueHeadTail DEF IInv, TypeOK, WindowTypes, ManagerTypes
  <2>3. Queued' = Queued
    BY <2>1, <2>2, PendingIn, PendingInNext, InAppend, InTail DEF Queued
  <2> QED BY <2>1, <2>3 DEF Abstract!vars, ScreenState
<1>4. ASSUME WindowDeactivatedIdle PROVE [Abstract!Next]_Abstract!vars
  <2>1. mgrQ # <<>> /\ mgrQ' = Tail(mgrQ) /\ SetActiveTo(FALSE, Head(mgrQ))
    BY <1>4 DEF WindowDeactivatedIdle
  <2>2. mgrQ \in Seq(Causes) /\ Head(mgrQ) \in Causes
    BY <2>1, QueueHeadTail DEF IInv, TypeOK, ManagerTypes
  <2>3. Head(mgrQ) \in Queued
    BY <2>1, <2>2, InTail, PendingIn DEF Queued
  <2>4. \A c \in Causes : In(mgrQ', c) => In(mgrQ, c)
    BY <2>1, <2>2, InTail
  <2> QED BY <2>1, <2>3, <2>4, DownStep
<1>5. ASSUME SetActiveTo(TRUE, "request"), UNCHANGED mgrQ,
             lockActive => lockActive'
      PROVE  [Abstract!Next]_Abstract!vars
  <2>1. CASE Accepts(TRUE)
    <3>1. ListenerSetActive(TRUE) /\ endedBy' = "none"
      BY <1>5, <2>1 DEF SetActiveTo
    <3> QED BY <1>5, <2>1, <3>1, UpStep DEF Abstract!Next
  <2>2. CASE ~Accepts(TRUE)
    BY <1>5, <2>2, FlagStep DEF SetActiveTo, ListenerSetActive
  <2> QED BY <2>1, <2>2
<1>6. ASSUME SetActiveTo(FALSE, "request"), UNCHANGED mgrQ
      PROVE  [Abstract!Next]_Abstract!vars
  BY <1>6, DownStep
<1>7. ASSUME LockScreen PROVE [Abstract!Next]_Abstract!vars
  <2>1. (lockActive => lockActive') /\ UNCHANGED mgrQ
    BY <1>7 DEF LockScreen, IInv, TypeOK, ManagerTypes
  <2>2. CASE mActive
    BY <1>7, <2>1, <2>2, FlagStep DEF LockScreen
  <2>3. CASE ~mActive
    BY <1>7, <2>1, <2>3, <1>5 DEF LockScreen
  <2> QED BY <2>2, <2>3
<1>8. ASSUME IdleActivates PROVE [Abstract!Next]_Abstract!vars
  BY <1>8, UpStep DEF IdleActivates, Abstract!Next
<1>9. ASSUME NEW p \in PrefSpace, PrefsChanged(p)
      PROVE  [Abstract!Next]_Abstract!vars
  <2>1. lockActive => lockActive'
    BY <1>9 DEF PrefsChanged, SetLockTimeout
  <2> QED BY <1>9, <2>1, FlagStep DEF PrefsChanged
<1>10. ASSUME \/ WindowMapped \/ PopupDialogIdle \/ StatusIdle \/ StatusPresent
              \/ StatusIgnored \/ IdleUnhandled \/ IdleNoted
              \/ ReleaseGrabTimeout \/ FadeFinished \/ UnfadeTimeout
              \/ ActivateLockTimeout \/ UNCHANGED vars
       PROVE  [Abstract!Next]_Abstract!vars
  <2>1. UNCHANGED <<lActive, announced, endedBy, emitQ, mgrQ, orphans>>
    BY <1>10 DEF WindowMapped, PopupDialogIdle, StatusIdle,
       StatusPresent, StatusIgnored, IdleUnhandled, IdleNoted,
       ReleaseGrabTimeout, FadeFinished, UnfadeTimeout, ActivateLockTimeout,
       LockWhenDue, vars
  <2>2. lockActive => lockActive'
    BY <1>10 DEF WindowMapped, PopupDialogIdle, StatusIdle,
       StatusPresent, StatusIgnored, IdleUnhandled, IdleNoted,
       ReleaseGrabTimeout, FadeFinished, UnfadeTimeout, ActivateLockTimeout,
       LockWhenDue, vars
  <2> QED BY <2>1, <2>2, FlagStep
<1>11. CASE User
  BY <1>11, <1>1, <1>2 DEF User, WindowActivity, SimulateUserActivity,
                           ShowMessage
<1>12. CASE \E on \in BOOLEAN : SetActive(on)
  <2>1. CASE SetActive(TRUE)
    BY <2>1, <1>5 DEF SetActive
  <2>2. CASE SetActive(FALSE)
    BY <2>2, <1>6 DEF SetActive
  <2> QED BY <1>12, <2>1, <2>2
<1>13. CASE Quit
  BY <1>13, <1>6 DEF Quit
<1>14. CASE Lock \/ PrepareForSleep
  BY <1>14, <1>7 DEF Lock, PrepareForSleep
<1>15. ASSUME OrphanEmit PROVE [Abstract!Next]_Abstract!vars
  <2>1. PICK c \in orphans :
          /\ orphans' \in {orphans, orphans \ {c}}
          /\ UNCHANGED mgrQ \/ mgrQ' = Append(mgrQ, c)
    BY <1>15 DEF OrphanEmit, ManagerQueues
  <2>2. UNCHANGED <<lActive, announced, endedBy, lockActive, emitQ>>
    BY <1>15 DEF OrphanEmit
  <2>3. mgrQ \in Seq(Causes) /\ c \in Causes
    BY <2>1 DEF IInv, TypeOK, ManagerTypes, WindowTypes
  <2>4. ASSUME NEW d \in Causes, In(mgrQ', d)
        PROVE  In(mgrQ, d) \/ d \in orphans
    <3>1. CASE UNCHANGED mgrQ
      BY <2>4, <3>1
    <3>2. CASE mgrQ' = Append(mgrQ, c)
      <4>1. In(mgrQ, d) \/ d = c
        BY <2>3, <2>4, <3>2, InAppend
      <4> QED BY <2>1, <4>1
    <3> QED BY <2>1, <3>1, <3>2
  <2>5. Queued' \subseteq Queued
    BY <2>1, <2>2, <2>4, PendingIn, PendingInNext DEF Queued
  <2> QED BY <2>2, <2>5 DEF Abstract!Next, Abstract!Expire, ScreenState
<1> QED BY <1>3, <1>4, <1>8, <1>9, <1>10, <1>11, <1>12, <1>13, <1>14, <1>15
        DEF Next, Request, Loop, OnIdleTimeout

\* Seen from the session, the daemon is a ScreenSaver: whatever the order of
\* its callbacks, the screen changes as ScreenSaver says, and ends only by a
\* request or by a permission given while the screen was blank or locked.
THEOREM Implementation == Spec => ImplementsScreenSaver
<1>1. Init => Abstract!Init
  <2>1. Init => Queued = {}
    BY DEF Init, Queued, Pending
  <2> QED BY <2>1 DEF Init, Abstract!Init, ScreenState
<1>2. IInv /\ [Next]_vars => [Abstract!Next]_Abstract!vars
  BY NextImplements
<1> QED BY <1>1, <1>2, Invariance, PTL DEF Spec, ImplementsScreenSaver,
                                         Abstract!Spec
==============================================================================
