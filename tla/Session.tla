------------------------------- MODULE Session -------------------------------
(***************************************************************************)
(* The daemon's coordination: GSMonitor and the objects it joins by        *)
(* synchronous signals -- GSListener (the bus), GSWatcher (idleness),      *)
(* GSManager (the screen) and the shared GSGrab and GSFade.  One action is *)
(* one callback of the GLib main loop, with every signal handler it runs.  *)
(* The windows are one here; LockScreen has them one by one, and Grab has  *)
(* the attempts behind one change of the grab.                             *)
(***************************************************************************)
EXTENDS Naturals, Sequences, FiniteSets

CONSTANTS
    LockTimeouts,  \* the values of the lock delay
    PrefSpace,     \* the settings the user may have
    MaxPending     \* bound on the idle callbacks queued at once

PrefKeys == {"lockEnabled", "lockDisabled", "idleActivation", "lockTimeout"}
PrefType == [lockEnabled : BOOLEAN, lockDisabled : BOOLEAN,
             idleActivation : BOOLEAN, lockTimeout : LockTimeouts]
Causes == {"activity", "auth"}

ASSUME TimeoutAssumption == LockTimeouts \subseteq Nat
ASSUME PrefAssumption == PrefSpace \subseteq PrefType
ASSUME BoundAssumption == MaxPending \in Nat \ {0}

VARIABLES
    running,            \* the main loop runs
    prefs,              \* GSPrefs
    \* GSListener
    lActive,            \* listener->priv->active
    sessionIdle,        \* listener->priv->session_idle
    activationEnabled,  \* listener->priv->activation_enabled
    announced,          \* the last ActiveChanged it sent
    \* GSWatcher
    wActive,            \* watcher->priv->active
    wIdle,              \* watcher->priv->idle
    wNotice,            \* watcher->priv->idle_notice
    idleTimer,          \* the source behind watcher->priv->idle_id is live
    status,             \* the last StatusChanged of the session manager
    \* GSManager
    mActive,            \* manager->priv->active
    lockActive,         \* manager->priv->lock_active, and each window's copy
    lockEnabled,        \* manager->priv->lock_enabled
    lockTimer,          \* manager->priv->lock_timeout_id # 0
    unfadeTimer,        \* manager->priv->unfade_idle_id # 0
    dialogUp,           \* manager->priv->dialog_up
    mgrQ,               \* window_deactivated_idle callbacks queued, by cause
    \* GSWindow, the one at the pointer
    dialog,             \* its dialog: "none", "starting", "running", "failed"
    response,           \* its dialog_response: "cancel" (also at first), "ok"
    unmapped,           \* it is shown and its map event has not come
    emitQ,              \* emit_deactivated_idle callbacks queued, by cause
    orphans,            \* causes of queued emit_deactivated_idle of past windows
    endedBy,            \* what ended the last activation (history)
    \* GSMonitor, GSGrab and GSFade
    releaseTimer,       \* monitor->priv->release_grab_id # 0
    grab,               \* the window GSGrab holds the seat with, or "none"
    fade                \* the screen: "clear", "fading" or "dark"

prefVars == <<prefs, lockEnabled, activationEnabled>>
listenerVars == <<lActive, sessionIdle, announced>>
watcherState == <<wActive, wIdle, wNotice>>
watcherVars == <<watcherState, idleTimer, status>>
managerVars == <<mActive, lockActive, lockTimer, unfadeTimer, dialogUp>>
windowVars == <<dialog, response, unmapped, emitQ, orphans>>
monitorVars == <<releaseTimer, grab, fade>>
vars == <<running, prefVars, listenerVars, watcherVars, managerVars, mgrQ,
          windowVars, endedBy, monitorVars>>

SettingTypes ==
    /\ running \in BOOLEAN /\ prefs \in PrefType
    /\ lockEnabled \in BOOLEAN /\ activationEnabled \in BOOLEAN
ListenerTypes ==
    /\ lActive \in BOOLEAN /\ sessionIdle \in BOOLEAN /\ announced \in BOOLEAN
    /\ endedBy \in Causes \union {"none", "request"}
WatcherTypes ==
    /\ wActive \in BOOLEAN /\ wIdle \in BOOLEAN /\ wNotice \in BOOLEAN
    /\ idleTimer \in BOOLEAN /\ status \in {"present", "idle"}
ManagerTypes ==
    /\ mActive \in BOOLEAN /\ lockActive \in BOOLEAN /\ dialogUp \in BOOLEAN
    /\ lockTimer \in BOOLEAN /\ unfadeTimer \in BOOLEAN /\ mgrQ \in Seq(Causes)
WindowTypes ==
    /\ dialog \in {"none", "starting", "running", "failed"}
    /\ response \in {"cancel", "ok"} /\ unmapped \in BOOLEAN
    /\ emitQ \in Seq(Causes) /\ orphans \subseteq Causes
SeatTypes ==
    /\ releaseTimer \in BOOLEAN
    /\ grab \in {"none", "offscreen", "screen"}
    /\ fade \in {"clear", "fading", "dark"}

\* Every variable has its type.
TypeOK ==
    /\ SettingTypes /\ ListenerTypes /\ WatcherTypes
    /\ ManagerTypes /\ WindowTypes /\ SeatTypes
------------------------------------------------------------------------------
(* GSManager: the screen goes up and down. *)

ShowWindowWithoutUnfade ==
    /\ lockTimer' = TRUE
    /\ unmapped' = TRUE
    /\ UNCHANGED unfadeTimer

\* manager_show_window, on every window shown.  A lock delay is never negative.
ShowWindow ==
    /\ lockTimer' = TRUE
    /\ unfadeTimer' = TRUE
    /\ unmapped' = TRUE

\* gs_manager_activate: take the seat for the root window (a grab that fails
\* is not reported) and show the windows, which stands for create and show.
ManagerActivate ==
    /\ mActive' = TRUE
    /\ grab' \in {grab, "screen"}
    /\ ShowWindow
    /\ UNCHANGED <<dialogUp, dialog, response, emitQ, orphans, fade>>

TimersSurvive == UNCHANGED <<lockTimer, unfadeTimer>>
RemoveTimers == lockTimer' = FALSE /\ unfadeTimer' = FALSE

FadeSurvives == UNCHANGED fade
FadeReset == fade' = "clear"

GrabSurvives == UNCHANGED grab
GrabRelease == grab' = "none"

DialogSurvives ==
    /\ response' = "cancel"
    /\ unmapped' = FALSE
    /\ emitQ' = <<>>
    /\ orphans' = orphans \union {emitQ[i] : i \in DOMAIN emitQ}
    /\ UNCHANGED dialog

\* gs_manager_destroy_windows: the dialog is killed, and every source of the
\* window is removed but for a queued emit_deactivated_idle.  (A dialog that
\* goes down takes the seat for its window, which is destroyed next.)
DestroyWindows ==
    /\ dialog' = "none"
    /\ response' = "cancel"
    /\ unmapped' = FALSE
    /\ emitQ' = <<>>
    /\ orphans' = orphans \union {emitQ[i] : i \in DOMAIN emitQ}

\* gs_manager_deactivate.
ManagerDeactivate ==
    /\ RemoveTimers
    /\ FadeReset
    /\ GrabRelease
    /\ DestroyWindows
    /\ mActive' = FALSE
    /\ lockActive' = FALSE
    /\ dialogUp' = FALSE
------------------------------------------------------------------------------
(* GSWatcher and GSListener, as far as others call into them. *)

SetWatcherLatched(on) ==
    /\ wActive' = (wActive /\ on)
    /\ wIdle' = FALSE
    /\ wNotice' = FALSE

\* gs_watcher_set_active: a change of state forgets idleness and notice, and
\* not the timer.
SetWatcher(on) ==
    /\ wActive' = on
    /\ wIdle' = (wIdle /\ wActive = on)
    /\ wNotice' = (wNotice /\ wActive = on)

\* ACTIVE_CHANGED is emitted, and the manager takes the new state.
Accepts(on) == lActive # on /\ mActive # on

AnnounceOnce(on) == announced' = (announced \/ on)
Announce(on) == announced' = on

\* gs_listener_set_active, with listener_active_changed_cb up to the watcher.
\* Idleness follows the state; a refused activation forgets idleness.  Of the
\* manager's lock flag it says only what a deactivation does to it.
ListenerSetActive(on) ==
    \/ /\ Accepts(on)
       /\ lActive' = on
       /\ sessionIdle' = on
       /\ Announce(on)
       /\ IF on THEN ManagerActivate ELSE ManagerDeactivate
    \/ /\ ~Accepts(on)
       /\ sessionIdle' = (sessionIdle /\ (lActive = on \/ ~on))
       /\ UNCHANGED <<lActive, announced, mActive, lockTimer, unfadeTimer,
                      dialogUp, windowVars, grab, fade>>
       /\ on \/ UNCHANGED lockActive

\* The whole of a change of state as a caller outside the watcher makes it:
\* the watcher is switched only when the manager has followed.
SetActiveTo(on, cause) ==
    /\ ListenerSetActive(on)
    /\ IF Accepts(on)
       THEN SetWatcher(~on) /\ endedBy' = (IF on THEN "none" ELSE cause)
       ELSE UNCHANGED <<watcherState, endedBy>>
    /\ UNCHANGED <<prefVars, idleTimer, status, releaseTimer>>
------------------------------------------------------------------------------
(* The end of an activation, as somebody at the screen brings it about. *)

\* One more idle callback is queued; the bound is on both queues, and on what
\* past windows have left.
QueueEmit(cause) ==
    /\ Len(emitQ) + Len(mgrQ) + Cardinality(orphans) < MaxPending
    /\ emitQ' = Append(emitQ, cause)

NeedsNoAuthentication == FALSE

\* gs_window_request_unlock's question, window->priv->lock_enabled.
NeedsAuthentication == lockActive

\* gs_manager_request_unlock and gs_window_request_unlock.  A screen that is
\* not locked ends as soon as the main loop is idle; a locked one gets its
\* dialog, for which the seat is let go.
RequestUnlock ==
    \/ /\ ~mActive \/ dialogUp \/ dialog # "none"
       /\ UNCHANGED <<dialogUp, windowVars, grab>>
    \/ /\ mActive /\ ~dialogUp /\ dialog = "none"
       /\ ~NeedsAuthentication
       /\ QueueEmit("activity")
       /\ UNCHANGED <<dialogUp, dialog, response, unmapped, orphans, grab>>
    \/ /\ mActive /\ ~dialogUp /\ dialog = "none"
       /\ NeedsAuthentication
       /\ dialogUp' = TRUE
       /\ dialog' = "starting"
       /\ grab' = "none"
       /\ UNCHANGED <<response, unmapped, emitQ, orphans>>

UserActs ==
    /\ RequestUnlock
    /\ UNCHANGED <<running, prefVars, listenerVars, watcherVars, mActive,
                   lockActive, lockTimer, unfadeTimer, mgrQ, endedBy,
                   releaseTimer, fade>>

\* A key, button, scroll or far enough motion on a shown window.
WindowActivity == running /\ mActive /\ UserActs

\* SimulateUserActivity on the bus, or logind says our session is in front.
SimulateUserActivity == running /\ UserActs

\* ShowMessage on the bus, ignored unless active.
ShowMessage == running /\ lActive /\ UserActs

\* window_map_event_cb: the window is on the screen and takes the seat.
WindowMapped ==
    /\ running /\ unmapped
    /\ unmapped' = FALSE
    /\ grab' = "screen"
    /\ UNCHANGED <<running, prefVars, listenerVars, watcherVars, managerVars,
                   mgrQ, dialog, response, emitQ, orphans, endedBy,
                   releaseTimer, fade>>

\* popup_dialog_idle: the dialog process starts, or cannot be spawned.
PopupDialogIdle ==
    /\ running /\ dialog = "starting"
    /\ dialog' \in {"running", "failed"}
    /\ UNCHANGED <<running, prefVars, listenerVars, watcherVars, managerVars,
                   mgrQ, response, unmapped, emitQ, orphans, endedBy,
                   monitorVars>>

PopdownForgotten ==
    /\ dialog' = "none"
    /\ grab' = "screen"
    /\ UNCHANGED dialogUp

\* popdown_dialog and handle_window_dialog_down: the manager regrabs the seat.
Popdown ==
    /\ dialog' = "none"
    /\ dialogUp' = FALSE
    /\ grab' = "screen"

\* window->priv->dialog_response, which the end of the output leaves.
Answer(r) == IF r = "gone" THEN response ELSE r

\* lock_command_watch, when the dialog answers or is gone: the screen ends if
\* the window's last answer, to this dialog or an earlier one, was OK.
DialogResponse(r) ==
    /\ running /\ dialog = "running"
    /\ response' = Answer(r)
    /\ Popdown
    /\ IF response' = "ok" THEN QueueEmit("auth") ELSE UNCHANGED emitQ
    /\ UNCHANGED <<running, prefVars, listenerVars, watcherVars, mActive,
                   lockActive, lockTimer, unfadeTimer, mgrQ, unmapped, orphans,
                   endedBy, releaseTimer, fade>>

ManagerIgnores(cause) == UNCHANGED mgrQ

\* window_deactivated_cb.
ManagerQueues(cause) == mgrQ' = Append(mgrQ, cause)

\* emit_deactivated_idle: the window tells the manager, which queues the rest.
EmitDeactivatedIdle ==
    /\ running /\ emitQ # <<>>
    /\ emitQ' = Tail(emitQ)
    /\ ManagerQueues(Head(emitQ))
    /\ UNCHANGED <<running, prefVars, listenerVars, watcherVars, managerVars,
                   dialog, response, unmapped, orphans, endedBy, monitorVars>>

\* emit_deactivated_idle of a window that was destroyed: it reads freed memory.
\* The daemon dies, or nothing happens; or a later window is there, and tells the
\* manager.  There may have been several idles of one cause.
OrphanEmit ==
    /\ running
    /\ \E c \in orphans :
         /\ orphans' \in {orphans, orphans \ {c}}
         /\ \/ running' \in BOOLEAN /\ UNCHANGED mgrQ
            \/ /\ mActive /\ Len(emitQ) + Len(mgrQ) < MaxPending
               /\ ManagerQueues(c) /\ UNCHANGED running
    /\ UNCHANGED <<prefVars, listenerVars, watcherVars, managerVars, dialog,
                   response, unmapped, emitQ, endedBy, monitorVars>>

\* window_deactivated_idle and manager_deactivated_cb: the manager's owner
\* deactivates, whatever happened to the screen since the idle was queued.
WindowDeactivatedIdle ==
    /\ running /\ mgrQ # <<>>
    /\ mgrQ' = Tail(mgrQ)
    /\ SetActiveTo(FALSE, Head(mgrQ))
    /\ UNCHANGED running
------------------------------------------------------------------------------
(* Requests from the bus and from logind. *)

\* SetActive on the bus; with on = FALSE also logind's Unlock.
SetActive(on) ==
    /\ running
    /\ SetActiveTo(on, "request")
    /\ on => UNCHANGED lockActive
    /\ UNCHANGED <<running, mgrQ>>

\* gs_monitor_lock_screen: the flag is raised first, and taken back when the
\* activation is refused.
LockScreen ==
    /\ lockActive' = (lockActive \/ mActive \/ Accepts(TRUE))
    /\ IF mActive
       THEN UNCHANGED <<prefVars, listenerVars, watcherVars, mActive, lockTimer,
                        unfadeTimer, dialogUp, windowVars, endedBy, monitorVars>>
       ELSE SetActiveTo(TRUE, "request")
    /\ UNCHANGED <<running, mgrQ>>

\* Lock on the bus and logind's Lock.
Lock == running /\ ~prefs.lockDisabled /\ LockScreen

\* logind's PrepareForSleep.
PrepareForSleep ==
    running /\ ~prefs.lockDisabled /\ prefs.lockEnabled /\ LockScreen

\* Quit on the bus: the screen is ended and the main loop left.
Quit ==
    /\ running
    /\ running' = FALSE
    /\ SetActiveTo(FALSE, "request")
    /\ UNCHANGED mgrQ
------------------------------------------------------------------------------
(* GSWatcher: the session manager's status and the idle timer. *)

CancelNoticeLeavesFade ==
    /\ wNotice' = FALSE
    /\ releaseTimer' = TRUE
    /\ UNCHANGED fade

\* _gs_watcher_set_session_idle_notice (FALSE) with watcher_idle_notice_cb, on
\* a screen that is off: the fade is taken back, the seat let go a second later.
CancelNotice ==
    /\ wNotice' = FALSE
    /\ fade' = "clear"
    /\ releaseTimer' = TRUE

\* The same as part of a handler: nothing without a notice, and the fade and
\* the seat are left to an active screen.
EndNotice ==
    IF wNotice /\ ~mActive
    THEN CancelNotice
    ELSE wNotice' = FALSE /\ UNCHANGED <<fade, releaseTimer>>

\* set_status, idle: the notice starts the fade if the screen may activate
\* (the seat is taken, and a failure not reported); the timer starts anyway.
StatusIdle ==
    /\ running /\ wActive
    /\ status' = "idle"
    /\ idleTimer' = TRUE
    /\ IF ~wNotice /\ activationEnabled
       THEN wNotice' = TRUE /\ grab' \in {grab, "offscreen"} /\ fade' = "fading"
       ELSE UNCHANGED <<wNotice, grab, fade>>
    /\ UNCHANGED <<running, prefVars, listenerVars, wActive, wIdle, managerVars,
                   mgrQ, windowVars, endedBy, releaseTimer>>

\* set_status, not idle: nothing unless a notice is in effect; else the timer
\* is removed, idleness withdrawn and the notice too.
StatusPresent ==
    /\ running /\ wActive
    /\ status' = "present"
    /\ IF wNotice
       THEN /\ idleTimer' = FALSE
            /\ wIdle' = (wIdle /\ ~sessionIdle)
            /\ sessionIdle' = (sessionIdle /\ ~wIdle)
            /\ EndNotice
       ELSE UNCHANGED <<idleTimer, wIdle, sessionIdle, wNotice, fade,
                        releaseTimer>>
    /\ UNCHANGED <<running, prefVars, lActive, announced, wActive, managerVars,
                   mgrQ, windowVars, endedBy, grab>>

\* set_status while the watcher is off.
StatusIgnored ==
    /\ running /\ ~wActive
    /\ status' \in {"present", "idle"}
    /\ UNCHANGED <<running, prefVars, listenerVars, watcherState, idleTimer,
                   managerVars, mgrQ, windowVars, endedBy, monitorVars>>

\* on_idle_timeout, the idleness not taken over by the listener: the notice
\* ends, and the timer goes on.
IdleUnhandled ==
    /\ running /\ idleTimer
    /\ wIdle \/ sessionIdle \/ (activationEnabled /\ ~Accepts(TRUE))
    /\ EndNotice
    /\ UNCHANGED <<running, prefVars, listenerVars, wActive, wIdle, idleTimer,
                   status, managerVars, mgrQ, windowVars, endedBy, grab>>

\* on_idle_timeout, idleness noted but activation off.
IdleNoted ==
    /\ running /\ idleTimer
    /\ ~wIdle /\ ~sessionIdle /\ ~activationEnabled
    /\ sessionIdle' = TRUE
    /\ wIdle' = TRUE
    /\ idleTimer' = FALSE
    /\ EndNotice
    /\ UNCHANGED <<running, prefVars, lActive, announced, wActive, status,
                   managerVars, mgrQ, windowVars, endedBy, grab>>

\* on_idle_timeout, and the screen activates; idleness is noted in the watcher
\* after the activation has reset it.
IdleActivates ==
    /\ running /\ idleTimer
    /\ ~wIdle /\ ~sessionIdle /\ activationEnabled
    /\ Accepts(TRUE) /\ ListenerSetActive(TRUE)
    /\ wActive' = FALSE
    /\ wIdle' = TRUE
    /\ wNotice' = FALSE
    /\ idleTimer' = FALSE
    /\ endedBy' = "none"
    /\ UNCHANGED <<running, prefVars, status, lockActive, mgrQ, releaseTimer>>

OnIdleTimeout == IdleUnhandled \/ IdleNoted \/ IdleActivates
------------------------------------------------------------------------------
(* The other timers. *)

\* release_grab_timeout.
ReleaseGrabTimeout ==
    /\ running /\ releaseTimer
    /\ releaseTimer' = FALSE
    /\ IF mActive THEN UNCHANGED grab ELSE GrabRelease
    /\ UNCHANGED <<running, prefVars, listenerVars, watcherVars, managerVars,
                   mgrQ, windowVars, endedBy, fade>>

\* The fade has reached black.
FadeFinished ==
    /\ running /\ fade = "fading"
    /\ fade' = "dark"
    /\ UNCHANGED <<running, prefVars, listenerVars, watcherVars, managerVars,
                   mgrQ, windowVars, endedBy, releaseTimer, grab>>

\* unfade_idle: half a second after the windows are shown.
UnfadeTimeout ==
    /\ running /\ unfadeTimer
    /\ unfadeTimer' = FALSE
    /\ FadeReset
    /\ UNCHANGED <<running, prefVars, listenerVars, watcherVars, mActive,
                   lockActive, lockTimer, dialogUp, mgrQ, windowVars, endedBy,
                   releaseTimer, grab>>

LockAsEnabled == lockEnabled
LockWhenDue == lockActive \/ lockEnabled

\* activate_lock_timeout.
ActivateLockTimeout ==
    /\ running /\ lockTimer
    /\ lockTimer' = FALSE
    /\ lockActive' = LockWhenDue
    /\ UNCHANGED <<running, prefVars, listenerVars, watcherVars, mActive,
                   unfadeTimer, dialogUp, mgrQ, windowVars, endedBy,
                   monitorVars>>

SetLockTimeoutNoTimer(p) ==
    IF p.lockTimeout # prefs.lockTimeout /\ mActive /\ ~lockActive
    THEN lockTimer' = FALSE /\ lockActive' \in {lockActive, lockEnabled'}
    ELSE UNCHANGED <<lockTimer, lockActive>>

\* gs_manager_set_lock_timeout: a new delay counts from the activation; it may
\* be over already, as a delay of zero always is.
SetLockTimeout(p) ==
    IF p.lockTimeout # prefs.lockTimeout /\ mActive /\ ~lockActive
    THEN \/ /\ lockTimer' = FALSE
            /\ lockActive' = lockEnabled'
         \/ /\ p.lockTimeout > 0
            /\ lockTimer' = TRUE
            /\ UNCHANGED lockActive
    ELSE UNCHANGED <<lockTimer, lockActive>>

\* key_changed_cb and _gs_monitor_update_from_prefs: one key has changed.
PrefsChanged(p) ==
    /\ running
    /\ \E k \in PrefKeys : p[k] # prefs[k] /\ p = [prefs EXCEPT ![k] = p[k]]
    /\ prefs' = p
    /\ lockEnabled' = (p.lockEnabled /\ ~p.lockDisabled)
    /\ SetLockTimeout(p)
    /\ activationEnabled' = p.idleActivation
    /\ SetWatcher(wActive \/ ~mActive)
    /\ UNCHANGED <<running, listenerVars, idleTimer, status, mActive,
                   unfadeTimer, dialogUp, mgrQ, windowVars, endedBy,
                   monitorVars>>
------------------------------------------------------------------------------
\* gs_monitor_init and gs_monitor_start: the watcher is switched on after it
\* has asked for the status, whose answer it has ignored.
Init ==
    /\ running = TRUE
    /\ prefs \in PrefSpace
    /\ lockEnabled = (prefs.lockEnabled /\ ~prefs.lockDisabled)
    /\ activationEnabled = prefs.idleActivation
    /\ status \in {"present", "idle"}
    /\ wActive = TRUE /\ wIdle = FALSE /\ wNotice = FALSE /\ idleTimer = FALSE
    /\ lActive = FALSE /\ sessionIdle = FALSE /\ announced = FALSE
    /\ mActive = FALSE /\ lockActive = FALSE /\ dialogUp = FALSE
    /\ lockTimer = FALSE /\ unfadeTimer = FALSE /\ releaseTimer = FALSE
    /\ dialog = "none" /\ response = "cancel" /\ unmapped = FALSE
    /\ emitQ = <<>> /\ mgrQ = <<>> /\ orphans = {} /\ endedBy = "none"
    /\ grab = "none" /\ fade = "clear"

User ==
    \/ WindowActivity \/ SimulateUserActivity \/ ShowMessage
    \/ \E r \in {"ok", "cancel", "gone"} : DialogResponse(r)

Request ==
    \/ Lock \/ PrepareForSleep \/ Quit
    \/ \E on \in BOOLEAN : SetActive(on)
    \/ StatusIdle \/ StatusPresent \/ StatusIgnored
    \/ \E p \in PrefSpace : PrefsChanged(p)

Loop ==
    \/ WindowMapped \/ PopupDialogIdle \/ EmitDeactivatedIdle \/ OrphanEmit
    \/ WindowDeactivatedIdle \/ OnIdleTimeout \/ ReleaseGrabTimeout
    \/ FadeFinished \/ UnfadeTimeout \/ ActivateLockTimeout

Next == User \/ Request \/ Loop

Spec == Init /\ [][Next]_vars

\* The main loop runs what is due -- timers, idles, the fade.  Of the user,
\* the bus and the X server nothing is assumed.
Fairness ==
    /\ WF_vars(OnIdleTimeout) /\ WF_vars(ReleaseGrabTimeout)
    /\ WF_vars(FadeFinished) /\ WF_vars(UnfadeTimeout)
    /\ WF_vars(ActivateLockTimeout) /\ WF_vars(PopupDialogIdle)
    /\ WF_vars(EmitDeactivatedIdle) /\ WF_vars(WindowDeactivatedIdle)

FairSpec == Spec /\ Fairness
------------------------------------------------------------------------------
(* What must be true of the daemon at rest between two callbacks. *)

\* The three objects agree on whether the screen is up, the bus was told so,
\* and an active screen counts as idleness.  Each of them can refuse a change
\* after another has made it: every refusal must leave all of them as they
\* were, or both SetActive and Lock are refused for ever after.
Synchronised ==
    /\ lActive = mActive
    /\ wActive = ~mActive
    /\ announced = lActive
    /\ lActive => sessionIdle

\* Nothing of an activation survives it: no lock flag (it would be the state
\* of the next window), no timer (it would lock or unfade a later screen too
\* early), no dialog, no queued event of a window.
InactiveIsClean ==
    ~mActive =>
        /\ ~lockActive /\ ~lockTimer /\ ~unfadeTimer /\ ~unmapped
        /\ ~dialogUp /\ dialog = "none" /\ emitQ = <<>>

\* A dialog is asked for only on a locked screen, and the manager's dialog_up
\* is the window's, so that no request for the dialog is lost for ever.
DialogOnlyWhenLocked ==
    /\ dialogUp <=> dialog # "none"
    /\ dialogUp => lockActive

\* On a screen that is off the seat is held only for a notice in effect or
\* for the second after it: else keyboard and mouse are dead for the user.
GrabHasOwner == ~mActive /\ grab # "none" => wNotice \/ releaseTimer

\* The desktop is dark without a screen saver only during a notice whose timer
\* runs, whatever interrupts the notice: else the user sees black and nothing
\* brings the desktop back.
NoDarkDesktop == ~mActive /\ fade # "clear" => wNotice /\ idleTimer

\* Once locked, a screen stays locked until it is off (the listener, both
\* timers, preferences and notices notwithstanding), and it goes off only
\* by a request of the bus or by a cause queued before.
Pending(cause) ==
    cause \in orphans \/ \E q \in {emitQ, mgrQ} : \E i \in 1..Len(q) : q[i] = cause
NoSilentUnlock ==
    [][lockActive /\ ~lockActive' =>
         /\ ~mActive' /\ announced' = FALSE
         /\ endedBy' = "request" \/ Pending(endedBy')]_vars
------------------------------------------------------------------------------
(* Implementation of the abstract specification. *)

Queued == {c \in Causes : Pending(c)}
ScreenState ==
    IF ~lActive THEN "off" ELSE IF lockActive THEN "locked" ELSE "blank"
Abstract == INSTANCE ScreenSaver WITH state <- ScreenState, allowed <- Queued

\* Seen from the session, the daemon is a ScreenSaver.
ImplementsScreenSaver == Abstract!Spec
------------------------------------------------------------------------------
(* What the main loop must bring about. *)

\* A darkened screen is shown again: the notice is taken back, or the windows
\* come up and the fade is undone under them.  And the seat is given back to a
\* user whose screen saver did not come up.
DesktopComesBack ==
    /\ running /\ fade # "clear" ~> ~running \/ fade = "clear"
    /\ running /\ grab # "none" /\ ~mActive ~>
          ~running \/ mActive \/ grab = "none"

\* Activity on a screen, and an accepted password, end the screen.
PermissionEndsScreen == running /\ emitQ # <<>> ~> ~running \/ ~mActive

\* With the lock enabled an active screen gets locked, if only its lock timer
\* was armed; no change of the settings loses the timer.
LockFollows ==
    running /\ mActive /\ lockTimer ~>
        ~running \/ ~mActive \/ lockActive \/ ~lockEnabled
------------------------------------------------------------------------------
(* What the documentation and the comments claim, and the code does not do. *)

\* A locked screen is not ended by mere activity (data/
\* budgie-screensaver-command.1, "lock the screen immediately"): refuted when
\* the lock comes after the activity and before the idle callback.
LockOutlastsActivity == [][lockActive /\ ~lockActive' => endedBy' # "activity"]_vars

\* The idle timer blanks the screen of an idle session only (gs-watcher-x11.c,
\* "reset state"): refuted by the timer that a screen locked during the notice
\* leaves behind.
PresentUserKeepsDesktop == [][IdleActivates => status = "idle"]_vars
==============================================================================
