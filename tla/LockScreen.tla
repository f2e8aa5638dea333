------------------------------- MODULE LockScreen -------------------------------
(***************************************************************************)
(* The screen while it is up: GSManager's windows, one for each monitor,   *)
(* the unlock dialog that one of them shows, and monitors that come and go *)
(* meanwhile.  One action is one callback of the main loop.  Session has   *)
(* what makes the screen go up, lock and go down; here the bus just asks   *)
(* for it.                                                                 *)
(***************************************************************************)
EXTENDS Naturals, Sequences

LOCAL INSTANCE Functions

CONSTANTS
    MaxMonitors,  \* how many monitors there may be
    MaxPending    \* bound on the idle callbacks queued at once

ASSUME MonitorAssumption == MaxMonitors \in Nat \ {0}
ASSUME PendingAssumption == MaxPending \in Nat \ {0}

Causes == {"activity", "auth"}

VARIABLES
    running,     \* the main loop runs
    monitors,    \* gdk_display_get_n_monitors, as last heard of
    active,      \* manager->priv->active
    lockActive,  \* manager->priv->lock_active
    dialogUp,    \* manager->priv->dialog_up
    windows,     \* manager->priv->windows, by monitor
    mgrQ,        \* window_deactivated_idle callbacks queued, by cause
    orphans,     \* causes of queued emit_deactivated_idle of past windows
    endedBy      \* what ended the last activation (history)

vars == <<running, monitors, active, lockActive, dialogUp, windows, mgrQ,
          orphans, endedBy>>

\* GSWindowPrivate.  The child is the dialog process by its output: none,
\* nothing said yet, an answer said and not read, or closed.  A stale watch is
\* an id whose source is gone.
Window ==
    [lock : BOOLEAN, sensitive : BOOLEAN, dialogUp : BOOLEAN, popup : BOOLEAN,
     child : {"none", "silent", "ok", "cancel", "gone"},
     watch : {"none", "live", "stale"}, socket : {"none", "there", "removed"},
     response : {"cancel", "ok"}, emitQ : Seq(Causes)]

\* Every variable has its type.
TypeOK ==
    /\ running \in BOOLEAN /\ monitors \in 1..MaxMonitors
    /\ active \in BOOLEAN /\ lockActive \in BOOLEAN /\ dialogUp \in BOOLEAN
    /\ \E n \in 0..MaxMonitors : windows \in [1..n -> Window]
    /\ mgrQ \in Seq(Causes) /\ orphans \subseteq Causes
    /\ endedBy \in Causes \union {"none", "request"}
------------------------------------------------------------------------------
(* GSWindow: operators that give the window after a call. *)

NewWindowUnlocked(lock) ==
    [lock |-> FALSE, sensitive |-> TRUE, dialogUp |-> FALSE, popup |-> FALSE,
     child |-> "none", watch |-> "none", socket |-> "none",
     response |-> "cancel", emitQ |-> <<>>]

\* gs_window_new, as gs_manager_create_window_for_monitor calls it.
NewWindow(lock) ==
    [lock |-> lock, sensitive |-> TRUE, dialogUp |-> FALSE, popup |-> FALSE,
     child |-> "none", watch |-> "none", socket |-> "none",
     response |-> "cancel", emitQ |-> <<>>]

PoppedDownAlive(w) ==
    [w EXCEPT !.dialogUp = FALSE, !.socket = "none", !.popup = FALSE,
              !.watch = "none"]

\* popdown_dialog: the process is killed and waited for, whatever it said.
PoppedDown(w) ==
    [w EXCEPT !.dialogUp = FALSE, !.socket = "none", !.popup = FALSE,
              !.watch = "none", !.child = "none"]

\* The idle callbacks of the manager and of these windows.
Queued(ws) ==
    FoldFunction(+, Len(mgrQ), [i \in DOMAIN ws |-> Len(ws[i].emitQ)])

\* add_emit_deactivated_idle.
QueueEmit(ws, i, cause) ==
    [ws EXCEPT ![i].emitQ = Append(@, cause)]
------------------------------------------------------------------------------
(* GSManager: operators on the list of windows. *)

SensitivityStays(ws, from) == ws

\* handle_window_dialog_down, for the windows from which a dialog went down:
\* all windows take events again.
AllSensitive(ws, from) ==
    IF \E i \in from : windows[i].dialogUp
    THEN [i \in DOMAIN ws |-> [ws[i] EXCEPT !.sensitive = TRUE]]
    ELSE ws

\* popdown_dialog on the windows of a set.
Popdown(from) ==
    AllSensitive([i \in DOMAIN windows |->
                    IF i \in from THEN PoppedDown(windows[i]) ELSE windows[i]],
                 from)

\* dialog_up of the manager after that.
UpAfter(from) == dialogUp /\ ~ \E i \in from : windows[i].dialogUp

\* gs_window_request_unlock and handle_window_dialog_up: the dialog is due, and
\* the other windows take no events.
DialogAsked(ws, p) ==
    [i \in DOMAIN ws |-> IF i = p THEN [ws[i] EXCEPT !.dialogUp = TRUE, !.popup = TRUE]
                         ELSE [ws[i] EXCEPT !.sensitive = FALSE]]

RequestIgnored(ws, up) == windows' = ws /\ dialogUp' = up

NeverLocked(w) == FALSE

\* gs_window_request_unlock's question: window->priv->lock_enabled.
NeedsDialog(w) == w.lock

\* gs_manager_request_unlock, with these windows and this dialog_up.  The
\* pointer is on any window.  An idle callback is bounded by MaxPending.
RequestUnlock(ws, up) ==
    \/ /\ ~active \/ up \/ DOMAIN ws = {} \/ \E p \in DOMAIN ws : ws[p].watch # "none"
       /\ RequestIgnored(ws, up)
    \/ /\ active /\ ~up
       /\ \E p \in DOMAIN ws :
            /\ ws[p].watch = "none"
            /\ \/ /\ NeedsDialog(ws[p])
                  /\ windows' = DialogAsked(ws, p) /\ dialogUp' = TRUE
               \/ /\ ~NeedsDialog(ws[p])
                  /\ Queued(ws) < MaxPending
                  /\ RequestIgnored(QueueEmit(ws, p, "activity"), up)

\* A window destroyed leaves its emit_deactivated_idle callbacks behind.
Orphaned(gone) ==
    orphans' = orphans \union
      {c \in Causes : \E i \in gone : \E k \in DOMAIN windows[i].emitQ :
                       windows[i].emitQ[k] = c}
------------------------------------------------------------------------------
(* What the bus, the listener and the user ask for. *)

\* gs_manager_activate: a window for each monitor.
Activate ==
    /\ running /\ ~active
    /\ \E lock \in BOOLEAN :
         /\ lockActive' = lock
         /\ windows' = [i \in 1..monitors |-> NewWindow(lock)]
    /\ active' = TRUE
    /\ endedBy' = "none"
    /\ UNCHANGED <<running, monitors, dialogUp, mgrQ, orphans>>

\* gs_manager_set_lock_active, from a bus method or the lock timer.
Lock ==
    /\ running /\ active /\ ~lockActive
    /\ lockActive' = TRUE
    /\ windows' = [i \in DOMAIN windows |-> [windows[i] EXCEPT !.lock = TRUE]]
    /\ UNCHANGED <<running, monitors, active, dialogUp, mgrQ, orphans, endedBy>>

\* gs_manager_deactivate and gs_manager_destroy_windows.
ManagerDeactivate(cause) ==
    /\ IF active THEN Orphaned(DOMAIN windows) /\ endedBy' = cause
       ELSE UNCHANGED <<orphans, endedBy>>
    /\ windows' = <<>>
    /\ active' = FALSE /\ lockActive' = FALSE /\ dialogUp' = FALSE

\* SetActive(FALSE) on the bus, logind's Unlock.
Deactivate ==
    /\ running /\ active
    /\ ManagerDeactivate("request")
    /\ UNCHANGED <<running, monitors, mgrQ>>

\* maybe_handle_activity and window_activity_cb: an event on a window that
\* shows no dialog and takes events.
WindowActivity(i) ==
    /\ running /\ windows[i].socket # "there" /\ windows[i].sensitive
    /\ RequestUnlock(windows, dialogUp)
    /\ UNCHANGED <<running, monitors, active, lockActive, mgrQ, orphans, endedBy>>

\* SimulateUserActivity and ShowMessage of the bus.
SimulateUserActivity ==
    /\ running
    /\ RequestUnlock(windows, dialogUp)
    /\ UNCHANGED <<running, monitors, active, lockActive, mgrQ, orphans, endedBy>>
------------------------------------------------------------------------------
(* on_screen_monitors_changed, connected while there are windows. *)

MonitorsWhileDown ==
    /\ running /\ ~active
    /\ monitors' \in 1..MaxMonitors
    /\ UNCHANGED <<running, active, lockActive, dialogUp, windows, mgrQ, orphans,
                   endedBy>>

\* Any dialog is torn down, and one asked for with the windows there are then.
WindowsForMore(n) ==
    LET old == DOMAIN windows
        ws == [i \in 1..n |-> IF i \in old THEN Popdown(old)[i]
                                           ELSE NewWindow(lockActive)]
    IN  RequestUnlock(ws, UpAfter(old))

FewerWithoutRequest(n) ==
    /\ windows' = [i \in 1..n |-> Popdown(DOMAIN windows \ 1..n)[i]]
    /\ dialogUp' = UpAfter(DOMAIN windows \ 1..n)
\* The windows of the last monitors are destroyed, with a dialog if one is
\* there, and a dialog is asked for.
WindowsForFewer(n) ==
    LET gone == DOMAIN windows \ 1..n
        ws == [i \in 1..n |-> Popdown(gone)[i]]
    IN  RequestUnlock(ws, UpAfter(gone))

MonitorsChanged(n) ==
    /\ running /\ active
    /\ monitors' = n
    /\ Orphaned(DOMAIN windows \ 1..n)
    /\ \/ n > Len(windows) /\ WindowsForMore(n)
       \/ n < Len(windows) /\ WindowsForFewer(n)
    /\ UNCHANGED <<running, active, lockActive, mgrQ, endedBy>>
------------------------------------------------------------------------------
(* The dialog process of a window, and the callbacks it causes. *)

OnlyWindow(i, w) ==
    /\ windows' = [windows EXCEPT ![i] = w]
    /\ UNCHANGED <<running, monitors, active, lockActive, dialogUp, mgrQ, orphans,
                   endedBy>>

\* popup_dialog_idle: the process is started, or it cannot be.
PopupDialogIdle(i) ==
    /\ running /\ windows[i].popup
    /\ \/ OnlyWindow(i, [windows[i] EXCEPT !.popup = FALSE, !.child = "silent",
                                           !.watch = "live"])
       \/ OnlyWindow(i, [windows[i] EXCEPT !.popup = FALSE])

\* The process writes its answer, or ends without one.
DialogSays(i, answer) ==
    /\ windows[i].child = "silent"
    /\ OnlyWindow(i, [windows[i] EXCEPT !.child = answer])

\* lock_command_watch, "WINDOW ID=": create_lock_socket.
DialogShown(i) ==
    /\ running /\ windows[i].watch = "live" /\ windows[i].socket = "none"
    /\ OnlyWindow(i, [windows[i] EXCEPT !.socket = "there"])

\* lock_plug_removed: the process took its window away.
PlugRemoved(i) ==
    /\ running /\ windows[i].socket = "there"
    /\ OnlyWindow(i, [windows[i] EXCEPT !.socket = "removed"])

\* lock_command_watch, an error of the read: the source goes, and nothing else.
ReadFails(i) ==
    /\ running /\ windows[i].watch = "live"
    /\ OnlyWindow(i, [windows[i] EXCEPT !.watch = "stale"])

AnswerOfLastTime(w) == w.response

\* window->priv->dialog_response, which a process gone without answer leaves.
Answer(w) == IF w.child \in {"ok", "cancel"} THEN w.child ELSE w.response

\* lock_command_watch, an answer or the end of the output.
DialogFinished(i) ==
    /\ running /\ windows[i].watch = "live"
    /\ windows[i].child \in {"ok", "cancel", "gone"}
    /\ LET answer == Answer(windows[i])
           down == [Popdown({i}) EXCEPT ![i].response = answer]
       IN  IF answer = "ok"
           THEN Queued(windows) < MaxPending /\ windows' = QueueEmit(down, i, "auth")
           ELSE windows' = down
    /\ dialogUp' = UpAfter({i})
    /\ UNCHANGED <<running, monitors, active, lockActive, mgrQ, orphans, endedBy>>

\* emit_deactivated_idle and window_deactivated_cb.
EmitDeactivatedIdle(i) ==
    /\ running /\ windows[i].emitQ # <<>>
    /\ windows' = [windows EXCEPT ![i].emitQ = Tail(@)]
    /\ mgrQ' = Append(mgrQ, Head(windows[i].emitQ))
    /\ UNCHANGED <<running, monitors, active, lockActive, dialogUp, orphans, endedBy>>

\* emit_deactivated_idle of a window that is gone reads freed memory: the daemon
\* dies, or nothing happens; or a window made since is there, and tells the
\* manager (here any that is up).  There may have been several of one cause.
OrphanEmit ==
    /\ running
    /\ \E c \in orphans :
         /\ orphans' \in {orphans, orphans \ {c}}
         /\ \/ running' \in BOOLEAN /\ UNCHANGED mgrQ
            \/ /\ active /\ Queued(windows) < MaxPending
               /\ mgrQ' = Append(mgrQ, c) /\ UNCHANGED running
    /\ UNCHANGED <<monitors, active, lockActive, dialogUp, windows, endedBy>>

\* window_deactivated_idle: the screen goes down, if one is up.
WindowDeactivatedIdle ==
    /\ running /\ mgrQ # <<>>
    /\ mgrQ' = Tail(mgrQ)
    /\ ManagerDeactivate(Head(mgrQ))
    /\ UNCHANGED <<running, monitors>>
------------------------------------------------------------------------------
Init ==
    /\ running = TRUE /\ monitors \in 1..MaxMonitors
    /\ active = FALSE /\ lockActive = FALSE /\ dialogUp = FALSE
    /\ windows = <<>> /\ mgrQ = <<>> /\ orphans = {} /\ endedBy = "none"

OfWindow(i) ==
    \/ WindowActivity(i) \/ PopupDialogIdle(i) \/ DialogShown(i)
    \/ PlugRemoved(i) \/ ReadFails(i) \/ DialogFinished(i)
    \/ EmitDeactivatedIdle(i)
    \/ \E answer \in {"ok", "cancel", "gone"} : DialogSays(i, answer)

Next ==
    \/ Activate \/ Lock \/ Deactivate \/ SimulateUserActivity
    \/ MonitorsWhileDown \/ (\E n \in 1..MaxMonitors : MonitorsChanged(n))
    \/ (\E i \in DOMAIN windows : OfWindow(i))
    \/ OrphanEmit \/ WindowDeactivatedIdle

Spec == Init /\ [][Next]_vars
------------------------------------------------------------------------------
(* What must be true of the screen. *)

\* The manager's dialog_up, the windows' and their sensitivity agree: there is
\* at most one dialog, and while there is one its window alone takes events.  A
\* dialog process, or the idle that starts one, belongs to the window whose
\* dialog is up: none outlives its dialog, its window or the lock.
OneDialog ==
    /\ dialogUp <=> \E i \in DOMAIN windows : windows[i].dialogUp
    /\ \A i, j \in DOMAIN windows :
         windows[i].dialogUp /\ i # j =>
           ~windows[j].dialogUp /\ ~windows[j].sensitive
    /\ \A i \in DOMAIN windows :
         windows[i].child # "none" \/ windows[i].popup \/ windows[i].watch # "none" =>
           windows[i].dialogUp /\ lockActive

\* While the screen is up, no monitor is bare and no window is without one,
\* however monitors came and went; while it is down there are no windows.  Each
\* window's copy of the lock flag is the manager's, that of a window made for a
\* late monitor included: an event on any window asks for the same.
WindowsFollowMonitors ==
    /\ DOMAIN windows = IF active THEN 1..monitors ELSE {}
    /\ \A i \in DOMAIN windows : windows[i].lock = lockActive

\* A screen that is up and shows no dialog can get one, on any window: each
\* takes events, and nothing of an earlier dialog is left to refuse a new one.
UnlockReachable ==
    active /\ ~dialogUp =>
      \A i \in DOMAIN windows :
        /\ windows[i].sensitive /\ windows[i].socket = "none"
        /\ windows[i].watch = "none" /\ ~windows[i].popup

\* An OK that the dialog has said stays to be read, or is read and queued to
\* end the screen; but a change of monitors drops it with the dialog.
OkIsNotLost ==
    [][\A i \in DOMAIN windows :
         windows[i].child = "ok" =>
           \/ ~active' \/ monitors' # monitors
           \/ windows'[i].child = "ok"
           \/ windows'[i].emitQ # <<>> /\ lockActive']_vars

\* A locked screen has a dialog, on a connected monitor, after any change of
\* their number (gs-manager.c, "make sure there is a lock dialog on a connected
\* monitor").
HotplugBringsDialog ==
    [][active /\ lockActive /\ monitors' # monitors =>
         /\ dialogUp'
         /\ \E i \in 1..monitors' : windows'[i].dialogUp]_vars

ScreenState ==
    IF ~active THEN "off" ELSE IF lockActive THEN "locked" ELSE "blank"
Allowed ==
    {c \in Causes :
       \/ c \in orphans
       \/ \E q \in {mgrQ} \union {windows[i].emitQ : i \in DOMAIN windows} :
            \E k \in DOMAIN q : q[k] = c}
Abstract == INSTANCE ScreenSaver
            WITH state <- ScreenState, allowed <- Allowed, announced <- active

\* With any number of windows the screen is still a ScreenSaver.
ImplementsScreenSaver == Abstract!Spec
==============================================================================
