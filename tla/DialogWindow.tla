----------------------------- MODULE DialogWindow -----------------------------
(***************************************************************************)
(* One GSWindow and the processes it runs: the unlock dialog and the       *)
(* keyboard below it, the pipes and sources by which it hears of them, and *)
(* shake_dialog, which runs the main loop from within a read of the        *)
(* dialog's output.  What the dialog's answer does to the screen is        *)
(* LockScreen's; here the answer only ends the dialog.                     *)
(***************************************************************************)
EXTENDS Naturals, Sequences

CONSTANTS
    MaxLines,  \* bound on the lines of a process that are not read yet
    MaxShakes  \* bound on the shakes under way at once

ASSUME LineAssumption == MaxLines \in Nat \ {0}
ASSUME ShakeAssumption == MaxShakes \in Nat \ {0}

Lines == {"id", "failed", "ok", "cancel", "quit"}
Process == {"none", "started", "running", "dead"}   \* "none" is a pid of 0
Alive == {"started", "running"}   \* before it has written its window, and after
Watch == {"none", "live", "stale"}       \* "stale" is an id without its source

VARIABLES
    life,      \* the window: "there", "freed"; "crashed" with the daemon
    dialogUp,  \* dialog_up
    popup,     \* popup_dialog_idle_id # 0
    drawn,     \* drawing_area is shown
    child,     \* lock_pid
    pipe,      \* the dialog's lines, not read yet
    watch,     \* lock_watch_id
    box,       \* lock_box # NULL, and lock_socket in it
    quitAsked, \* dialog_quit_requested
    shaking,   \* dialog_shake_in_progress
    inWatch,   \* the live watch is in shake_dialog
    oldShakes, \* the calls of shake_dialog whose watch has been removed
    keyboard,  \* keyboard_pid
    keyWatch,  \* keyboard_watch_id
    keySocket, \* keyboard_socket # NULL
    hasQuit    \* this dialog's request to be killed has been read (history)

dialog == <<child, pipe, watch, box>>
shakes == <<quitAsked, shaking, inWatch, oldShakes>>
keys == <<keyboard, keyWatch, keySocket>>
vars == <<life, dialogUp, popup, drawn, dialog, shakes, keys, hasQuit>>

TypeOK ==
    /\ life \in {"there", "freed", "crashed"}
    /\ dialogUp \in BOOLEAN /\ popup \in BOOLEAN /\ drawn \in BOOLEAN
    /\ child \in Process /\ pipe \in Seq(Lines) /\ Len(pipe) <= MaxLines
    /\ watch \in Watch /\ box \in BOOLEAN
    /\ quitAsked \in BOOLEAN /\ shaking \in BOOLEAN /\ inWatch \in BOOLEAN
    /\ oldShakes \in 0 .. MaxShakes
    /\ keyboard \in Process /\ keyWatch \in Watch /\ keySocket \in BOOLEAN
    /\ hasQuit \in BOOLEAN

There == life = "there"
-------------------------------------------------------------------------------
(* A dialog is asked for, and started. *)

\* gs_window_request_unlock of a window with lock_enabled: nothing while there
\* is a watch, even one that no source stands behind.
RequestUnlock ==
    /\ There /\ watch = "none"
    /\ popup' = TRUE /\ dialogUp' = TRUE
    /\ UNCHANGED <<life, drawn, dialog, shakes, keys, hasQuit>>

FlagsStay == UNCHANGED <<quitAsked, shaking>>

\* popup_dialog forgets what the last dialog asked for.
FlagsReset == quitAsked' = FALSE /\ shaking' = FALSE

\* spawn_on_window: the process is started and its output watched, or it cannot
\* be started.
SpawnOnWindow ==
    \/ child' = "started" /\ watch' = "live" /\ pipe' = <<>> /\ hasQuit' = FALSE
    \/ UNCHANGED <<child, watch, pipe, hasQuit>>

\* popup_dialog_idle and popup_dialog.
PopupDialogIdle ==
    /\ There /\ popup
    /\ popup' = FALSE /\ drawn' = FALSE
    /\ FlagsReset /\ SpawnOnWindow
    /\ UNCHANGED <<life, dialogUp, box, inWatch, oldShakes, keys>>
-------------------------------------------------------------------------------
(* The dialog goes down. *)

KeyboardRunsOn == UNCHANGED keyboard

\* keyboard_command_finish: killed and waited for.
KeyboardFinish == keyboard' = "none"

\* gs_window_dialog_finish: both processes killed and waited for.
DialogFinish == KeyboardFinish /\ child' = "none"

\* remove_command_watches.  A watch in dispatch is removed as well: the shake
\* goes on without it.
RemoveCommandWatches ==
    /\ watch' = "none" /\ keyWatch' = "none" /\ pipe' = <<>>
    /\ inWatch' = FALSE
    /\ oldShakes' = oldShakes + (IF inWatch THEN 1 ELSE 0)

\* popdown_dialog.  The keyboard's socket is left for its plug's removal.
PopdownDialog ==
    /\ DialogFinish
    /\ drawn' = TRUE /\ dialogUp' = FALSE /\ box' = FALSE /\ popup' = FALSE
    /\ RemoveCommandWatches
    /\ UNCHANGED <<quitAsked, shaking, keySocket, hasQuit>>

\* gs_window_cancel_unlock_request, which on_screen_monitors_changed calls.
CancelUnlockRequest ==
    /\ There /\ PopdownDialog /\ UNCHANGED life

\* gs_window_destroy and gs_window_finalize.
Destroy ==
    /\ There /\ life' = "freed"
    /\ DialogFinish /\ RemoveCommandWatches
    /\ drawn' = TRUE /\ dialogUp' = FALSE /\ box' = FALSE /\ popup' = FALSE
    /\ keySocket' = FALSE
    /\ UNCHANGED <<quitAsked, shaking, hasQuit>>
-------------------------------------------------------------------------------
(* lock_command_watch.  GLib does not dispatch a source from within itself. *)

Readable == There /\ watch = "live" /\ ~inWatch

\* maybe_kill_dialog, with the flags as they are by then.
MaybeKillDialog ==
    IF ~shaking' /\ quitAsked' /\ child \in Alive THEN child' = "dead"
                                                     ELSE UNCHANGED child

\* "WINDOW ID=": create_lock_socket, and embed_keyboard where it is enabled and
\* can be started.
ReadWindowId ==
    /\ box' = TRUE
    /\ \/ keyboard' = "running" /\ keyWatch' = "live"
       \/ UNCHANGED <<keyboard, keyWatch>>
    /\ UNCHANGED <<life, dialogUp, popup, drawn, child, watch, shakes, keySocket,
                   hasQuit>>

\* "NOTICE=AUTH FAILED": shake_dialog is entered, and runs the main loop.
ReadFailed ==
    /\ oldShakes < MaxShakes
    /\ shaking' = TRUE /\ inWatch' = TRUE
    /\ UNCHANGED <<life, dialogUp, popup, drawn, child, watch, box, quitAsked,
                   oldShakes, keys, hasQuit>>

\* "REQUEST QUIT".
ReadQuit ==
    /\ quitAsked' = TRUE /\ UNCHANGED shaking
    /\ MaybeKillDialog
    /\ hasQuit' = TRUE
    /\ UNCHANGED <<life, dialogUp, popup, drawn, watch, box, inWatch, oldShakes,
                   keys>>

\* "RESPONSE=" or the end of the output.
ReadEnd == PopdownDialog /\ UNCHANGED life

ReadLine ==
    /\ Readable /\ pipe # <<>>
    /\ CASE Head(pipe) = "id" -> ReadWindowId /\ pipe' = Tail(pipe)
         [] Head(pipe) = "failed" -> ReadFailed /\ pipe' = Tail(pipe)
         [] Head(pipe) = "quit" -> ReadQuit /\ pipe' = Tail(pipe)
         [] OTHER -> ReadEnd

EofForgotten == Readable /\ pipe = <<>> /\ child = "dead" /\ UNCHANGED vars

ReadEof == Readable /\ pipe = <<>> /\ child = "dead" /\ ReadEnd

\* An error of the read ends the source, and nothing else.
ReadError ==
    /\ Readable
    /\ watch' = "stale"
    /\ UNCHANGED <<life, dialogUp, popup, drawn, child, pipe, box, shakes, keys,
                   hasQuit>>

\* shake_dialog returns, the innermost call first, into a window that may have
\* another dialog by now, or be freed: then what it reads is anything, and the
\* daemon may crash.
ShakeEnds ==
    /\ inWatch \/ oldShakes > 0
    /\ IF inWatch THEN inWatch' = FALSE /\ UNCHANGED oldShakes
                  ELSE oldShakes' = oldShakes - 1 /\ UNCHANGED inWatch
    /\ \/ /\ There
          /\ shaking' = FALSE /\ UNCHANGED <<quitAsked, life>>
          /\ MaybeKillDialog
       \/ /\ life = "freed"
          /\ life' \in {"freed", "crashed"}
          /\ UNCHANGED <<shaking, quitAsked, child>>
    /\ UNCHANGED <<dialogUp, popup, drawn, pipe, watch, box, keys, hasQuit>>
-------------------------------------------------------------------------------
(* The processes, and what X tells of their windows. *)

\* The dialog writes: its window first and once, what it likes after that.
DialogWrites(line) ==
    /\ child = IF line = "id" THEN "started" ELSE "running"
    /\ Len(pipe) < MaxLines
    /\ child' = "running" /\ pipe' = Append(pipe, line)
    /\ UNCHANGED <<life, dialogUp, popup, drawn, watch, box, shakes, keys, hasQuit>>

DialogDies ==
    /\ child \in Alive /\ child' = "dead"
    /\ UNCHANGED <<life, dialogUp, popup, drawn, pipe, watch, box, shakes, keys,
                   hasQuit>>

\* lock_plug_removed and lock_socket_destroyed, once the dialog has no window.
LockPlugRemoved ==
    /\ There /\ box /\ box' = FALSE
    /\ UNCHANGED <<life, dialogUp, popup, drawn, child, pipe, watch, shakes, keys,
                   hasQuit>>

OnlyKeys ==
    UNCHANGED <<life, dialogUp, popup, drawn, dialog, shakes, hasQuit>>

\* keyboard_command_watch, the keyboard's window: create_keyboard_socket.  X has
\* told of the last keyboard's end before this one has a window.
KeyboardShown ==
    /\ There /\ keyboard = "running" /\ keyWatch = "live" /\ ~keySocket
    /\ keySocket' = TRUE
    /\ UNCHANGED <<keyboard, keyWatch>> /\ OnlyKeys

\* keyboard_plug_removed and keyboard_socket_destroyed.
KeyboardPlugRemoved ==
    /\ There /\ keySocket /\ keyboard # "running"
    /\ keySocket' = FALSE
    /\ UNCHANGED <<keyboard, keyWatch>> /\ OnlyKeys

KeyboardDies ==
    /\ keyboard = "running" /\ keyboard' = "dead"
    /\ UNCHANGED <<keyWatch, keySocket>> /\ OnlyKeys

\* keyboard_command_watch: the end of the output, or an error of the read.
KeyboardEof ==
    /\ There /\ keyWatch = "live" /\ keyboard = "dead"
    /\ keyWatch' = "none" /\ KeyboardFinish
    /\ UNCHANGED keySocket /\ OnlyKeys

KeyboardReadError ==
    /\ There /\ keyWatch = "live" /\ keyWatch' = "stale"
    /\ UNCHANGED <<keyboard, keySocket>> /\ OnlyKeys
-------------------------------------------------------------------------------
Init ==
    /\ life = "there" /\ dialogUp = FALSE /\ popup = FALSE /\ drawn = TRUE
    /\ child = "none" /\ pipe = <<>> /\ watch = "none" /\ box = FALSE
    /\ quitAsked = FALSE /\ shaking = FALSE /\ inWatch = FALSE /\ oldShakes = 0
    /\ keyboard = "none" /\ keyWatch = "none" /\ keySocket = FALSE
    /\ hasQuit = FALSE

Next ==
    \/ RequestUnlock \/ PopupDialogIdle \/ CancelUnlockRequest \/ Destroy
    \/ ReadLine \/ ReadEof \/ ReadError \/ ShakeEnds
    \/ (\E line \in Lines : DialogWrites(line)) \/ DialogDies \/ LockPlugRemoved
    \/ KeyboardShown \/ KeyboardPlugRemoved \/ KeyboardDies
    \/ KeyboardEof \/ KeyboardReadError

\* The main loop gets to a source that stays ready, and a shake is nine steps
\* of a hundredth of a second.
Fairness ==
    WF_vars(ReadLine) /\ WF_vars(ReadEof) /\ WF_vars(ShakeEnds)

Spec == Init /\ [][Next]_vars /\ Fairness
-------------------------------------------------------------------------------
(* What must be true of the window. *)

\* A window without a dialog has nothing left of one: no process, no source
\* that could be called with a window that is freed, no socket; and it is drawn.
\* Not so for the calls of shake_dialog, which outlive it.
\* And where a dialog is about to be started there is none: popup_dialog never
\* overwrites the pid or the watch of a process that still runs.
NothingLeft ==
    /\ ~dialogUp \/ ~There =>
         /\ child = "none" /\ watch = "none" /\ ~box /\ ~popup /\ drawn
         /\ keyboard = "none" /\ keyWatch = "none"
    /\ popup => child = "none" /\ watch = "none" /\ keyboard = "none"

\* A dialog that nobody took down is killed only if it has asked to be itself,
\* whatever calls of shake_dialog an earlier dialog has left behind.
NotKilledUnasked ==
    [][(child \in Alive /\ child' = "dead" /\ ~DialogDies) => hasQuit']_vars

\* A dialog whose request to be killed has been read does not live on: the flag
\* that holds maybe_kill_dialog off is never one that the shake of an earlier
\* dialog, taken down in the midst of it, has left.
QuitIsHeeded == hasQuit => child \notin Alive

\* The end of a dialog is heard, and it is taken down, unless reading from it
\* failed or the daemon is gone.
EndIsHeard == child = "dead" ~> child = "none" \/ watch = "stale"
===============================================================================
