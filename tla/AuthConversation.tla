--------------------------- MODULE AuthConversation ---------------------------
(***************************************************************************)
(* budgie-screensaver-dialog: the process that asks for the password.  Its *)
(* main thread runs main loops within main loops -- main's, that of the    *)
(* check in progress, that of the prompt -- and a thread of its own runs   *)
(* PAM, whose conversation function hands each message to the main thread  *)
(* and waits for the reply.                                                *)
(***************************************************************************)
EXTENDS Naturals

CONSTANTS
    MaxFailures,   \* MAX_FAILURES
    MaxSpurious    \* bound on spurious wakeups of g_cond_wait

ASSUME FailureAssumption == MaxFailures \in Nat \ {0}
ASSUME SpuriousAssumption == MaxSpurious \in Nat

VARIABLES
    canLock,       \* privileges could be dropped and locking is supported
    alive,         \* the process: "alive", "exited" (or killed from outside),
                   \* "killed" (by itself), "hung" (on its own mutex)
    said,          \* the kinds of lines it has printed
    first,         \* the first answer among them
    \* the main thread
    main,          \* where it is: in main ("start"), with the window to come
                   \* ("popup"), or by the innermost loop: main's ("loop1"), the
                   \* check's ("loop2"), the prompt's, the handler's last events
    quit1, quit2,  \* gtk_main_quit was called for the loop
    checkIdle,     \* auth_check_idle is installed
    okIdle, quitIdle,   \* quit_response_ok, response_request_quit are due
    failures,      \* loop_counter
    threadDone,    \* *thread_done
    \* GSLockPlug
    entry, area,   \* the entry, the buttons take input
    cancelTimer,   \* cancel_timeout_id, 60 s
    responseTimer, \* response_idle_id, 2 s
    resetTimer,    \* reset_idle_cb, 3 s
    quitTimer,     \* quit_timeout_cb, 5 s
    \* the PAM thread
    thread,        \* "none", "running", "waiting", "woken", "done"
    queued,        \* the kind of message it has queued and waits for
    staleIdle,     \* a handler is queued whose message is gone
    pam,           \* what pam_authenticate came to: "none", "success", "failure"
    spurious       \* how much of MaxSpurious is spent

outVars == <<canLock, alive, said, first>>
loopVars == <<main, quit1, quit2>>
checkVars == <<checkIdle, okIdle, quitIdle, failures, threadDone, quitTimer>>
plugVars == <<entry, area, cancelTimer, responseTimer, resetTimer>>
threadVars == <<thread, queued, staleIdle, pam, spurious>>
vars == <<outVars, loopVars, checkVars, plugVars, threadVars>>

Answers == {"ok", "cancel"}
Styles == {"prompt", "info"}

OutTypes ==
    /\ canLock \in BOOLEAN /\ alive \in {"alive", "exited", "killed", "hung"}
    /\ said \subseteq Answers \union {"id", "failed", "quit"}
    /\ first \in Answers \union {"none"}
LoopTypes ==
    /\ main \in {"start", "popup", "loop1", "loop2", "prompt", "events"}
    /\ quit1 \in BOOLEAN /\ quit2 \in BOOLEAN
CheckTypes ==
    /\ checkIdle \in BOOLEAN /\ okIdle \in BOOLEAN /\ quitIdle \in BOOLEAN
    /\ failures \in 0..MaxFailures /\ threadDone \in BOOLEAN
    /\ quitTimer \in BOOLEAN
PlugTypes ==
    /\ entry \in BOOLEAN /\ area \in BOOLEAN /\ cancelTimer \in BOOLEAN
    /\ responseTimer \in BOOLEAN /\ resetTimer \in BOOLEAN
ThreadTypes ==
    /\ thread \in {"none", "running", "waiting", "woken", "done"}
    /\ queued \in Styles \union {"none"} /\ staleIdle \in BOOLEAN
    /\ pam \in {"none", "success", "failure"} /\ spurious \in 0..MaxSpurious

\* Every variable has its type.
TypeOK == OutTypes /\ LoopTypes /\ CheckTypes /\ PlugTypes /\ ThreadTypes

\* printf and fflush.
Says(line) ==
    /\ said' = said \union {line}
    /\ first' = IF first = "none" /\ line \in Answers THEN line ELSE first

\* Sources of the main loop run; those of low priority (idles) only in a loop
\* that was not told to quit, the others in the batch in which it was, too.
Runs == alive = "alive"
RunsIdle(loop) ==
    Runs /\ main = loop /\ (loop = "loop1" => ~quit1) /\ (loop = "loop2" => ~quit2)

\* message_handler_mutex, which the handler holds while it prompts.
MutexFree == main \notin {"prompt", "events"}
------------------------------------------------------------------------------
(* main, and the check: auth_check_idle and gs_auth_verify_user. *)

\* main up to its loop.  Without a lock there is nothing to ask for; without a
\* display nothing can be said.
Starts ==
    /\ Runs /\ main = "start"
    /\ \/ /\ canLock
          /\ main' = "popup" /\ UNCHANGED outVars
       \/ /\ ~canLock
          /\ Says("ok")
          /\ alive' = "exited" /\ UNCHANGED <<canLock, main>>
       \/ /\ alive' = "exited" /\ UNCHANGED <<canLock, said, first, main>>
    /\ UNCHANGED <<quit1, quit2, checkVars, plugVars, threadVars>>

\* popup_dialog_idle.
PopupDialogIdle ==
    /\ Runs /\ main = "popup"
    /\ main' = "loop1" /\ checkIdle' = TRUE
    /\ UNCHANGED <<outVars, quit1, quit2, okIdle, quitIdle, failures, threadDone,
                   quitTimer, plugVars, threadVars>>

NoTimeout ==
    /\ checkIdle' = FALSE /\ quitIdle' = TRUE
    /\ UNCHANGED <<resetTimer, quitTimer>>
FailedForGood ==
    /\ checkIdle' = FALSE /\ quitIdle' = TRUE /\ quitTimer' = TRUE
    /\ UNCHANGED resetTimer
FailedAlwaysAgain(n) ==
    /\ resetTimer' = TRUE
    /\ UNCHANGED <<checkIdle, quitIdle, quitTimer>>

\* What becomes of a failure: another check at once, or the request to quit.
NextAfter(n) ==
    IF n < MaxFailures
    THEN /\ resetTimer' = TRUE
         /\ UNCHANGED <<checkIdle, quitIdle, quitTimer>>
    ELSE FailedForGood

\* do_auth_check, a check that PAM has not let in.
CheckFailed ==
    /\ Says("failed")
    /\ failures' = failures + 1
    /\ NextAfter(failures')
    /\ UNCHANGED <<okIdle>>

\* A check begins, or fails before there is a thread (no such user, no PAM
\* handle, no pipe).
CheckBegins ==
    /\ RunsIdle("loop1") /\ checkIdle
    /\ entry' = FALSE
    /\ \/ /\ main' = "loop2" /\ quit2' = FALSE /\ threadDone' = FALSE
          /\ thread' = "running" /\ pam' = "none"
          /\ UNCHANGED <<outVars, checkIdle, okIdle, quitIdle, failures,
                         quitTimer, resetTimer>>
       \/ /\ CheckFailed
          /\ UNCHANGED <<canLock, alive, main, quit2, threadDone, thread, pam>>
    /\ UNCHANGED <<quit1, area, cancelTimer, responseTimer, queued,
                   staleIdle, spurious>>

QuitsUnnoted == quit2' = TRUE /\ UNCHANGED threadDone
QuitsLoop == quit2' = TRUE /\ threadDone' = TRUE

\* gs_auth_loop_quit: the thread has closed its end of the pipe.
ThreadHangsUp ==
    /\ Runs /\ main \in {"loop2", "prompt", "events"}
    /\ (main = "loop2" => ~quit2)
    /\ thread = "done" /\ ~threadDone
    /\ QuitsLoop
    /\ UNCHANGED <<outVars, main, quit1, checkIdle, okIdle, quitIdle, failures,
                   quitTimer, plugVars, threadVars>>

JoinsAnyway == TRUE
\* The thread has said that it is done, so that joining it will not block.
CanJoin == threadDone

AcceptedOnce == pam = "success" \/ "failed" \in said
\* The status of the thread.
Accepted == pam = "success"

\* gs_auth_pam_verify_user after its loop: the process kills itself rather
\* than wait for the thread; else the result is PAM's.
CheckEnds ==
    /\ Runs /\ main = "loop2" /\ quit2
    /\ IF ~CanJoin
       THEN /\ alive' = "killed"
            /\ UNCHANGED <<canLock, said, first, loopVars, checkVars, plugVars, thread>>
       ELSE /\ thread = "done" /\ thread' = "none"
            /\ main' = "loop1"
            /\ IF Accepted
               THEN /\ okIdle' = TRUE /\ checkIdle' = FALSE
                    /\ UNCHANGED <<canLock, said, first, quitIdle, failures, quitTimer,
                                   resetTimer>>
               ELSE CheckFailed
            /\ UNCHANGED <<canLock, alive, quit1, quit2, threadDone, entry, area,
                           cancelTimer, responseTimer>>
    /\ UNCHANGED <<queued, staleIdle, pam, spurious>>

\* quit_response_ok.
QuitResponseOk ==
    /\ RunsIdle("loop1") /\ okIdle
    /\ Says("ok")
    /\ okIdle' = FALSE /\ quit1' = TRUE
    /\ UNCHANGED <<canLock, alive, main, quit2, checkIdle, quitIdle, failures, threadDone,
                   quitTimer, plugVars, threadVars>>

\* response_request_quit.
RequestQuit ==
    /\ RunsIdle("loop1") /\ quitIdle
    /\ Says("quit")
    /\ quitIdle' = FALSE
    /\ UNCHANGED <<canLock, alive, loopVars, checkIdle, okIdle, failures, threadDone,
                   quitTimer, plugVars, threadVars>>

\* quit_timeout_cb.
QuitTimeout ==
    /\ Runs /\ quitTimer
    /\ quitTimer' = FALSE /\ quit1' = TRUE
    /\ UNCHANGED <<outVars, main, quit2, checkIdle, okIdle, quitIdle, failures,
                   threadDone, plugVars, threadVars>>

\* main returns.
Exit ==
    /\ Runs /\ main = "loop1" /\ quit1
    /\ alive' = "exited"
    /\ UNCHANGED <<canLock, said, first, loopVars, checkVars, plugVars,
                   threadVars>>
------------------------------------------------------------------------------
(* The message: gs_auth_queued_message_handler and auth_message_handler.  What *)
(* the user typed, and what PAM makes of it or of its absence, is not modelled. *)

TimerForgotten == UNCHANGED cancelTimer
RestartCancelTimeout == cancelTimer' = TRUE

\* The window is shown, its number printed; a prompt is enabled and waits in
\* gs_lock_plug_run, an information is shown and that is all.
Handles(style) ==
    /\ Says("id")
    /\ IF style = "prompt"
       THEN /\ main' = "prompt" /\ entry' = TRUE /\ area' = TRUE
            /\ RestartCancelTimeout
       ELSE /\ main' = "events"
            /\ cancelTimer' = (cancelTimer \/ "id" \notin said)
            /\ UNCHANGED <<entry, area>>

HandleMessage ==
    /\ RunsIdle("loop2") /\ queued # "none"
    /\ Handles(queued)
    /\ queued' = "none"
    /\ UNCHANGED <<canLock, alive, quit1, quit2, checkVars, responseTimer, resetTimer,
                   thread, staleIdle, pam, spurious>>

\* A handler whose message was on the stack of a thread that went on without it
\* reads what is there now: the process dies of it, or it handles some message.
HandleStaleMessage ==
    /\ staleIdle /\ (RunsIdle("loop1") \/ RunsIdle("loop2"))
    /\ staleIdle' = FALSE
    /\ \/ /\ alive' = "exited"
          /\ UNCHANGED <<canLock, said, first, main, plugVars>>
       \/ /\ main = "loop2"
          /\ \E style \in Styles : Handles(style)
          /\ UNCHANGED <<canLock, alive, responseTimer, resetTimer>>
    /\ UNCHANGED <<quit1, quit2, checkVars, thread, queued, pam, spurious>>

\* The loop within a handler runs the idles too, and a second handler wants the
\* mutex that the first one holds.
HandlerWithinHandler ==
    /\ Runs /\ ~MutexFree /\ (staleIdle \/ queued # "none")
    /\ alive' = "hung"
    /\ UNCHANGED <<canLock, said, first, loopVars, checkVars, plugVars, threadVars>>

\* request_response comes back with a text (Enter, or the button).
Reply ==
    /\ Runs /\ main = "prompt" /\ entry /\ area
    /\ main' = "events"
    /\ entry' = FALSE /\ area' = FALSE
    /\ cancelTimer' = FALSE /\ responseTimer' = FALSE
    /\ UNCHANGED <<outVars, quit1, quit2, checkVars, resetTimer, threadVars>>

\* The plug is unmapped: the prompt ends without a response.
Unmapped ==
    /\ Runs /\ main = "prompt"
    /\ main' = "events"
    /\ entry' = FALSE
    /\ UNCHANGED <<outVars, quit1, quit2, checkVars, area, cancelTimer,
                   responseTimer, resetTimer, threadVars>>

SignalForgotten == UNCHANGED thread
\* g_cond_signal.
SignalThread == thread' = IF thread = "waiting" THEN "woken" ELSE thread

\* The handler is done with its last events.
HandlerEnds ==
    /\ Runs /\ main = "events"
    /\ main' = "loop2"
    /\ SignalThread
    /\ UNCHANGED <<outVars, quit1, quit2, checkVars, plugVars, queued, staleIdle,
                   pam, spurious>>
------------------------------------------------------------------------------
(* GSLockPlug: the user and the timers. *)

\* The check's loop runs the sources that were ready together, whatever the
\* first of them does; the thread's hanging up may be one.
HangsUpTogether ==
    \/ UNCHANGED threadDone
    \/ /\ main = "loop2" /\ ~quit2 /\ thread = "done"
       /\ threadDone' = TRUE

\* gs_lock_plug_response with CANCEL, and response_cb: the answer is printed,
\* the innermost loop of gtk_main told to quit, and a prompt ended.
Cancels ==
    /\ Says("cancel")
    /\ IF main = "loop1" THEN quit1' = TRUE /\ UNCHANGED quit2
       ELSE quit2' = TRUE /\ UNCHANGED quit1
    /\ main' = IF main = "prompt" THEN "events" ELSE main
    /\ entry' = (entry /\ main # "prompt")
    /\ cancelTimer' = FALSE /\ responseTimer' = FALSE
    /\ HangsUpTogether
    /\ UNCHANGED <<canLock, alive, checkIdle, okIdle, quitIdle, failures, quitTimer, area,
                   resetTimer, threadVars>>

\* The Escape key, in an entry that takes input.
Escape == Runs /\ "id" \in said /\ entry /\ Cancels

\* delete_event: the window that the plug is in goes away.
DeleteEvent == Runs /\ "id" \in said /\ Cancels

\* response_cancel_idle_cb.
ResponseTimeout == Runs /\ responseTimer /\ Cancels

\* dialog_timed_out.
DialogTimedOut ==
    /\ Runs /\ cancelTimer
    /\ cancelTimer' = FALSE /\ responseTimer' = TRUE
    /\ entry' = FALSE /\ area' = FALSE
    /\ UNCHANGED <<outVars, loopVars, checkVars, resetTimer, threadVars>>

\* switch_user_button_clicked.
SwitchUser ==
    /\ Runs /\ "id" \in said /\ area
    /\ responseTimer' = TRUE
    /\ entry' = FALSE /\ area' = FALSE
    /\ UNCHANGED <<outVars, loopVars, checkVars, cancelTimer, resetTimer,
                   threadVars>>

\* entry_key_press, any key.
KeyPress ==
    /\ Runs /\ "id" \in said /\ RestartCancelTimeout
    /\ UNCHANGED <<outVars, loopVars, checkVars, entry, area, responseTimer,
                   resetTimer, threadVars>>

\* reset_idle_cb, three seconds after a failure, whatever goes on by then.
ResetIdle ==
    /\ Runs /\ resetTimer
    /\ resetTimer' = FALSE
    /\ entry' = TRUE /\ area' = TRUE
    /\ UNCHANGED <<outVars, loopVars, checkVars, cancelTimer, responseTimer,
                   threadVars>>

\* The daemon kills the dialog that it takes down.
Terminated ==
    /\ alive \in {"alive", "hung"}
    /\ alive' = "exited"
    /\ UNCHANGED <<canLock, said, first, loopVars, checkVars, plugVars, threadVars>>
------------------------------------------------------------------------------
(* The PAM thread. *)

Thread == alive = "alive" /\ UNCHANGED <<outVars, loopVars, checkVars, plugVars>>

GoesStraightOn == thread' = "woken"
Waits == thread' = "waiting"

\* gs_auth_run_message_handler up to g_cond_wait, which lets the mutex go.
PamAsks(style) ==
    /\ Thread /\ thread = "running" /\ MutexFree
    /\ queued' = style /\ Waits
    /\ UNCHANGED <<staleIdle, pam, spurious>>

\* g_cond_wait returns.  A handler still queued loses its message, which was on
\* this thread's stack.
PamGoesOn ==
    /\ thread' = "running"
    /\ queued' = "none"
    /\ staleIdle' = (staleIdle \/ queued # "none")
    /\ UNCHANGED pam

PamIsAnswered ==
    /\ Thread /\ thread = "woken" /\ MutexFree
    /\ PamGoesOn
    /\ UNCHANGED spurious

\* g_cond_wait may return without a signal, and nobody checks for that.
PamWakesUp ==
    /\ Thread /\ thread = "waiting" /\ MutexFree
    /\ spurious < MaxSpurious /\ spurious' = spurious + 1
    /\ PamGoesOn

\* pam_authenticate and what follows it are over: gs_auth_thread_func closes
\* the pipe.
PamEnds(result) ==
    /\ Thread /\ thread = "running"
    /\ thread' = "done" /\ pam' = result
    /\ UNCHANGED <<queued, staleIdle, spurious>>
------------------------------------------------------------------------------
Init ==
    /\ canLock \in BOOLEAN /\ alive = "alive" /\ said = {} /\ first = "none"
    /\ main = "start" /\ quit1 = FALSE /\ quit2 = FALSE
    /\ checkIdle = FALSE /\ okIdle = FALSE /\ quitIdle = FALSE
    /\ failures = 0 /\ threadDone = FALSE
    /\ entry = TRUE /\ area = TRUE /\ cancelTimer = FALSE
    /\ responseTimer = FALSE /\ resetTimer = FALSE /\ quitTimer = FALSE
    /\ thread = "none" /\ queued = "none" /\ staleIdle = FALSE
    /\ pam = "none" /\ spurious = 0

MainThread ==
    \/ Starts \/ PopupDialogIdle
    \/ CheckBegins \/ ThreadHangsUp \/ CheckEnds \/ QuitResponseOk \/ RequestQuit
    \/ Exit \/ HandleMessage \/ HandleStaleMessage \/ HandlerWithinHandler
    \/ HandlerEnds

Next ==
    \* the user, the window, the daemon
    \/ Reply \/ Unmapped \/ Escape \/ DeleteEvent \/ SwitchUser \/ KeyPress
    \/ Terminated
    \* timers
    \/ ResponseTimeout \/ DialogTimedOut \/ ResetIdle \/ QuitTimeout
    \/ MainThread
    \* PAM
    \/ \E style \in Styles : PamAsks(style)
    \/ PamIsAnswered \/ PamWakesUp
    \/ \E result \in {"success", "failure"} : PamEnds(result)

Spec == Init /\ [][Next]_vars

\* The main thread runs what is due, timers fire, and a thread that has been
\* woken gets its mutex.  Neither the user nor PAM has to do anything.
FairSpec ==
    /\ Spec
    /\ WF_vars(MainThread) /\ WF_vars(PamIsAnswered)
    /\ WF_vars(ResponseTimeout) /\ WF_vars(DialogTimedOut) /\ WF_vars(QuitTimeout)
------------------------------------------------------------------------------
(* Properties *)

\* The process kills itself, and PAM's thread with it, only if the user or a
\* timer cancelled, and has said so (raise (SIGTERM) in gs_auth_pam_verify_user).
KilledOnlyAfterCancel == alive = "killed" => "cancel" \in said

\* The signal to a waiting thread cannot be missed: there is a handler queued
\* that will give it, or one at work (gs_auth_run_message_handler takes the
\* mutex before it queues the handler).
ThreadIsHeard == thread = "waiting" /\ alive = "alive" => queued # "none" \/ ~MutexFree

\* No prompt without a timer that ends it: it times out, or the response that
\* is to end it is on its way.
PromptHasTimer == main = "prompt" => cancelTimer \/ responseTimer

\* No more than MaxFailures checks fail, and after that many the dialog asks to
\* be ended and sees to its end.
QuitsAfterFailures ==
    failures = MaxFailures =>
        ~checkIdle /\ main = "loop1" /\ (quitTimer \/ quit1)

\* As the daemon reads the dialog.
Abstract == INSTANCE Dialog WITH
    child <- IF first # "none" THEN first
             ELSE IF alive \in {"exited", "killed"} THEN "gone" ELSE "silent",
    authenticated <- pam = "success"

\* What counts for the daemon is the first answer, and that is OK only if PAM
\* has accepted the user in the check before it.
ImplementsDialog == Abstract!Spec

\* While the user is prompted the conversation waits for the reply ("blocks
\* until the gui responds", pam_conversation), until the thread wakes up without
\* a signal: then the user may reply to a message that nobody waits for.
PromptIsAwaited ==
    main = "prompt" /\ alive = "alive" => thread = "waiting" \/ spurious > 0

\* A prompt comes to an end without the user: sixty seconds after the last key
\* it times out, and two seconds later it is cancelled.  Nor does the main thread
\* wait for the PAM thread, which may never finish: a check whose loop was told
\* to quit ends.
LoopsEnd ==
    /\ main = "prompt" ~> main # "prompt" \/ alive # "alive"
    /\ main = "loop2" /\ quit2 ~> main # "loop2" \/ alive # "alive"

\* After MaxFailures failures the process ends, with or without the daemon.
FailuresEnd == failures = MaxFailures ~> alive # "alive"
==============================================================================
