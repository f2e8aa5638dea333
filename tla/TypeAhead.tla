------------------------------- MODULE TypeAhead -------------------------------
(***************************************************************************)
(* The way of a key from the screen to an answer for PAM.  The key that    *)
(* wakes the screen, and those typed before the dialog has its window, are *)
(* queued by the GSWindow they came to and forwarded when the dialog's     *)
(* socket is shown; those that reach the GSLockPlug before its entry takes *)
(* input are queued there and forwarded by the next prompt.  Keys are      *)
(* numbered as they are typed; `typed' is what should reach the entry.     *)
(***************************************************************************)
EXTENDS Naturals, Sequences

CONSTANTS
    Windows,          \* the windows of the screen
    MaxQueuedEvents,  \* MAX_QUEUED_EVENTS
    MaxKeys           \* bound on the keys that are typed

ASSUME QueueAssumption == MaxQueuedEvents \in Nat
ASSUME KeysAssumption == MaxKeys \in Nat

Kinds == {"char", "return", "navigation"}
None == "none"
Keys == [number : 1 .. MaxKeys, kind : {"char", "return"}]

VARIABLES
    keys,       \* how many have been typed
    dialog,     \* the window whose dialog is up, or None
    socket,     \* its lock_socket: "none", "hidden" or "shown"
    queue,      \* window->priv->key_events, oldest first
    plugQueue,  \* plug->priv->key_events, oldest first
    sensitive,  \* the entry takes input
    prompting,  \* gs_lock_plug_run for a prompt of PAM; else PAM is at work
    clicking,   \* the unlock button has been activated, and is to be clicked
    text,       \* the entry's
    resets,     \* the reset_idle_cb timers
    typed,      \* keys each window got since the last dialog's end (history)
    strays,     \* keys of earlier dialogs' times that it still has (history)
    entered,    \* keys that this dialog's entry has got (history)
    answered,   \* how many at the last answer or CANCEL (history)
    troubled    \* a queue was full, or the entry woke before a prompt (history)

plug == <<plugQueue, sensitive, prompting, clicking, text, resets, entered,
          answered>>
vars == <<keys, dialog, socket, queue, plug, typed, strays, troubled>>

TypeOK ==
    /\ keys \in 0 .. MaxKeys
    /\ dialog \in Windows \union {None} /\ socket \in {"none", "hidden", "shown"}
    /\ queue \in [Windows -> Seq(Keys)]
    /\ typed \in [Windows -> Seq(Keys)] /\ strays \in [Windows -> Seq(Keys)]
    /\ plugQueue \in Seq(Keys) /\ text \in Seq(Keys) /\ entered \in Seq(Keys)
    /\ sensitive \in BOOLEAN /\ prompting \in BOOLEAN /\ clicking \in BOOLEAN
    /\ resets \in 0 .. 2 /\ answered \in 0 .. MaxKeys /\ troubled \in BOOLEAN
-------------------------------------------------------------------------------
(* The plug: what the entry does with keys, and PAM with the entry. *)

\* Those of the keys that are text: the first n of them leave kept[n].
Chars(ks) ==
    LET kept[n \in 0 .. Len(ks)] ==
          IF n = 0 THEN <<>>
          ELSE IF ks[n].kind = "char" THEN Append(kept[n - 1], ks[n])
          ELSE kept[n - 1]
    IN  kept[Len(ks)]
HasReturn(ks) == \E i \in DOMAIN ks : ks[i].kind = "return"

\* Keys get to the entry: Return activates the unlock button, which is clicked a
\* little later, and only while it is sensitive.
Enter(ks, duringPrompt) ==
    /\ text' = text \o Chars(ks)
    /\ entered' = entered \o ks
    /\ clicking' = (clicking \/ (duringPrompt /\ HasReturn(ks)))

\* entry_key_press, for each key in turn: to the entry, or kept for later.
PlugGets(ks) ==
    /\ IF sensitive THEN Enter(ks, prompting) /\ UNCHANGED plugQueue
       ELSE plugQueue' = plugQueue \o ks /\ UNCHANGED <<text, entered, clicking>>
    /\ UNCHANGED <<sensitive, prompting, resets, answered>>

\* forward_key_events of the plug.
PlugForward == Enter(plugQueue, TRUE) /\ plugQueue' = <<>>

\* request_response: gs_lock_plug_enable_prompt and gs_lock_plug_run; maybe
\* before the window knows of the plug.
Prompt ==
    /\ dialog # None /\ ~prompting
    /\ prompting' = TRUE /\ sensitive' = TRUE
    /\ PlugForward
    /\ UNCHANGED <<keys, dialog, socket, queue, resets, answered, typed, strays,
                   troubled>>

TextStays == UNCHANGED text

\* gs_lock_plug_get_text: the entry is empty after that.
GetText == text' = <<>>

\* unlock_button_clicked and request_response: the answer goes to PAM.
Answer ==
    /\ prompting /\ clicking
    /\ clicking' = FALSE /\ prompting' = FALSE /\ sensitive' = FALSE
    /\ GetText /\ answered' = Len(entered)
    /\ UNCHANGED <<keys, dialog, socket, queue, plugQueue, resets, entered, typed,
                   strays, troubled>>

\* auth_check_idle: PAM has refused, and is asked again at once; the entry will
\* be sensitive in three seconds.
AuthFails ==
    /\ dialog # None /\ ~prompting /\ resets < 2
    /\ resets' = resets + 1 /\ sensitive' = FALSE
    /\ UNCHANGED <<keys, dialog, socket, queue, plugQueue, prompting, clicking,
                   text, entered, answered, typed, strays, troubled>>

\* reset_idle_cb, whether or not there is a prompt; what is queued stays so.
ResetIdle ==
    /\ resets > 0 /\ resets' = resets - 1
    /\ sensitive' = TRUE
    /\ troubled' = (troubled \/ plugQueue # <<>>)
    /\ UNCHANGED <<keys, dialog, socket, queue, plugQueue, prompting, clicking,
                   text, entered, answered, typed, strays>>

\* dialog_timed_out and switch_user_button_clicked: the dialog is to be given
\* up, and the entry takes no more keys.
GivenUp ==
    /\ dialog # None /\ sensitive' = FALSE
    /\ UNCHANGED <<keys, dialog, socket, queue, plugQueue, prompting, clicking,
                   text, resets, entered, answered, typed, strays, troubled>>

\* gs_lock_plug_response with CANCEL, by the timer of GivenUp or by the user; it
\* ends the run of a prompt, and request_response takes no text.
Cancel ==
    /\ dialog # None
    /\ text' = <<>> /\ answered' = Len(entered)
    /\ clicking' = FALSE /\ prompting' = FALSE
    /\ sensitive' = (sensitive /\ ~prompting)
    /\ UNCHANGED <<keys, dialog, socket, queue, plugQueue, resets, entered, typed,
                   strays, troubled>>
-------------------------------------------------------------------------------
(* The windows. *)

\* The dialog goes up for the window at the pointer, gs_manager_request_unlock:
\* unless there is one.
Asked(p) == dialog' = IF dialog = None THEN p ELSE dialog

\* queue_key_event: Return and its like do not start a queue, focus navigation
\* is not queued, and no more than the maximum is.
Eaten(w, kind) == kind = "return" /\ queue[w] = <<>>
QueueKeyEvent(w, key) ==
    IF key.kind = "navigation" \/ Eaten(w, key.kind)
       \/ Len(queue[w]) >= MaxQueuedEvents
    THEN UNCHANGED queue
    ELSE queue' = [queue EXCEPT ![w] = Append(@, key)]

\* A key for a window whose socket is not shown.  It asks for a dialog first, if
\* the window has no socket, and that may be another window's.
KeyWhileQueued(w, kind) ==
    /\ dialog \in {None, w} /\ (dialog = w => socket # "shown")
    /\ LET key == [number |-> keys + 1, kind |-> kind]
           wanted == kind # "navigation" /\ ~Eaten(w, kind)
       IN  /\ \/ socket = "none" /\ \E p \in Windows : Asked(p)
              \/ socket # "none" /\ UNCHANGED dialog
           /\ QueueKeyEvent(w, key)
           /\ typed' = IF wanted THEN [typed EXCEPT ![w] = Append(@, key)] ELSE typed
           /\ troubled' = (troubled \/ (wanted /\ UNCHANGED queue))
    /\ UNCHANGED <<socket, plug, strays>>

\* A key for the window whose socket is shown: to the dialog, and in the queue.
KeyWhileShown(kind) ==
    /\ dialog # None /\ socket = "shown"
    /\ LET key == [number |-> keys + 1, kind |-> kind]
       IN  /\ QueueKeyEvent(dialog, key)
           /\ IF kind = "navigation" THEN UNCHANGED <<plug, typed>>
              ELSE /\ PlugGets(<<key>>)
                   /\ typed' = [typed EXCEPT ![dialog] = Append(@, key)]
    /\ UNCHANGED <<dialog, socket, strays, troubled>>

\* gs_window_real_key_press_event.  Other windows than the dialog's are
\* insensitive while it is up, and get no keys.
KeyPress ==
    /\ keys < MaxKeys /\ keys' = keys + 1
    /\ \E kind \in Kinds :
         KeyWhileShown(kind) \/ \E w \in Windows : KeyWhileQueued(w, kind)

\* Something else asks for the dialog: the pointer, or a call on the bus.
OtherActivity ==
    /\ dialog = None /\ \E p \in Windows : Asked(p)
    /\ UNCHANGED <<keys, socket, queue, plug, typed, strays, troubled>>

\* lock_command_watch, create_lock_socket: the dialog has shown its plug, for the
\* first message of PAM.
SocketMade ==
    /\ dialog # None /\ socket = "none" /\ socket' = "hidden"
    /\ UNCHANGED <<keys, dialog, queue, plug, typed, strays, troubled>>

\* lock_plug_added and lock_socket_show; forward_key_events of the window.
SocketShow ==
    /\ dialog # None /\ socket = "hidden" /\ socket' = "shown"
    /\ PlugGets(queue[dialog])
    /\ queue' = [queue EXCEPT ![dialog] = <<>>]
    /\ UNCHANGED <<keys, dialog, typed, strays, troubled>>

KeysStay == UNCHANGED queue

\* remove_key_events of the window.
RemoveKeyEvents == queue' = [queue EXCEPT ![dialog] = <<>>]

NewPlug ==
    /\ plugQueue' = <<>> /\ sensitive' = FALSE /\ prompting' = FALSE
    /\ clicking' = FALSE /\ text' = <<>> /\ resets' = 0
    /\ entered' = <<>> /\ answered' = 0

\* popdown_dialog, whatever ends the dialog; all windows get keys again.  What
\* is queued in a window that did not get the dialog is not removed.
DialogFinish ==
    /\ dialog # None
    /\ RemoveKeyEvents /\ NewPlug
    /\ strays' = [w \in Windows |-> IF w = dialog THEN <<>>
                                     ELSE strays[w] \o typed[w]]
    /\ typed' = [w \in Windows |-> <<>>]
    /\ dialog' = None /\ socket' = "none"
    /\ UNCHANGED <<keys, troubled>>
-------------------------------------------------------------------------------
Init ==
    /\ keys = 0 /\ dialog = None /\ socket = "none"
    /\ queue = [w \in Windows |-> <<>>] /\ typed = queue /\ strays = queue
    /\ plugQueue = <<>> /\ sensitive = FALSE /\ prompting = FALSE
    /\ clicking = FALSE /\ text = <<>> /\ resets = 0
    /\ entered = <<>> /\ answered = 0 /\ troubled = FALSE

Next ==
    \/ KeyPress \/ OtherActivity \/ SocketMade \/ SocketShow \/ DialogFinish
    \/ Prompt \/ Answer \/ AuthFails \/ ResetIdle \/ GivenUp \/ Cancel

Spec == Init /\ [][Next]_vars
-------------------------------------------------------------------------------
(* What must be true of the keys. *)

\* No key is lost, doubled or overtaken on its way through the two queues, and
\* none of an earlier dialog of this window arrives.  What does arrive of earlier
\* times, and first, are the strays: keys that asked for a dialog from a window
\* that did not get it stay in its queue, and go to whatever dialog it has next.
\* Not so after a queue was full, or the entry woke in the middle of a check with
\* keys queued (gs-lock-plug.c forwards those at the next prompt only).
KeysKept ==
    ~troubled =>
      \A w \in Windows :
        strays[w] \o typed[w]
          = IF dialog = w /\ socket = "shown" THEN entered \o plugQueue
                                              ELSE queue[w]

\* An answer is what was typed since the last one, whatever was refused or
\* cancelled and however keys overtook each other: nothing of an answer is in the
\* next.
AnswerIsFresh ==
    text = Chars(SubSeq(entered, answered + 1, Len(entered)))
===============================================================================
