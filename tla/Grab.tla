--------------------------------- MODULE Grab ---------------------------------
(***************************************************************************)
(* GSGrab: how the daemon takes, moves and gives back the seat (keyboard   *)
(* and mouse) of the X server, attempt by attempt, while another client    *)
(* may hold it or want it.  What GSGrab has on its books (seat, grabWindow)*)
(* is apart from what the server does (xSeat).  The callers, GSManager and *)
(* GSMonitor, are here as the order in which they call.                    *)
(***************************************************************************)
EXTENDS Naturals

CONSTANTS
    Windows,     \* the lock windows, one for each monitor
    Nothing,     \* no window
    MaxTrouble   \* bound on the grabs of others and the refusals of the server

ASSUME WindowAssumption ==
    /\ Nothing \notin Windows \union {"root", "offscreen", "other"}
    /\ Windows \intersect {"root", "offscreen", "other"} = {}
ASSUME TroubleAssumption == MaxTrouble \in Nat

VARIABLES
    xSeat,        \* who has the seat: a window of ours, "other", Nothing
    serverGrabs,  \* how often we hold the whole X server (GDK counts)
    mapped,       \* the lock windows there are
    seat,         \* grab->priv->seat # NULL
    grabWindow,   \* grab->priv->seat_grab_window
    broken,       \* windows with a GrabBroken event on its way
    mode,         \* of the callers: "off", "notice", "up", "dialog"
    dialogWindow, \* the window with the dialog
    call,         \* the call of GSGrab in progress
    trouble       \* how much of MaxTrouble is spent

xVars == <<xSeat, serverGrabs>>
bookVars == <<seat, grabWindow>>
callerVars == <<mapped, mode, dialogWindow>>
vars == <<xVars, bookVars, callerVars, broken, call, trouble>>

Ours == Windows \union {"root", "offscreen"}
NoCall == [op |-> "none"]
DestroyCall == [op |-> "destroy", after |-> "close"]
Calls ==
    [op : {"grab"}, window : {"root", "offscreen"}, tries : 0..8,
     after : {"notice", "up"}]
    \union [op : {"move"}, window : Windows, old : Ours \union {Nothing},
            step : {"check", "first", "second", "resume", "done"},
            after : {"map", "dialog", "down", "close", "gone", "moved", "added"}]
    \union {NoCall, DestroyCall}

\* Every variable has its type.
TypeOK ==
    /\ xSeat \in Ours \union {"other", Nothing} /\ serverGrabs \in 0..2
    /\ mapped \subseteq Windows /\ broken \subseteq Windows
    /\ seat \in BOOLEAN /\ grabWindow \in Ours \union {Nothing}
    /\ mode \in {"off", "notice", "up", "dialog"}
    /\ dialogWindow \in Windows \union {Nothing}
    /\ call \in Calls /\ trouble \in 0..MaxTrouble
------------------------------------------------------------------------------
(* What GSGrab asks of the server. *)

SeatGrabbedUnbooked(window, old) ==
    /\ xSeat' = window /\ grabWindow' = window
    /\ UNCHANGED <<seat, broken, trouble>>

\* gs_grab_seat_grab with success: GDK replaces a grab that is ours.  One that
\* moves between lock windows may come back as a GrabBroken event.
SeatGrabbed(window, old) ==
    /\ xSeat' = window
    /\ seat' = TRUE
    /\ grabWindow' = window
    /\ broken' \in {broken, broken \union (({old} \ {window}) \intersect mapped)}
    /\ UNCHANGED trouble

\* gs_grab_seat_grab without: another client has the seat, or the server
\* refuses for another reason (a window not viewable, a frozen device).
SeatDenied ==
    /\ UNCHANGED <<xSeat, bookVars, broken>>
    /\ IF xSeat = "other"
       THEN UNCHANGED trouble
       ELSE trouble < MaxTrouble /\ trouble' = trouble + 1

\* gs_grab_seat_reset.
SeatReset == seat' = FALSE /\ grabWindow' = Nothing

UngrabForgets == SeatReset /\ UNCHANGED xSeat

\* gs_grab_seat_ungrab, all of gs_grab_release: with no seat on the books GDK does nothing.
SeatUngrab ==
    /\ xSeat' = IF seat /\ xSeat \in Ours THEN Nothing ELSE xSeat
    /\ SeatReset

\* Windows go away: the server frees a grab of theirs, and the weak pointer
\* forgets them.
DestroyedStale(gone) ==
    /\ mapped' = mapped \ gone
    /\ broken' = broken \ gone
    /\ xSeat' = IF xSeat \in gone THEN Nothing ELSE xSeat
    /\ UNCHANGED <<seat, grabWindow>>
Destroyed(gone) ==
    /\ mapped' = mapped \ gone
    /\ broken' = broken \ gone
    /\ xSeat' = IF xSeat \in gone THEN Nothing ELSE xSeat
    /\ grabWindow' = IF grabWindow \in gone THEN Nothing ELSE grabWindow
    /\ UNCHANGED seat
------------------------------------------------------------------------------
(* The two calls. *)

NoCallInProgress == call = NoCall

GrabCall(w, after) == [op |-> "grab", window |-> w, tries |-> 0, after |-> after]
MoveCall(w, after) ==
    [op |-> "move", window |-> w, old |-> Nothing, step |-> "check",
     after |-> after]

\* gs_grab_grab_window: eight attempts, a second apart, the server not grabbed;
\* then it returns, with the seat or without.
GrabTry ==
    /\ call.op = "grab" /\ call.tries < 8
    /\ \/ /\ xSeat # "other"
          /\ SeatGrabbed(call.window, Nothing)
          /\ call' = [call EXCEPT !.tries = 8]
       \/ /\ SeatDenied
          /\ call' = [call EXCEPT !.tries = @ + 1]
    /\ UNCHANGED <<serverGrabs, callerVars>>

ServerLeftOpen == UNCHANGED serverGrabs
ServerGrab == serverGrabs' = serverGrabs + 1

\* gs_grab_move_grab up to its first attempt: a seat that was lost is struck
\* off the books, and a window that has it needs no more.  Else the server is
\* grabbed and the old grab given up.
MoveCheck ==
    /\ call.op = "move" /\ call.step = "check"
    /\ LET lost == seat /\ xSeat \notin Ours
           old == IF lost THEN Nothing ELSE grabWindow
       IN  IF old = call.window
           THEN /\ call' = [call EXCEPT !.step = "done"]
                /\ UNCHANGED <<xVars, bookVars>>
           ELSE /\ call' = [call EXCEPT !.step = "first", !.old = old]
                /\ ServerGrab
                /\ IF old = Nothing
                   THEN /\ UNCHANGED xSeat
                        /\ IF lost THEN SeatReset ELSE UNCHANGED bookVars
                   ELSE SeatUngrab
    /\ UNCHANGED <<callerVars, broken, trouble>>

ServerKeptBetweenTries(ok) == serverGrabs' = IF ok THEN serverGrabs - 1 ELSE 1

\* gdk_x11_ungrab_server, whatever has come of the attempts.
ServerUngrab(ok) == serverGrabs' = serverGrabs - 1

MoveEnds(step) ==
    /\ call' = [call EXCEPT !.step = step, !.old = Nothing]
    /\ ServerUngrab(step = "done")

\* The two attempts of gs_grab_move_grab, a quarter of a second apart, and the
\* one to get the old grab back.  gs_grab_move_to_window starts over until the
\* window has the seat.
MoveTry ==
    /\ call.op = "move" /\ call.step \in {"first", "second"}
    /\ \/ /\ xSeat # "other"
          /\ SeatGrabbed(call.window, call.old)
          /\ MoveEnds("done")
       \/ /\ SeatDenied
          /\ \/ /\ call.step = "first"
                /\ call' = [call EXCEPT !.step = "second"]
                /\ UNCHANGED serverGrabs
             \/ /\ call.step = "second" /\ call.old # Nothing
                /\ call' = [call EXCEPT !.step = "resume"]
                /\ UNCHANGED serverGrabs
             \/ /\ call.step = "second" /\ call.old = Nothing
                /\ MoveEnds("check")
    /\ UNCHANGED callerVars

MoveResume ==
    /\ call.op = "move" /\ call.step = "resume"
    /\ (xSeat # "other" /\ SeatGrabbed(call.old, Nothing)) \/ SeatDenied
    /\ MoveEnds("check")
    /\ UNCHANGED callerVars
------------------------------------------------------------------------------
(* Who calls, and what follows the return. *)

Begins(newCall) ==
    /\ NoCallInProgress
    /\ call' = newCall
    /\ UNCHANGED <<xVars, bookVars, callerVars, broken, trouble>>

Returned(after) ==
    /\ call.op # "none" /\ call.after = after
    /\ call.op = "grab" => call.tries = 8
    /\ call.op = "move" => call.step = "done"
    /\ UNCHANGED trouble

\* watcher_idle_notice_cb takes the seat for the offscreen window.
Notice == mode \in {"off", "notice"} /\ Begins(GrabCall("offscreen", "notice"))
NoticeInEffect ==
    /\ Returned("notice")
    /\ mode' = "notice" /\ call' = NoCall
    /\ UNCHANGED <<xVars, bookVars, mapped, dialogWindow, broken>>

\* gs_manager_activate takes it for the root window and makes the windows.
Activate == mode \in {"off", "notice"} /\ Begins(GrabCall("root", "up"))
ScreenUp ==
    /\ Returned("up")
    /\ mode' = "up" /\ call' = NoCall
    /\ mapped' \in SUBSET Windows
    /\ UNCHANGED <<xVars, bookVars, dialogWindow, broken>>

\* window_map_event_cb, for the window at the pointer, dialog or no dialog.
MapEvent(w) ==
    mode \in {"up", "dialog"} /\ w \in mapped /\ Begins(MoveCall(w, "map"))
WindowHasSeat ==
    /\ Returned("map")
    /\ call' = NoCall
    /\ UNCHANGED <<xVars, bookVars, callerVars, broken>>

\* handle_window_dialog_up: the seat goes to the window of the dialog and from
\* there to whoever wants it.  Likewise after a monitor was removed ("moved").
DialogUp(w) == mode = "up" /\ w \in mapped /\ Begins(MoveCall(w, "dialog"))
DialogIsUp ==
    /\ \/ Returned("dialog") /\ UNCHANGED serverGrabs
       \/ Returned("moved") /\ ServerUngrab(TRUE)
    /\ mode' = "dialog" /\ dialogWindow' = call.window /\ call' = NoCall
    /\ SeatUngrab
    /\ UNCHANGED <<mapped, broken>>

\* handle_window_dialog_down.
DialogDown == mode = "dialog" /\ Begins(MoveCall(dialogWindow, "down"))
DialogIsDown ==
    /\ Returned("down")
    /\ mode' = "up" /\ dialogWindow' = Nothing /\ call' = NoCall
    /\ UNCHANGED <<xVars, bookVars, mapped, broken>>

\* on_screen_monitors_changed with a monitor more: the dialog goes down and
\* comes up again; a locked screen gets one anyhow.
Plug(w) ==
    /\ NoCallInProgress /\ w \notin mapped
    /\ \/ /\ mode = "up"
          /\ mapped' = mapped \union {w}
          /\ call' \in {NoCall} \union {MoveCall(v, "dialog") : v \in mapped'}
       \/ /\ mode = "dialog"
          /\ call' = MoveCall(dialogWindow, "added")
          /\ UNCHANGED mapped
    /\ UNCHANGED <<xVars, bookVars, mode, dialogWindow, broken, trouble>>
WindowAdded ==
    /\ Returned("added")
    /\ \E w \in Windows \ mapped : mapped' = mapped \union {w}
    /\ mode' = "up" /\ dialogWindow' = Nothing
    /\ call' \in {MoveCall(v, "dialog") : v \in mapped'}
    /\ UNCHANGED <<xVars, bookVars, broken>>

\* on_screen_monitors_changed with a monitor less, the server grabbed.  The
\* dialog of the window goes down first, and it comes up on another window; a
\* locked screen gets one anyhow.
Unplug(w) ==
    /\ NoCallInProgress /\ mode \in {"up", "dialog"} /\ w \in mapped
    /\ \/ /\ w # dialogWindow
          /\ Destroyed({w})
          /\ UNCHANGED <<serverGrabs, call>>
       \/ /\ mode = "up"
          /\ Destroyed({w})
          /\ ServerGrab
          /\ call' \in {MoveCall(v, "moved") : v \in mapped'}
       \/ /\ w = dialogWindow
          /\ ServerGrab
          /\ call' = MoveCall(w, "gone")
          /\ UNCHANGED <<mapped, broken, xSeat, bookVars>>
    /\ UNCHANGED <<mode, dialogWindow, trouble>>
WindowGone ==
    /\ Returned("gone")
    /\ mode' = "up" /\ dialogWindow' = Nothing
    /\ Destroyed({call.window})
    /\ IF mapped' = {}
       THEN call' = NoCall /\ ServerUngrab(TRUE)
       ELSE /\ call' \in {MoveCall(v, "moved") : v \in mapped'}
            /\ UNCHANGED serverGrabs

\* release_grab_timeout, on a screen that is off.
ReleaseGrabTimeout ==
    /\ NoCallInProgress /\ mode = "notice"
    /\ mode' = "off"
    /\ SeatUngrab
    /\ UNCHANGED <<serverGrabs, mapped, dialogWindow, broken, call, trouble>>

\* gs_manager_deactivate: the grab is released, then the windows destroyed; a
\* dialog that goes down with them takes the seat for its window once more.
Deactivate ==
    /\ NoCallInProgress /\ mode \in {"up", "dialog"}
    /\ SeatUngrab
    /\ call' = IF mode = "dialog" THEN MoveCall(dialogWindow, "close")
               ELSE DestroyCall
    /\ UNCHANGED <<serverGrabs, callerVars, broken, trouble>>
WindowsDestroyed ==
    /\ Returned("close")
    /\ mode' = "off" /\ dialogWindow' = Nothing /\ call' = NoCall
    /\ Destroyed(mapped)
    /\ UNCHANGED serverGrabs

\* window_grab_broken_cb strikes the seat off the books, whoever has it now.
GrabBroken(w) ==
    /\ NoCallInProgress /\ w \in broken
    /\ broken' = broken \ {w}
    /\ SeatReset
    /\ UNCHANGED <<xVars, callerVars, call, trouble>>
------------------------------------------------------------------------------
(* Another client of the X server; a grab of the whole server holds it up. *)

OtherGrabs ==
    /\ serverGrabs = 0 /\ xSeat = Nothing /\ trouble < MaxTrouble
    /\ xSeat' = "other"
    /\ trouble' = trouble + 1
    /\ UNCHANGED <<serverGrabs, bookVars, callerVars, broken, call>>

OtherReleases ==
    /\ serverGrabs = 0 /\ xSeat = "other"
    /\ xSeat' = Nothing
    /\ UNCHANGED <<serverGrabs, bookVars, callerVars, broken, call, trouble>>
------------------------------------------------------------------------------
Init ==
    /\ xSeat \in {Nothing, "other"} /\ serverGrabs = 0
    /\ mapped = {} /\ seat = FALSE /\ grabWindow = Nothing /\ broken = {}
    /\ mode = "off" /\ dialogWindow = Nothing /\ call = NoCall /\ trouble = 0

Attempt == GrabTry \/ MoveCheck \/ MoveTry \/ MoveResume
Return ==
    \/ NoticeInEffect \/ ScreenUp \/ WindowHasSeat \/ DialogIsUp \/ DialogIsDown
    \/ WindowAdded \/ WindowGone \/ WindowsDestroyed
Caller ==
    \/ Notice \/ Activate \/ DialogDown \/ ReleaseGrabTimeout \/ Deactivate
    \/ \E w \in Windows : \/ MapEvent(w) \/ DialogUp(w) \/ Plug(w) \/ Unplug(w)
                          \/ GrabBroken(w)

Next == Attempt \/ Return \/ Caller \/ OtherGrabs \/ OtherReleases

Spec == Init /\ [][Next]_vars

\* The daemon goes on with a call it is in.  The other client gives the seat
\* back in the end, and what it asked of a grabbed server is done afterwards.
FairSpec == Spec /\ WF_vars(Attempt) /\ WF_vars(Return) /\ SF_vars(OtherReleases)
------------------------------------------------------------------------------
(* What must be true of the seat. *)

\* What GSGrab has on its books is what the server does: a window it takes for
\* grabbed has the seat.  It skips the grab of such a window, so that a stale
\* entry would leave a locked screen without keyboard and mouse.
BooksAreTrue == grabWindow # Nothing => xSeat = grabWindow

\* While a grab moves from one window to another, no other client can slip in
\* between: the server is grabbed from the release to the last attempt.
MoveKeepsOthersOut ==
    call.op = "move" /\ call.old # Nothing => xSeat # "other"

\* On a screen that is off, and has no notice, the daemon keeps no seat: not
\* even one that it has lost from its books, and not the one that a dialog
\* takes back while the windows are destroyed.  And the X server is never left
\* grabbed, or every client would hang.
NothingIsKept ==
    NoCallInProgress =>
      /\ mode = "off" => xSeat \notin Ours
      /\ serverGrabs = 0

\* When the dialog has come up the seat is free, for the dialog is another
\* client and has to take it.
DialogCanHaveSeat ==
    [][mode # "dialog" /\ mode' = "dialog" => xSeat' \notin Ours]_vars

\* Every call returns that is not made with the server grabbed before it.
CallsReturn ==
    ~NoCallInProgress /\ serverGrabs = 0 ~> NoCallInProgress
------------------------------------------------------------------------------
(* What the comments claim, and the code does not do. *)

\* gs_grab_move_to_window does not fail (gs-grab-x11.c, "similar to
\* gs_grab_grab_window but doesn't fail"): refuted when the monitor with the
\* dialog is unplugged while another client has the seat.  The server is
\* grabbed for all of on_screen_monitors_changed, the other client cannot give
\* the seat back, and the daemon tries for ever.
MoveDoesNotFail == call.op = "move" ~> call.op # "move" \/ call.step = "done"
==============================================================================
