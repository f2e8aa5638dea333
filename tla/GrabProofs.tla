------------------------------- MODULE GrabProofs -------------------------------
(***************************************************************************)
(* The books of GSGrab are true, a move lets nobody in, and what was taken *)
(* is given back, for any set of windows and any amount of trouble with    *)
(* the other client and the server.                                        *)
(***************************************************************************)
EXTENDS Grab, TLAPS

GrabCalls ==
    [op : {"grab"}, window : {"root", "offscreen"}, tries : 0..8,
     after : {"notice", "up"}]
MoveCalls ==
    [op : {"move"}, window : Windows, old : Ours \union {Nothing},
     step : {"check", "first", "second", "resume", "done"},
     after : {"map", "dialog", "down", "close", "gone", "moved", "added"}]

Moving == call.op = "move"
Trying == Moving /\ call.step \in {"first", "second", "resume"}

\* The server is grabbed once for the attempts of a move, and once for all of
\* on_screen_monitors_changed if a monitor is gone.
ServerIsCounted ==
    serverGrabs = (IF Trying THEN 1 ELSE 0)
                  + (IF Moving /\ call.after \in {"gone", "moved"} THEN 1 ELSE 0)

\* A window of ours that is not a lock window has the seat only with the books
\* in order, and with no event on its way that would strike it off.
HiddenIsBooked ==
    xSeat \in {"root", "offscreen"} => seat /\ grabWindow = xSeat /\ broken = {}

\* Lock windows are there while the screen is up, and have the seat only then.
WindowsAreMapped ==
    /\ mode \in {"off", "notice"} => mapped = {}
    /\ broken \subseteq mapped
    /\ xSeat \in Windows => xSeat \in mapped
    /\ IF mode = "dialog" THEN dialogWindow \in mapped ELSE dialogWindow = Nothing

\* What a call in progress has found out, or done.
CallIsTrue ==
    /\ Moving =>
         /\ call.window \in mapped
         /\ call.old # Nothing => Trying
         /\ call.old \in Windows => call.old \in mapped
         /\ call.old \in {"root", "offscreen"} => broken = {}
         /\ call.step = "resume" => call.old # Nothing
         /\ Trying => xSeat \notin {"root", "offscreen"}
         /\ call.step = "done" => seat /\ xSeat = call.window
    /\ call.op = "destroy" => xSeat \notin {"root", "offscreen"}
    /\ call.op = "grab" => mode \in {"off", "notice"}

\* The books are true, and complete.
Booked == grabWindow # Nothing => seat /\ xSeat = grabWindow

Seats == Booked /\ HiddenIsBooked /\ WindowsAreMapped
Progress == ServerIsCounted /\ CallIsTrue /\ MoveKeepsOthersOut /\ NothingIsKept
IInv == TypeOK /\ Seats /\ Progress

USE WindowAssumption, TroubleAssumption

Afters == {"map", "dialog", "down", "close", "gone", "moved", "added"}
-------------------------------------------------------------------------------
(* Calls by their kind. *)

LEMMA CallKinds ==
    ASSUME TypeOK
    PROVE  /\ call.op \in {"none", "grab", "move", "destroy"}
           /\ call.op = "none" <=> call = NoCall
           /\ call.op = "grab" => call \in GrabCalls
           /\ call.op = "move" => call \in MoveCalls
           /\ call.op = "destroy" => call = DestroyCall
  BY DEF TypeOK, Calls, GrabCalls, MoveCalls, NoCall, DestroyCall

LEMMA MoveStarts ==
    ASSUME NEW w \in Windows, NEW a \in Afters, call' = MoveCall(w, a), w \in mapped'
    PROVE  /\ call' \in Calls
           /\ serverGrabs' = (IF a \in {"gone", "moved"} THEN 1 ELSE 0) => Progress'
<1>1. call' \in MoveCalls /\ call' \in Calls
  BY DEF MoveCall, MoveCalls, Calls, Afters
<1>2. /\ call'.op = "move" /\ call'.window = w /\ call'.old = Nothing
      /\ call'.step = "check" /\ call'.after = a
  BY DEF MoveCall
<1>3. CallIsTrue' /\ MoveKeepsOthersOut'
  BY <1>2 DEF CallIsTrue, MoveKeepsOthersOut, Moving, Trying
<1>4. NothingIsKept'
  BY <1>2 DEF NothingIsKept, NoCallInProgress, NoCall
<1>5. serverGrabs' = (IF a \in {"gone", "moved"} THEN 1 ELSE 0) => ServerIsCounted'
  BY <1>2 DEF ServerIsCounted, Moving, Trying
<1> QED
  BY <1>1, <1>3, <1>4, <1>5 DEF Progress

LEMMA CallEnds ==
    ASSUME call' = NoCall, serverGrabs' = 0, mode' = "off" => xSeat' \notin Ours
    PROVE  call' \in Calls /\ Progress'
<1>1. call'.op = "none" /\ call' \in Calls
  BY DEF NoCall, Calls
<1> QED
  BY <1>1 DEF Progress, CallIsTrue, MoveKeepsOthersOut, NothingIsKept, ServerIsCounted,
              Moving, Trying, NoCall

\* Nothing is under way.
LEMMA Idle ==
    ASSUME IInv, NoCallInProgress
    PROVE  serverGrabs = 0 /\ ~Moving /\ (mode = "off" => xSeat \notin Ours)
  BY DEF IInv, Progress, NothingIsKept, NoCallInProgress, NoCall, Moving

\* A move that has returned has the seat for its window.
LEMMA MoveReturned ==
    ASSUME IInv, NEW a \in Afters \ {"close"}, Returned(a)
    PROVE  /\ call \in MoveCalls /\ Moving /\ ~Trying /\ call.step = "done"
           /\ call.after = a /\ call.window \in Windows /\ call.window \in mapped
           /\ seat /\ xSeat = call.window
           /\ serverGrabs = IF a \in {"gone", "moved"} THEN 1 ELSE 0
           /\ mode \in {"up", "dialog"}
<1>1. call \in MoveCalls /\ call.op = "move" /\ call.after = a /\ call.step = "done"
  <2>1. call.op # "grab"
    BY CallKinds DEF IInv, Returned, Afters, GrabCalls
  <2>2. call.op # "destroy"
    BY CallKinds DEF IInv, Returned, Afters, DestroyCall
  <2> QED
    BY <2>1, <2>2, CallKinds DEF IInv, Returned
<1>2. Moving /\ ~Trying
  BY <1>1 DEF Moving, Trying
<1> QED
  BY <1>1, <1>2 DEF IInv, TypeOK, Seats, Progress, CallIsTrue, ServerIsCounted,
                    WindowsAreMapped, MoveCalls

-------------------------------------------------------------------------------
(* What happens to the seat. *)

LEMMA UngrabSeats ==
    ASSUME IInv, SeatUngrab
    PROVE  /\ xSeat' \in Ours \union {"other", Nothing} /\ seat' = FALSE
           /\ grabWindow' = Nothing /\ xSeat' \notin {"root", "offscreen"}
           /\ xSeat' \in Windows => xSeat' \in mapped
           /\ xSeat' = "other" => xSeat = "other"
           /\ seat => xSeat' \notin Ours
  BY DEF IInv, TypeOK, Seats, HiddenIsBooked, WindowsAreMapped, SeatUngrab, SeatReset,
         Ours

LEMMA DestroyedSeats ==
    ASSUME IInv, NEW gone \in SUBSET Windows, Destroyed(gone)
    PROVE  /\ xSeat' \in Ours \union {"other", Nothing} /\ seat' \in BOOLEAN
           /\ grabWindow' \in Ours \union {Nothing}
           /\ mapped' \subseteq Windows /\ broken' \subseteq Windows
           /\ broken' \subseteq mapped'
           /\ Booked' /\ HiddenIsBooked'
           /\ xSeat' \in Windows => xSeat' \in mapped'
<1>1. /\ mapped' = mapped \ gone /\ broken' = broken \ gone /\ seat' = seat
      /\ xSeat' = IF xSeat \in gone THEN Nothing ELSE xSeat
      /\ grabWindow' = IF grabWindow \in gone THEN Nothing ELSE grabWindow
  BY DEF Destroyed
<1>2. Booked'
  BY <1>1 DEF IInv, Seats, Booked
<1>3. HiddenIsBooked'
  BY <1>1 DEF IInv, Seats, HiddenIsBooked
<1> QED
  BY <1>1, <1>2, <1>3 DEF IInv, TypeOK, Seats, WindowsAreMapped, Ours

-------------------------------------------------------------------------------
(* The attempts. *)

LEMMA GrabTryIInv == IInv /\ GrabTry => IInv'
<1> SUFFICES ASSUME IInv, GrabTry PROVE IInv'
  OBVIOUS
<1>1. /\ call \in GrabCalls /\ call.op = "grab" /\ call.tries < 8
      /\ UNCHANGED <<serverGrabs, mapped, mode, dialogWindow>>
      /\ mode \in {"off", "notice"} /\ mapped = {} /\ broken = {}
  BY CallKinds DEF GrabTry, IInv, Progress, CallIsTrue, Seats, WindowsAreMapped,
                   callerVars
<1>2. call' \in GrabCalls /\ call'.op = "grab"
  BY <1>1 DEF GrabTry, GrabCalls
<1>3. Progress'
  BY <1>1, <1>2 DEF IInv, Progress, CallIsTrue, MoveKeepsOthersOut, NothingIsKept,
       ServerIsCounted, Moving, Trying, NoCallInProgress, NoCall
<1>4. call' \in Calls
  BY <1>2 DEF GrabCalls, Calls
<1>5. CASE SeatGrabbed(call.window, Nothing)
  <2>1. /\ xSeat' = call.window /\ seat' = TRUE /\ grabWindow' = call.window
        /\ broken' = {} /\ trouble' = trouble /\ call.window \in {"root", "offscreen"}
    BY <1>1, <1>5 DEF SeatGrabbed, GrabCalls
  <2>2. TypeOK'
    BY <1>1, <1>4, <2>1 DEF IInv, TypeOK, Ours
  <2>3. Seats'
    BY <1>1, <2>1 DEF IInv, Seats, Booked, HiddenIsBooked, WindowsAreMapped
  <2> QED
    BY <1>3, <2>2, <2>3 DEF IInv
<1>6. CASE SeatDenied
  <2>1. /\ UNCHANGED <<xSeat, seat, grabWindow, broken>>
        /\ trouble' \in 0..MaxTrouble
    BY <1>6 DEF SeatDenied, bookVars, IInv, TypeOK
  <2>2. TypeOK'
    BY <1>1, <1>4, <2>1 DEF IInv, TypeOK
  <2>3. Seats'
    BY <1>1, <2>1 DEF IInv, Seats, Booked, HiddenIsBooked, WindowsAreMapped
  <2> QED
    BY <1>3, <2>2, <2>3 DEF IInv
<1> QED
  BY <1>5, <1>6 DEF GrabTry

LEMMA MoveCheckIInv == IInv /\ MoveCheck => IInv'
<1> SUFFICES ASSUME IInv, MoveCheck PROVE IInv'
  OBVIOUS
<1> DEFINE lost == seat /\ xSeat \notin Ours
           old == IF lost THEN Nothing ELSE grabWindow
<1>1. /\ call \in MoveCalls /\ call.op = "move" /\ call.step = "check"
      /\ call.old = Nothing /\ call.window \in mapped /\ call.window \in Windows
      /\ call.window # Nothing /\ ~Trying /\ Moving
      /\ UNCHANGED <<mapped, mode, dialogWindow, broken, trouble>>
  BY CallKinds DEF MoveCheck, IInv, Progress, CallIsTrue, Moving, Trying, MoveCalls,
                   callerVars
<1>2. /\ old # Nothing => seat /\ xSeat = old /\ grabWindow = old
      /\ old \in Ours \union {Nothing}
  BY DEF IInv, TypeOK, Seats, Booked
<1>3. CASE old = call.window
  <2>1. /\ call' = [call EXCEPT !.step = "done"]
        /\ UNCHANGED <<xSeat, serverGrabs, seat, grabWindow>>
    BY <1>3 DEF MoveCheck, xVars, bookVars
  <2>2. /\ call' \in MoveCalls /\ call'.op = "move" /\ call'.step = "done"
        /\ call'.old = Nothing /\ call'.window = call.window
        /\ call'.after = call.after
    BY <1>1, <2>1 DEF MoveCalls
  <2>3. TypeOK'
    BY <1>1, <2>1, <2>2 DEF IInv, TypeOK, Calls, MoveCalls
  <2>4. Seats'
    BY <1>1, <2>1 DEF IInv, Seats, Booked, HiddenIsBooked, WindowsAreMapped
  <2>5. CallIsTrue'
    BY <1>1, <1>2, <1>3, <2>1, <2>2 DEF CallIsTrue, Moving, Trying
  <2>6. ServerIsCounted' /\ MoveKeepsOthersOut' /\ NothingIsKept'
    BY <1>1, <2>1, <2>2 DEF IInv, Progress, ServerIsCounted, MoveKeepsOthersOut,
         NothingIsKept, Moving, Trying, NoCallInProgress, NoCall
  <2> QED
    BY <2>3, <2>4, <2>5, <2>6 DEF IInv, Progress
<1>4. CASE old # call.window
  <2>1. /\ call' = [call EXCEPT !.step = "first", !.old = old]
        /\ serverGrabs' = serverGrabs + 1
        /\ IF old = Nothing
           THEN xSeat' = xSeat /\ IF lost THEN SeatReset ELSE UNCHANGED bookVars
           ELSE SeatUngrab
    BY <1>4 DEF MoveCheck, ServerGrab
  <2>2. /\ call' \in MoveCalls /\ call'.op = "move" /\ call'.step = "first"
        /\ call'.old = old /\ call'.window = call.window
        /\ call'.after = call.after
    BY <1>1, <1>2, <2>1 DEF MoveCalls
  <2>3. /\ xSeat' \in Ours \union {"other", Nothing}
        /\ seat' \in BOOLEAN /\ grabWindow' = Nothing
        /\ xSeat' \notin {"root", "offscreen"}
        /\ xSeat' \in Windows => xSeat' \in mapped
        /\ old # Nothing => xSeat' # "other"
    <3>1. CASE old = Nothing
      BY <2>1, <3>1 DEF SeatReset, bookVars, IInv, TypeOK, Seats, HiddenIsBooked,
                        WindowsAreMapped, Ours
    <3>2. CASE old # Nothing
      <4>1. xSeat # "other"
        BY <1>2, <3>2 DEF Ours
      <4> QED
        BY <2>1, <3>2, <4>1, UngrabSeats
    <3> QED
      BY <3>1, <3>2
  <2>4. serverGrabs' \in 1..2 /\ ServerIsCounted'
    BY <1>1, <2>1, <2>2 DEF IInv, Progress, ServerIsCounted, Moving, Trying
  <2>5. TypeOK'
    BY <1>1, <2>2, <2>3, <2>4 DEF IInv, TypeOK, Calls, MoveCalls
  <2>6. Seats'
    BY <1>1, <2>3 DEF IInv, Seats, Booked, HiddenIsBooked, WindowsAreMapped
  <2>7. /\ old \in Windows => old \in mapped
        /\ old \in {"root", "offscreen"} => broken = {}
    BY <1>2 DEF IInv, Seats, WindowsAreMapped, HiddenIsBooked
  <2>8. CallIsTrue'
    BY <1>1, <2>2, <2>3, <2>7 DEF CallIsTrue, Moving, Trying
  <2>9. MoveKeepsOthersOut' /\ NothingIsKept'
    BY <2>2, <2>3 DEF MoveKeepsOthersOut, NothingIsKept, NoCallInProgress, NoCall
  <2> QED
    BY <2>4, <2>5, <2>6, <2>8, <2>9 DEF IInv, Progress
<1> QED
  BY <1>3, <1>4

\* A grab that a move gets, for its window or for the one before.
LEMMA GrabbedSeats ==
    ASSUME IInv, NEW w \in Ours, NEW v \in Ours \union {Nothing}, SeatGrabbed(w, v),
           w \in Windows => w \in mapped,
           w \in {"root", "offscreen"} => broken = {} /\ v = Nothing,
           UNCHANGED <<mapped, mode, dialogWindow>>
    PROVE  /\ xSeat' = w /\ seat' = TRUE /\ grabWindow' = w /\ trouble' = trouble
           /\ broken' \subseteq mapped
           /\ w \in {"root", "offscreen"} => broken' = {}
           /\ Seats'
<1>1. /\ xSeat' = w /\ seat' = TRUE /\ grabWindow' = w /\ trouble' = trouble
      /\ broken' \in {broken, broken \union (({v} \ {w}) \intersect mapped)}
  BY DEF SeatGrabbed
<1>2. broken' \subseteq mapped
  BY <1>1 DEF IInv, Seats, WindowsAreMapped
<1>3. w \in {"root", "offscreen"} => broken' = {}
  BY <1>1 DEF IInv, TypeOK
<1>4. Seats'
  BY <1>1, <1>2, <1>3 DEF IInv, Seats, Booked, HiddenIsBooked, WindowsAreMapped, Ours
<1> QED
  BY <1>1, <1>2, <1>3, <1>4

LEMMA DeniedSeats ==
    ASSUME IInv, SeatDenied, UNCHANGED <<mapped, mode, dialogWindow>>
    PROVE  /\ UNCHANGED <<xSeat, seat, grabWindow, broken>>
           /\ trouble' \in 0..MaxTrouble
           /\ Seats'
  BY DEF SeatDenied, bookVars, IInv, TypeOK, Seats, Booked, HiddenIsBooked,
         WindowsAreMapped

\* The attempts are over: the server is let go.
LEMMA MoveEndsIInv ==
    ASSUME IInv, Trying, NEW s \in {"check", "done"}, MoveEnds(s), Seats',
           UNCHANGED <<mapped, mode, dialogWindow>>,
           xSeat' \in Ours \union {"other", Nothing}, seat' \in BOOLEAN,
           grabWindow' \in Ours \union {Nothing}, broken' \subseteq Windows,
           trouble' \in 0..MaxTrouble,
           s = "done" => seat' /\ xSeat' = call.window
    PROVE  IInv'
<1>1. /\ call \in MoveCalls /\ Moving /\ call.window \in mapped
  BY CallKinds DEF IInv, Progress, CallIsTrue, Trying, Moving
<1>2. /\ call' \in MoveCalls /\ call'.op = "move" /\ call'.step = s
      /\ call'.old = Nothing /\ call'.window = call.window
      /\ call'.after = call.after
  BY <1>1 DEF MoveEnds, MoveCalls
<1>3. ServerIsCounted' /\ serverGrabs' \in 0..1
  BY <1>1, <1>2 DEF IInv, Progress, ServerIsCounted, MoveEnds, ServerUngrab, Moving,
                    Trying
<1>4. TypeOK'
  BY <1>2, <1>3 DEF IInv, TypeOK, Calls, MoveCalls
<1>5. CallIsTrue' /\ MoveKeepsOthersOut' /\ NothingIsKept'
  BY <1>1, <1>2 DEF CallIsTrue, MoveKeepsOthersOut, NothingIsKept, Moving, Trying,
                    NoCallInProgress, NoCall
<1> QED
  BY <1>3, <1>4, <1>5 DEF IInv, Progress

\* One attempt more.
LEMMA MoveGoesOnIInv ==
    ASSUME IInv, Trying, NEW s \in {"second", "resume"},
           call' = [call EXCEPT !.step = s], s = "resume" => call.old # Nothing,
           UNCHANGED <<xSeat, seat, grabWindow, broken, serverGrabs>>,
           UNCHANGED <<mapped, mode, dialogWindow>>,
           trouble' \in 0..MaxTrouble, Seats'
    PROVE  IInv'
<1>1. call \in MoveCalls /\ Moving
  BY CallKinds DEF IInv, Trying, Moving
<1>2. /\ call' \in MoveCalls /\ call'.op = "move" /\ call'.step = s
      /\ call'.old = call.old /\ call'.window = call.window
      /\ call'.after = call.after
  BY <1>1 DEF MoveCalls
<1>3. Moving' /\ Trying'
  BY <1>2 DEF Moving, Trying
<1>4. TypeOK'
  BY <1>2 DEF IInv, TypeOK, Calls, MoveCalls
<1>5. CallIsTrue' /\ MoveKeepsOthersOut'
  BY <1>1, <1>2, <1>3 DEF IInv, Progress, CallIsTrue, MoveKeepsOthersOut, Moving
<1>6. ServerIsCounted' /\ NothingIsKept'
  BY <1>1, <1>2, <1>3 DEF IInv, Progress, ServerIsCounted, NothingIsKept,
                          NoCallInProgress, NoCall
<1> QED
  BY <1>4, <1>5, <1>6 DEF IInv, Progress

LEMMA MoveTryIInv == IInv /\ MoveTry => IInv'
<1> SUFFICES ASSUME IInv, MoveTry PROVE IInv'
  OBVIOUS
<1>1. /\ call \in MoveCalls /\ Moving /\ Trying
      /\ call.window \in Windows /\ call.window \in mapped
      /\ call.old \in Ours \union {Nothing}
      /\ UNCHANGED <<mapped, mode, dialogWindow>>
  BY CallKinds DEF MoveTry, IInv, Progress, CallIsTrue, Moving, Trying, MoveCalls,
                   callerVars
<1>2. CASE SeatGrabbed(call.window, call.old) /\ MoveEnds("done")
  <2>1. /\ xSeat' = call.window /\ seat' = TRUE /\ grabWindow' = call.window
        /\ trouble' = trouble /\ broken' \subseteq mapped /\ Seats'
    BY <1>1, <1>2, GrabbedSeats DEF Ours
  <2> QED
    BY <1>1, <1>2, <2>1, MoveEndsIInv DEF IInv, TypeOK, Ours
<1>3. CASE SeatDenied
  <2>1. /\ UNCHANGED <<xSeat, seat, grabWindow, broken>>
        /\ trouble' \in 0..MaxTrouble /\ Seats'
    BY <1>1, <1>3, DeniedSeats
  <2>2. CASE call' = [call EXCEPT !.step = "second"] /\ UNCHANGED serverGrabs
    BY <1>1, <2>1, <2>2, MoveGoesOnIInv
  <2>3. CASE /\ call.old # Nothing
             /\ call' = [call EXCEPT !.step = "resume"] /\ UNCHANGED serverGrabs
    BY <1>1, <2>1, <2>3, MoveGoesOnIInv
  <2>4. CASE MoveEnds("check")
    BY <1>1, <2>1, <2>4, MoveEndsIInv DEF IInv, TypeOK
  <2> QED
    BY <1>3, <2>2, <2>3, <2>4, <1>2 DEF MoveTry
<1> QED
  BY <1>2, <1>3 DEF MoveTry

LEMMA MoveResumeIInv == IInv /\ MoveResume => IInv'
<1> SUFFICES ASSUME IInv, MoveResume PROVE IInv'
  OBVIOUS
<1>1. /\ call \in MoveCalls /\ Moving /\ Trying /\ call.old \in Ours
      /\ call.old \in Windows => call.old \in mapped
      /\ call.old \in {"root", "offscreen"} => broken = {}
      /\ UNCHANGED <<mapped, mode, dialogWindow>> /\ MoveEnds("check")
  BY CallKinds DEF MoveResume, IInv, Progress, CallIsTrue, Moving, Trying, MoveCalls,
                   callerVars
<1>2. CASE SeatGrabbed(call.old, Nothing)
  <2>1. /\ xSeat' = call.old /\ seat' = TRUE /\ grabWindow' = call.old
        /\ trouble' = trouble /\ broken' \subseteq mapped /\ Seats'
    BY <1>1, <1>2, GrabbedSeats
  <2> QED
    BY <1>1, <2>1, MoveEndsIInv DEF IInv, TypeOK
<1>3. CASE SeatDenied
  <2>1. /\ UNCHANGED <<xSeat, seat, grabWindow, broken>>
        /\ trouble' \in 0..MaxTrouble /\ Seats'
    BY <1>1, <1>3, DeniedSeats
  <2> QED
    BY <1>1, <2>1, MoveEndsIInv DEF IInv, TypeOK
<1> QED
  BY <1>2, <1>3 DEF MoveResume

-------------------------------------------------------------------------------
(* What follows a call. *)

LEMMA NoticeInEffectIInv == IInv /\ NoticeInEffect => IInv'
<1> SUFFICES ASSUME IInv, NoticeInEffect PROVE IInv'
  OBVIOUS
<1>1. call.op = "grab" /\ mode \in {"off", "notice"} /\ serverGrabs = 0
  BY CallKinds DEF NoticeInEffect, Returned, IInv, Progress, CallIsTrue, MoveCalls,
                   DestroyCall, ServerIsCounted, Moving, Trying
<1>2. /\ mode' = "notice" /\ call' = NoCall
      /\ UNCHANGED <<xSeat, serverGrabs, seat, grabWindow, mapped, dialogWindow, broken,
                     trouble>>
  BY DEF NoticeInEffect, Returned, xVars, bookVars
<1>3. call' \in Calls /\ Progress'
  BY <1>1, <1>2, CallEnds
<1>4. TypeOK'
  BY <1>2, <1>3 DEF IInv, TypeOK
<1>5. Seats'
  BY <1>1, <1>2 DEF IInv, Seats, Booked, HiddenIsBooked, WindowsAreMapped
<1> QED
  BY <1>3, <1>4, <1>5 DEF IInv

LEMMA ScreenUpIInv == IInv /\ ScreenUp => IInv'
<1> SUFFICES ASSUME IInv, ScreenUp PROVE IInv'
  OBVIOUS
<1>1. /\ call.op = "grab" /\ mode \in {"off", "notice"} /\ serverGrabs = 0
      /\ mapped = {} /\ broken = {} /\ dialogWindow = Nothing
  BY CallKinds DEF ScreenUp, Returned, IInv, Progress, CallIsTrue, MoveCalls,
         DestroyCall, ServerIsCounted, Moving, Trying, Seats, WindowsAreMapped
<1>2. /\ mode' = "up" /\ call' = NoCall /\ mapped' \subseteq Windows
      /\ UNCHANGED <<xSeat, serverGrabs, seat, grabWindow, dialogWindow, broken, trouble>>
  BY DEF ScreenUp, Returned, xVars, bookVars
<1>3. call' \in Calls /\ Progress'
  BY <1>1, <1>2, CallEnds
<1>4. TypeOK'
  BY <1>2, <1>3 DEF IInv, TypeOK
<1>5. Seats'
  BY <1>1, <1>2 DEF IInv, Seats, Booked, HiddenIsBooked, WindowsAreMapped
<1> QED
  BY <1>3, <1>4, <1>5 DEF IInv

\* window_map_event_cb and handle_window_dialog_down: the seat stays where it is.
LEMMA HasSeatIInv == IInv /\ (WindowHasSeat \/ DialogIsDown) => IInv'
<1> SUFFICES ASSUME IInv, WindowHasSeat \/ DialogIsDown PROVE IInv'
  OBVIOUS
<1>1. serverGrabs = 0 /\ mode \in {"up", "dialog"}
  <2>1. Returned("map") \/ Returned("down")
    BY DEF WindowHasSeat, DialogIsDown
  <2> QED
    BY <2>1, MoveReturned DEF Afters
<1>2. /\ call' = NoCall /\ trouble' = trouble
      /\ UNCHANGED <<xSeat, serverGrabs, seat, grabWindow, mapped, broken>>
      /\ \/ UNCHANGED <<mode, dialogWindow>>
         \/ mode' = "up" /\ dialogWindow' = Nothing
  BY DEF WindowHasSeat, DialogIsDown, Returned, xVars, bookVars, callerVars
<1>3. call' \in Calls /\ Progress'
  BY <1>1, <1>2, CallEnds
<1>4. TypeOK'
  BY <1>2, <1>3 DEF IInv, TypeOK
<1>5. Seats'
  BY <1>1, <1>2 DEF IInv, Seats, Booked, HiddenIsBooked, WindowsAreMapped
<1> QED
  BY <1>3, <1>4, <1>5 DEF IInv

LEMMA DialogIsUpIInv == IInv /\ DialogIsUp => IInv' /\ xSeat' \notin Ours
<1> SUFFICES ASSUME IInv, DialogIsUp PROVE IInv' /\ xSeat' \notin Ours
  OBVIOUS
<1>1. /\ seat /\ call.window \in Windows /\ call.window \in mapped
      /\ serverGrabs' = 0
  <2>1. CASE Returned("dialog") /\ UNCHANGED serverGrabs
    BY <2>1, MoveReturned DEF Afters
  <2>2. CASE Returned("moved") /\ ServerUngrab(TRUE)
    BY <2>2, MoveReturned DEF Afters, ServerUngrab
  <2> QED
    BY <2>1, <2>2 DEF DialogIsUp
<1>2. /\ mode' = "dialog" /\ dialogWindow' = call.window /\ call' = NoCall
      /\ SeatUngrab /\ UNCHANGED <<mapped, broken, trouble>>
  BY DEF DialogIsUp, Returned
<1>3. /\ xSeat' \in Ours \union {"other", Nothing} /\ seat' = FALSE
      /\ grabWindow' = Nothing /\ xSeat' \notin Ours
  BY <1>1, <1>2, UngrabSeats
<1>4. call' \in Calls /\ Progress'
  BY <1>1, <1>2, CallEnds
<1>5. TypeOK'
  <2>1. /\ mapped' \subseteq Windows /\ broken' \subseteq Windows
        /\ trouble' \in 0..MaxTrouble /\ serverGrabs' \in 0..2
    BY <1>1, <1>2 DEF IInv, TypeOK
  <2>2. /\ mode' \in {"off", "notice", "up", "dialog"}
        /\ dialogWindow' \in Windows \union {Nothing}
        /\ seat' \in BOOLEAN /\ grabWindow' \in Ours \union {Nothing}
    BY <1>1, <1>2, <1>3
  <2> QED
    BY <1>3, <1>4, <2>1, <2>2 DEF TypeOK
<1>6. Seats'
  BY <1>1, <1>2, <1>3
  DEF IInv, Seats, Booked, HiddenIsBooked, WindowsAreMapped, Ours
<1> QED
  BY <1>3, <1>4, <1>5, <1>6 DEF IInv

LEMMA WindowAddedIInv == IInv /\ WindowAdded => IInv'
<1> SUFFICES ASSUME IInv, WindowAdded PROVE IInv'
  OBVIOUS
<1>1. serverGrabs = 0 /\ mode \in {"up", "dialog"}
  BY MoveReturned DEF WindowAdded, Afters
<1>2. /\ mapped \subseteq mapped' /\ mapped' \subseteq Windows
      /\ mode' = "up" /\ dialogWindow' = Nothing
      /\ UNCHANGED <<xSeat, serverGrabs, seat, grabWindow, broken, trouble>>
  BY DEF WindowAdded, Returned, xVars, bookVars, IInv, TypeOK
<1>3. PICK v \in mapped' : call' = MoveCall(v, "dialog")
  BY DEF WindowAdded
<1>4. call' \in Calls /\ Progress'
  BY <1>1, <1>2, <1>3, MoveStarts DEF Afters
<1>5. TypeOK'
  BY <1>2, <1>4 DEF IInv, TypeOK
<1>6. Seats'
  BY <1>1, <1>2 DEF IInv, Seats, Booked, HiddenIsBooked, WindowsAreMapped
<1> QED
  BY <1>4, <1>5, <1>6 DEF IInv

LEMMA WindowGoneIInv == IInv /\ WindowGone => IInv'
<1> SUFFICES ASSUME IInv, WindowGone PROVE IInv'
  OBVIOUS
<1>1. serverGrabs = 1 /\ call.window \in Windows
  BY MoveReturned DEF WindowGone, Afters
<1>2. /\ mode' = "up" /\ dialogWindow' = Nothing /\ trouble' = trouble
      /\ Destroyed({call.window})
  BY DEF WindowGone, Returned
<1>3. /\ xSeat' \in Ours \union {"other", Nothing} /\ seat' \in BOOLEAN
      /\ grabWindow' \in Ours \union {Nothing}
      /\ mapped' \subseteq Windows /\ broken' \subseteq Windows
      /\ Seats'
  BY <1>1, <1>2, DestroyedSeats DEF Seats, WindowsAreMapped
<1>4. call' \in Calls /\ serverGrabs' \in 0..2 /\ Progress'
  <2>1. CASE mapped' = {}
    <3>1. call' = NoCall /\ serverGrabs' = 0
      BY <1>1, <2>1 DEF WindowGone, ServerUngrab
    <3> QED
      BY <1>2, <3>1, CallEnds
  <2>2. CASE mapped' # {}
    <3>1. PICK v \in mapped' : call' = MoveCall(v, "moved")
      BY <2>2 DEF WindowGone
    <3>2. serverGrabs' = 1
      BY <1>1, <2>2 DEF WindowGone
    <3> QED
      BY <1>3, <3>1, <3>2, MoveStarts DEF Afters
  <2> QED
    BY <2>1, <2>2
<1>5. TypeOK'
  BY <1>2, <1>3, <1>4 DEF IInv, TypeOK
<1> QED
  BY <1>3, <1>4, <1>5 DEF IInv

LEMMA WindowsDestroyedIInv == IInv /\ WindowsDestroyed => IInv'
<1> SUFFICES ASSUME IInv, WindowsDestroyed PROVE IInv'
  OBVIOUS
<1>1. /\ mode' = "off" /\ dialogWindow' = Nothing /\ call' = NoCall
      /\ Destroyed(mapped) /\ UNCHANGED <<serverGrabs, trouble>>
  BY DEF WindowsDestroyed, Returned
<1>2. serverGrabs = 0 /\ xSeat \notin {"root", "offscreen"}
  <2>1. call.op = "destroy" \/ (Moving /\ call.step = "done" /\ call.after = "close")
    BY CallKinds DEF WindowsDestroyed, Returned, IInv, GrabCalls, Moving
  <2>2. CASE call.op = "destroy"
    BY <2>2 DEF IInv, Progress, CallIsTrue, ServerIsCounted, Moving, Trying
  <2>3. CASE Moving /\ call.step = "done" /\ call.after = "close"
    <3>1. call.window \in Windows
      BY <2>3, CallKinds DEF IInv, Moving, MoveCalls
    <3> QED
      BY <2>3, <3>1 DEF IInv, Progress, CallIsTrue, ServerIsCounted, Moving, Trying
  <2> QED
    BY <2>1, <2>2, <2>3
<1>3. /\ xSeat' \in Ours \union {"other", Nothing} /\ seat' \in BOOLEAN
      /\ grabWindow' \in Ours \union {Nothing}
      /\ mapped' = {} /\ broken' = {} /\ Booked' /\ HiddenIsBooked'
  <2>1. mapped \in SUBSET Windows /\ mapped' = {}
    BY <1>1 DEF Destroyed, IInv, TypeOK
  <2> QED
    BY <1>1, <2>1, DestroyedSeats
<1>4. xSeat' \notin Ours
  BY <1>1, <1>2 DEF Destroyed, IInv, Seats, WindowsAreMapped, Ours
<1>5. call' \in Calls /\ Progress'
  BY <1>1, <1>2, <1>4, CallEnds
<1>6. TypeOK'
  BY <1>1, <1>3, <1>5 DEF IInv, TypeOK
<1>7. Seats'
  BY <1>1, <1>3, <1>4 DEF Seats, WindowsAreMapped, Ours
<1> QED
  BY <1>5, <1>6, <1>7 DEF IInv

-------------------------------------------------------------------------------
(* Who calls. *)

\* Notice and Activate.
LEMMA GrabBeginsIInv == IInv /\ (Notice \/ Activate) => IInv'
<1> SUFFICES ASSUME IInv, Notice \/ Activate PROVE IInv'
  OBVIOUS
<1>1. PICK w \in {"root", "offscreen"}, a \in {"notice", "up"} : call' = GrabCall(w, a)
  BY DEF Notice, Activate, Begins
<1>2. /\ NoCallInProgress /\ mode \in {"off", "notice"}
      /\ UNCHANGED <<xSeat, serverGrabs, seat, grabWindow, mapped, mode, dialogWindow,
                     broken, trouble>>
  BY DEF Notice, Activate, Begins, xVars, bookVars, callerVars
<1>3. call' \in GrabCalls /\ call' \in Calls /\ call'.op = "grab"
  BY <1>1 DEF GrabCall, GrabCalls, Calls
<1>4. Progress'
  BY <1>2, <1>3, Idle DEF Progress, CallIsTrue, MoveKeepsOthersOut, NothingIsKept,
       ServerIsCounted, Moving, Trying, NoCallInProgress, NoCall
<1>5. TypeOK'
  BY <1>2, <1>3 DEF IInv, TypeOK
<1>6. Seats'
  BY <1>2 DEF IInv, Seats, Booked, HiddenIsBooked, WindowsAreMapped
<1> QED
  BY <1>4, <1>5, <1>6 DEF IInv

\* MapEvent, DialogUp and DialogDown.
LEMMA MoveBeginsIInv ==
    ASSUME IInv, NEW w \in mapped, NEW a \in Afters \ {"gone", "moved"},
           Begins(MoveCall(w, a))
    PROVE  IInv'
<1>1. /\ NoCallInProgress /\ call' = MoveCall(w, a) /\ w \in Windows
      /\ UNCHANGED <<xSeat, serverGrabs, seat, grabWindow, mapped, mode, dialogWindow,
                     broken, trouble>>
  BY DEF Begins, xVars, bookVars, callerVars, IInv, TypeOK
<1>2. call' \in Calls /\ Progress'
  BY <1>1, Idle, MoveStarts
<1>3. TypeOK'
  BY <1>1, <1>2 DEF IInv, TypeOK
<1>4. Seats'
  BY <1>1 DEF IInv, Seats, Booked, HiddenIsBooked, WindowsAreMapped
<1> QED
  BY <1>2, <1>3, <1>4 DEF IInv

LEMMA PlugIInv == ASSUME IInv, NEW w \in Windows, Plug(w) PROVE IInv'
<1>1. /\ NoCallInProgress /\ serverGrabs = 0
      /\ UNCHANGED <<xSeat, serverGrabs, seat, grabWindow, mode, dialogWindow, broken,
                     trouble>>
  BY Idle DEF Plug, xVars, bookVars
<1>2. CASE mode = "up" /\ mapped' = mapped \union {w}
           /\ call' \in {NoCall} \union {MoveCall(v, "dialog") : v \in mapped'}
  <2>1. mapped' \subseteq Windows
    BY <1>2 DEF IInv, TypeOK
  <2>2. call' \in Calls /\ Progress'
    <3>1. CASE call' = NoCall
      BY <1>1, <1>2, <3>1, CallEnds
    <3>2. CASE call' # NoCall
      <4>1. PICK v \in mapped' : call' = MoveCall(v, "dialog")
        BY <1>2, <3>2
      <4> QED
        BY <1>1, <2>1, <4>1, MoveStarts DEF Afters
    <3> QED
      BY <3>1, <3>2
  <2>3. TypeOK'
    BY <1>1, <2>1, <2>2 DEF IInv, TypeOK
  <2>4. Seats'
    BY <1>1, <1>2 DEF IInv, Seats, Booked, HiddenIsBooked, WindowsAreMapped
  <2> QED
    BY <2>2, <2>3, <2>4 DEF IInv
<1>3. CASE mode = "dialog" /\ call' = MoveCall(dialogWindow, "added")
           /\ UNCHANGED mapped
  <2>1. dialogWindow \in Windows /\ dialogWindow \in mapped'
    BY <1>3 DEF IInv, TypeOK, Seats, WindowsAreMapped
  <2>2. call' \in Calls /\ Progress'
    BY <1>1, <1>3, <2>1, MoveStarts DEF Afters
  <2>3. TypeOK'
    BY <1>1, <1>3, <2>2 DEF IInv, TypeOK
  <2>4. Seats'
    BY <1>1, <1>3 DEF IInv, Seats, Booked, HiddenIsBooked, WindowsAreMapped
  <2> QED
    BY <2>2, <2>3, <2>4 DEF IInv
<1> QED
  BY <1>2, <1>3 DEF Plug

LEMMA UnplugIInv == ASSUME IInv, NEW w \in Windows, Unplug(w) PROVE IInv'
<1>1. /\ NoCallInProgress /\ mode \in {"up", "dialog"} /\ serverGrabs = 0
      /\ UNCHANGED <<mode, dialogWindow, trouble>> /\ w \in mapped
  BY Idle DEF Unplug
<1>4. \/ /\ Destroyed({w}) /\ (w # dialogWindow \/ mode = "up")
         /\ \/ UNCHANGED <<serverGrabs, call>>
            \/ ServerGrab /\ call' \in {MoveCall(v, "moved") : v \in mapped'}
      \/ /\ w = dialogWindow /\ ServerGrab /\ call' = MoveCall(w, "gone")
         /\ UNCHANGED <<mapped, broken, xSeat, bookVars>>
  BY DEF Unplug
<1>2. CASE /\ Destroyed({w}) /\ (w # dialogWindow \/ mode = "up")
           /\ \/ UNCHANGED <<serverGrabs, call>>
              \/ ServerGrab /\ call' \in {MoveCall(v, "moved") : v \in mapped'}
  <2>1. /\ xSeat' \in Ours \union {"other", Nothing} /\ seat' \in BOOLEAN
        /\ grabWindow' \in Ours \union {Nothing}
        /\ mapped' \subseteq Windows /\ broken' \subseteq Windows
        /\ broken' \subseteq mapped' /\ Booked' /\ HiddenIsBooked'
        /\ xSeat' \in Windows => xSeat' \in mapped'
    BY <1>2, DestroyedSeats
  <2>2. Seats'
    BY <1>1, <1>2, <2>1 DEF IInv, Seats, WindowsAreMapped, Destroyed
  <2>3. CASE UNCHANGED <<serverGrabs, call>>
    <3>1. call' \in Calls /\ Progress'
      BY <1>1, <2>3, CallEnds DEF NoCallInProgress
    <3>2. TypeOK'
      BY <1>1, <2>1, <2>3, <3>1 DEF IInv, TypeOK
    <3> QED
      BY <2>2, <3>1, <3>2 DEF IInv
  <2>4. CASE ServerGrab /\ call' \in {MoveCall(v, "moved") : v \in mapped'}
    <3>1. serverGrabs' = 1
      BY <1>1, <2>4 DEF ServerGrab
    <3>2. PICK v \in mapped' : call' = MoveCall(v, "moved")
      BY <2>4
    <3>3. call' \in Calls /\ Progress'
      BY <2>1, <3>1, <3>2, MoveStarts DEF Afters
    <3>4. TypeOK'
      BY <1>1, <2>1, <3>1, <3>3 DEF IInv, TypeOK
    <3> QED
      BY <2>2, <3>3, <3>4 DEF IInv
  <2> QED
    BY <1>2, <2>3, <2>4
<1>3. CASE /\ w = dialogWindow /\ ServerGrab /\ call' = MoveCall(w, "gone")
           /\ UNCHANGED <<mapped, broken, xSeat, bookVars>>
  <2>1. serverGrabs' = 1
    BY <1>1, <1>3 DEF ServerGrab
  <2>2. call' \in Calls /\ Progress'
    BY <1>1, <1>3, <2>1, MoveStarts DEF Afters
  <2>3. TypeOK'
    BY <1>1, <1>3, <2>1, <2>2 DEF IInv, TypeOK, bookVars
  <2>4. Seats'
    BY <1>1, <1>3 DEF IInv, Seats, Booked, HiddenIsBooked, WindowsAreMapped, bookVars
  <2> QED
    BY <2>2, <2>3, <2>4 DEF IInv
<1> QED
  BY <1>2, <1>3, <1>4

LEMMA ReleaseIInv == IInv /\ ReleaseGrabTimeout => IInv'
<1> SUFFICES ASSUME IInv, ReleaseGrabTimeout PROVE IInv'
  OBVIOUS
<1>1. /\ NoCallInProgress /\ mode = "notice" /\ mode' = "off" /\ SeatUngrab
      /\ UNCHANGED <<serverGrabs, mapped, dialogWindow, broken, call, trouble>>
      /\ serverGrabs = 0
  BY Idle DEF ReleaseGrabTimeout
<1>2. mapped = {} /\ broken = {} /\ dialogWindow = Nothing
  BY <1>1 DEF IInv, Seats, WindowsAreMapped
<1>3. /\ xSeat' \in Ours \union {"other", Nothing} /\ seat' = FALSE
      /\ grabWindow' = Nothing /\ xSeat' \notin Ours
  BY <1>1, <1>2, UngrabSeats DEF Ours
<1>4. call' \in Calls /\ Progress'
  BY <1>1, <1>3, CallEnds DEF NoCallInProgress
<1>5. TypeOK'
  BY <1>1, <1>3, <1>4 DEF IInv, TypeOK
<1>6. Seats'
  BY <1>1, <1>2, <1>3 DEF Seats, Booked, HiddenIsBooked, WindowsAreMapped, Ours
<1> QED
  BY <1>4, <1>5, <1>6 DEF IInv

LEMMA DeactivateIInv == IInv /\ Deactivate => IInv'
<1> SUFFICES ASSUME IInv, Deactivate PROVE IInv'
  OBVIOUS
<1>1. /\ NoCallInProgress /\ mode \in {"up", "dialog"} /\ SeatUngrab
      /\ UNCHANGED <<serverGrabs, mapped, mode, dialogWindow, broken, trouble>>
      /\ serverGrabs = 0
      /\ call' = IF mode = "dialog" THEN MoveCall(dialogWindow, "close")
                 ELSE DestroyCall
  BY Idle DEF Deactivate, callerVars
<1>2. /\ xSeat' \in Ours \union {"other", Nothing} /\ seat' = FALSE
      /\ grabWindow' = Nothing /\ xSeat' \notin {"root", "offscreen"}
      /\ xSeat' \in Windows => xSeat' \in mapped
  BY <1>1, UngrabSeats
<1>3. call' \in Calls /\ Progress'
  <2>1. CASE mode = "dialog"
    <3>1. dialogWindow \in Windows /\ dialogWindow \in mapped'
      BY <1>1, <2>1 DEF IInv, TypeOK, Seats, WindowsAreMapped
    <3> QED
      BY <1>1, <2>1, <3>1, MoveStarts DEF Afters
  <2>2. CASE mode # "dialog"
    <3>1. call' = DestroyCall /\ call'.op = "destroy" /\ call' \in Calls
      BY <1>1, <2>2 DEF DestroyCall, Calls
    <3> QED
      BY <1>1, <1>2, <3>1 DEF Progress, CallIsTrue, MoveKeepsOthersOut, NothingIsKept,
           ServerIsCounted, Moving, Trying, NoCallInProgress, NoCall
  <2> QED
    BY <2>1, <2>2
<1>4. TypeOK'
  BY <1>1, <1>2, <1>3 DEF IInv, TypeOK
<1>5. Seats'
  BY <1>1, <1>2 DEF IInv, Seats, Booked, HiddenIsBooked, WindowsAreMapped
<1> QED
  BY <1>3, <1>4, <1>5 DEF IInv

LEMMA GrabBrokenIInv == ASSUME IInv, NEW w \in Windows, GrabBroken(w) PROVE IInv'
<1>1. /\ NoCallInProgress /\ broken # {} /\ broken' \subseteq broken
      /\ seat' = FALSE /\ grabWindow' = Nothing
      /\ UNCHANGED <<xSeat, serverGrabs, mapped, mode, dialogWindow, call, trouble>>
      /\ serverGrabs = 0 /\ (mode = "off" => xSeat \notin Ours)
  BY Idle DEF GrabBroken, SeatReset, xVars, callerVars
<1>2. call' \in Calls /\ Progress'
  BY <1>1, CallEnds DEF NoCallInProgress
<1>3. TypeOK'
  BY <1>1, <1>2 DEF IInv, TypeOK
<1>4. Seats'
  BY <1>1 DEF IInv, Seats, Booked, HiddenIsBooked, WindowsAreMapped
<1> QED
  BY <1>2, <1>3, <1>4 DEF IInv

-------------------------------------------------------------------------------
(* The other client. *)

LEMMA OtherIInv == IInv /\ (OtherGrabs \/ OtherReleases) => IInv'
<1> SUFFICES ASSUME IInv, OtherGrabs \/ OtherReleases PROVE IInv'
  OBVIOUS
<1>1. /\ serverGrabs = 0 /\ xSeat \in {"other", Nothing} /\ xSeat' \in {"other", Nothing}
      /\ trouble' \in 0..MaxTrouble
      /\ UNCHANGED <<serverGrabs, seat, grabWindow, mapped, mode, dialogWindow, broken,
                     call>>
  BY DEF OtherGrabs, OtherReleases, bookVars, callerVars, IInv, TypeOK
<1>2. xSeat \notin Ours /\ xSeat' \notin Ours
  BY <1>1 DEF Ours
<1>3. grabWindow = Nothing
  BY <1>2 DEF IInv, TypeOK, Seats, Booked
<1>4. TypeOK'
  BY <1>1 DEF IInv, TypeOK
<1>5. Seats'
  BY <1>1, <1>2, <1>3 DEF IInv, Seats, Booked, HiddenIsBooked, WindowsAreMapped, Ours
<1>6. ~Trying
  BY <1>1 DEF IInv, Progress, ServerIsCounted, Moving, Trying
<1>7. Moving => call.step # "done" /\ call.old = Nothing
  <2>1. Moving => call.window \in Ours
    BY CallKinds DEF IInv, Moving, MoveCalls, Ours
  <2> QED
    BY <1>2, <1>6, <2>1 DEF IInv, Progress, CallIsTrue
<1>8. Progress'
  BY <1>1, <1>2, <1>6, <1>7
  DEF IInv, Progress, CallIsTrue, MoveKeepsOthersOut, NothingIsKept, ServerIsCounted,
      Moving, Trying, NoCallInProgress, Ours
<1> QED
  BY <1>4, <1>5, <1>8 DEF IInv

-------------------------------------------------------------------------------
LEMMA InitIInv == Init => IInv
<1> SUFFICES ASSUME Init PROVE IInv
  OBVIOUS
<1>1. call = NoCall /\ call \in Calls /\ call.op = "none"
  BY DEF Init, NoCall, Calls
<1>2. TypeOK
  <2>1. xSeat \in Ours \union {"other", Nothing}
    BY DEF Init
  <2>2. /\ serverGrabs \in 0..2 /\ trouble \in 0..MaxTrouble
        /\ mapped \subseteq Windows /\ broken \subseteq Windows
    BY DEF Init
  <2>3. /\ seat \in BOOLEAN /\ grabWindow \in Ours \union {Nothing}
        /\ mode \in {"off", "notice", "up", "dialog"}
        /\ dialogWindow \in Windows \union {Nothing}
    BY DEF Init
  <2> QED
    BY <1>1, <2>1, <2>2, <2>3 DEF TypeOK
<1>3. xSeat \notin Ours
  BY DEF Init, Ours
<1> QED
  BY <1>1, <1>2, <1>3
  DEF Init, IInv, Seats, Progress, Booked, HiddenIsBooked, WindowsAreMapped, CallIsTrue,
      MoveKeepsOthersOut, NothingIsKept, ServerIsCounted, Moving, Trying, Ours

LEMMA NextIInv == IInv /\ [Next]_vars => IInv'
<1> SUFFICES ASSUME IInv, [Next]_vars PROVE IInv'
  OBVIOUS
<1>1. CASE Attempt
  BY <1>1, GrabTryIInv, MoveCheckIInv, MoveTryIInv, MoveResumeIInv DEF Attempt
<1>2. CASE Return
  BY <1>2, NoticeInEffectIInv, ScreenUpIInv, HasSeatIInv, DialogIsUpIInv,
     WindowAddedIInv, WindowGoneIInv, WindowsDestroyedIInv DEF Return
<1>3. CASE Notice \/ Activate
  BY <1>3, GrabBeginsIInv
<1>4. CASE DialogDown
  <2>1. dialogWindow \in mapped
    BY <1>4 DEF DialogDown, IInv, Seats, WindowsAreMapped
  <2> QED
    BY <1>4, <2>1, MoveBeginsIInv DEF DialogDown, Afters
<1>5. CASE ReleaseGrabTimeout
  BY <1>5, ReleaseIInv
<1>6. CASE Deactivate
  BY <1>6, DeactivateIInv
<1>7. ASSUME NEW w \in Windows, MapEvent(w) PROVE IInv'
  BY <1>7, MoveBeginsIInv DEF MapEvent, Afters
<1>8. ASSUME NEW w \in Windows, DialogUp(w) PROVE IInv'
  BY <1>8, MoveBeginsIInv DEF DialogUp, Afters
<1>9. ASSUME NEW w \in Windows, Plug(w) \/ Unplug(w) \/ GrabBroken(w) PROVE IInv'
  BY <1>9, PlugIInv, UnplugIInv, GrabBrokenIInv
<1>10. CASE OtherGrabs \/ OtherReleases
  BY <1>10, OtherIInv
<1>11. CASE UNCHANGED vars
  <2>1. UNCHANGED <<xSeat, serverGrabs, seat, grabWindow, mapped, mode, dialogWindow,
                    broken, call, trouble>>
    BY <1>11 DEF vars, xVars, bookVars, callerVars
  <2>2. TypeOK'
    BY <2>1 DEF IInv, TypeOK
  <2>3. Seats'
    BY <2>1 DEF IInv, Seats, Booked, HiddenIsBooked, WindowsAreMapped
  <2>4. Progress'
    BY <2>1 DEF IInv, Progress, CallIsTrue, MoveKeepsOthersOut, NothingIsKept,
         ServerIsCounted, Moving, Trying, NoCallInProgress
  <2> QED
    BY <2>2, <2>3, <2>4 DEF IInv
<1> QED
  BY <1>1, <1>2, <1>3, <1>4, <1>5, <1>6, <1>7, <1>8, <1>9, <1>10, <1>11
  DEF Next, Caller

LEMMA AlwaysIInv == Spec => []IInv
  BY InitIInv, NextIInv, PTL DEF Spec

\* Every variable keeps its type; the X server is never grabbed three times over.
THEOREM TypeCorrect == Spec => []TypeOK
<1>1. IInv => TypeOK
  BY DEF IInv
<1> QED
  BY <1>1, AlwaysIInv, PTL

\* A window that GSGrab has on its books has the seat (gs_grab_move_grab skips
\* the grab of such a window).
THEOREM BooksAlwaysTrue == Spec => []BooksAreTrue
<1>1. IInv => BooksAreTrue
  BY DEF IInv, Seats, Booked, BooksAreTrue
<1> QED
  BY <1>1, AlwaysIInv, PTL

\* Nobody gets the seat while it moves from one window to another
\* (gs_grab_move_grab grabs the server for it).
THEOREM OthersKeptOut == Spec => []MoveKeepsOthersOut
<1>1. IInv => MoveKeepsOthersOut
  BY DEF IInv, Progress
<1> QED
  BY <1>1, AlwaysIInv, PTL

\* With the screen off and no notice the seat is given back, and between calls
\* the X server is (gs_manager_deactivate, release_grab_timeout).
THEOREM NothingEverKept == Spec => []NothingIsKept
<1>1. IInv => NothingIsKept
  BY DEF IInv, Progress
<1> QED
  BY <1>1, AlwaysIInv, PTL

\* The seat is free when a dialog has come up (handle_window_dialog_up).
THEOREM DialogHasSeat == Spec => DialogCanHaveSeat
<1>1. IInv /\ [Next]_vars => [mode # "dialog" /\ mode' = "dialog" => xSeat' \notin Ours]_vars
  <2> SUFFICES ASSUME IInv, Next, mode # "dialog", mode' = "dialog"
               PROVE  xSeat' \notin Ours
    BY DEF vars, callerVars
  <2>1. DialogIsUp
    BY DEF Next, Attempt, GrabTry, MoveCheck, MoveTry, MoveResume, Return,
         NoticeInEffect, ScreenUp, WindowHasSeat, DialogIsDown, WindowAdded, WindowGone,
         WindowsDestroyed, Caller, Notice, Activate, DialogDown, ReleaseGrabTimeout,
         Deactivate, MapEvent, DialogUp, Plug, Unplug, GrabBroken, Begins, OtherGrabs,
         OtherReleases, callerVars
  <2> QED
    BY <2>1, DialogIsUpIInv
<1> QED
  BY <1>1, AlwaysIInv, PTL DEF Spec, DialogCanHaveSeat
================================================================================
