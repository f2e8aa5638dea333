------------------------------ MODULE WindowProofs ------------------------------
(***************************************************************************)
(* A window keeps nothing of a dialog that is down, kills a dialog that it *)
(* was not told to take down only if that one asked for it, and does kill  *)
(* one that asks, for any number of lines in the pipe and of shakes within *)
(* each other.  The shakes are what makes it hard: a call of shake_dialog  *)
(* returns into whatever the window is by then, so that the flags it reads *)
(* must be those of the dialog that is up.                                 *)
(***************************************************************************)
EXTENDS DialogWindow, TLAPS

\* lock_command_watch is only called for the dialog that is up: without a watch
\* there is no process, and a source in dispatch is the live one.
WatchHasDialog ==
    /\ watch = "none" =>
         child = "none" /\ keyboard = "none" /\ keyWatch = "none" /\ ~inWatch
    /\ inWatch => watch = "live" /\ oldShakes < MaxShakes

\* The request to be killed is this dialog's, not one before it.
QuitIsOwn == quitAsked /\ child # "none" => hasQuit

\* While the dialog can be heard, its own shake is the only one that counts: the
\* flag of one before it is gone.
NoShakeLeft == There /\ watch = "live" /\ ~inWatch => ~shaking

IInv ==
    /\ TypeOK /\ NothingLeft /\ WatchHasDialog /\ QuitIsOwn
    /\ NoShakeLeft /\ QuitIsHeeded

USE LineAssumption, ShakeAssumption

LEMMA InitIInv == Init => IInv
<1> SUFFICES ASSUME Init PROVE IInv
  OBVIOUS
<1>1. <<>> \in Seq(Lines) /\ Len(<<>>) <= MaxLines /\ 0 \in 0 .. MaxShakes
  OBVIOUS
<1>2. TypeOK
  BY <1>1 DEF Init, TypeOK, Process, Watch
<1>3. NothingLeft /\ WatchHasDialog /\ QuitIsOwn /\ NoShakeLeft /\ QuitIsHeeded
  BY DEF Init, NothingLeft, WatchHasDialog, QuitIsOwn, There, NoShakeLeft,
         QuitIsHeeded, Alive
<1> QED
  BY <1>2, <1>3 DEF IInv

\* Without watches, sockets and processes everything is in order, whoever took
\* them away.
LEMMA TakenDown ==
    ASSUME IInv, RemoveCommandWatches, DialogFinish,
           drawn' = TRUE, dialogUp' = FALSE, box' = FALSE, popup' = FALSE,
           UNCHANGED <<quitAsked, shaking, hasQuit>>,
           keySocket' \in BOOLEAN, life' \in {"there", "freed", "crashed"}
    PROVE  IInv'
<1>1. <<>> \in Seq(Lines) /\ Len(<<>>) <= MaxLines
  OBVIOUS
<1>2. oldShakes' \in 0 .. MaxShakes
  BY DEF IInv, TypeOK, WatchHasDialog, RemoveCommandWatches
<1>3. TypeOK'
  BY <1>1, <1>2 DEF IInv, TypeOK, RemoveCommandWatches, DialogFinish, KeyboardFinish,
                    Process, Watch
<1> QED
  BY <1>3 DEF IInv, NothingLeft, WatchHasDialog, QuitIsOwn, RemoveCommandWatches,
              DialogFinish, KeyboardFinish, NoShakeLeft, QuitIsHeeded, Alive

LEMMA PopdownIInv ==
    IInv /\ There /\ PopdownDialog /\ UNCHANGED life => IInv'
  BY TakenDown DEF PopdownDialog, IInv, TypeOK

LEMMA PopupIInv == IInv /\ PopupDialogIdle => IInv'
<1> SUFFICES ASSUME IInv, PopupDialogIdle PROVE IInv'
  OBVIOUS
<1>1. /\ child = "none" /\ watch = "none" /\ keyboard = "none" /\ keyWatch = "none"
      /\ ~inWatch /\ dialogUp /\ There
  BY DEF IInv, NothingLeft, WatchHasDialog, PopupDialogIdle
<1>2. /\ pipe' \in Seq(Lines) /\ Len(pipe') <= MaxLines
      /\ child' \in {"none", "started"} /\ watch' \in {"none", "live"}
      /\ child' = "none" <=> watch' = "none"
      /\ hasQuit' \in BOOLEAN
  <2>1. <<>> \in Seq(Lines) /\ Len(<<>>) <= MaxLines
    OBVIOUS
  <2> QED
    BY <1>1, <2>1 DEF IInv, TypeOK, PopupDialogIdle, SpawnOnWindow
<1>3. TypeOK'
  BY <1>2 DEF IInv, TypeOK, PopupDialogIdle, FlagsReset, keys, Process, Watch
<1>4. NothingLeft' /\ WatchHasDialog' /\ QuitIsOwn'
  BY <1>1, <1>2 DEF PopupDialogIdle, FlagsReset, keys, NothingLeft, WatchHasDialog,
                    QuitIsOwn, There
<1>5. NoShakeLeft' /\ QuitIsHeeded'
  BY <1>1, <1>2 DEF PopupDialogIdle, FlagsReset, SpawnOnWindow, NoShakeLeft,
                    QuitIsHeeded, Alive, There
<1> QED
  BY <1>3, <1>4, <1>5 DEF IInv

LEMMA ReadLineIInv == IInv /\ ReadLine => IInv'
<1> SUFFICES ASSUME IInv, ReadLine PROVE IInv'
  OBVIOUS
<1>1. /\ Readable /\ pipe # <<>> /\ dialogUp /\ ~popup
      /\ There /\ watch = "live" /\ ~inWatch
  BY DEF ReadLine, Readable, IInv, NothingLeft
<1>2. Tail(pipe) \in Seq(Lines) /\ Len(Tail(pipe)) <= MaxLines
  BY <1>1 DEF IInv, TypeOK
<1>3. CASE Head(pipe) = "id"
  <2>1. ReadWindowId /\ pipe' = Tail(pipe)
    BY <1>3 DEF ReadLine
  <2>2. TypeOK'
    BY <1>2, <2>1 DEF IInv, TypeOK, ReadWindowId, shakes, Process, Watch
  <2>3. NothingLeft' /\ WatchHasDialog' /\ QuitIsOwn'
    BY <1>1, <2>1 DEF IInv, ReadWindowId, shakes, NothingLeft, WatchHasDialog,
                      QuitIsOwn, There
  <2>4. NoShakeLeft' /\ QuitIsHeeded'
    BY <1>1, <2>1 DEF IInv, ReadWindowId, shakes, NoShakeLeft, QuitIsHeeded, There
  <2> QED
    BY <2>2, <2>3, <2>4 DEF IInv
<1>4. CASE Head(pipe) = "failed"
  <2>1. ReadFailed /\ pipe' = Tail(pipe)
    BY <1>4 DEF ReadLine
  <2>2. TypeOK'
    BY <1>2, <2>1 DEF IInv, TypeOK, ReadFailed, keys
  <2>3. NothingLeft' /\ WatchHasDialog' /\ QuitIsOwn'
    BY <1>1, <2>1 DEF IInv, ReadFailed, keys, NothingLeft, WatchHasDialog,
                      QuitIsOwn, There
  <2>4. NoShakeLeft' /\ QuitIsHeeded'
    BY <1>1, <2>1 DEF IInv, ReadFailed, NoShakeLeft, QuitIsHeeded, There
  <2> QED
    BY <2>2, <2>3, <2>4 DEF IInv
<1>5. CASE Head(pipe) = "quit"
  <2>1. ReadQuit /\ pipe' = Tail(pipe)
    BY <1>5 DEF ReadLine
  <2>2. child' = child \/ (child \in Alive /\ child' = "dead")
    BY <2>1 DEF ReadQuit, MaybeKillDialog
  <2>3. TypeOK'
    BY <1>2, <2>1, <2>2 DEF IInv, TypeOK, ReadQuit, keys, Process
  <2>4. NothingLeft' /\ WatchHasDialog' /\ QuitIsOwn'
    BY <1>1, <2>1, <2>2 DEF IInv, ReadQuit, keys, NothingLeft, WatchHasDialog,
                            QuitIsOwn, There
  <2>5. NoShakeLeft' /\ QuitIsHeeded'
    <3>1. ~shaking /\ ~shaking' /\ quitAsked'
      BY <1>1, <2>1 DEF IInv, TypeOK, ReadQuit, NoShakeLeft, There
    <3>2. child' \notin Alive
      BY <2>1, <3>1 DEF ReadQuit, MaybeKillDialog, Alive
    <3> QED
      BY <3>1, <3>2 DEF NoShakeLeft, QuitIsHeeded
  <2> QED
    BY <2>3, <2>4, <2>5 DEF IInv
<1>6. CASE Head(pipe) \notin {"id", "failed", "quit"}
  <2>1. ReadEnd
    BY <1>6 DEF ReadLine
  <2> QED
    BY <1>1, <2>1, PopdownIInv DEF ReadEnd
<1> QED
  BY <1>3, <1>4, <1>5, <1>6

LEMMA ShakeEndsIInv == IInv /\ ShakeEnds => IInv'
<1> SUFFICES ASSUME IInv, ShakeEnds PROVE IInv'
  OBVIOUS
<1>1. child' = child \/ (child \in Alive /\ child' = "dead")
  BY DEF ShakeEnds, MaybeKillDialog
<1>2. oldShakes' \in 0 .. MaxShakes /\ ~inWatch' /\ life' \in {"there", "freed", "crashed"}
  <2>1. oldShakes' \in 0 .. MaxShakes /\ ~inWatch'
    BY DEF IInv, TypeOK, WatchHasDialog, ShakeEnds
  <2>2. life' \in {"there", "freed", "crashed"}
    BY DEF ShakeEnds, There
  <2> QED
    BY <2>1, <2>2
<1>3. TypeOK'
  <2>1. /\ dialogUp' \in BOOLEAN /\ popup' \in BOOLEAN /\ drawn' \in BOOLEAN
        /\ pipe' \in Seq(Lines) /\ Len(pipe') <= MaxLines /\ watch' \in Watch
        /\ box' \in BOOLEAN /\ keyboard' \in Process /\ keyWatch' \in Watch
        /\ keySocket' \in BOOLEAN /\ hasQuit' \in BOOLEAN
    BY DEF IInv, TypeOK, ShakeEnds, keys
  <2>2. quitAsked' \in BOOLEAN /\ shaking' \in BOOLEAN /\ inWatch' \in BOOLEAN
    BY <1>2 DEF IInv, TypeOK, ShakeEnds
  <2>3. child' \in Process
    BY <1>1 DEF IInv, TypeOK, Process
  <2> QED
    BY <1>2, <2>1, <2>2, <2>3 DEF TypeOK
<1>4. NothingLeft' /\ WatchHasDialog' /\ QuitIsOwn'
  BY <1>1, <1>2 DEF IInv, ShakeEnds, keys, NothingLeft, WatchHasDialog, QuitIsOwn,
                    There, Alive
<1>5. NoShakeLeft' /\ QuitIsHeeded'
  BY <1>1 DEF IInv, ShakeEnds, keys, NoShakeLeft, QuitIsHeeded, There, Alive
<1> QED
  BY <1>3, <1>4, <1>5 DEF IInv

LEMMA NextIInv == IInv /\ [Next]_vars => IInv'
<1> SUFFICES ASSUME IInv, [Next]_vars PROVE IInv'
  OBVIOUS
<1> USE DEF IInv, TypeOK, NothingLeft, WatchHasDialog, QuitIsOwn, NoShakeLeft,
            QuitIsHeeded, Process, Watch, Alive, There, dialog, shakes, keys, OnlyKeys
<1>1. CASE RequestUnlock
  BY <1>1 DEF RequestUnlock
<1>2. CASE PopupDialogIdle
  BY <1>2, PopupIInv
<1>3. CASE CancelUnlockRequest
  BY <1>3, PopdownIInv DEF CancelUnlockRequest
<1>4. CASE Destroy
  BY <1>4, TakenDown DEF Destroy
<1>5. CASE ReadLine
  BY <1>5, ReadLineIInv
<1>6. CASE ReadEof
  BY <1>6, PopdownIInv DEF ReadEof, Readable, ReadEnd
<1>7. CASE ReadError
  BY <1>7 DEF ReadError, Readable
<1>8. CASE ShakeEnds
  BY <1>8, ShakeEndsIInv
<1>9. ASSUME NEW line \in Lines, DialogWrites(line) PROVE IInv'
  <2>1. Append(pipe, line) \in Seq(Lines) /\ Len(Append(pipe, line)) = Len(pipe) + 1
    OBVIOUS
  <2>2. pipe' \in Seq(Lines) /\ Len(pipe') <= MaxLines
    BY <1>9, <2>1 DEF DialogWrites
  <2> QED
    BY <1>9, <2>2 DEF DialogWrites
<1>10. CASE DialogDies
  BY <1>10 DEF DialogDies
<1>11. CASE LockPlugRemoved
  <2>1. TypeOK'
    BY <1>11 DEF LockPlugRemoved
  <2>2. NothingLeft' /\ WatchHasDialog' /\ QuitIsOwn'
    BY <1>11 DEF LockPlugRemoved
  <2>3. NoShakeLeft' /\ QuitIsHeeded'
    BY <1>11 DEF LockPlugRemoved
  <2> QED
    BY <2>1, <2>2, <2>3
<1>12. CASE KeyboardShown \/ KeyboardPlugRemoved
  <2>1. /\ keySocket' \in BOOLEAN
        /\ UNCHANGED <<life, dialogUp, popup, drawn, dialog, shakes, hasQuit,
                       keyboard, keyWatch>>
    BY <1>12 DEF KeyboardShown, KeyboardPlugRemoved
  <2>2. TypeOK'
    BY <2>1
  <2>3. NothingLeft' /\ WatchHasDialog' /\ QuitIsOwn'
    BY <2>1
  <2>4. NoShakeLeft' /\ QuitIsHeeded'
    BY <2>1
  <2> QED
    BY <2>2, <2>3, <2>4
<1>13. CASE KeyboardDies
  BY <1>13 DEF KeyboardDies
<1>14. CASE KeyboardEof
  BY <1>14 DEF KeyboardEof, KeyboardFinish
<1>15. CASE KeyboardReadError
  BY <1>15 DEF KeyboardReadError
<1>16. CASE UNCHANGED vars
  BY <1>16 DEF vars
<1> QED
  BY <1>1, <1>2, <1>3, <1>4, <1>5, <1>6, <1>7, <1>8, <1>9, <1>10, <1>11, <1>12,
     <1>13, <1>14, <1>15, <1>16 DEF Next

LEMMA AlwaysIInv == Spec => []IInv
  BY InitIInv, NextIInv, PTL DEF Spec

\* Every variable keeps its type; no more calls of shake_dialog are under way
\* than were allowed to start.
THEOREM TypeCorrect == Spec => []TypeOK
<1>1. IInv => TypeOK
  BY DEF IInv
<1> QED
  BY <1>1, AlwaysIInv, PTL

\* Nothing of a dialog outlives it, and none is started over another one
\* (popdown_dialog, gs_window_finalize, popup_dialog).
THEOREM NothingEverLeft == Spec => []NothingLeft
<1>1. IInv => NothingLeft
  BY DEF IInv
<1> QED
  BY <1>1, AlwaysIInv, PTL

\* maybe_kill_dialog does what REQUEST QUIT asks for when it is read, for however
\* many shakes of earlier dialogs are under way (popup_dialog resets the flag).
THEOREM QuitAlwaysHeeded == Spec => []QuitIsHeeded
<1>1. IInv => QuitIsHeeded
  BY DEF IInv
<1> QED
  BY <1>1, AlwaysIInv, PTL

\* Nobody but a dialog itself asks for its end by REQUEST QUIT, though
\* maybe_kill_dialog runs from the shake of another dialog.
THEOREM NeverKilledUnasked == Spec => NotKilledUnasked
<1>1. IInv /\ [Next]_vars =>
        [(child \in Alive /\ child' = "dead" /\ ~DialogDies) => hasQuit']_vars
  <2> SUFFICES ASSUME IInv, Next, child \in Alive, child' = "dead", ~DialogDies
               PROVE  hasQuit'
    BY DEF vars, dialog
  <2>1. child # "dead" /\ child # "none"
    BY DEF Alive
  <2>2. ReadQuit \/ ShakeEnds
    BY <2>1 DEF Next, RequestUnlock, PopupDialogIdle, SpawnOnWindow,
         CancelUnlockRequest, PopdownDialog, DialogFinish, Destroy, ReadLine,
         ReadWindowId, ReadFailed, ReadEnd, ReadEof, ReadError, DialogWrites,
         LockPlugRemoved, KeyboardShown, KeyboardPlugRemoved, KeyboardDies,
         KeyboardEof, KeyboardReadError, OnlyKeys, dialog
  <2>3. CASE ReadQuit
    BY <2>3 DEF ReadQuit
  <2>4. CASE ShakeEnds
    BY <2>1, <2>4 DEF ShakeEnds, MaybeKillDialog, IInv, QuitIsOwn
  <2> QED
    BY <2>2, <2>3, <2>4
<1> QED
  BY <1>1, AlwaysIInv, PTL DEF Spec, NotKilledUnasked
================================================================================
