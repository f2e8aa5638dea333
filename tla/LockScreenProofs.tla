--------------------------- MODULE LockScreenProofs ---------------------------
(***************************************************************************)
(* However many monitors there are and however they come and go: a window  *)
(* for each, one dialog at most, nothing left of a dialog that is down,    *)
(* and an OK that is not lost; and the screen they make up is still a      *)
(* ScreenSaver.                                                            *)
(*                                                                         *)
(* The handlers pass a list of windows on to each other before they store  *)
(* it, so what is to be kept is said of any list of windows, and a lemma   *)
(* for each of these operators says that it keeps it.                      *)
(***************************************************************************)
EXTENDS LockScreen, TLAPS

\* A window by itself: what there is of a dialog belongs to one that is up, and
\* that is on a locked screen.
WindowInOrder(w, lock) ==
    /\ w.lock = lock
    /\ w.dialogUp => lock
    /\ w.child # "none" \/ w.popup \/ w.watch # "none" \/ w.socket # "none" =>
         w.dialogUp
    /\ w.popup => w.child = "none"

\* The windows of n monitors: one dialog if there is to be one, and no other
\* window takes events then; all do without.
InOrder(ws, n, up, lock) ==
    /\ ws \in [1..n -> Window]
    /\ \A i \in 1..n : WindowInOrder(ws[i], lock)
    /\ up <=> \E i \in 1..n : ws[i].dialogUp
    /\ \A i, j \in 1..n :
         ws[i].dialogUp /\ i # j => ~ws[j].dialogUp /\ ~ws[j].sensitive
    /\ ~up => \A i \in 1..n : ws[i].sensitive

Count == IF active THEN monitors ELSE 0

IInv == TypeOK /\ InOrder(windows, Count, dialogUp, lockActive)
-------------------------------------------------------------------------------
(* What the operators on windows keep. *)

\* A window as it is made for a monitor.
LEMMA NewWindowInOrder ==
    ASSUME NEW lock \in BOOLEAN
    PROVE  /\ NewWindow(lock) \in Window /\ WindowInOrder(NewWindow(lock), lock)
           /\ ~NewWindow(lock).dialogUp /\ NewWindow(lock).sensitive
           /\ NewWindow(lock).emitQ = <<>>
<1>1. <<>> \in Seq(Causes)
  OBVIOUS
<1> QED
  BY <1>1 DEF NewWindow, Window, WindowInOrder

\* popdown_dialog leaves nothing of the dialog, and the rest as it is.
LEMMA PoppedDownInOrder ==
    ASSUME NEW lock \in BOOLEAN, NEW w \in Window, WindowInOrder(w, lock)
    PROVE  /\ PoppedDown(w) \in Window /\ WindowInOrder(PoppedDown(w), lock)
           /\ ~PoppedDown(w).dialogUp /\ PoppedDown(w).watch = "none"
           /\ PoppedDown(w).sensitive = w.sensitive
           /\ PoppedDown(w).emitQ = w.emitQ
  BY DEF PoppedDown, Window, WindowInOrder

\* A window is set sensitive or not without more.
LEMMA SensitiveInOrder ==
    ASSUME NEW lock \in BOOLEAN, NEW w \in Window, WindowInOrder(w, lock),
           NEW b \in BOOLEAN
    PROVE  LET v == [w EXCEPT !.sensitive = b]
           IN  /\ v \in Window /\ WindowInOrder(v, lock)
               /\ v.dialogUp = w.dialogUp /\ (v.sensitive <=> b)
               /\ v.emitQ = w.emitQ /\ v.child = w.child /\ v.watch = w.watch
  BY DEF Window, WindowInOrder

\* gs_window_set_lock_enabled, on a screen that was blank.
LEMMA LockedInOrder ==
    ASSUME NEW w \in Window, WindowInOrder(w, FALSE)
    PROVE  LET v == [w EXCEPT !.lock = TRUE]
           IN  /\ v \in Window /\ WindowInOrder(v, TRUE)
               /\ v.dialogUp = w.dialogUp /\ v.sensitive = w.sensitive
               /\ v.emitQ = w.emitQ
  BY DEF Window, WindowInOrder

\* One window of the list changes, and not whether it shows a dialog nor
\* whether it takes events.
LEMMA OneWindowInOrder ==
    ASSUME NEW n \in Nat, NEW up \in BOOLEAN, NEW lock \in BOOLEAN, NEW ws,
           InOrder(ws, n, up, lock),
           NEW i \in 1..n, NEW w \in Window, WindowInOrder(w, lock),
           w.dialogUp = ws[i].dialogUp, w.sensitive = ws[i].sensitive
    PROVE  InOrder([ws EXCEPT ![i] = w], n, up, lock)
<1> DEFINE vs == [ws EXCEPT ![i] = w]
<1>1. /\ vs \in [1..n -> Window] /\ vs[i] = w
      /\ \A j \in 1..n : j # i => vs[j] = ws[j]
  BY DEF InOrder
<1>2. \A j \in 1..n : /\ WindowInOrder(vs[j], lock)
                      /\ vs[j].dialogUp = ws[j].dialogUp
                      /\ vs[j].sensitive = ws[j].sensitive
  BY <1>1 DEF InOrder
<1> HIDE DEF vs
<1>3. InOrder(vs, n, up, lock)
  BY <1>1, <1>2 DEF InOrder
<1> QED BY <1>3 DEF vs

\* add_emit_deactivated_idle.
LEMMA QueueEmitInOrder ==
    ASSUME NEW n \in Nat, NEW up \in BOOLEAN, NEW lock \in BOOLEAN, NEW ws,
           InOrder(ws, n, up, lock),
           NEW i \in 1..n, NEW cause \in Causes
    PROVE  InOrder(QueueEmit(ws, i, cause), n, up, lock)
<1> DEFINE q == Append(ws[i].emitQ, cause)
           w == [ws[i] EXCEPT !.emitQ = q]
<1>1. ws[i] \in Window /\ WindowInOrder(ws[i], lock)
  BY DEF InOrder
<1>2. ws[i].emitQ \in Seq(Causes)
  BY <1>1 DEF Window
<1>3. q \in Seq(Causes)
  BY <1>2
<1> HIDE DEF q
<1>4. /\ w \in Window /\ WindowInOrder(w, lock)
      /\ w.dialogUp = ws[i].dialogUp /\ w.sensitive = ws[i].sensitive
  BY <1>1, <1>3 DEF Window, WindowInOrder
<1>5. QueueEmit(ws, i, cause) = [ws EXCEPT ![i] = w]
  BY DEF QueueEmit, q
<1> HIDE DEF w
<1>6. InOrder([ws EXCEPT ![i] = w], n, up, lock)
  BY <1>4, OneWindowInOrder
<1> QED BY <1>5, <1>6

\* popdown_dialog on some of the windows, with handle_window_dialog_down.
LEMMA PopdownInOrder ==
    ASSUME NEW n \in Nat, NEW lock \in BOOLEAN,
           InOrder(windows, n, dialogUp, lock), NEW from, from \subseteq 1..n,
           dialogUp \in BOOLEAN
    PROVE  /\ InOrder(Popdown(from), n, UpAfter(from), lock)
           /\ \A i \in 1..n :
                /\ Popdown(from)[i].emitQ = windows[i].emitQ
                /\ i \notin from => /\ Popdown(from)[i].dialogUp = windows[i].dialogUp
                                    /\ Popdown(from)[i].child = windows[i].child
                /\ i \in from => ~Popdown(from)[i].dialogUp
<1> DEFINE vs == [i \in DOMAIN windows |->
                    IF i \in from THEN PoppedDown(windows[i]) ELSE windows[i]]
           some == \E i \in from : windows[i].dialogUp
<1>1. /\ DOMAIN windows = 1..n
      /\ \A i \in 1..n : windows[i] \in Window /\ WindowInOrder(windows[i], lock)
  BY DEF InOrder
<1>2. \A i \in 1..n :
        /\ vs[i] \in Window /\ WindowInOrder(vs[i], lock)
        /\ vs[i].emitQ = windows[i].emitQ
        /\ vs[i].sensitive = windows[i].sensitive
        /\ i \in from => ~vs[i].dialogUp
        /\ i \notin from => vs[i] = windows[i]
  BY <1>1, PoppedDownInOrder
<1>3. DOMAIN vs = 1..n /\ vs = [i \in 1..n |-> vs[i]]
  BY <1>1
<1> HIDE DEF vs
<1>4. CASE some
  <2>1. /\ Popdown(from) = [i \in 1..n |-> [vs[i] EXCEPT !.sensitive = TRUE]]
        /\ ~UpAfter(from)
    BY <1>3, <1>4 DEF Popdown, AllSensitive, UpAfter, vs
  <2>2. \A i \in 1..n : ~vs[i].dialogUp
    BY <1>2, <1>4 DEF InOrder
  <2>3. ASSUME NEW i \in 1..n
        PROVE  LET v == [vs[i] EXCEPT !.sensitive = TRUE]
               IN  /\ v \in Window /\ WindowInOrder(v, lock)
                   /\ v.dialogUp = vs[i].dialogUp /\ v.sensitive
                   /\ v.emitQ = vs[i].emitQ /\ v.child = vs[i].child
    BY <1>2, SensitiveInOrder
  <2>4. \A i \in 1..n : Popdown(from)[i] = [vs[i] EXCEPT !.sensitive = TRUE]
    BY <2>1
  <2>5. Popdown(from) \in [1..n -> Window]
    BY <2>1, <2>3
  <2>6. \A i \in 1..n :
          /\ WindowInOrder(Popdown(from)[i], lock)
          /\ ~Popdown(from)[i].dialogUp /\ Popdown(from)[i].sensitive
    BY <2>2, <2>3, <2>4
  <2>7. InOrder(Popdown(from), n, UpAfter(from), lock)
    BY <2>1, <2>5, <2>6 DEF InOrder
  <2>8. \A i \in 1..n :
          /\ Popdown(from)[i].emitQ = windows[i].emitQ
          /\ i \notin from => /\ ~windows[i].dialogUp
                              /\ Popdown(from)[i].child = windows[i].child
    BY <1>2, <2>2, <2>3, <2>4
  <2>9. \A i \in 1..n : i \notin from =>
          Popdown(from)[i].dialogUp = windows[i].dialogUp
    BY <1>1, <2>3, <2>4, <2>6, <2>8, <2>5 DEF Window
  <2> QED BY <2>6, <2>7, <2>8, <2>9
<1>5. CASE ~some
  <2>1. Popdown(from) = vs /\ UpAfter(from) = dialogUp
    BY <1>5 DEF Popdown, AllSensitive, UpAfter, vs
  <2>2. \A i \in 1..n : vs[i].dialogUp = windows[i].dialogUp
    BY <1>1, <1>2, <1>5 DEF Window
  <2>3. vs \in [1..n -> Window]
    BY <1>2, <1>3
  <2>4. InOrder(vs, n, dialogUp, lock)
    BY <1>2, <2>2, <2>3 DEF InOrder
  <2> QED BY <1>2, <2>1, <2>2, <2>4
<1> QED BY <1>4, <1>5

\* gs_window_request_unlock and handle_window_dialog_up, when there is no dialog.
LEMMA DialogAskedInOrder ==
    ASSUME NEW n \in Nat, NEW lock \in BOOLEAN, NEW ws,
           InOrder(ws, n, FALSE, lock), lock, NEW p \in 1..n
    PROVE  /\ InOrder(DialogAsked(ws, p), n, TRUE, lock)
           /\ DialogAsked(ws, p)[p].dialogUp
<1> DEFINE vs == DialogAsked(ws, p)
           w == [ws[p] EXCEPT !.dialogUp = TRUE, !.popup = TRUE]
<1>1. \A i \in 1..n : ws[i] \in Window /\ WindowInOrder(ws[i], lock)
  BY DEF InOrder
<1>2. w \in Window /\ WindowInOrder(w, lock) /\ w.dialogUp
  <2>1. ~ws[p].dialogUp
    BY DEF InOrder
  <2> QED BY <1>1, <2>1 DEF Window, WindowInOrder
<1>3. vs = [i \in 1..n |-> IF i = p THEN w ELSE [ws[i] EXCEPT !.sensitive = FALSE]]
  BY DEF InOrder, DialogAsked
<1>4. ASSUME NEW i \in 1..n, i # p
      PROVE  /\ vs[i] \in Window /\ WindowInOrder(vs[i], lock)
             /\ ~vs[i].dialogUp /\ ~vs[i].sensitive
  <2> DEFINE v == [ws[i] EXCEPT !.sensitive = FALSE]
  <2>1. vs[i] = v
    BY <1>3, <1>4
  <2>2. ws[i] \in Window /\ WindowInOrder(ws[i], lock) /\ ~ws[i].dialogUp
    BY <1>1 DEF InOrder
  <2>3. v \in Window /\ WindowInOrder(v, lock) /\ ~v.dialogUp /\ ~v.sensitive
    BY <2>2 DEF Window, WindowInOrder
  <2> HIDE DEF v, vs
  <2> QED BY <2>1, <2>3
<1>5. vs[p] = w
  BY <1>3
<1>6. vs \in [1..n -> Window]
  BY <1>2, <1>3, <1>4, <1>5
<1> HIDE DEF vs, w
<1>7. InOrder(vs, n, TRUE, lock) /\ vs[p].dialogUp
  BY <1>2, <1>4, <1>5, <1>6 DEF InOrder
<1> QED BY <1>7 DEF vs

\* The first windows of a list, when no other shows a dialog.
LEMMA ShorterInOrder ==
    ASSUME NEW n \in Nat, NEW up \in BOOLEAN, NEW lock \in BOOLEAN, NEW ws,
           InOrder(ws, n, up, lock), NEW m \in 0..n,
           \A i \in 1..n : i > m => ~ws[i].dialogUp
    PROVE  InOrder([i \in 1..m |-> ws[i]], m, up, lock)
<1>1. \A i \in 1..m : i \in 1..n
  OBVIOUS
<1>2. \A i \in 1..n : i > m \/ i \in 1..m
  OBVIOUS
<1> QED BY <1>1, <1>2 DEF InOrder

\* The list with windows made for more monitors, when none shows a dialog.
LEMMA LongerInOrder ==
    ASSUME NEW n \in Nat, NEW lock \in BOOLEAN, NEW ws,
           InOrder(ws, n, FALSE, lock), NEW m \in Nat, m >= n
    PROVE  InOrder([i \in 1..m |-> IF i \in 1..n THEN ws[i] ELSE NewWindow(lock)],
                   m, FALSE, lock)
  BY NewWindowInOrder DEF InOrder

\* What becomes of a request: nothing, as there is a dialog or no screen; a
\* dialog, on a locked screen; or the end of a blank one is queued.
RequestOutcome(ws, n, up) ==
    \/ windows' = ws /\ dialogUp' = up /\ (active /\ n > 0 => up)
    \/ /\ active /\ ~up /\ lockActive /\ dialogUp' = TRUE
       /\ \E p \in 1..n : windows' = DialogAsked(ws, p)
    \/ /\ active /\ ~lockActive /\ dialogUp' = up
       /\ \E p \in 1..n : windows' = QueueEmit(ws, p, "activity")

\* gs_manager_request_unlock has no other outcome.
LEMMA RequestUnlockOutcomes ==
    ASSUME NEW n \in Nat, NEW up \in BOOLEAN, NEW ws, lockActive \in BOOLEAN,
           InOrder(ws, n, up, lockActive), RequestUnlock(ws, up)
    PROVE  RequestOutcome(ws, n, up)
<1>1. DOMAIN ws = 1..n
  BY DEF InOrder
<1>2. \A p \in 1..n : (ws[p].lock <=> lockActive) /\ (ws[p].watch # "none" => up)
  BY DEF InOrder, WindowInOrder
<1>3. CASE RequestIgnored(ws, up)
           /\ \/ ~active \/ up \/ DOMAIN ws = {}
              \/ \E p \in DOMAIN ws : ws[p].watch # "none"
  <2>1. n > 0 => 1 \in 1..n
    OBVIOUS
  <2> QED BY <1>1, <1>2, <1>3, <2>1 DEF RequestIgnored, RequestOutcome
<1>4. ASSUME active, ~up, NEW p \in 1..n, NeedsDialog(ws[p]),
             windows' = DialogAsked(ws, p), dialogUp' = TRUE
      PROVE  lockActive
  BY <1>2, <1>4 DEF NeedsDialog
<1>5. ASSUME active, ~up, NEW p \in 1..n, ~NeedsDialog(ws[p]),
             RequestIgnored(QueueEmit(ws, p, "activity"), up)
      PROVE  /\ ~lockActive /\ dialogUp' = up
             /\ windows' = QueueEmit(ws, p, "activity")
  BY <1>2, <1>5 DEF NeedsDialog, RequestIgnored
<1> QED BY <1>1, <1>3, <1>4, <1>5 DEF RequestUnlock, RequestOutcome

LEMMA RequestUnlockInOrder ==
    ASSUME NEW n \in Nat, NEW up \in BOOLEAN, NEW ws, lockActive \in BOOLEAN,
           InOrder(ws, n, up, lockActive), RequestUnlock(ws, up)
    PROVE  InOrder(windows', n, dialogUp', lockActive) /\ dialogUp' \in BOOLEAN
<1>1. CASE windows' = ws /\ dialogUp' = up
  BY <1>1
<1>2. ASSUME lockActive, ~up, dialogUp' = TRUE,
             NEW p \in 1..n, windows' = DialogAsked(ws, p)
      PROVE  InOrder(windows', n, dialogUp', lockActive)
  <2>1. up = FALSE
    BY <1>2
  <2> QED BY <1>2, <2>1, DialogAskedInOrder
<1>3. ASSUME ~lockActive, dialogUp' = up,
             NEW p \in 1..n, windows' = QueueEmit(ws, p, "activity")
      PROVE  InOrder(windows', n, dialogUp', lockActive)
  <2>1. "activity" \in Causes
    BY DEF Causes
  <2> QED BY <1>3, <2>1, QueueEmitInOrder
<1>4. RequestOutcome(ws, n, up)
  BY RequestUnlockOutcomes
<1>5. dialogUp' \in BOOLEAN
  BY <1>4 DEF RequestOutcome
<1>6. InOrder(windows', n, dialogUp', lockActive)
  BY <1>1, <1>2, <1>3, <1>4 DEF RequestOutcome
<1> QED BY <1>5, <1>6
-------------------------------------------------------------------------------
(* The invariant: every callback leaves the screen in order. *)

\* The types but that of the windows.
Scalars ==
    /\ running \in BOOLEAN /\ monitors \in 1..MaxMonitors
    /\ active \in BOOLEAN /\ lockActive \in BOOLEAN /\ dialogUp \in BOOLEAN
    /\ mgrQ \in Seq(Causes) /\ orphans \subseteq Causes
    /\ endedBy \in Causes \union {"none", "request"}

\* The types are those of the scalars, for windows in order have theirs.
LEMMA IInvParts ==
    IInv <=> Scalars /\ InOrder(windows, Count, dialogUp, lockActive)
<1>1. Scalars => Count \in 0..MaxMonitors
  BY MonitorAssumption DEF Scalars, Count
<1>2. InOrder(windows, Count, dialogUp, lockActive) => windows \in [1..Count -> Window]
  BY DEF InOrder
<1> QED BY <1>1, <1>2 DEF IInv, TypeOK, Scalars

\* The same, a step later.
LEMMA IInvPartsNext ==
    IInv' <=> Scalars' /\ InOrder(windows', Count', dialogUp', lockActive')
<1>1. Scalars' => Count' \in 0..MaxMonitors
  BY MonitorAssumption DEF Scalars, Count
<1>2. InOrder(windows', Count', dialogUp', lockActive') =>
        windows' \in [1..Count' -> Window]
  BY DEF InOrder
<1>3. InOrder(windows, Count, dialogUp, lockActive)'
        <=> InOrder(windows', Count', dialogUp', lockActive')
  BY DEF InOrder, WindowInOrder
<1> QED BY <1>1, <1>2, <1>3 DEF IInv, TypeOK, Scalars

\* No windows are in order.
LEMMA NoWindowsInOrder ==
    ASSUME NEW lock PROVE InOrder(<<>>, 0, FALSE, lock)
  BY DEF InOrder

LEMMA InitIInv == Init => IInv
<1> SUFFICES ASSUME Init PROVE IInv
  OBVIOUS
<1>1. <<>> \in Seq(Causes)
  OBVIOUS
<1>2. Scalars
  BY <1>1 DEF Init, Scalars
<1>3. InOrder(windows, Count, dialogUp, lockActive)
  BY NoWindowsInOrder DEF Init, Count
<1> QED BY <1>2, <1>3, IInvParts

\* gs_manager_deactivate leaves no windows.
LEMMA ManagerDeactivateIInv ==
    ASSUME IInv, NEW cause \in Causes \union {"request"}, ManagerDeactivate(cause),
           mgrQ' \in Seq(Causes), UNCHANGED <<running, monitors>>
    PROVE  IInv'
<1>1. InOrder(windows', Count', dialogUp', lockActive')
  BY NoWindowsInOrder DEF ManagerDeactivate, Count
<1>2. orphans' \subseteq Causes
  <2>1. CASE active
    BY <2>1 DEF ManagerDeactivate, Orphaned, IInv, TypeOK
  <2>2. CASE ~active
    BY <2>2 DEF ManagerDeactivate, IInv, TypeOK
  <2> QED BY <2>1, <2>2
<1>3. endedBy' \in Causes \union {"none", "request"}
  BY DEF ManagerDeactivate, IInv, TypeOK
<1>4. Scalars'
  BY <1>2, <1>3 DEF ManagerDeactivate, IInv, TypeOK, Scalars
<1> QED BY <1>1, <1>4, IInvPartsNext

\* What the invariant says of the windows there are.
LEMMA IInvWindows ==
    ASSUME IInv
    PROVE  /\ Count \in 0..MaxMonitors /\ DOMAIN windows = 1..Count
           /\ Len(windows) = Count
           /\ \A i \in 1..Count : /\ windows[i] \in Window
                                  /\ WindowInOrder(windows[i], lockActive)
<1>1. Count \in 0..MaxMonitors
  BY MonitorAssumption DEF IInv, TypeOK, Count
<1>2. windows \in [1..Count -> Window]
  BY DEF IInv, InOrder
<1>3. Len(windows) = Count
  BY <1>1, <1>2
<1> QED BY <1>1, <1>2, <1>3 DEF IInv, InOrder

\* gs_manager_activate.
LEMMA ActivateIInv == IInv /\ Activate => IInv'
<1> SUFFICES ASSUME IInv, Activate PROVE IInv'
  OBVIOUS
<1>1. PICK lock \in BOOLEAN : /\ lockActive' = lock
                             /\ windows' = [i \in 1..monitors |-> NewWindow(lock)]
  BY DEF Activate
<1>2. Count' = monitors /\ dialogUp' = FALSE
  <2>1. Count = 0
    BY DEF Activate, Count
  <2>2. dialogUp = FALSE
    BY <2>1 DEF IInv, TypeOK, InOrder
  <2> QED BY <2>2 DEF Activate, Count
<1>3. InOrder(windows', Count', dialogUp', lockActive')
  BY <1>1, <1>2, NewWindowInOrder DEF InOrder
<1>4. Scalars'
  BY <1>1 DEF Activate, IInv, TypeOK, Scalars
<1> QED BY <1>3, <1>4, IInvPartsNext

\* gs_manager_set_lock_active: there is no dialog on a screen that is not locked.
LEMMA LockIInv == IInv /\ Lock => IInv'
<1> SUFFICES ASSUME IInv, Lock PROVE IInv'
  OBVIOUS
<1>1. windows' = [i \in 1..Count |-> [windows[i] EXCEPT !.lock = TRUE]]
  BY IInvWindows DEF Lock
<1>2. ASSUME NEW i \in 1..Count
      PROVE  /\ windows'[i] \in Window /\ WindowInOrder(windows'[i], TRUE)
             /\ windows'[i].dialogUp = windows[i].dialogUp
             /\ windows'[i].sensitive = windows[i].sensitive
  <2>1. windows[i] \in Window /\ WindowInOrder(windows[i], FALSE)
    BY IInvWindows DEF Lock, WindowInOrder
  <2>2. windows'[i] = [windows[i] EXCEPT !.lock = TRUE]
    BY <1>1
  <2> QED BY <2>1, <2>2, LockedInOrder
<1>3. InOrder(windows', Count, dialogUp, TRUE)
  BY <1>1, <1>2 DEF IInv, InOrder
<1>4. InOrder(windows', Count', dialogUp', lockActive')
  BY <1>3 DEF Lock, Count
<1>5. Scalars'
  BY DEF Lock, IInv, TypeOK, Scalars
<1> QED BY <1>4, <1>5, IInvPartsNext

\* A request to unlock, whoever makes it.
LEMMA RequestIInv ==
    ASSUME IInv, RequestUnlock(windows, dialogUp),
           UNCHANGED <<running, monitors, active, lockActive, mgrQ, orphans, endedBy>>
    PROVE  IInv'
<1>1. Count \in Nat /\ Count' = Count
  BY IInvWindows DEF Count
<1>2. InOrder(windows', Count', dialogUp', lockActive') /\ dialogUp' \in BOOLEAN
  BY <1>1, RequestUnlockInOrder DEF IInv, TypeOK
<1>3. Scalars'
  BY <1>2 DEF IInv, TypeOK, Scalars
<1> QED BY <1>2, <1>3, IInvPartsNext

\* gs_manager_create_windows for more monitors, after the dialogs are gone.
LEMMA MoreInOrder ==
    ASSUME IInv, active, NEW n \in 1..MaxMonitors, n > monitors
    PROVE  LET old == DOMAIN windows
               ws == [i \in 1..n |-> IF i \in old THEN Popdown(old)[i]
                                                  ELSE NewWindow(lockActive)]
           IN  InOrder(ws, n, UpAfter(old), lockActive) /\ UpAfter(old) = FALSE
<1>1. /\ Count = monitors /\ monitors \in Nat /\ DOMAIN windows = 1..monitors
      /\ n \in Nat /\ n >= monitors /\ lockActive \in BOOLEAN
  BY IInvWindows DEF Count, IInv, TypeOK
<1>2. InOrder(Popdown(1..monitors), monitors, UpAfter(1..monitors), lockActive)
  BY <1>1, PopdownInOrder DEF IInv, TypeOK
<1>3. UpAfter(1..monitors) = FALSE
  BY <1>1 DEF IInv, TypeOK, InOrder, UpAfter
<1>4. InOrder(Popdown(1..monitors), monitors, FALSE, lockActive)
  BY <1>2, <1>3
<1>5. InOrder([i \in 1..n |-> IF i \in 1..monitors THEN Popdown(1..monitors)[i]
                                               ELSE NewWindow(lockActive)],
              n, FALSE, lockActive)
  BY <1>1, <1>4, LongerInOrder
<1> QED BY <1>1, <1>3, <1>5

\* gs_manager_destroy_windows for fewer monitors, with the dialog of one of these.
LEMMA FewerInOrder ==
    ASSUME IInv, active, NEW n \in 1..MaxMonitors, n < monitors
    PROVE  LET gone == DOMAIN windows \ 1..n
               ws == [i \in 1..n |-> Popdown(gone)[i]]
           IN  InOrder(ws, n, UpAfter(gone), lockActive) /\ UpAfter(gone) \in BOOLEAN
<1> DEFINE gone == DOMAIN windows \ 1..n
<1>1. /\ Count = monitors /\ monitors \in Nat /\ DOMAIN windows = 1..monitors
      /\ gone \subseteq 1..monitors /\ n \in 0..monitors
      /\ \A i \in 1..monitors : i > n => i \in gone
  BY IInvWindows DEF Count, IInv, TypeOK
<1> HIDE DEF gone
<1>2. UpAfter(gone) \in BOOLEAN
  BY DEF UpAfter
<1>3. /\ InOrder(Popdown(gone), monitors, UpAfter(gone), lockActive)
      /\ \A i \in 1..monitors : i > n => ~Popdown(gone)[i].dialogUp
  BY <1>1, PopdownInOrder DEF IInv, TypeOK
<1>4. InOrder([i \in 1..n |-> Popdown(gone)[i]], n, UpAfter(gone), lockActive)
  BY <1>1, <1>2, <1>3, ShorterInOrder DEF IInv, TypeOK
<1> QED BY <1>2, <1>4 DEF gone

\* on_screen_monitors_changed.
LEMMA MonitorsChangedIInv ==
    ASSUME IInv, NEW n \in 1..MaxMonitors, MonitorsChanged(n) PROVE IInv'
<1>1. /\ active /\ monitors' = n /\ Len(windows) = monitors /\ Count' = n
      /\ n \in Nat /\ lockActive \in BOOLEAN /\ lockActive' = lockActive
  BY IInvWindows DEF MonitorsChanged, Count, IInv, TypeOK
<1>2. InOrder(windows', n, dialogUp', lockActive) /\ dialogUp' \in BOOLEAN
  <2>1. CASE n > monitors /\ WindowsForMore(n)
    <3> DEFINE old == DOMAIN windows
               ws == [i \in 1..n |-> IF i \in old THEN Popdown(old)[i]
                                                  ELSE NewWindow(lockActive)]
    <3>1. InOrder(ws, n, UpAfter(old), lockActive) /\ UpAfter(old) \in BOOLEAN
      BY <1>1, <2>1, MoreInOrder
    <3>2. RequestUnlock(ws, UpAfter(old))
      BY <2>1 DEF WindowsForMore
    <3> HIDE DEF ws, old
    <3> QED BY <1>1, <3>1, <3>2, RequestUnlockInOrder
  <2>2. CASE n < monitors /\ WindowsForFewer(n)
    <3> DEFINE gone == DOMAIN windows \ 1..n
               ws == [i \in 1..n |-> Popdown(gone)[i]]
    <3>1. InOrder(ws, n, UpAfter(gone), lockActive) /\ UpAfter(gone) \in BOOLEAN
      BY <1>1, <2>2, FewerInOrder
    <3>2. RequestUnlock(ws, UpAfter(gone))
      BY <2>2 DEF WindowsForFewer
    <3> HIDE DEF ws, gone
    <3> QED BY <1>1, <3>1, <3>2, RequestUnlockInOrder
  <2> QED BY <1>1, <2>1, <2>2 DEF MonitorsChanged
<1>3. orphans' \subseteq Causes
  <2>1. Orphaned(DOMAIN windows \ 1..n)
    BY DEF MonitorsChanged
  <2> QED BY <2>1 DEF Orphaned, IInv, TypeOK
<1>4. Scalars'
  BY <1>1, <1>2, <1>3 DEF MonitorsChanged, IInv, TypeOK, Scalars
<1> QED BY <1>1, <1>2, <1>4, IInvPartsNext

\* A callback that changes one window, and neither whether it shows a dialog nor
\* whether it takes events.
LEMMA OnlyWindowIInv ==
    ASSUME IInv, NEW i \in DOMAIN windows, NEW w \in Window,
           WindowInOrder(w, lockActive), w.dialogUp = windows[i].dialogUp,
           w.sensitive = windows[i].sensitive, OnlyWindow(i, w)
    PROVE  IInv'
<1>1. Count \in Nat /\ i \in 1..Count /\ Count' = Count
  BY IInvWindows DEF OnlyWindow, Count
<1>2. InOrder([windows EXCEPT ![i] = w], Count, dialogUp, lockActive)
  BY <1>1, OneWindowInOrder DEF IInv, TypeOK
<1>3. InOrder(windows', Count', dialogUp', lockActive')
  BY <1>1, <1>2 DEF OnlyWindow
<1>4. Scalars'
  BY DEF OnlyWindow, IInv, TypeOK, Scalars
<1> QED BY <1>3, <1>4, IInvPartsNext

\* The dialog process is started, speaks, shows its window and takes it away.
LEMMA DialogProcessIInv ==
    ASSUME IInv, NEW i \in DOMAIN windows,
           \/ PopupDialogIdle(i) \/ DialogShown(i) \/ PlugRemoved(i) \/ ReadFails(i)
           \/ \E answer \in {"ok", "cancel", "gone"} : DialogSays(i, answer)
    PROVE  IInv'
<1> DEFINE Same(w) == /\ w \in Window /\ WindowInOrder(w, lockActive)
                      /\ w.dialogUp = windows[i].dialogUp
                      /\ w.sensitive = windows[i].sensitive
<1>1. windows[i] \in Window /\ WindowInOrder(windows[i], lockActive)
  BY IInvWindows
<1>2. CASE PopupDialogIdle(i)
  <2>1. Same([windows[i] EXCEPT !.popup = FALSE, !.child = "silent", !.watch = "live"])
    BY <1>1, <1>2 DEF PopupDialogIdle, Window, WindowInOrder
  <2>2. Same([windows[i] EXCEPT !.popup = FALSE])
    BY <1>1 DEF Window, WindowInOrder
  <2> QED BY <1>2, <2>1, <2>2, OnlyWindowIInv DEF PopupDialogIdle
<1>3. CASE DialogShown(i)
  <2>1. Same([windows[i] EXCEPT !.socket = "there"])
    BY <1>1, <1>3 DEF DialogShown, Window, WindowInOrder
  <2> QED BY <1>3, <2>1, OnlyWindowIInv DEF DialogShown
<1>4. CASE PlugRemoved(i)
  <2>1. Same([windows[i] EXCEPT !.socket = "removed"])
    BY <1>1, <1>4 DEF PlugRemoved, Window, WindowInOrder
  <2> QED BY <1>4, <2>1, OnlyWindowIInv DEF PlugRemoved
<1>5. CASE ReadFails(i)
  <2>1. Same([windows[i] EXCEPT !.watch = "stale"])
    BY <1>1, <1>5 DEF ReadFails, Window, WindowInOrder
  <2> QED BY <1>5, <2>1, OnlyWindowIInv DEF ReadFails
<1>6. ASSUME NEW answer \in {"ok", "cancel", "gone"}, DialogSays(i, answer)
      PROVE  IInv'
  <2>1. Same([windows[i] EXCEPT !.child = answer])
    BY <1>1, <1>6 DEF DialogSays, Window, WindowInOrder
  <2> QED BY <1>6, <2>1, OnlyWindowIInv DEF DialogSays
<1> QED BY <1>2, <1>3, <1>4, <1>5, <1>6

\* The list after the dialog of a window has finished.
Down(i) == [Popdown({i}) EXCEPT ![i].response = Answer(windows[i])]

\* A dialog that finishes is one, on a locked screen; it leaves all in order, and
\* the callbacks that the windows have queued.
LEMMA DownInOrder ==
    ASSUME IInv, NEW i \in DOMAIN windows, windows[i].watch = "live"
    PROVE  /\ InOrder(Down(i), Count, UpAfter({i}), lockActive) /\ lockActive
           /\ UpAfter({i}) \in BOOLEAN
           /\ \A j \in 1..Count :
                /\ Down(i)[j].emitQ = windows[j].emitQ
                /\ j # i => Down(i)[j].child = windows[j].child
<1>1. Count \in Nat /\ i \in 1..Count /\ {i} \subseteq 1..Count
  BY IInvWindows
<1>2. windows[i] \in Window /\ WindowInOrder(windows[i], lockActive)
  BY IInvWindows
<1>3. lockActive
  BY <1>2 DEF WindowInOrder
<1>4. UpAfter({i}) \in BOOLEAN
  BY DEF UpAfter
<1>5. /\ InOrder(Popdown({i}), Count, UpAfter({i}), lockActive)
      /\ \A j \in 1..Count : /\ Popdown({i})[j].emitQ = windows[j].emitQ
                             /\ j # i => Popdown({i})[j].child = windows[j].child
  BY <1>1, PopdownInOrder DEF IInv, TypeOK
<1> DEFINE w == [Popdown({i})[i] EXCEPT !.response = Answer(windows[i])]
<1>6. Answer(windows[i]) \in {"ok", "cancel"}
  BY <1>2 DEF Answer, Window
<1>7. Popdown({i})[i] \in Window /\ WindowInOrder(Popdown({i})[i], lockActive)
  BY <1>1, <1>5 DEF InOrder
<1>8. /\ w \in Window /\ WindowInOrder(w, lockActive)
      /\ w.dialogUp = Popdown({i})[i].dialogUp
      /\ w.sensitive = Popdown({i})[i].sensitive
      /\ w.emitQ = Popdown({i})[i].emitQ
  BY <1>6, <1>7 DEF Window, WindowInOrder
<1>9. /\ Down(i) = [Popdown({i}) EXCEPT ![i] = w]
      /\ DOMAIN Popdown({i}) = 1..Count
  BY <1>5 DEF Down, InOrder
<1> HIDE DEF w
<1>10. InOrder([Popdown({i}) EXCEPT ![i] = w], Count, UpAfter({i}), lockActive)
  BY <1>1, <1>4, <1>5, <1>8, OneWindowInOrder DEF IInv, TypeOK
<1>11. InOrder(Down(i), Count, UpAfter({i}), lockActive)
  BY <1>9, <1>10
<1>12. \A j \in 1..Count : /\ Down(i)[j].emitQ = windows[j].emitQ
                           /\ j # i => Down(i)[j].child = windows[j].child
  BY <1>1, <1>5, <1>8, <1>9
<1> QED BY <1>3, <1>4, <1>11, <1>12

\* lock_command_watch, at the end of the dialog.
LEMMA DialogFinishedIInv ==
    ASSUME IInv, NEW i \in DOMAIN windows, DialogFinished(i) PROVE IInv'
<1>1. /\ Count \in Nat /\ i \in 1..Count /\ Count' = Count
      /\ "auth" \in Causes /\ lockActive' = lockActive
  BY IInvWindows DEF DialogFinished, Count, Causes
<1>2. /\ InOrder(Down(i), Count, UpAfter({i}), lockActive) /\ lockActive
      /\ UpAfter({i}) \in BOOLEAN
  BY DownInOrder DEF DialogFinished
<1>3. InOrder(QueueEmit(Down(i), i, "auth"), Count, UpAfter({i}), lockActive)
  BY <1>1, <1>2, QueueEmitInOrder DEF IInv, TypeOK
<1>4. /\ windows' = Down(i) \/ windows' = QueueEmit(Down(i), i, "auth")
      /\ dialogUp' = UpAfter({i})
  BY DEF DialogFinished, Down
<1>5. InOrder(windows', Count', dialogUp', lockActive')
  BY <1>1, <1>2, <1>3, <1>4
<1>6. Scalars'
  BY <1>2, <1>4 DEF DialogFinished, IInv, TypeOK, Scalars
<1> QED BY <1>5, <1>6, IInvPartsNext

\* The head of a queue is a cause, and the tail is a queue.
LEMMA QueueHeadTail ==
    ASSUME NEW S, NEW q \in Seq(S), q # <<>>
    PROVE  Head(q) \in S /\ Tail(q) \in Seq(S)
  OBVIOUS

\* emit_deactivated_idle hands its cause to the manager.
LEMMA EmitIInv ==
    ASSUME IInv, NEW i \in DOMAIN windows, EmitDeactivatedIdle(i) PROVE IInv'
<1> DEFINE w == [windows[i] EXCEPT !.emitQ = Tail(@)]
<1>1. /\ Count \in Nat /\ i \in 1..Count /\ Count' = Count
      /\ windows[i] \in Window /\ WindowInOrder(windows[i], lockActive)
      /\ windows[i].emitQ # <<>> /\ windows[i].emitQ \in Seq(Causes)
  BY IInvWindows DEF EmitDeactivatedIdle, Count, Window
<1>2. /\ Head(windows[i].emitQ) \in Causes /\ Tail(windows[i].emitQ) \in Seq(Causes)
  BY <1>1, QueueHeadTail
<1>3. /\ w \in Window /\ WindowInOrder(w, lockActive)
      /\ w.dialogUp = windows[i].dialogUp /\ w.sensitive = windows[i].sensitive
  BY <1>1, <1>2 DEF Window, WindowInOrder
<1>4. windows' = [windows EXCEPT ![i] = w]
  BY DEF EmitDeactivatedIdle
<1> HIDE DEF w
<1>5. InOrder([windows EXCEPT ![i] = w], Count, dialogUp, lockActive)
  BY <1>1, <1>3, OneWindowInOrder DEF IInv, TypeOK
<1>6. InOrder(windows', Count', dialogUp', lockActive')
  BY <1>1, <1>4, <1>5 DEF EmitDeactivatedIdle
<1>7. mgrQ' \in Seq(Causes)
  BY <1>2 DEF EmitDeactivatedIdle, IInv, TypeOK
<1>8. Scalars'
  BY <1>7 DEF EmitDeactivatedIdle, IInv, TypeOK, Scalars
<1> QED BY <1>6, <1>8, IInvPartsNext

\* Every step of the main loop keeps the screen in order.
LEMMA NextIInv == IInv /\ [Next]_vars => IInv'
<1> SUFFICES ASSUME IInv, [Next]_vars PROVE IInv'
  OBVIOUS
<1>1. CASE Activate
  BY <1>1, ActivateIInv
<1>2. CASE Lock
  BY <1>2, LockIInv
<1>3. CASE Deactivate
  <2>1. mgrQ' \in Seq(Causes)
    BY <1>3 DEF Deactivate, IInv, TypeOK
  <2> QED BY <1>3, <2>1, ManagerDeactivateIInv DEF Deactivate
<1>4. CASE SimulateUserActivity
  BY <1>4, RequestIInv DEF SimulateUserActivity
<1>5. CASE MonitorsWhileDown
  <2>1. InOrder(windows', Count', dialogUp', lockActive')
    BY <1>5 DEF MonitorsWhileDown, Count, IInv
  <2>2. Scalars'
    BY <1>5 DEF MonitorsWhileDown, IInv, TypeOK, Scalars
  <2> QED BY <2>1, <2>2, IInvPartsNext
<1>6. CASE \E n \in 1..MaxMonitors : MonitorsChanged(n)
  BY <1>6, MonitorsChangedIInv
<1>7. ASSUME NEW i \in DOMAIN windows, OfWindow(i) PROVE IInv'
  BY <1>7, RequestIInv, DialogProcessIInv, DialogFinishedIInv, EmitIInv
     DEF OfWindow, WindowActivity
<1>8. CASE OrphanEmit
  <2>1. InOrder(windows', Count', dialogUp', lockActive')
    BY <1>8 DEF OrphanEmit, Count, IInv
  <2>2. PICK c \in orphans :
          /\ orphans' \in {orphans, orphans \ {c}} /\ running' \in BOOLEAN
          /\ UNCHANGED mgrQ \/ mgrQ' = Append(mgrQ, c)
    BY <1>8 DEF OrphanEmit, IInv, TypeOK
  <2>3. mgrQ' \in Seq(Causes)
    BY <2>2 DEF IInv, TypeOK
  <2>4. Scalars'
    BY <1>8, <2>2, <2>3 DEF OrphanEmit, IInv, TypeOK, Scalars
  <2> QED BY <2>1, <2>4, IInvPartsNext
<1>9. CASE WindowDeactivatedIdle
  <2>1. Head(mgrQ) \in Causes /\ Tail(mgrQ) \in Seq(Causes)
    BY <1>9, QueueHeadTail DEF WindowDeactivatedIdle, IInv, TypeOK
  <2> QED BY <1>9, <2>1, ManagerDeactivateIInv DEF WindowDeactivatedIdle
<1>10. CASE UNCHANGED vars
  <2>1. InOrder(windows', Count', dialogUp', lockActive')
    BY <1>10 DEF vars, Count, IInv
  <2>2. Scalars'
    BY <1>10 DEF vars, IInv, TypeOK, Scalars
  <2> QED BY <2>1, <2>2, IInvPartsNext
<1> QED BY <1>1, <1>2, <1>3, <1>4, <1>5, <1>6, <1>7, <1>8, <1>9, <1>10 DEF Next

LEMMA Invariance == Spec => []IInv
  BY InitIInv, NextIInv, PTL DEF Spec
-------------------------------------------------------------------------------
(* The invariants that the runs check. *)

\* Every variable has its type.
THEOREM TypeCorrect == Spec => []TypeOK
  BY Invariance, PTL DEF IInv

\* The manager's flag, the windows' flags and their sensitivity agree on the one
\* dialog, and nothing of a dialog is found where none is up or none is locked
\* (handle_window_dialog_up and _down, popdown_dialog, lock_command_watch).
THEOREM AlwaysOneDialog == Spec => []OneDialog
<1>1. IInv => OneDialog
  <2> SUFFICES ASSUME IInv PROVE OneDialog
    OBVIOUS
  <2>1. /\ DOMAIN windows = 1..Count
        /\ \A i \in 1..Count : WindowInOrder(windows[i], lockActive)
    BY IInvWindows
  <2> QED BY <2>1 DEF OneDialog, IInv, InOrder, WindowInOrder
<1> QED BY <1>1, Invariance, PTL

\* Each monitor has its window and each window the manager's lock flag, whatever
\* number of monitors comes and goes (on_screen_monitors_changed).
THEOREM MonitorsAreCovered == Spec => []WindowsFollowMonitors
<1>1. IInv => WindowsFollowMonitors
  <2> SUFFICES ASSUME IInv PROVE WindowsFollowMonitors
    OBVIOUS
  <2>1. /\ DOMAIN windows = 1..Count
        /\ \A i \in 1..Count : windows[i].lock = lockActive
    BY IInvWindows DEF WindowInOrder
  <2>2. 1..0 = {}
    OBVIOUS
  <2> QED BY <2>1, <2>2 DEF WindowsFollowMonitors, Count
<1> QED BY <1>1, Invariance, PTL

\* Nothing of an earlier dialog is left to refuse the next one
\* (gs_manager_request_unlock, maybe_handle_activity).
THEOREM UnlockStaysReachable == Spec => []UnlockReachable
<1>1. IInv => UnlockReachable
  <2> SUFFICES ASSUME IInv, ~dialogUp, NEW i \in DOMAIN windows
               PROVE  /\ windows[i].sensitive /\ windows[i].socket = "none"
                      /\ windows[i].watch = "none" /\ ~windows[i].popup
    BY DEF UnlockReachable
  <2>1. i \in 1..Count /\ WindowInOrder(windows[i], lockActive)
    BY IInvWindows
  <2>2. ~windows[i].dialogUp /\ windows[i].sensitive
    BY <2>1 DEF IInv, InOrder
  <2> QED BY <2>1, <2>2 DEF WindowInOrder
<1> QED BY <1>1, Invariance, PTL
-------------------------------------------------------------------------------
(* The action properties. *)

\* After a change of their number a locked screen has a dialog: the one there
\* was, or a new one on a monitor that is there.
LEMMA HotplugStep ==
    ASSUME IInv, NEW n \in 1..MaxMonitors, MonitorsChanged(n)
    PROVE  lockActive => dialogUp'
<1>1. /\ active /\ Len(windows) = monitors /\ n \in Nat /\ n > 0
      /\ lockActive \in BOOLEAN
  BY MonitorAssumption, IInvWindows DEF MonitorsChanged, Count, IInv, TypeOK
<1>2. ASSUME NEW ws, NEW up \in BOOLEAN, InOrder(ws, n, up, lockActive),
             RequestUnlock(ws, up)
      PROVE  lockActive => dialogUp'
  <2>1. RequestOutcome(ws, n, up)
    BY <1>1, <1>2, RequestUnlockOutcomes
  <2> QED BY <1>1, <2>1 DEF RequestOutcome
<1>3. CASE n > monitors /\ WindowsForMore(n)
  <2> DEFINE old == DOMAIN windows
             ws == [i \in 1..n |-> IF i \in old THEN Popdown(old)[i]
                                                ELSE NewWindow(lockActive)]
  <2>1. InOrder(ws, n, UpAfter(old), lockActive) /\ UpAfter(old) \in BOOLEAN
    BY <1>1, <1>3, MoreInOrder
  <2>2. RequestUnlock(ws, UpAfter(old))
    BY <1>3 DEF WindowsForMore
  <2> HIDE DEF ws, old
  <2> QED BY <1>2, <2>1, <2>2
<1>4. CASE n < monitors /\ WindowsForFewer(n)
  <2> DEFINE gone == DOMAIN windows \ 1..n
             ws == [i \in 1..n |-> Popdown(gone)[i]]
  <2>1. InOrder(ws, n, UpAfter(gone), lockActive) /\ UpAfter(gone) \in BOOLEAN
    BY <1>1, <1>4, FewerInOrder
  <2>2. RequestUnlock(ws, UpAfter(gone))
    BY <1>4 DEF WindowsForFewer
  <2> HIDE DEF ws, gone
  <2> QED BY <1>2, <2>1, <2>2
<1> QED BY <1>1, <1>3, <1>4 DEF MonitorsChanged

\* What changes the number of monitors under a screen.
LEMMA MonitorsStep ==
    ASSUME [Next]_vars, active, monitors' # monitors
    PROVE  \E n \in 1..MaxMonitors : MonitorsChanged(n)
<1>1. CASE Activate \/ Lock \/ Deactivate \/ SimulateUserActivity
           \/ MonitorsWhileDown \/ OrphanEmit \/ WindowDeactivatedIdle
           \/ UNCHANGED vars
  BY <1>1
     DEF Activate, Lock, Deactivate, SimulateUserActivity, MonitorsWhileDown,
              OrphanEmit, WindowDeactivatedIdle, vars
<1>2. ASSUME NEW i \in DOMAIN windows, OfWindow(i) PROVE monitors' = monitors
  BY <1>2
     DEF OfWindow, WindowActivity, PopupDialogIdle, DialogShown, PlugRemoved,
              ReadFails, DialogFinished, EmitDeactivatedIdle, DialogSays, OnlyWindow
<1> QED BY <1>1, <1>2 DEF Next

\* A locked screen is not left without a dialog by monitors that come or go
\* (gs_manager_create_windows_for_monitors, gs_manager_destroy_windows).
THEOREM HotplugKeepsDialog == Spec => HotplugBringsDialog
<1>1. IInv /\ IInv' /\ [Next]_vars =>
        [active /\ lockActive /\ monitors' # monitors =>
           /\ dialogUp'
           /\ \E i \in 1..monitors' : windows'[i].dialogUp]_vars
  <2> SUFFICES ASSUME IInv, IInv', [Next]_vars, active, lockActive,
                      monitors' # monitors
               PROVE  dialogUp' /\ \E i \in 1..monitors' : windows'[i].dialogUp
    OBVIOUS
  <2>1. PICK n \in 1..MaxMonitors : MonitorsChanged(n)
    BY MonitorsStep
  <2>2. dialogUp'
    BY <2>1, HotplugStep
  <2>3. Count' = monitors'
    BY <2>1 DEF MonitorsChanged, Count
  <2> QED BY <2>2, <2>3, IInvPartsNext DEF InOrder
<1> QED BY <1>1, Invariance, PTL DEF Spec, HotplugBringsDialog

\* A dialog that has said OK is not disturbed by another request, nor by what
\* another window does, and no second process takes its place.
LEMMA OkStep ==
    ASSUME IInv, [Next]_vars, NEW i \in DOMAIN windows, windows[i].child = "ok",
           active', monitors' = monitors
    PROVE  windows'[i].child = "ok" \/ (windows'[i].emitQ # <<>> /\ lockActive')
<1>1. /\ Count \in Nat /\ Len(windows) = Count /\ DOMAIN windows = 1..Count
      /\ i \in 1..Count /\ active
  BY IInvWindows DEF Count
<1>2. /\ windows[i] \in Window /\ WindowInOrder(windows[i], lockActive)
      /\ windows[i].dialogUp /\ lockActive /\ ~windows[i].popup
  BY IInvWindows DEF WindowInOrder
<1>3. dialogUp
  BY <1>1, <1>2 DEF IInv, InOrder
<1>4. ASSUME RequestUnlock(windows, dialogUp) PROVE windows' = windows
  <2>1. RequestOutcome(windows, Count, dialogUp)
    BY <1>1, <1>4, RequestUnlockOutcomes DEF IInv, TypeOK
  <2> QED BY <1>2, <1>3, <2>1 DEF RequestOutcome
<1>5. CASE Activate \/ Lock \/ Deactivate \/ WindowDeactivatedIdle
  BY <1>1, <1>2, <1>5 DEF Activate, Lock, Deactivate, WindowDeactivatedIdle,
                          ManagerDeactivate
<1>6. CASE SimulateUserActivity
  BY <1>4, <1>6 DEF SimulateUserActivity
<1>7. CASE MonitorsWhileDown \/ OrphanEmit \/ UNCHANGED vars
  BY <1>7 DEF MonitorsWhileDown, OrphanEmit, vars
<1>8. ASSUME NEW n \in 1..MaxMonitors, MonitorsChanged(n) PROVE FALSE
  BY <1>1, <1>8 DEF MonitorsChanged, Count, IInv, TypeOK
<1>9. ASSUME NEW j \in DOMAIN windows, OfWindow(j)
      PROVE  windows'[i].child = "ok" \/ (windows'[i].emitQ # <<>> /\ lockActive')
  <2>1. CASE WindowActivity(j)
    BY <1>4, <2>1 DEF WindowActivity
  <2>2. CASE \/ PopupDialogIdle(j) \/ DialogShown(j) \/ PlugRemoved(j) \/ ReadFails(j)
             \/ \E answer \in {"ok", "cancel", "gone"} : DialogSays(j, answer)
    <3>1. ASSUME NEW w, OnlyWindow(j, w), j = i => w.child = "ok"
          PROVE  windows'[i].child = "ok"
      <4>1. windows'[i] = IF j = i THEN w ELSE windows[i]
        BY <3>1 DEF OnlyWindow
      <4> QED BY <3>1, <4>1
    <3>2. /\ j = i => ~PopupDialogIdle(j)
          /\ \A answer : j = i => ~DialogSays(j, answer)
      BY <1>2 DEF PopupDialogIdle, DialogSays
    <3>3. /\ [windows[i] EXCEPT !.socket = "there"].child = "ok"
          /\ [windows[i] EXCEPT !.socket = "removed"].child = "ok"
          /\ [windows[i] EXCEPT !.watch = "stale"].child = "ok"
      BY <1>2 DEF Window
    <3> QED BY <2>2, <3>1, <3>2, <3>3
               DEF PopupDialogIdle, DialogShown, PlugRemoved,
                                          ReadFails, DialogSays
  <2>3. CASE EmitDeactivatedIdle(j)
    BY <1>1, <1>2, <2>3 DEF EmitDeactivatedIdle, Window
  <2>4. CASE DialogFinished(j)
    <3>1. /\ InOrder(Down(j), Count, UpAfter({j}), lockActive)
          /\ \A k \in 1..Count : /\ Down(j)[k].emitQ = windows[k].emitQ
                                 /\ k # j => Down(j)[k].child = windows[k].child
      BY <2>4, DownInOrder DEF DialogFinished
    <3>2. DOMAIN Down(j) = 1..Count /\ \A k \in 1..Count : Down(j)[k] \in Window
      BY <3>1 DEF InOrder
    <3>3. CASE j # i
      <4>1. windows'[i] = Down(j)[i]
        BY <1>1, <2>4, <3>2, <3>3 DEF DialogFinished, Down, QueueEmit
      <4> QED BY <1>1, <3>1, <3>3, <4>1
    <3>4. CASE j = i
      <4>1. windows' = QueueEmit(Down(i), i, "auth") /\ lockActive'
        BY <1>2, <2>4, <3>4 DEF DialogFinished, Down, Answer
      <4>2. windows'[i].emitQ = Append(Down(i)[i].emitQ, "auth")
        BY <1>1, <3>2, <3>4, <4>1 DEF QueueEmit, Window
      <4>3. Down(i)[i].emitQ \in Seq(Causes) /\ "auth" \in Causes
        BY <1>1, <3>2, <3>4 DEF Window, Causes
      <4> QED BY <4>1, <4>2, <4>3
    <3> QED BY <3>3, <3>4
  <2> QED BY <1>9, <2>1, <2>2, <2>3, <2>4 DEF OfWindow
<1> QED BY <1>5, <1>6, <1>7, <1>8, <1>9 DEF Next

\* What the user was told is right is acted upon (lock_command_watch): the OK is
\* kept until it is read, and then queued, unless the monitors change.
THEOREM OkIsKept == Spec => OkIsNotLost
<1>1. IInv /\ [Next]_vars =>
        [\A i \in DOMAIN windows :
           windows[i].child = "ok" =>
             \/ ~active' \/ monitors' # monitors
             \/ windows'[i].child = "ok"
             \/ windows'[i].emitQ # <<>> /\ lockActive']_vars
  BY OkStep
<1> QED BY <1>1, Invariance, PTL DEF Spec, OkIsNotLost
-------------------------------------------------------------------------------
(* The screen is a ScreenSaver.  Its permissions are the causes in the queues of *)
(* the manager and of the windows, and those that windows gone have left behind. *)

In(q, c) == \E k \in DOMAIN q : q[k] = c

\* A cause is allowed when it is in one of the queues or left of one.
LEMMA AllowedIn ==
    ASSUME NEW c
    PROVE  c \in Allowed <=>
             /\ c \in Causes
             /\ \/ In(mgrQ, c) \/ c \in orphans
                \/ \E i \in DOMAIN windows : In(windows[i].emitQ, c)
  BY DEF Allowed, In

\* The same, a step later.
LEMMA AllowedInNext ==
    ASSUME NEW c
    PROVE  c \in Allowed' <=>
             /\ c \in Causes
             /\ \/ In(mgrQ', c) \/ c \in orphans'
                \/ \E i \in DOMAIN windows' : In(windows'[i].emitQ, c)
  BY DEF Allowed, In

\* The empty queue has no cause, one that grew has one more, and the tail of a
\* queue is all of it but its head.
LEMMA InQueues ==
    /\ \A c : ~In(<<>>, c)
    /\ \A q \in Seq(Causes), x, c \in Causes :
         In(Append(q, x), c) <=> In(q, c) \/ c = x
    /\ \A q \in Seq(Causes), c \in Causes :
         q # <<>> => In(q, Head(q)) /\ (In(Tail(q), c) => In(q, c))
<1>1. \A c : ~In(<<>>, c)
  BY DEF In
<1>2. ASSUME NEW q \in Seq(Causes), NEW x \in Causes, NEW c \in Causes
      PROVE  In(Append(q, x), c) <=> In(q, c) \/ c = x
  <2>1. /\ DOMAIN Append(q, x) = 1..Len(q) + 1 /\ DOMAIN q = 1..Len(q)
        /\ \A k \in 1..Len(q) : Append(q, x)[k] = q[k]
        /\ Append(q, x)[Len(q) + 1] = x
        /\ Len(q) \in Nat
    OBVIOUS
  <2>2. ASSUME In(Append(q, x), c) PROVE In(q, c) \/ c = x
    BY <2>1, <2>2 DEF In
  <2>3. ASSUME In(q, c) PROVE In(Append(q, x), c)
    BY <2>1, <2>3 DEF In
  <2>4. ASSUME c = x PROVE In(Append(q, x), c)
    BY <2>1, <2>4 DEF In
  <2> QED BY <2>2, <2>3, <2>4
<1>3. ASSUME NEW q \in Seq(Causes), NEW c \in Causes, q # <<>>
      PROVE  In(q, Head(q)) /\ (In(Tail(q), c) => In(q, c))
  <2>1. /\ Len(q) \in Nat \ {0} /\ DOMAIN q = 1..Len(q)
        /\ DOMAIN Tail(q) = 1..Len(q) - 1
        /\ \A k \in 1..Len(q) - 1 : Tail(q)[k] = q[k + 1]
        /\ Head(q) = q[1]
    BY <1>3
  <2>2. In(q, Head(q))
    BY <2>1 DEF In
  <2>3. ASSUME In(Tail(q), c) PROVE In(q, c)
    <3>1. PICK k \in 1..Len(q) - 1 : Tail(q)[k] = c
      BY <2>1, <2>3 DEF In
    <3>2. k + 1 \in 1..Len(q) /\ q[k + 1] = c
      BY <2>1, <3>1
    <3> QED BY <2>1, <3>2 DEF In
  <2> QED BY <2>2, <2>3
<1> QED BY <1>1, <1>2, <1>3

\* A step that changes nothing but loses permissions, maybe.
LEMMA ExpireStep ==
    ASSUME UNCHANGED <<active, lockActive, endedBy>>, Allowed' \subseteq Allowed
    PROVE  [Abstract!Next]_Abstract!vars
  BY DEF Abstract!Next, Abstract!Expire, ScreenState

\* What was left stays a permission.
LEMMA OrphansAllowed == ASSUME IInv PROVE orphans \subseteq Allowed
  BY AllowedIn DEF IInv, TypeOK

\* A window that goes leaves its permissions.
LEMMA OrphanedAllowed ==
    ASSUME IInv, NEW gone, gone \subseteq DOMAIN windows, Orphaned(gone)
    PROVE  orphans \subseteq orphans' /\ orphans' \subseteq Allowed
<1>1. ASSUME NEW c \in Causes, NEW i \in gone, In(windows[i].emitQ, c)
      PROVE  c \in Allowed
  BY <1>1, AllowedIn
<1> QED BY <1>1, OrphansAllowed DEF Orphaned, In

\* Permissions get no more when each window's queue is as it was, or empty, and
\* the manager hears of none that was not left behind.
LEMMA NoneGranted ==
    ASSUME IInv, orphans' \subseteq Allowed,
           \A c \in Causes : In(mgrQ', c) => In(mgrQ, c) \/ c \in orphans,
           \A i \in DOMAIN windows' :
             \/ windows'[i].emitQ = <<>>
             \/ i \in DOMAIN windows /\ windows'[i].emitQ = windows[i].emitQ
    PROVE  Allowed' \subseteq Allowed
<1> SUFFICES ASSUME NEW c \in Allowed' PROVE c \in Allowed
  OBVIOUS
<1>1. c \in Causes
  BY AllowedInNext
<1>2. CASE In(mgrQ', c)
  BY <1>1, <1>2, AllowedIn
<1>3. ASSUME NEW i \in DOMAIN windows', In(windows'[i].emitQ, c)
      PROVE  c \in Allowed
  <2>1. windows'[i].emitQ # <<>>
    BY <1>3, InQueues
  <2> QED BY <1>1, <1>3, <2>1, AllowedIn
<1>4. CASE c \in orphans'
  BY <1>4
<1> QED BY <1>2, <1>3, <1>4, AllowedInNext

\* A list of n windows in which those that stay keep their queues, and those that
\* are made have none; those that go leave their causes behind.
KeepsCauses(ws, n) ==
    /\ \A i \in 1..n :
         IF i \in DOMAIN windows THEN ws[i].emitQ = windows[i].emitQ
                                 ELSE ws[i].emitQ = <<>>
    /\ \A i \in DOMAIN windows \ 1..n : \A c \in Causes :
         In(windows[i].emitQ, c) => c \in orphans'
    /\ orphans \subseteq orphans' /\ orphans' \subseteq Allowed

\* Any activity on a blank screen allows its end, and what windows that go in the
\* same step have given is not lost.
LEMMA ActivityStep ==
    ASSUME IInv, NEW n \in Nat, NEW ws, NEW up, NEW p \in 1..n,
           InOrder(ws, n, up, lockActive), active, ~lockActive,
           KeepsCauses(ws, n), windows' = QueueEmit(ws, p, "activity"),
           UNCHANGED <<active, lockActive, endedBy, mgrQ>>
    PROVE  [Abstract!Next]_Abstract!vars
<1>1. /\ DOMAIN ws = 1..n /\ \A i \in 1..n : ws[i] \in Window
      /\ ws[p].emitQ \in Seq(Causes) /\ "activity" \in Causes
  BY DEF InOrder, Window, Causes
<1>2. /\ DOMAIN windows' = 1..n
      /\ windows'[p].emitQ = Append(ws[p].emitQ, "activity")
      /\ \A i \in 1..n : i # p => windows'[i] = ws[i]
  BY <1>1 DEF QueueEmit, Window
<1>3. "activity" \in Allowed'
  <2>1. In(Append(ws[p].emitQ, "activity"), "activity")
    BY <1>1, InQueues
  <2> QED BY <1>1, <1>2, <2>1, AllowedInNext
<1>4. ASSUME NEW c \in Allowed', c # "activity" PROVE c \in Allowed
  <2>1. c \in Causes
    BY AllowedInNext
  <2>2. ASSUME NEW i \in 1..n, In(windows'[i].emitQ, c) PROVE In(ws[i].emitQ, c)
    <3>1. CASE i = p
      <4>1. In(Append(ws[p].emitQ, "activity"), c)
        BY <1>2, <2>2, <3>1
      <4> QED BY <1>1, <1>4, <2>1, <3>1, <4>1, InQueues
    <3>2. CASE i # p
      BY <1>2, <2>2, <3>2
    <3> QED BY <3>1, <3>2
  <2>3. ASSUME NEW i \in 1..n, In(ws[i].emitQ, c) PROVE c \in Allowed
    <3>1. ws[i].emitQ # <<>>
      BY <2>3, InQueues
    <3> QED BY <2>1, <2>3, <3>1, AllowedIn DEF KeepsCauses
  <2> QED BY <1>2, <2>1, <2>2, <2>3, AllowedIn, AllowedInNext DEF KeepsCauses
<1>5. ASSUME NEW c \in Allowed, c # "activity" PROVE c \in Allowed'
  <2>1. c \in Causes
    BY AllowedIn
  <2>2. CASE In(mgrQ, c) \/ c \in orphans
    BY <2>1, <2>2, AllowedInNext DEF KeepsCauses
  <2>3. ASSUME NEW i \in DOMAIN windows, In(windows[i].emitQ, c)
        PROVE  c \in Allowed'
    <3>1. CASE i \notin 1..n
      BY <2>1, <2>3, <3>1, AllowedInNext DEF KeepsCauses
    <3>2. CASE i \in 1..n
      <4>1. In(ws[i].emitQ, c)
        BY <2>3, <3>2 DEF KeepsCauses
      <4>2. In(Append(ws[p].emitQ, "activity"), c) <=> In(ws[p].emitQ, c)
        BY <1>1, <1>5, <2>1, InQueues
      <4>3. In(windows'[i].emitQ, c)
        BY <1>2, <3>2, <4>1, <4>2
      <4> QED BY <1>2, <2>1, <3>2, <4>3, AllowedInNext
    <3> QED BY <3>1, <3>2
  <2> QED BY <2>2, <2>3, AllowedIn
<1>6. Allowed' = Allowed \union {"activity"}
  BY <1>3, <1>4, <1>5
<1> QED BY <1>6 DEF Abstract!Next, Abstract!Activity, ScreenState

\* A request to unlock, by a list of windows that keeps the causes.
LEMMA RequestStep ==
    ASSUME IInv, NEW n \in Nat, NEW ws, NEW up \in BOOLEAN,
           InOrder(ws, n, up, lockActive), RequestUnlock(ws, up),
           KeepsCauses(ws, n), UNCHANGED <<active, lockActive, endedBy, mgrQ>>
    PROVE  [Abstract!Next]_Abstract!vars
<1>1. RequestOutcome(ws, n, up)
  BY RequestUnlockOutcomes DEF IInv, TypeOK
<1>2. DOMAIN ws = 1..n /\ \A i \in 1..n : ws[i] \in Window
  BY DEF InOrder
<1>3. CASE windows' = ws
  BY <1>2, <1>3, NoneGranted, ExpireStep DEF KeepsCauses
<1>4. ASSUME NEW p \in 1..n, windows' = DialogAsked(ws, p)
      PROVE  [Abstract!Next]_Abstract!vars
  <2>1. /\ DOMAIN windows' = 1..n
        /\ \A i \in 1..n : windows'[i].emitQ = ws[i].emitQ
    BY <1>2, <1>4 DEF DialogAsked, Window
  <2> QED BY <2>1, NoneGranted, ExpireStep DEF KeepsCauses
<1> QED BY <1>1, <1>3, <1>4, ActivityStep DEF RequestOutcome

\* A change of the number of monitors.
LEMMA MonitorsImplement ==
    ASSUME IInv, NEW n \in 1..MaxMonitors, MonitorsChanged(n)
    PROVE  [Abstract!Next]_Abstract!vars
<1>1. /\ active /\ Len(windows) = monitors /\ n \in Nat /\ monitors \in Nat
      /\ lockActive \in BOOLEAN /\ dialogUp \in BOOLEAN /\ Count = monitors
      /\ DOMAIN windows = 1..monitors
      /\ UNCHANGED <<active, lockActive, endedBy, mgrQ>>
  BY MonitorAssumption, IInvWindows DEF MonitorsChanged, Count, IInv, TypeOK
<1>2. ASSUME NEW from, from \subseteq 1..monitors, NEW i \in 1..monitors
      PROVE  Popdown(from)[i].emitQ = windows[i].emitQ
  <2>1. InOrder(windows, monitors, dialogUp, lockActive)
    BY <1>1 DEF IInv
  <2>2. monitors \in Nat /\ lockActive \in BOOLEAN /\ dialogUp \in BOOLEAN
    BY <1>1
  <2> QED BY <1>2, <2>1, <2>2, PopdownInOrder
<1>3. ASSUME NEW ws,
             \A i \in 1..n : IF i \in DOMAIN windows
                             THEN ws[i].emitQ = windows[i].emitQ
                             ELSE ws[i].emitQ = <<>>
      PROVE  KeepsCauses(ws, n)
  <2>1. Orphaned(DOMAIN windows \ 1..n)
    BY DEF MonitorsChanged
  <2>2. orphans \subseteq orphans' /\ orphans' \subseteq Allowed
    BY <2>1, OrphanedAllowed
  <2>3. \A i \in DOMAIN windows \ 1..n : \A c \in Causes :
          In(windows[i].emitQ, c) => c \in orphans'
    BY <2>1 DEF Orphaned, In
  <2> QED BY <1>3, <2>2, <2>3 DEF KeepsCauses
<1>4. CASE n > monitors /\ WindowsForMore(n)
  <2> DEFINE old == DOMAIN windows
             ws == [i \in 1..n |-> IF i \in old THEN Popdown(old)[i]
                                                ELSE NewWindow(lockActive)]
  <2>1. InOrder(ws, n, UpAfter(old), lockActive) /\ UpAfter(old) \in BOOLEAN
    BY <1>1, <1>4, MoreInOrder
  <2>2. RequestUnlock(ws, UpAfter(old))
    BY <1>4 DEF WindowsForMore
  <2>3. KeepsCauses(ws, n)
    BY <1>1, <1>2, <1>3, NewWindowInOrder
  <2> HIDE DEF ws, old
  <2> QED BY <1>1, <2>1, <2>2, <2>3, RequestStep
<1>5. CASE n < monitors /\ WindowsForFewer(n)
  <2> DEFINE gone == DOMAIN windows \ 1..n
             ws == [i \in 1..n |-> Popdown(gone)[i]]
  <2>1. InOrder(ws, n, UpAfter(gone), lockActive) /\ UpAfter(gone) \in BOOLEAN
    BY <1>1, <1>5, FewerInOrder
  <2>2. RequestUnlock(ws, UpAfter(gone))
    BY <1>5 DEF WindowsForFewer
  <2>3. KeepsCauses(ws, n)
    BY <1>1, <1>2, <1>3, <1>5
  <2> HIDE DEF ws, gone
  <2> QED BY <1>1, <2>1, <2>2, <2>3, RequestStep
<1> QED BY <1>1, <1>4, <1>5 DEF MonitorsChanged

\* The end of the dialog: with an OK, on a screen that is locked, it permits the
\* screen to end, and otherwise nothing.
LEMMA DialogImplements ==
    ASSUME IInv, NEW i \in DOMAIN windows, DialogFinished(i)
    PROVE  [Abstract!Next]_Abstract!vars
<1>1. /\ DOMAIN windows = 1..Count /\ i \in 1..Count /\ active /\ Count \in Nat
      /\ UNCHANGED <<active, lockActive, endedBy, mgrQ, orphans>>
  BY IInvWindows DEF DialogFinished, Count
<1>2. /\ InOrder(Down(i), Count, UpAfter({i}), lockActive) /\ lockActive
      /\ \A j \in 1..Count : Down(i)[j].emitQ = windows[j].emitQ
  BY DownInOrder DEF DialogFinished
<1>3. /\ DOMAIN Down(i) = 1..Count /\ \A j \in 1..Count : Down(i)[j] \in Window
      /\ windows[i].emitQ \in Seq(Causes) /\ "auth" \in Causes
  BY <1>1, <1>2, IInvWindows DEF InOrder, Window, Causes
<1>4. CASE windows' = Down(i)
  BY <1>1, <1>2, <1>3, <1>4, OrphansAllowed, NoneGranted, ExpireStep
<1>5. CASE windows' = QueueEmit(Down(i), i, "auth")
  <2>1. /\ DOMAIN windows' = 1..Count
        /\ windows'[i].emitQ = Append(windows[i].emitQ, "auth")
        /\ \A j \in 1..Count : j # i => windows'[j].emitQ = windows[j].emitQ
    BY <1>1, <1>2, <1>3, <1>5 DEF QueueEmit, Window
  <2>2. ASSUME NEW c \in Causes
        PROVE  In(windows'[i].emitQ, c) <=> In(windows[i].emitQ, c) \/ c = "auth"
    BY <1>3, <2>1, InQueues
  <2>3. ASSUME NEW c \in Causes
        PROVE  c \in Allowed' <=> c \in Allowed \/ c = "auth"
    BY <1>1, <2>1, <2>2, AllowedIn, AllowedInNext
  <2>4. Allowed' = Allowed \union {"auth"}
    BY <1>3, <2>3, AllowedIn, AllowedInNext
  <2> QED BY <1>1, <1>2, <2>4
             DEF Abstract!Next, Abstract!Authenticate, ScreenState
<1> QED BY <1>4, <1>5 DEF DialogFinished, Down

\* A permission is handed from a window to the manager.
LEMMA EmitImplements ==
    ASSUME IInv, NEW i \in DOMAIN windows, EmitDeactivatedIdle(i)
    PROVE  [Abstract!Next]_Abstract!vars
<1>1. /\ DOMAIN windows' = DOMAIN windows /\ windows[i] \in Window
      /\ windows[i].emitQ # <<>> /\ windows[i].emitQ \in Seq(Causes)
      /\ mgrQ \in Seq(Causes) /\ mgrQ' = Append(mgrQ, Head(windows[i].emitQ))
      /\ UNCHANGED <<active, lockActive, endedBy, orphans>>
  BY IInvWindows DEF EmitDeactivatedIdle, Window, IInv, TypeOK
<1>2. /\ windows'[i].emitQ = Tail(windows[i].emitQ)
      /\ \A j \in DOMAIN windows : j # i => windows'[j] = windows[j]
  BY <1>1 DEF EmitDeactivatedIdle, Window
<1>3. Head(windows[i].emitQ) \in Causes
  BY <1>1
<1>4. ASSUME NEW c \in Causes, In(mgrQ', c)
      PROVE  In(mgrQ, c) \/ In(windows[i].emitQ, c)
  <2>1. In(mgrQ, c) \/ c = Head(windows[i].emitQ)
    BY <1>1, <1>3, <1>4, InQueues
  <2> QED BY <1>1, <1>4, <2>1, InQueues
<1>5. ASSUME NEW c \in Causes, NEW j \in DOMAIN windows, In(windows'[j].emitQ, c)
      PROVE  In(windows[j].emitQ, c)
  <2>1. CASE j = i
    BY <1>1, <1>2, <1>5, <2>1, InQueues
  <2>2. CASE j # i
    BY <1>2, <1>5, <2>2
  <2> QED BY <2>1, <2>2
<1>6. ASSUME NEW c \in Allowed' PROVE c \in Allowed
  BY <1>1, <1>4, <1>5, AllowedIn, AllowedInNext
<1> QED BY <1>1, <1>6, ExpireStep

\* The screen goes down, with a cause that is allowed, or is not up.
LEMMA DownImplements ==
    ASSUME IInv, NEW cause \in Allowed \union {"request"}, ManagerDeactivate(cause),
           \A c \in Causes : In(mgrQ', c) => In(mgrQ, c)
    PROVE  [Abstract!Next]_Abstract!vars
<1>1. Allowed' \subseteq Allowed
  <2>1. orphans' \subseteq Allowed
    BY OrphansAllowed, OrphanedAllowed DEF ManagerDeactivate
  <2> QED BY <2>1, NoneGranted DEF ManagerDeactivate
<1>2. CASE active
  BY <1>1, <1>2 DEF ManagerDeactivate, Abstract!Next, Abstract!End, ScreenState,
                    IInv, TypeOK
<1>3. CASE ~active
  BY <1>1, <1>3
     DEF ManagerDeactivate, Abstract!Next, Abstract!Expire, ScreenState,
                    IInv, TypeOK
<1> QED BY <1>2, <1>3

\* Every step of the screen is one of the abstract one, or none.
LEMMA NextImplements ==
    ASSUME IInv, [Next]_vars PROVE [Abstract!Next]_Abstract!vars
<1>1. /\ DOMAIN windows = 1..Count /\ Count \in Nat
      /\ \A i \in 1..Count : windows[i] \in Window
  BY IInvWindows
<1>2. CASE Activate
  <2>1. Allowed' = Allowed
    <3>1. /\ \A i \in DOMAIN windows' : windows'[i].emitQ = <<>>
          /\ DOMAIN windows = {} /\ UNCHANGED <<mgrQ, orphans>>
      BY <1>1, <1>2 DEF Activate, NewWindow, Count
    <3>2. ASSUME NEW c PROVE c \in Allowed' <=> c \in Allowed
      BY <3>1, InQueues, AllowedIn, AllowedInNext
    <3> QED BY <3>2
  <2> QED BY <1>2, <2>1
             DEF Activate, Abstract!Next, Abstract!Activate, ScreenState
<1>3. CASE Lock
  <2>1. Allowed' = Allowed
    <3>1. /\ DOMAIN windows' = DOMAIN windows /\ UNCHANGED <<mgrQ, orphans>>
          /\ \A i \in DOMAIN windows : windows'[i].emitQ = windows[i].emitQ
      BY <1>1, <1>3 DEF Lock, Window
    <3>2. ASSUME NEW c PROVE c \in Allowed' <=> c \in Allowed
      BY <3>1, AllowedIn, AllowedInNext
    <3> QED BY <3>2
  <2> QED BY <1>3, <2>1 DEF Lock, Abstract!Next, Abstract!Lock, ScreenState
<1>4. CASE Deactivate
  BY <1>4, DownImplements DEF Deactivate
<1>5. CASE WindowDeactivatedIdle
  <2>1. /\ mgrQ \in Seq(Causes) /\ mgrQ # <<>> /\ Head(mgrQ) \in Causes
        /\ mgrQ' = Tail(mgrQ)
    BY <1>5 DEF WindowDeactivatedIdle, IInv, TypeOK
  <2>2. Head(mgrQ) \in Allowed /\ \A c \in Causes : In(mgrQ', c) => In(mgrQ, c)
    BY <2>1, InQueues, AllowedIn
  <2> QED BY <1>5, <2>2, DownImplements DEF WindowDeactivatedIdle
<1>6. ASSUME RequestUnlock(windows, dialogUp),
             UNCHANGED <<active, lockActive, endedBy, mgrQ, orphans>>
      PROVE  [Abstract!Next]_Abstract!vars
  <2>1. KeepsCauses(windows, Count)
    BY <1>1, <1>6, OrphansAllowed DEF KeepsCauses
  <2> QED BY <1>1, <1>6, <2>1, RequestStep DEF IInv, TypeOK
<1>7. CASE SimulateUserActivity
  BY <1>6, <1>7 DEF SimulateUserActivity
<1>8. CASE MonitorsWhileDown \/ UNCHANGED vars
  <2>1. UNCHANGED <<active, lockActive, endedBy, mgrQ, windows, orphans>>
    BY <1>8 DEF MonitorsWhileDown, vars
  <2> QED BY <2>1, OrphansAllowed, NoneGranted, ExpireStep
<1>9. CASE OrphanEmit
  <2>1. PICK c \in orphans :
          /\ orphans' \in {orphans, orphans \ {c}}
          /\ UNCHANGED mgrQ \/ mgrQ' = Append(mgrQ, c)
    BY <1>9 DEF OrphanEmit
  <2>2. UNCHANGED <<active, lockActive, endedBy, windows>>
    BY <1>9 DEF OrphanEmit
  <2>3. mgrQ \in Seq(Causes) /\ c \in Causes
    BY <2>1 DEF IInv, TypeOK
  <2>4. ASSUME NEW d \in Causes, In(mgrQ', d) PROVE In(mgrQ, d) \/ d \in orphans
    <3>1. CASE UNCHANGED mgrQ
      BY <2>4, <3>1
    <3>2. CASE mgrQ' = Append(mgrQ, c)
      <4>1. In(mgrQ, d) \/ d = c
        BY <2>3, <2>4, <3>2, InQueues
      <4> QED BY <2>1, <4>1
    <3> QED BY <2>1, <3>1, <3>2
  <2>5. orphans' \subseteq Allowed
    BY <2>1, OrphansAllowed
  <2> QED BY <2>2, <2>4, <2>5, NoneGranted, ExpireStep
<1>10. ASSUME NEW n \in 1..MaxMonitors, MonitorsChanged(n)
      PROVE  [Abstract!Next]_Abstract!vars
  BY <1>10, MonitorsImplement
<1>11. ASSUME NEW i \in DOMAIN windows, OfWindow(i)
       PROVE  [Abstract!Next]_Abstract!vars
  <2>1. CASE WindowActivity(i)
    BY <1>6, <2>1 DEF WindowActivity
  <2>2. CASE \/ PopupDialogIdle(i) \/ DialogShown(i) \/ PlugRemoved(i) \/ ReadFails(i)
             \/ \E answer \in {"ok", "cancel", "gone"} : DialogSays(i, answer)
    <3>1. /\ UNCHANGED <<active, lockActive, endedBy, mgrQ, orphans>>
          /\ \E w : w.emitQ = windows[i].emitQ /\ windows' = [windows EXCEPT ![i] = w]
      BY <1>1, <2>2 DEF PopupDialogIdle, DialogShown, PlugRemoved, ReadFails,
                        DialogSays, OnlyWindow, Window
    <3>2. /\ DOMAIN windows' = DOMAIN windows
          /\ \A j \in DOMAIN windows : windows'[j].emitQ = windows[j].emitQ
      BY <3>1
    <3> QED BY <3>1, <3>2, OrphansAllowed, NoneGranted, ExpireStep
  <2> QED BY <1>11, <2>1, <2>2, DialogImplements, EmitImplements DEF OfWindow
<1> QED BY <1>2, <1>3, <1>4, <1>5, <1>7, <1>8, <1>9, <1>10,
        <1>11 DEF Next

\* With any number of monitors the screen is the ScreenSaver that one window was
\* (Session): it ends by a request, or by a permission given on a blank or on a
\* locked screen, whichever of its windows gave it.
THEOREM Implementation == Spec => ImplementsScreenSaver
<1>1. Init => Abstract!Init
  <2>1. Init => Allowed = {}
    BY AllowedIn, InQueues DEF Init
  <2> QED BY <2>1 DEF Init, Abstract!Init, ScreenState
<1>2. IInv /\ [Next]_vars => [Abstract!Next]_Abstract!vars
  BY NextImplements
<1> QED BY <1>1, <1>2, Invariance, PTL DEF Spec, ImplementsScreenSaver,
                                         Abstract!Spec
==============================================================================
