# Budgie Screensaver in TLA+

A verification development beside `budgie-screensaver`: TLA+ modules that model
the daemon and its unlock dialog, TLC configurations that check them on small
instances, and proofs that TLAPS checks for every value of the constants.
File names without a directory are in `src/src/`.

## The system

`budgie-screensaver` is a GLib main loop in one process.  `GSMonitor`
(`gs-monitor.c`) owns six objects and connects them by synchronous signals:

| component | source | state | operations |
|---|---|---|---|
| Listener | `gs-listener-dbus.c` | `active`, `session_idle`, `activation_enabled`; its connections to both buses, what is registered on them | connect, lose a connection and retry every ten seconds; bus methods `Lock`, `SetActive`, `SimulateUserActivity`, `ShowMessage`, `Quit`; logind signals `Lock`, `Unlock`, `PrepareForSleep`, session in front; emits `ActiveChanged` |
| Watcher | `gs-watcher-x11.c` | `active`, `idle`, `idle_notice`, the idle timer | status of the session manager, 10 s idle timer |
| Manager | `gs-manager.c` | `active`, `lock_active`, `lock_enabled`, `dialog_up`, lock and unfade timers, windows | activate, deactivate, request unlock, monitors changed |
| Window | `gs-window-x11.c` | lock flag, dialog and keyboard processes with their output and sockets, queued keys, idles, shakes | activity, popup and popdown of the dialog, its answers, keys queued and forwarded |
| Grab | `gs-grab-x11.c` | the seat and the window it is grabbed for | grab, move, release |
| Fade | `gs-fade.c` | kind of gamma, what was saved of it, timer, alpha | set up, fade out in steps, reset, finish |
| Prefs | `gs-prefs.c` | settings | change of one key |

For the locked window asked to unlock, the daemon starts
`budgie-screensaver-dialog` (`gnome-screensaver-dialog.c`), which shows
`GSLockPlug` (`gs-lock-plug.c`) inside the window, and authenticates through a
thread that runs PAM (`gs-auth-pam.c`).  The two processes speak over the
dialog's standard output (`WINDOW ID=`, `NOTICE=AUTH FAILED`, `RESPONSE=OK`,
`RESPONSE=CANCEL`, `REQUEST QUIT`).  A key goes from the window's queue over
the dialog's socket to the plug's queue and its entry, and from there to PAM.

The daemon is found by its name on the bus, `org.gnome.ScreenSaver`, which
gnome-shell's `gjs` service and a second daemon may want as well;
`gnome-screensaver.c` starts the daemon, and `budgie-screensaver-command` is a
thin client of the name.  The rest (privileges, logging) has no state that
outlives start-up.

A screen goes up in one call chain: listener, then watcher off, then manager,
each of which may refuse after another has changed.  It goes down in two hops:
a window queues an idle (`emit_deactivated_idle`), its signal makes the manager
queue another (`window_deactivated_idle`), and that one deactivates whatever the
screen is by then.

### What is hard here

- **Interleaving in one thread.**  Every hop through an idle or a timer lets bus
  requests, user events and settings in between (a `Lock` between activity and
  its idle; a timer that outlives what armed it).
- **Three copies of one flag** in listener, watcher and manager, and two of
  `dialog_up` and of the lock flag in manager and windows.
- **Another client of the X server** that has, takes or keeps the seat; grabs
  that are denied or broken; a server grab around calls that loop.
- **Monitors that come and go** with windows, dialog and grab on them.
- **Two threads and nested main loops** in the dialog: the handshake over a
  condition variable, four timers, and answers printed at three loop depths.
- **Two processes**: an answer in the pipe, a dialog killed, one that could not
  be started, one that closes its output; a main loop that runs from within the
  read of the dialog's output (`shake_dialog`), so that the window, its dialog
  and the watch may be others when it returns.
- **Keys typed ahead**, in two queues of two processes, across dialogs.
- **A gamma that must be given back**, saved by one fade and restored by
  another caller's reset, with CRTCs that come and go and requests that fail.
- **Two connections that are lost and made again**, and a name others wait for.

The full list, each with its line, is `hazards` in `PROJECT.json`.

## Modules

| module | models | abstract specification |
|---|---|---|
| `ScreenSaver` | what the session is promised: off, blank or locked; every change announced; a screen that is up ends by a request of the bus or by a permission given while it was up (activity on a blank one, authentication on a locked one) | |
| `Session` | the daemon with one window: monitor, listener, watcher, manager, window, with seat and fade as values | implements `ScreenSaver` |
| `LockScreen` | manager and windows with several monitors, the dialog on one of them | implements `ScreenSaver` |
| `Grab` | `GSGrab` attempt by attempt, its callers in the manager, another X client | |
| `Dialog` | what the daemon relies on of a dialog: the first answer counts, and OK needs an authentication | |
| `AuthConversation` | the dialog: main thread, plug, timers, PAM thread | implements `Dialog` |
| `DialogWindow` | one window and the processes it runs: dialog, on-screen keyboard, pipes, watches, sockets, the shakes | |
| `TypeAhead` | a key on its way through the window's queue, the socket, the plug's queue and the entry | |
| `Fade` | the gamma, step by step, for RANDR, gamma ramps and gamma numbers, and who starts and resets a fade | |
| `BusName` | several daemons, `gjs` and the bus: connections, retries, the name and who waits for it | |
| `SessionProofs` | theorems about `Session` | |
| `LockScreenProofs` | theorems about `LockScreen` | |
| `AuthProofs` | theorems about `AuthConversation` | |
| `GrabProofs` | theorems about `Grab` | |
| `WindowProofs` | theorems about `DialogWindow` | |
| `FadeProofs` | theorems about `Fade` | |
| `BusProofs` | theorems about `BusName` | |
| `TypeAheadProofs` | theorems about `TypeAhead` | |
| `MCSession`, `MCGrab`, `MCLockScreen`, `MCAuthConversation`, `MCDialogWindow`, `MCTypeAhead`, `MCFade`, `MCBusName` | constants for TLC | |

`ScreenSaver` is the specification of the whole; `Session` and `LockScreen` are
two views of the daemon that implement it, the first with everything that makes
a screen go up, lock and go down but one window, the second with all windows but
requests for activation and lock simply made.  `LockScreen` reads of a dialog
only its output (`DialogSays`), and `Dialog` is what `AuthConversation` shows of
it.  `Session` has of the seat only who holds it; `Grab` has the attempts.
`Session` has of the gamma three values, `Fade` its levels; `Session` and
`LockScreen` take a dialog up and down at once, `DialogWindow` has every process
and source; its answer matters there only in that it ends the dialog.
`TypeAhead` has the keys that the others leave out, and `BusName` the bus that
the others take for granted.

One action is one callback that the main loop dispatches, from its first guard
to its last call; synchronous signals are operators that it applies in order
(`Lock` in `Session` is `listener_lock_cb`, `gs_monitor_lock_screen`,
`gs_listener_set_active` and all handlers of its signals).  In
`Grab`, where calls sleep and other clients move meanwhile, one action is one
attempt, and `call` says where the caller is.  In `AuthConversation` the nested
loops of the main thread are `main`, and the PAM thread takes steps of its own
between.  `map` in `PROJECT.json` gives the lines of every definition.

State and code, where the names differ:

- `Session`: `lActive`, `wActive`, `mActive` are the three `active` flags;
  `announced` is the last `ActiveChanged`; `emitQ` and `mgrQ` are the queued
  `emit_deactivated_idle` and `window_deactivated_idle`, each with what caused
  it; `orphans` are the causes of such idles of destroyed windows that are still
  queued; `dialog` goes from `popup_dialog_idle` to the running process, or `failed`.
- `LockScreen`: `windows[i]` is the `GSWindowPrivate` of monitor `i`; `child`
  is the dialog process by what it has said and nobody has read yet.
- `Grab`: `grabWindow` is what the daemon has on its books, `xSeat` who has the
  seat, `serverGrabs` GDK's count of `XGrabServer`.
- `AuthConversation`: `quit1`, `quit2` say that `gtk_main_quit` was called for
  the outer and the check's loop; `checkIdle`, `okIdle`, `quitIdle` are idle
  sources; `failures` is `loop_counter`; `staleIdle` is a queued message handler
  whose message, on a stack, is gone.
- `DialogWindow`: `child` and `keyboard` are the processes behind `lock_pid` and
  `keyboard_pid`, "started" before the dialog has written its window; a watch is
  "stale" when its id is kept but its source gone; `inWatch` is the call of
  `shake_dialog` under the live watch, `oldShakes` counts those whose watch has
  been removed.
- `TypeAhead`: `queue` and `plugQueue` are the two `key_events`; `typed`,
  `strays`, `entered` and `answered` are histories that the properties compare:
  the keys a window got since the last dialog ended, those of earlier times that
  are still in its queue, the keys the entry got, and how many of these are
  answered.
- `Fade`: `saved` is `screen_priv->info`, a ramp for each CRTC or `NoRamp`
  (`size = 0`); `alpha` counts steps; `phase` says which caller's turn it is;
  `spoiled` records that the server refused something that cost the gamma.
- `BusName`: `serves` is object path and filter on the session bus, `hears` the
  filter and matches on the system bus; `retries` counts the timers of
  `reinit_dbus`; `queue` is the bus's own.

### Choices that the code leaves open

- Idles of one priority run in the order queued; between the queues of window
  and manager the models leave the order open.
- `emit_deactivated_idle` is not removed with its window.  What it does with
  freed memory is a choice: the daemon dies, nothing happens, or a window that
  was made there since is heard by the manager (`OrphanEmit`).
  Likewise `HandleStaleMessage`: the process dies, or handles some message.
- The `GrabBroken` event of a grab that the daemon moved itself may come or not.
- GDK reports at least one monitor, so that an active screen has a window.
- What PAM asks and decides, and what it makes of a reply or of its absence, is
  any sequence of messages and any result; texts and replies are left out.
- A loop told to quit still runs the sources that were ready with the one that
  told it (`HangsUpTogether`), but no idles.
- `shake_dialog` may return into a window that is freed: the daemon dies, or
  goes on without trace.  Shakes return in the order of the stack.
- X tells of the end of one keyboard's window before the next one has its own
  (`KeyboardShown`), as the server orders what two clients do in turn.
- A refused X request of `gs-fade.c` leaves the gamma as it was; a ramp that
  could not be read after its size was leaves a black one, as the code has it.
- A daemon that starts while `gjs` owns the name finds one that allows a
  replacement, or one that does not.  `budgie-screensaver` never kills it: the
  pattern it gives `pkill` is in quotes of its own (`gnome-screensaver.c:46`).
- `Quit`, the end of the dialog or of a window, and in `LockScreen` and `Fade`
  the end of the daemon stop the system, and in `TypeAhead` and `BusName` the
  bounds on keys and on trouble do: these configurations say
  `CHECK_DEADLOCK FALSE`.  `Grab` never stops and is checked for deadlock.

## Runs

| run | shows |
|---|---|
| `session` | the three objects agree (`Synchronised`); nothing of an activation outlives it (`InactiveIsClean`); a dialog is up only on a locked screen, for manager and window alike (`DialogOnlyWhenLocked`); the seat and the dark desktop always have a timer that will give them back (`GrabHasOwner`, `NoDarkDesktop`), and get it (`DesktopComesBack`); a lock ends only with the screen, announced and for a cause (`NoSilentUnlock`); a permission ends the screen; an armed lock timer locks; the daemon is a `ScreenSaver` |
| `grab` | the books are what the server does, a move lets nobody in, seat and server are given back, the dialog finds the seat free, and every call returns that is not made under a server grab |
| `lockscreen` | one dialog, none of them loose; a window for each monitor, with the lock flag of the others; a dialog can always be had; an OK is not lost but by a change of monitors, which brings up a new dialog; still a `ScreenSaver` |
| `auth` | the waiting thread is heard, every prompt has a timer and is (without spurious wakeups) one that PAM waits for; every loop ends, and the main thread never blocks on PAM; the process kills itself only after CANCEL, and ends after the last failure; it is a `Dialog` |
| `window` | nothing of a dialog outlives it, whichever of its ends comes first, and none is started over another; a dialog is killed by `REQUEST QUIT` only if it said so itself, not for one that was shaken before it, and does not live on once that is read; the end of every dialog is heard unless the read failed |
| `typeahead` | no key is lost, doubled or overtaken between screen and entry, and none reaches another dialog, but those of a window that did not get the dialog: they are the first of its next one; no answer has anything of the one before |
| `fade` | what was saved of the gamma is the full gamma, whatever CRTC came or went and whatever failed; no fade is left on a desktop in use; a dark display is bright again |
| `bus` | who owns the name is there and serves it, though others wait and connections come back; a connection whose loss was heard is made again, however often it is refused |

Four runs refute what a comment or a message of the source says; each is a
finding.

- `session_activity_race` (`LockOutlastsActivity`): user activity on a blank
  screen queues the idle; `Lock` locks; the idle ends the locked screen.
- `session_timer_survives` (`PresentUserKeepsDesktop`): a notice, then `Lock`:
  the watcher is reset but for its timer, which after the unlock blanks the
  screen of a present user.
- `grab_hangs` (`MoveDoesNotFail`): the monitor with the dialog is unplugged
  while another client has the seat; with the server grabbed the daemon tries
  for ever.
- `bus_second_daemon` (`OneDaemon`): a second daemon is queued for the name, an
  answer that is neither an error nor "already running", and runs on.

More is known not to hold, and is in the models as the code has it; the
properties are stated so as to except it, and no run is spent on it.

- Session: with idle activation off, a status that goes idle and back has no
  notice to end, and `idle` stays (`gs-watcher-x11.c:347`).  When the dialog
  cannot be spawned `dialog_up` stays, and no activity gets a dialog again
  (`gs-window-x11.c:1504`).
- Monitors: one monitor more or less queues the idle that ends a blank screen
  (`gs-manager.c:1043`).  A read error returns before the popdown and leaves a
  watch without a source, so that no dialog is asked for again
  (`gs-window-x11.c:1397`).
- Seat: a map event that comes after the request for a dialog takes the seat
  that was let go for it (`gs-manager.c:759`).  `gs_grab_grab_window` returns TRUE
  also when all its attempts were denied (`gs-grab-x11.c:361`), so that the
  manager blanks the screen without the seat.
- Dialog: CANCEL and the thread's hanging up in one turn of the loop make the
  check fail, and the next one prompts after `RESPONSE=CANCEL`
  (`gs-auth-pam.c:640`).  A spurious wakeup lets the dialog prompt for a reply
  that nobody waits for.  `reset_idle_cb` makes the entry sensitive with keys
  queued behind it, which later keys overtake.
- Keys: those typed on a window that does not get the dialog stay in its queue
  when the dialog ends, and come out in the next dialog of that window
  (`gs-window-x11.c:1260` clears one window's queue).
- Fade: a step that the server refuses does not abort the fade, for its result
  is not returned (`gs-fade.c:218`).  A ramp that cannot be read after its size
  was is saved as zeros (`gs-fade.c:337`).  A daemon that exits during a notice
  leaves the gamma dark (`gs-fade.c:923`); one that had no way to fade from the
  start calls a `fade_finish` that is NULL (`gs-fade.c:937`).
- Bus: `reinit_dbus` connects, and re-registers neither name nor objects,
  filter or matches, so that the daemon is not to be reached any more and a
  second loss goes unnoticed (`gs-listener-dbus.c:1046`).  No daemon allows a
  replacement, so that its branch for a lost name is not taken.  `gjs` is never
  killed.

### Bounds, and why they are enough

- `LockTimeouts = {0, 1}`: a delay matters only as none or some, and as changed
  or not.  `MCPrefs` has nine settings in which each key takes both values;
  they are changed one key at a time, as GSettings reports them.
- `MaxPending`: two idles in each queue of `LockScreen`: a second activity meets
  the first's idle, and causes of both kinds meet in one queue.  One in `Session`,
  whose run checks liveness over all settings; it counts what destroyed windows
  have left, so that there one of these must have run before the next idle is
  queued.  Its safety is proved for any.
- `MaxMonitors = 3`: a dialog, the window it moves to, and one by-stander.
- Three windows in `Grab` for the same reason; `MaxTrouble` bounds how often the
  other client takes the seat and the server refuses: six lets every attempt of
  a move fail and the resumption too.  The attempts of a call (four and four) are
  the code's.
- `MaxFailures = 3`: a failure followed by another check, one more, and the
  last.  `MaxSpurious = 1`: one wakeup shows what goes wrong after it.
- `MaxLines = 2`, `MaxShakes = 2`: a line behind the one that shakes, and a shake
  of one dialog within that of another.
- Two windows, `MaxQueuedEvents = 2` (the code has 16) and five keys: a queue
  overflows with keys to spare for the next dialog.  The windows are symmetric.
- Two CRTCs, of which the video mode extension sees one, four steps, two
  refusals: setup and a step fail in one fade.  The step's arithmetic is that of
  whole numbers, `NumSteps` being both the steps and the full level.
- Two daemons, three losses or refusals: both connections lost, one refused once.

### Fairness

Only of the program's own: in `Session` every timer and idle that is due runs
(one weak fairness for each, as the main loop dispatches by time and priority);
in `AuthConversation` the main thread goes on, timers fire, and a woken thread
gets the mutex.  Nothing is assumed of the user, the bus, PAM or a dialog.  In
`Grab` the daemon goes on with a call it is in (`Attempt`, `Return`), and the
other client gives the seat back in the end: strong fairness, for while
the server is grabbed its request is queued and the daemon may ungrab and grab
again, but the X server does what was queued whenever it is ungrabbed.

In `DialogWindow` a readable pipe is read and a shake, nine steps of a hundredth
of a second, ends; in `Fade` the two timers run and a notice ends, by the user or
in ten seconds by the screen, as `Session` has it; in `BusName` what libdbus has
received is dispatched and the retry timers run.  `TypeAhead` has no liveness:
nobody need type.

Two timers can be put off by repeating what re-arms them: a key re-arms the
prompt's sixty seconds, a notice the release timer.  Re-arming a timer that is
armed is no step of the model, so that the fairness stands for a user who
leaves off at some time.

## Proofs

Every invariant and every action property that a passing run checks is proved,
and all three refinements, from the assumptions on the constants in the modules
and nothing else.

`SessionProofs` is about `Session`, for any finite or infinite set of settings,
any set of delays, any bound:

- `TypeCorrect`: every variable keeps its type.
- `AlwaysSynchronised`, `AlwaysCleanWhenInactive`, `DialogsOnlyWhenLocked`,
  `GrabAlwaysOwned`, `NeverDarkDesktop`: the invariants of `session`.
- `NeverSilentUnlock`: the action property.
- `Implementation`: `Spec => ImplementsScreenSaver`.

The invariant `IInv` is the conjunction of all of them.  None is inductive by
itself: that a dark desktop has a notice needs the watcher to be on when the
screen is off, which is `Synchronised`; that is preserved because each of the
three refusals in a change of `active` happens before any of the objects has
changed, which needs them to agree; that a lock flag implies an active screen
needs the timers to be gone with it, which is `InactiveIsClean`.  `NextIInv` has
one step per action; the change of `active`, which six actions share, is the
lemma `SetActiveToIInv`.

The refinement maps the state to off, blank or locked by `lActive` and
`lockActive`, and the permissions on their way to the set of causes queued,
those of destroyed windows included: `DestroyWindows` moves them to `orphans`,
and `OrphanEmit` hands one on or loses it.  Lemmas about a cause in a queue
(`InAppend`, `InTail`) give that a callback moves a cause on and makes none;
then every action is a step or a stutter of `ScreenSaver` (`NextImplements`).

`AuthProofs` does the same for `AuthConversation`, for any number of failures
allowed and of spurious wakeups:

- `TypeCorrect`, and `KilledLate`, `NoSignalMissed`, `PromptTimed`,
  `QuitsInTheEnd`, `PromptAwaited`: the invariants of `auth`.
- `Implementation`: `Spec => ImplementsDialog`.

Its `IInv` adds four facts.  `CheckCounts`: a check is made only while failures
are left, and its idle stays until it is over, so that the count stays in
bounds.  `QuitHasCause`: a check's loop that was told to quit without the thread
was told so by CANCEL, which is what the process is killed for.
`ThreadHasCheck`: the thread lives within one check and decides once, so that
PAM's success is the last check's when the idle that says OK runs.  `InStep`:
without spurious wakeups a prompt, a queued message and the waiting thread go
together.  The refinement reads the state by the first answer, or by the end of
the process if there was none; `LineSeen`, `EndSeen` and `Unseen` say what a
line, an end and anything else is to the daemon.

`BusProofs` is about `BusName`, for any number of daemons and of losses:
`TypeCorrect`, and `NameAlwaysServed`, the invariant of `bus`.  The owner may
leave at any time, and whoever waited next owns the name; so its `IInv` says of
everyone in the queue what `NameIsServed` says of the owner (`QueuedServe`), and
that nobody is in it twice (`Once`), or a daemon would wait on after it has left.
`OffIsFresh` gives that who starts is not in it yet, and `RetriesBounded` that a
connection starts one timer at most.  The lemmas `WithoutPlace`, `LeftLeaves` and
`RequestedWaits` say what the bus's two operations do to a queue.

`GrabProofs` is about `Grab`, for any set of windows and any amount of trouble:
`TypeCorrect`; `BooksAlwaysTrue`, `OthersKeptOut`, `NothingEverKept`, the
invariants of `grab`; and `DialogHasSeat`, its action property.  The invariant has
a part on the seat and one on the call in progress.  `Booked` adds to the books
that whoever is on them has a seat to give back; `HiddenIsBooked`, that the root
and the offscreen window never have the seat unbooked, for they are not destroyed
with the screen and would keep it; `WindowsAreMapped`, that only windows that are
there have it.  `ServerIsCounted` says of every point of a call how often the
server is grabbed, which keeps the other client out during the attempts and in at
their end; `CallIsTrue` is what a call has found out and may rely on after an
attempt, as nothing but it moves the books meanwhile.

`WindowProofs` is about `DialogWindow`, for any number of unread lines and of
shakes: `TypeCorrect`, `NothingEverLeft`, `QuitAlwaysHeeded`,
`NeverKilledUnasked`.  Three facts are added.  `WatchHasDialog`: a window
without a watch has no processes, so that a dialog, which is only asked for
without a watch, is never started over another; and a source in dispatch is the
live one.  `QuitIsOwn`: the request to be killed that the flags hold is that of
the dialog that is up, so that a shake which returns late kills nobody else.
`NoShakeLeft`: while the live watch is not in a read, no flag of a shake is set,
that of an earlier dialog's included, so that the kill a request asks for is not
put off.  Everything that takes a dialog down is the one lemma `TakenDown`.

`FadeProofs` is about `Fade`, for any number of CRTCs, steps and refusals:
`TypeCorrect`, `AlwaysRecoverable`, `NeverFadeLeft`.  `SavedIsFull` says that only
full brightness is saved: a setup reads the gamma when nothing is saved, and then,
by `Recoverable` itself, nothing is dark.  `OthersAreBright` says what the video
mode extension, which knows one CRTC, cannot have darkened.  `ScaledType` and
`FullScaled` are the arithmetic of a step; `WhackedUndone` is the heart: a step
darkens only what is saved, and the step to full brightness undoes all of them.

`LockScreenProofs` is about `LockScreen`, for any number of monitors and of queued
callbacks:

- `TypeCorrect`, and `AlwaysOneDialog`, `MonitorsAreCovered`,
  `UnlockStaysReachable`: the invariants of `lockscreen`.
- `HotplugKeepsDialog`, `OkIsKept`: its action properties.
- `Implementation`: `Spec => ImplementsScreenSaver`.

The handlers pass a list of windows on to each other before it is stored, so the
invariant `InOrder` is said of any list, and there is a lemma for each of the
handlers' operators (`QueueEmitInOrder`, `PopdownInOrder`, `RequestOutcome` with
`RequestUnlockOutcomes`) before there is one for an action.  `WindowInOrder` is
its part on one window: a popup idle, a process, a watch or a socket only in the
window whose dialog is up, and that on a locked screen only.  It is stronger than
`OneDialog` by what the steps need: no process while the popup idle is queued,
or the idle would start a second one.

The permissions of the refinement are the causes in all queues, and those left of
windows that are gone.  A monitor may go in the very step that queues an activity,
and `ScreenSaver` gives or takes in one step, not both; `KeepsCauses` says that
nothing is lost there, for `Orphaned` has what the list of windows has no more.
What becomes of that is a step of its own (`OrphanEmit`), which loses permissions
or none.

`TypeAheadProofs` is about `TypeAhead`, for any number of windows and keys and
any length of the queue: `TypeCorrect`, and `AlwaysKeysKept` and `AlwaysFresh`,
the invariants of `typeahead`.  `PlugIsNew` is added: before its socket is shown
a plug has nothing, and without a dialog there is no socket, so that no key that
one plug got is found by the next; what stays in the queue of a window is its
`strays`.  `NoneOvertaken` says that the entry takes keys only with none kept,
but for the early wake-up that `troubled` notes; `Counted` bounds queues and
answers by the keys typed.  The lemma `KeysStayIInv` is for all that leaves the
keys where they are.

`AnswerIsFresh` is about what `Chars` makes of a sequence that grows, which takes
an induction over the keys.  The library's theorems of induction take an operator
and cannot be used here; `NatSet` says the same of a set, from the least element
of a well-founded order (`WFMin`), and `KeepsExists`, `KeptAfter` and
`CharsConcat` use it with the set of the lengths for which they hold.  `Chars` is
a recursive function for that reason, and not a `SelectSeq`.

Only model-checked: liveness, which is beyond the prover (`DesktopComesBack`,
`PermissionEndsScreen` and `LockFollows` of `session`, and the properties under
fairness of `grab`, `auth`, `window`, `fade` and `bus`).  What the four runs that
refute a comment show is TLC's counterexample.

## Plan

Written, in this order: `ScreenSaver`, `Session`, `SessionProofs`, `Grab`,
`LockScreen`, `Dialog`, `AuthConversation`, `AuthProofs`, `Fade`, `DialogWindow`,
`TypeAhead`, `BusName`, and `BusProofs`, `WindowProofs`, `FadeProofs`,
`GrabProofs`, `LockScreenProofs`, `TypeAheadProofs`.  Next: `Cover`, the windows
against the geometry of monitors, and their rearrangement.

## Not modelled

Drawing, layout, themes, the background, user faces and input sources; where
monitors are, and how windows are fitted to them; texts and their translation;
options; logging; privileges (`setuid.c`); `gs-auth-bsdauth.c` and `subprocs.c`,
calls of the platform; time itself: a timer fires at any time after it was
armed.  Of the command-line client only what a call does to the name and
`--exit`: its other commands are one call each of a method that `Session` has.
It takes an error for an answer (`gnome-screensaver-command.c:219`), which is
about what it prints.
`components` in `PROJECT.json` says it part by part.
