-------------------------------- MODULE BusName --------------------------------
(***************************************************************************)
(* Who is org.gnome.ScreenSaver: daemons that are started, in a session    *)
(* that may have one and may have gnome-shell's gjs service, which the bus *)
(* starts when somebody calls a name that nobody owns; the connections of  *)
(* a daemon to both buses, lost and made again; and a user's commands.     *)
(***************************************************************************)
EXTENDS Naturals, Sequences

CONSTANTS
    Daemons,    \* the processes budgie-screensaver of the session
    MaxTrouble  \* bound on connections lost or refused

ASSUME TroubleAssumption == MaxTrouble \in Nat

Gjs == "gjs"
ASSUME GjsAssumption == Gjs \notin Daemons

Connection == {"none", "live", "cut"}  \* "none" is NULL

VARIABLES
    proc,    \* "off", "running" or "exited", for each daemon
    bus,     \* listener->priv->connection
    serves,  \* object path and filter are registered on it
    system,  \* listener->priv->system_connection
    hears,   \* the filter and the matches for logind are on it
    retries, \* the timers of reinit_dbus
    gjs,     \* "off"; "firm" or "yielding": whether it allows a replacement
    queue,   \* the bus's: who owns the name, and who waits for it
    trouble  \* connections lost or refused so far

connections == <<bus, serves, system, hears, retries>>
vars == <<proc, connections, gjs, queue, trouble>>

TypeOK ==
    /\ proc \in [Daemons -> {"off", "running", "exited"}]
    /\ bus \in [Daemons -> Connection] /\ system \in [Daemons -> Connection]
    /\ serves \in [Daemons -> BOOLEAN] /\ hears \in [Daemons -> BOOLEAN]
    /\ retries \in [Daemons -> 0 .. 2]
    /\ gjs \in {"off", "firm", "yielding"}
    /\ queue \in Seq(Daemons \union {Gjs}) /\ trouble \in 0 .. MaxTrouble

Running(d) == proc[d] = "running"
Owns(p) == queue # <<>> /\ Head(queue) = p
Place(p) == CHOOSE i \in DOMAIN queue : queue[i] = p
Left(p) ==
    IF \E i \in DOMAIN queue : queue[i] = p
    THEN SubSeq(queue, 1, Place(p) - 1) \o SubSeq(queue, Place(p) + 1, Len(queue))
    ELSE queue

Goes(f, d, x) == f' = [f EXCEPT ![d] = x]
Trouble == trouble < MaxTrouble /\ trouble' = trouble + 1
-------------------------------------------------------------------------------
(* A daemon starts, and ends. *)

\* dbus_bus_request_name with REPLACE_EXISTING alone: an owner that does not
\* allow it stays, and who asks waits.
Requested(d) ==
    IF Owns(Gjs) /\ gjs = "yielding" THEN <<d>> \o queue ELSE Append(queue, d)

\* gs_listener_acquire, on a live connection to the session bus.  The system bus
\* may be out of reach, and nobody tries again.
Acquire(d) ==
    /\ Goes(bus, d, "live") /\ Goes(serves, d, TRUE)
    /\ queue' = Requested(d)
    /\ \/ Goes(system, d, "live") /\ Goes(hears, d, TRUE) /\ UNCHANGED trouble
       \/ Trouble /\ UNCHANGED <<system, hears>>

\* main: without a session bus gs_monitor_start fails, and the daemon exits.
Start(d) ==
    /\ proc[d] = "off"
    /\ \/ Goes(proc, d, "running") /\ Acquire(d)
       \/ /\ Trouble /\ Goes(proc, d, "exited")
          /\ UNCHANGED <<bus, serves, system, hears, queue>>
    /\ UNCHANGED <<retries, gjs>>

\* listener_quit_cb and the end of main.
Exit(d) ==
    /\ Running(d) /\ Goes(proc, d, "exited")
    /\ Goes(bus, d, "none") /\ Goes(serves, d, FALSE)
    /\ Goes(system, d, "none") /\ Goes(hears, d, FALSE)
    /\ Goes(retries, d, 0)
    /\ queue' = Left(d)
    /\ UNCHANGED <<gjs, trouble>>
-------------------------------------------------------------------------------
(* The connections. *)

\* The session bus drops a daemon, and its place in the queue.
BusCut(d) ==
    /\ bus[d] = "live" /\ Trouble
    /\ Goes(bus, d, "cut") /\ queue' = Left(d)
    /\ UNCHANGED <<proc, serves, system, hears, retries, gjs>>

SystemCut(d) ==
    /\ system[d] = "live" /\ Trouble
    /\ Goes(system, d, "cut")
    /\ UNCHANGED <<proc, bus, serves, hears, retries, gjs, queue>>

\* listener_dbus_filter_function, "Disconnected": only where the filter is.
BusDisconnected(d) ==
    /\ Running(d) /\ bus[d] = "cut" /\ serves[d]
    /\ Goes(bus, d, "none") /\ Goes(serves, d, FALSE)
    /\ Goes(retries, d, retries[d] + 1)
    /\ UNCHANGED <<proc, system, hears, gjs, queue, trouble>>

\* listener_dbus_system_filter_function, "Disconnected".
SystemDisconnected(d) ==
    /\ Running(d) /\ system[d] = "cut" /\ hears[d]
    /\ Goes(system, d, "none") /\ Goes(hears, d, FALSE)
    /\ Goes(retries, d, retries[d] + 1)
    /\ UNCHANGED <<proc, bus, serves, gjs, queue, trouble>>

Connected(c) == IF c = "none" THEN "live" ELSE c

ReinitTakesName(d) ==
    /\ retries[d] > 0
    /\ bus[d] = "none" /\ Goes(bus, d, "live") /\ queue' = Requested(d)
    /\ Goes(system, d, Connected(system[d]))
    /\ Goes(retries, d, retries[d] - 1)
    /\ UNCHANGED <<proc, serves, hears, gjs, trouble>>

\* reinit_dbus: both connections that are gone, and nothing else of what
\* gs_listener_acquire did.
Reinit(d) ==
    /\ retries[d] > 0
    /\ Goes(bus, d, Connected(bus[d])) /\ Goes(system, d, Connected(system[d]))
    /\ Goes(retries, d, retries[d] - 1)
    /\ UNCHANGED <<proc, serves, hears, gjs, queue, trouble>>

FailsOnce(d) == Goes(retries, d, retries[d] - 1)

\* The timer goes on after a failure.
TriesAgain(d) == UNCHANGED retries

\* reinit_dbus cannot connect to the session bus, or not to the system bus.
ReinitFails(d) ==
    /\ retries[d] > 0 /\ Trouble
    /\ \/ bus[d] = "none" /\ UNCHANGED bus
       \/ system[d] = "none" /\ Goes(bus, d, Connected(bus[d]))
    /\ TriesAgain(d)
    /\ UNCHANGED <<proc, serves, system, hears, gjs, queue>>
-------------------------------------------------------------------------------
(* The user, and gjs. *)

\* A call of budgie-screensaver-command, or of anything else: the bus starts gjs
\* for a name without owner, unless the call forbids it (--query).
Call ==
    /\ queue = <<>> /\ gjs = "off"
    /\ gjs' \in {"firm", "yielding"} /\ queue' = <<Gjs>>
    /\ UNCHANGED <<proc, connections, trouble>>

\* do_command, --exit: the owner quits, if it is a daemon that can be reached.
QuitCommand(d) == Owns(d) /\ serves[d] /\ Exit(d)
-------------------------------------------------------------------------------
Init ==
    /\ proc = [d \in Daemons |-> "off"]
    /\ bus = [d \in Daemons |-> "none"] /\ system = bus
    /\ serves = [d \in Daemons |-> FALSE] /\ hears = serves
    /\ retries = [d \in Daemons |-> 0]
    /\ \/ gjs = "off" /\ queue = <<>>
       \/ gjs \in {"firm", "yielding"} /\ queue = <<Gjs>>
    /\ trouble = 0

Next ==
    \/ Call
    \/ \E d \in Daemons :
         \/ Start(d) \/ QuitCommand(d)
         \/ BusCut(d) \/ SystemCut(d)
         \/ BusDisconnected(d) \/ SystemDisconnected(d)
         \/ Reinit(d) \/ ReinitFails(d)

\* What libdbus has received is dispatched, and the timers of the main loop run.
Fairness ==
    \A d \in Daemons :
      /\ WF_vars(BusDisconnected(d)) /\ WF_vars(SystemDisconnected(d))
      /\ WF_vars(Reinit(d))

Spec == Init /\ [][Next]_vars /\ Fairness
-------------------------------------------------------------------------------
(* What must be true of the name. *)

\* A daemon that the bus names as org.gnome.ScreenSaver is there to answer: it
\* has not lost the objects that it serves, though it may have been connected
\* anew, in which case another may own the name.
NameIsServed ==
    \A d \in Daemons : Owns(d) => Running(d) /\ bus[d] = "live" /\ serves[d]

\* A daemon has its connections back after it lost them, however often it is
\* refused, if it was told of the loss: that is, if it had its filter there.
Reconnects ==
    \A d \in Daemons :
      /\ bus[d] = "cut" /\ serves[d] ~> bus[d] = "live" \/ ~Running(d)
      /\ system[d] = "cut" /\ hears[d] ~> system[d] = "live" \/ ~Running(d)
-------------------------------------------------------------------------------
(* What the source claims, and the code does not do. *)

\* gs_listener_acquire, "screensaver already running in this session": a daemon
\* that finds another one is not started.
OneDaemon ==
    \A d, e \in Daemons : Running(d) /\ Running(e) => d = e
===============================================================================
