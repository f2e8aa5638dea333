------------------------------- MODULE BusProofs -------------------------------
(***************************************************************************)
(* Who owns the name serves it, for any number of daemons and of           *)
(* connections lost.  The owner may leave at any time, and whoever waited  *)
(* next owns the name then; so every daemon in the queue must serve, and   *)
(* be there once only, or it would still wait after it has left.           *)
(***************************************************************************)
EXTENDS BusName, SequenceTheorems, TLAPS

\* Nobody is in the queue twice.
Once == \A i, j \in DOMAIN queue : queue[i] = queue[j] => i = j

\* Who is in the queue is connected, and serves.
QueuedServe ==
    \A i \in DOMAIN queue : \A d \in Daemons :
      queue[i] = d => Running(d) /\ bus[d] = "live" /\ serves[d]

\* A daemon not started has nothing.
OffIsFresh ==
    \A d \in Daemons : proc[d] = "off" =>
      bus[d] = "none" /\ ~serves[d] /\ ~hears[d] /\ retries[d] = 0

\* Each connection starts one timer at most: its filter is gone then.
RetriesBounded ==
    \A d \in Daemons : /\ retries[d] = 2 => ~serves[d] /\ ~hears[d]
                       /\ retries[d] = 1 => ~serves[d] \/ ~hears[d]

IInv == TypeOK /\ Once /\ QueuedServe /\ OffIsFresh /\ RetriesBounded

USE TroubleAssumption, GjsAssumption

\* A queue without its place k: what is before it stays, what is behind moves up.
WithoutPlaceOf(s, k) == SubSeq(s, 1, k - 1) \o SubSeq(s, k + 1, Len(s))

LEMMA WithoutPlace ==
    ASSUME NEW s \in Seq(Daemons \union {Gjs}), NEW k \in 1..Len(s)
    PROVE  /\ WithoutPlaceOf(s, k) \in Seq(Daemons \union {Gjs})
           /\ Len(WithoutPlaceOf(s, k)) = Len(s) - 1
           /\ \A i \in 1..(Len(s) - 1) :
                WithoutPlaceOf(s, k)[i] = IF i < k THEN s[i] ELSE s[i + 1]
<1> DEFINE a == SubSeq(s, 1, k - 1)
           b == SubSeq(s, k + 1, Len(s))
<1>1. /\ a \in Seq(Daemons \union {Gjs}) /\ Len(a) = k - 1
      /\ \A i \in 1..(k - 1) : a[i] = s[i]
  OBVIOUS
<1>2. /\ b \in Seq(Daemons \union {Gjs}) /\ Len(b) = Len(s) - k
      /\ \A i \in 1..(Len(s) - k) : b[i] = s[k + i]
  OBVIOUS
<1>3. WithoutPlaceOf(s, k) = a \o b
  BY DEF WithoutPlaceOf
<1> HIDE DEF a, b
<1>4. /\ a \o b \in Seq(Daemons \union {Gjs})
      /\ Len(a \o b) = Len(a) + Len(b)
      /\ \A i \in 1..(Len(a) + Len(b)) :
           (a \o b)[i] = IF i <= Len(a) THEN a[i] ELSE b[i - Len(a)]
  BY <1>1, <1>2, ConcatProperties
<1>5. ASSUME NEW i \in 1..(Len(s) - 1)
      PROVE  (a \o b)[i] = IF i < k THEN s[i] ELSE s[i + 1]
  <2>1. CASE i < k
    <3>1. i \in 1..(k - 1)
      BY <2>1
    <3> QED
      BY <3>1, <2>1, <1>1, <1>2, <1>4
  <2>2. CASE i >= k
    <3>1. /\ i - (k - 1) \in 1..(Len(s) - k) /\ k + (i - (k - 1)) = i + 1
          /\ i \in 1..(Len(a) + Len(b)) /\ ~(i <= Len(a)) /\ ~(i < k)
      BY <2>2, <1>1, <1>2
    <3>2. (a \o b)[i] = b[i - (k - 1)]
      BY <3>1, <1>4, <1>1
    <3>3. b[i - (k - 1)] = s[i + 1]
      BY <3>1, <1>2
    <3> QED
      BY <3>1, <3>2, <3>3
  <2>3. i < k \/ i >= k
    OBVIOUS
  <2> QED
    BY ONLY <2>1, <2>2, <2>3
<1> QED
  BY <1>1, <1>2, <1>3, <1>4, <1>5

\* A process that leaves a queue without doubles is not in it any more, and the
\* others are, still without doubles.
LEMMA LeftLeaves ==
    ASSUME NEW p \in Daemons, queue \in Seq(Daemons \union {Gjs}), Once
    PROVE  /\ Left(p) \in Seq(Daemons \union {Gjs})
           /\ \A i, j \in DOMAIN Left(p) : Left(p)[i] = Left(p)[j] => i = j
           /\ \A i \in DOMAIN Left(p) :
                /\ Left(p)[i] # p
                /\ \E k \in DOMAIN queue : queue[k] = Left(p)[i]
<1>1. CASE \A i \in DOMAIN queue : queue[i] # p
  <2>1. Left(p) = queue
    BY <1>1 DEF Left
  <2> QED
    BY <2>1, <1>1 DEF Once
<1>2. CASE \E i \in DOMAIN queue : queue[i] = p
  <2> DEFINE k == Place(p)
             n == Len(queue)
             q == Left(p)
  <2>1. k \in 1..n /\ queue[k] = p /\ n \in Nat
    BY <1>2 DEF Place
  <2>2. q = WithoutPlaceOf(queue, k)
    BY <1>2 DEF Left, WithoutPlaceOf
  <2> HIDE DEF k
  <2>5. /\ q \in Seq(Daemons \union {Gjs})
        /\ Len(q) = n - 1
        /\ \A i \in 1..(n - 1) : q[i] = IF i < k THEN queue[i] ELSE queue[i + 1]
    BY <2>1, <2>2, WithoutPlace
  <2> HIDE DEF q
  <2> DEFINE old(i) == IF i < k THEN i ELSE i + 1
  <2>10. \A i \in 1..(n - 1) : old(i) \in DOMAIN queue /\ old(i) # k /\ q[i] = queue[old(i)]
    BY <2>1, <2>5
  <2>11. \A i, j \in 1..(n - 1) : old(i) = old(j) => i = j
    BY <2>1
  <2> HIDE DEF old
  <2>12. k \in DOMAIN queue
    BY <2>1
  <2>6. \A i \in 1..(n - 1) : q[i] # p
    BY <2>1, <2>10, <2>12 DEF Once
  <2>7. \A i, j \in 1..(n - 1) : q[i] = q[j] => i = j
    BY <2>10, <2>11 DEF Once
  <2>8. DOMAIN q = 1..(n - 1)
    BY <2>5, <2>1
  <2>9. \A i \in 1..(n - 1) : \E m \in DOMAIN queue : queue[m] = q[i]
    BY <2>10
  <2> QED
    BY <2>5, <2>6, <2>7, <2>8, <2>9 DEF q
<1> QED
  BY <1>1, <1>2

\* A daemon that asks for the name is in the queue, and nobody leaves it.
LEMMA RequestedWaits ==
    ASSUME NEW d \in Daemons, queue \in Seq(Daemons \union {Gjs}), Once,
           \A i \in DOMAIN queue : queue[i] # d
    PROVE  /\ Requested(d) \in Seq(Daemons \union {Gjs})
           /\ \A i, j \in DOMAIN Requested(d) :
                Requested(d)[i] = Requested(d)[j] => i = j
           /\ \A i \in DOMAIN Requested(d) :
                Requested(d)[i] = d \/ \E k \in DOMAIN queue : queue[k] = Requested(d)[i]
<1> DEFINE r == Requested(d)
           n == Len(queue)
<1>0. n \in Nat /\ DOMAIN queue = 1..n
  OBVIOUS
<1>1. CASE r = <<d>> \o queue
  <2>1. /\ r \in Seq(Daemons \union {Gjs}) /\ Len(r) = n + 1 /\ r[1] = d
        /\ \A i \in 2..(n + 1) : r[i] = queue[i - 1]
    BY <1>1, <1>0
  <2> HIDE DEF r
  <2>2. DOMAIN r = 1..(n + 1)
    BY <2>1
  <2>3. \A i \in 2..(n + 1) : r[i] # d /\ \E k \in DOMAIN queue : queue[k] = r[i]
    BY <2>1, <1>0
  <2>4. \A i, j \in 1..(n + 1) : r[i] = r[j] => i = j
    <3> SUFFICES ASSUME NEW i \in 1..(n + 1), NEW j \in 1..(n + 1), r[i] = r[j]
                 PROVE  i = j
      OBVIOUS
    <3>1. CASE i = 1 \/ j = 1
      BY <3>1, <2>1, <2>3, <1>0
    <3>2. CASE i # 1 /\ j # 1
      <4>1. /\ i - 1 \in DOMAIN queue /\ j - 1 \in DOMAIN queue
            /\ r[i] = queue[i - 1] /\ r[j] = queue[j - 1]
        BY <3>2, <2>1, <1>0
      <4>2. i - 1 = j - 1
        BY <4>1 DEF Once
      <4> QED
        BY <4>2, <1>0
    <3> QED
      BY <3>1, <3>2
  <2> QED
    BY <2>1, <2>2, <2>3, <2>4 DEF r
<1>2. CASE r = Append(queue, d)
  <2>1. /\ r \in Seq(Daemons \union {Gjs}) /\ Len(r) = n + 1 /\ r[n + 1] = d
        /\ \A i \in 1..n : r[i] = queue[i]
    BY <1>2, <1>0
  <2> HIDE DEF r
  <2>2. DOMAIN r = 1..(n + 1)
    BY <2>1
  <2>3. \A i, j \in 1..(n + 1) : r[i] = r[j] => i = j
    BY <2>1, <1>0 DEF Once
  <2> QED
    BY <2>1, <2>2, <2>3, <1>0 DEF r
<1> QED
  BY <1>1, <1>2 DEF Requested

LEMMA InitIInv == Init => IInv
<1> SUFFICES ASSUME Init PROVE IInv
  OBVIOUS
<1>1. TypeOK
  <2>1. <<>> \in Seq(Daemons \union {Gjs}) /\ <<Gjs>> \in Seq(Daemons \union {Gjs})
    OBVIOUS
  <2>2. queue \in Seq(Daemons \union {Gjs})
    <3>1. queue = <<>> \/ queue = <<Gjs>>
      BY DEF Init
    <3> QED
      BY <3>1, <2>1
  <2>3. gjs \in {"off", "firm", "yielding"}
    BY DEF Init
  <2> QED
    BY <2>2, <2>3 DEF Init, TypeOK, Connection
<1>2. \A i \in DOMAIN queue : i = 1 /\ queue[i] = Gjs
  BY DEF Init
<1>3. Once /\ QueuedServe
  BY <1>2 DEF Once, QueuedServe
<1>4. OffIsFresh /\ RetriesBounded
  BY DEF Init, OffIsFresh, RetriesBounded
<1> QED
  BY <1>1, <1>3, <1>4 DEF IInv

\* What the queue needs when somebody has left it.
LEMMA LeavesIInv ==
    ASSUME NEW d \in Daemons, IInv, queue' = Left(d),
           \A e \in Daemons \ {d} :
             proc'[e] = proc[e] /\ bus'[e] = bus[e] /\ serves'[e] = serves[e]
    PROVE  queue' \in Seq(Daemons \union {Gjs}) /\ Once' /\ QueuedServe'
<1>1. queue \in Seq(Daemons \union {Gjs}) /\ Once /\ QueuedServe
  BY DEF IInv, TypeOK
<1>2. /\ queue' \in Seq(Daemons \union {Gjs})
      /\ \A i, j \in DOMAIN queue' : queue'[i] = queue'[j] => i = j
      /\ \A i \in DOMAIN queue' :
           queue'[i] # d /\ \E k \in DOMAIN queue : queue[k] = queue'[i]
  BY <1>1, LeftLeaves
<1>3. Once'
  BY <1>2 DEF Once
<1>4. QueuedServe'
  <2> SUFFICES ASSUME NEW i \in DOMAIN queue', NEW e \in Daemons, queue'[i] = e
               PROVE  proc'[e] = "running" /\ bus'[e] = "live" /\ serves'[e]
    BY DEF QueuedServe, Running
  <2>1. e # d /\ \E k \in DOMAIN queue : queue[k] = e
    BY <1>2
  <2> QED
    BY <2>1, <1>1 DEF QueuedServe, Running
<1> QED
  BY <1>2, <1>3, <1>4

\* And when the queue stays, while nobody in it loses anything.
LEMMA StaysIInv ==
    ASSUME IInv, UNCHANGED queue,
           \A e \in Daemons :
             Running(e) /\ bus[e] = "live" /\ serves[e] =>
               proc'[e] = proc[e] /\ bus'[e] = bus[e] /\ serves'[e] = serves[e]
    PROVE  queue' \in Seq(Daemons \union {Gjs}) /\ Once' /\ QueuedServe'
  BY DEF IInv, TypeOK, Once, QueuedServe, Running

LEMMA StartIInv ==
    ASSUME NEW d \in Daemons, IInv, Start(d) PROVE IInv'
<1>1. \A i \in DOMAIN queue : queue[i] # d
  BY DEF IInv, QueuedServe, Start, Running
<1>2. CASE Goes(proc, d, "running") /\ Acquire(d)
  <2>1. /\ queue' \in Seq(Daemons \union {Gjs})
        /\ \A i, j \in DOMAIN queue' : queue'[i] = queue'[j] => i = j
        /\ \A i \in DOMAIN queue' :
             queue'[i] = d \/ \E k \in DOMAIN queue : queue[k] = queue'[i]
    BY <1>1, <1>2, RequestedWaits DEF IInv, TypeOK, Acquire
  <2>2. QueuedServe'
    <3> SUFFICES ASSUME NEW i \in DOMAIN queue', NEW e \in Daemons, queue'[i] = e
                 PROVE  proc'[e] = "running" /\ bus'[e] = "live" /\ serves'[e]
      BY DEF QueuedServe, Running
    <3>1. CASE e = d
      BY <3>1, <1>2 DEF IInv, TypeOK, Acquire, Goes
    <3>2. CASE e # d
      <4>1. \E k \in DOMAIN queue : queue[k] = e
        BY <3>2, <2>1
      <4> QED
        BY <4>1, <3>2, <1>2 DEF IInv, TypeOK, QueuedServe, Acquire, Goes, Running
    <3> QED
      BY <3>1, <3>2
  <2>3. TypeOK'
    <3>1. /\ proc' \in [Daemons -> {"off", "running", "exited"}]
          /\ bus' \in [Daemons -> Connection] /\ serves' \in [Daemons -> BOOLEAN]
      BY <1>2 DEF IInv, TypeOK, Acquire, Goes, Connection
    <3>2. retries' \in [Daemons -> 0 .. 2] /\ gjs' \in {"off", "firm", "yielding"}
      BY DEF IInv, TypeOK, Start
    <3>3. CASE Goes(system, d, "live") /\ Goes(hears, d, TRUE) /\ UNCHANGED trouble
      <4>1. /\ system' \in [Daemons -> Connection] /\ hears' \in [Daemons -> BOOLEAN]
            /\ trouble' \in 0 .. MaxTrouble
        BY <3>3 DEF IInv, TypeOK, Goes, Connection
      <4> QED
        BY <4>1, <3>1, <3>2, <2>1 DEF TypeOK
    <3>4. CASE Trouble /\ UNCHANGED <<system, hears>>
      <4>1. /\ system' \in [Daemons -> Connection] /\ hears' \in [Daemons -> BOOLEAN]
            /\ trouble' \in 0 .. MaxTrouble
        BY <3>4 DEF IInv, TypeOK, Trouble
      <4> QED
        BY <4>1, <3>1, <3>2, <2>1 DEF TypeOK
    <3> QED
      BY <1>2, <3>3, <3>4 DEF Acquire
  <2>4. OffIsFresh' /\ RetriesBounded'
    BY <1>2 DEF IInv, TypeOK, OffIsFresh, RetriesBounded, Start, Acquire, Goes
  <2> QED
    BY <2>1, <2>2, <2>3, <2>4 DEF IInv, Once
<1>3. CASE /\ Trouble /\ Goes(proc, d, "exited")
           /\ UNCHANGED <<bus, serves, system, hears, queue>>
  <2>1. Once' /\ QueuedServe'
    BY <1>1, <1>3 DEF IInv, TypeOK, Once, QueuedServe, Goes, Running
  <2> QED
    BY <2>1, <1>3 DEF IInv, TypeOK, OffIsFresh, RetriesBounded, Start, Goes, Trouble
<1> QED
  BY <1>2, <1>3 DEF Start

LEMMA NextIInv == IInv /\ [Next]_vars => IInv'
<1> SUFFICES ASSUME IInv, [Next]_vars PROVE IInv'
  OBVIOUS
<1> USE DEF IInv, TypeOK, OffIsFresh, RetriesBounded, Goes, Trouble, Connection
<1>1. CASE Call
  BY <1>1 DEF Call, Once, QueuedServe, Running, connections
<1>2. ASSUME NEW d \in Daemons, Start(d) PROVE IInv'
  BY <1>2, StartIInv
<1>3. ASSUME NEW d \in Daemons, QuitCommand(d) PROVE IInv'
  <2>1. queue' \in Seq(Daemons \union {Gjs}) /\ Once' /\ QueuedServe'
    BY <1>3, LeavesIInv DEF QuitCommand, Exit
  <2> QED
    BY <2>1, <1>3 DEF QuitCommand, Exit, Running
<1>4. ASSUME NEW d \in Daemons, BusCut(d) PROVE IInv'
  <2>1. queue' \in Seq(Daemons \union {Gjs}) /\ Once' /\ QueuedServe'
    BY <1>4, LeavesIInv DEF BusCut
  <2> QED
    BY <2>1, <1>4 DEF BusCut
<1>5. ASSUME NEW d \in Daemons, SystemCut(d) PROVE IInv'
  <2>1. queue' \in Seq(Daemons \union {Gjs}) /\ Once' /\ QueuedServe'
    BY <1>5, StaysIInv DEF SystemCut
  <2> QED
    BY <2>1, <1>5 DEF SystemCut
<1>6. ASSUME NEW d \in Daemons, BusDisconnected(d) PROVE IInv'
  <2>1. queue' \in Seq(Daemons \union {Gjs}) /\ Once' /\ QueuedServe'
    BY <1>6, StaysIInv DEF BusDisconnected
  <2> QED
    BY <2>1, <1>6 DEF BusDisconnected, Running
<1>7. ASSUME NEW d \in Daemons, SystemDisconnected(d) PROVE IInv'
  <2>1. queue' \in Seq(Daemons \union {Gjs}) /\ Once' /\ QueuedServe'
    BY <1>7, StaysIInv DEF SystemDisconnected
  <2> QED
    BY <2>1, <1>7 DEF SystemDisconnected, Running
<1>8. ASSUME NEW d \in Daemons, Reinit(d) PROVE IInv'
  <2>1. queue' \in Seq(Daemons \union {Gjs}) /\ Once' /\ QueuedServe'
    BY <1>8, StaysIInv DEF Reinit, Connected
  <2> QED
    BY <2>1, <1>8 DEF Reinit, Connected
<1>9. ASSUME NEW d \in Daemons, ReinitFails(d) PROVE IInv'
  <2>1. queue' \in Seq(Daemons \union {Gjs}) /\ Once' /\ QueuedServe'
    BY <1>9, StaysIInv DEF ReinitFails, Connected
  <2> QED
    BY <2>1, <1>9 DEF ReinitFails, TriesAgain, Connected
<1>10. CASE UNCHANGED vars
  BY <1>10 DEF vars, connections, Once, QueuedServe, Running
<1> QED
  BY <1>1, <1>2, <1>3, <1>4, <1>5, <1>6, <1>7, <1>8, <1>9, <1>10 DEF Next

LEMMA AlwaysIInv == Spec => []IInv
  BY InitIInv, NextIInv, PTL DEF Spec

\* Every variable keeps its type, and no daemon ever has more than two timers
\* for its two connections (listener_dbus_filter_function and its like on the
\* system bus start one each).
THEOREM TypeCorrect == Spec => []TypeOK
<1>1. IInv => TypeOK
  BY DEF IInv
<1> QED
  BY <1>1, AlwaysIInv, PTL

\* Whoever owns the name is connected and has its objects registered, however
\* many daemons wait and however often they are cut off (reinit_dbus).
THEOREM NameAlwaysServed == Spec => []NameIsServed
<1>1. IInv => NameIsServed
  <2> SUFFICES ASSUME IInv, NEW d \in Daemons, Owns(d)
               PROVE  Running(d) /\ bus[d] = "live" /\ serves[d]
    BY DEF NameIsServed
  <2>1. 1 \in DOMAIN queue /\ queue[1] = d
    BY DEF IInv, TypeOK, Owns
  <2> QED
    BY <2>1 DEF IInv, QueuedServe
<1> QED
  BY <1>1, AlwaysIInv, PTL
===============================================================================
