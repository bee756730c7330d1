---------------------------- MODULE DtlsTransport ----------------------------
(***************************************************************************)
(* Reception in impl::DtlsTransport (dtlstransport.cpp), over the receive  *)
(* callback of the lower transport (transport.cpp).  The thread of the     *)
(* lower transport hands packets to incoming(), which queues them and      *)
(* schedules doRecv() on the thread pool; the handshake schedules doRecv() *)
(* again when its retransmission timer expires.  start() registers         *)
(* incoming() and replays what the lower transport held before; stop()     *)
(* unregisters it.                                                         *)
(*                                                                         *)
(* The three builds are two here: "openssl", and "gnutls" for GnuTLS and   *)
(* MbedTLS, whose reception differs in none of the steps below.  A packet  *)
(* is a number; what it does to the TLS session is a choice.               *)
(***************************************************************************)
EXTENDS Integers, Sequences, Functions

CONSTANTS Builds,      \* pairs of a TLS library and a side of the handshake
          PacketCount, \* packets the lower transport receives (a bound)
          HoldLimit,   \* packets held before incoming() is registered: 8 in the code
          QueueLimit,  \* RECV_QUEUE_LIMIT
          MaxExpired   \* expiries after which the handshake has timed out (a bound)

ASSUME BuildsAssumption == Builds \subseteq {"openssl", "gnutls"} \X {"client", "server"}
ASSUME LimitsAssumption == {PacketCount, HoldLimit, QueueLimit, MaxExpired} \subseteq Nat

VARIABLES build,
          mState,
          registered,         \* incoming() is the receive callback of the lower transport
          lock,               \* who holds the lock of that callback
          mPendingRecv,       \* packets the lower transport holds
          mIncomingQueue,
          mStopping,          \* the queue is stopped
          mPendingRecvCount,
          tasks,              \* calls of doRecv() posted by enqueueRecv(), not begun
          timers,             \* calls of doRecv() scheduled by the handshake, not begun
          expired,            \* how many of those have begun
          flight,             \* a flight of this side awaits an answer: the timer is running
          inside,             \* where the call of doRecv() that holds mRecvMutex is
          at,                 \* where the lower transport, start() and stop() are
          packet,             \* the packet each has in hand
          replay,             \* packets start() has yet to replay
          received,           \* packets received so far
          delivered,          \* packets whose content was passed up
          closures            \* null messages passed up

calls == <<at, packet, replay>>
session == <<build, expired, flight>>
upper == <<delivered, closures>>
vars == <<mState, registered, lock, mPendingRecv, mIncomingQueue, mStopping, mPendingRecvCount, tasks,
          timers, inside, received, calls, session, upper>>

Threads == {"lower", "starter", "stopper"}
Packets == 1..PacketCount

Init ==
    /\ build \in Builds
    /\ mState = "Disconnected"
    /\ registered = FALSE
    /\ lock = "none"
    /\ mPendingRecv = <<>>
    /\ mIncomingQueue = <<>>
    /\ mStopping = FALSE
    /\ mPendingRecvCount = 0
    /\ tasks = 0
    /\ timers = 0
    /\ expired = 0
    /\ flight = FALSE
    /\ inside = "no"
    /\ at = [t \in Threads |-> "idle"]
    /\ packet = [t \in Threads |-> 0]
    /\ replay = <<>>
    /\ received = 0
    /\ delivered = {}
    /\ closures = 0

OpenSSL == build[1] = "openssl"
Open == mState \in {"Connecting", "Connected"}
QueueRunning == mIncomingQueue # <<>> \/ ~mStopping

Goto(t, from, to) ==
    /\ at[t] = from
    /\ at' = [at EXCEPT ![t] = to]

-----------------------------------------------------------------------------
(* The receive callback of the lower transport.                             *)

\* recv(), as far as its lock on mPendingMutex reaches.
Recv ==
    /\ received < PacketCount
    /\ lock = "none"
    /\ received' = received + 1
    /\ IF registered
       THEN /\ Goto("lower", "idle", "call")
            /\ packet' = [packet EXCEPT !["lower"] = received']
            /\ UNCHANGED mPendingRecv
       ELSE /\ at["lower"] = "idle"
            /\ mPendingRecv' = IF Len(mPendingRecv) < HoldLimit
                               THEN Append(mPendingRecv, received')
                               ELSE mPendingRecv
            /\ UNCHANGED <<at, packet>>
    /\ UNCHANGED <<mState, registered, lock, mIncomingQueue, mStopping, mPendingRecvCount, tasks,
                   timers, inside, replay, session, upper>>

\* Where a thread goes when its call of incoming() or of enqueueRecv() returns.
After(t) ==
    CASE t = "lower" -> "idle"
      [] t = "starter" -> IF lock = "starter" THEN "replay" ELSE "started"
      [] t = "stopper" -> "stopped"

\* The callback is called under its lock.
CallIncoming(t) ==
    /\ lock = "none"
    /\ IF registered
       THEN lock' = t /\ Goto(t, "call", "push")
       ELSE Goto(t, "call", IF t = "lower" THEN "idle" ELSE "replay") /\ UNCHANGED lock
    /\ UNCHANGED <<mState, registered, mPendingRecv, mIncomingQueue, mStopping, mPendingRecvCount,
                   tasks, timers, inside, packet, replay, received, session, upper>>

\* Mutant: the lock of the callback is kept.
UnlockNever(t) == lock' = lock

Unlock(t) == lock' = IF lock = t THEN "none" ELSE lock

Full == QueueLimit > 0 /\ Len(mIncomingQueue) >= QueueLimit

\* incoming(): a full queue drops the packet in one build and blocks the thread in the other.
Incoming(t) ==
    /\ at[t] = "push"
    /\ OpenSSL \/ ~Full \/ mStopping
    /\ mIncomingQueue' = IF Full \/ mStopping THEN mIncomingQueue ELSE Append(mIncomingQueue, packet[t])
    /\ IF OpenSSL /\ (Full \/ mStopping)
       THEN Goto(t, "push", After(t)) /\ Unlock(t)
       ELSE Goto(t, "push", "test") /\ UNCHANGED lock
    /\ UNCHANGED <<mState, registered, mPendingRecv, mStopping, mPendingRecvCount, tasks, timers, inside,
                   packet, replay, received, session, upper>>

-----------------------------------------------------------------------------
(* enqueueRecv(): the counter is tested and then incremented.               *)

TestPending(t) ==
    /\ IF mPendingRecvCount > 0
       THEN Goto(t, "test", After(t)) /\ Unlock(t)
       ELSE Goto(t, "test", "post") /\ UNCHANGED lock
    /\ UNCHANGED <<mState, registered, mPendingRecv, mIncomingQueue, mStopping, mPendingRecvCount, tasks,
                   timers, inside, packet, replay, received, session, upper>>

PostRecv(t) ==
    /\ Goto(t, "post", After(t))
    /\ Unlock(t)
    /\ mPendingRecvCount' = mPendingRecvCount + 1
    /\ tasks' = tasks + 1
    /\ UNCHANGED <<mState, registered, mPendingRecv, mIncomingQueue, mStopping, timers, inside, packet,
                   replay, received, session, upper>>

-----------------------------------------------------------------------------
(* start() and stop().                                                      *)

\* registerIncoming(), up to the end of its lock.
Register ==
    /\ lock = "none"
    /\ Goto("starter", "idle", "replay")
    /\ registered' = TRUE
    /\ replay' = mPendingRecv
    /\ mPendingRecv' = <<>>
    /\ UNCHANGED <<mState, lock, mIncomingQueue, mStopping, mPendingRecvCount, tasks, timers, inside,
                   packet, received, session, upper>>

Replay ==
    /\ replay # <<>>
    /\ Goto("starter", "replay", "call")
    /\ packet' = [packet EXCEPT !["starter"] = Head(replay)]
    /\ replay' = Tail(replay)
    /\ UNCHANGED <<mState, registered, lock, mPendingRecv, mIncomingQueue, mStopping, mPendingRecvCount,
                   tasks, timers, inside, received, session, upper>>

\* Mutant: the GnuTLS and MbedTLS builds do not post doRecv() either.
BeginsRecvNever == FALSE

\* After Connecting, start() posts doRecv() in one build only.
BeginsRecv == ~OpenSSL

Connect ==
    /\ replay = <<>>
    /\ Goto("starter", "replay", IF BeginsRecv THEN "test" ELSE "handshake")
    /\ mState' = "Connecting"
    /\ UNCHANGED <<registered, lock, mPendingRecv, mIncomingQueue, mStopping, mPendingRecvCount, tasks,
                   timers, inside, packet, replay, received, session, upper>>

\* The OpenSSL build sends the client's first flight in start(), which arms the timer.
Handshake ==
    /\ Goto("starter", "handshake", "started")
    /\ flight' = (flight \/ build[2] = "client")
    /\ timers' = IF flight' THEN timers + 1 ELSE timers
    /\ UNCHANGED <<mState, registered, lock, mPendingRecv, mIncomingQueue, mStopping, mPendingRecvCount,
                   tasks, inside, packet, replay, received, build, expired, upper>>

\* PeerConnection stops a transport again when it was closed during start(), so that stop()
\* follows start() here.
CallStop ==
    /\ at["starter"] = "started"
    /\ Goto("stopper", "idle", "unregister")
    /\ UNCHANGED <<mState, registered, lock, mPendingRecv, mIncomingQueue, mStopping, mPendingRecvCount,
                   tasks, timers, inside, packet, replay, received, session, upper>>

\* Mutant: the callback is dropped without its lock.
UnregisterUnlocked == TRUE

\* The callback is replaced under its lock.
MayUnregister == lock = "none"

\* unregisterIncoming().
Unregister ==
    /\ MayUnregister
    /\ Goto("stopper", "unregister", "stop")
    /\ registered' = FALSE
    /\ mPendingRecv' = <<>>
    /\ UNCHANGED <<mState, lock, mIncomingQueue, mStopping, mPendingRecvCount, tasks, timers, inside,
                   packet, replay, received, session, upper>>

\* Mutant: stop() leaves the queue running.
StopKeepsQueue ==
    /\ Goto("stopper", "stop", "test")
    /\ UNCHANGED <<mState, registered, lock, mPendingRecv, mIncomingQueue, mStopping, mPendingRecvCount,
                   tasks, timers, inside, packet, replay, received, session, upper>>

StopQueue ==
    /\ Goto("stopper", "stop", "test")
    /\ mStopping' = TRUE
    /\ UNCHANGED <<mState, registered, lock, mPendingRecv, mIncomingQueue, mPendingRecvCount, tasks,
                   timers, inside, packet, replay, received, session, upper>>

-----------------------------------------------------------------------------
(* doRecv().                                                                *)

\* Mutant: a call does not count down.
CountDownNever(n) == n

\* Every call counts down, the calls of a timer included: the counter may go below zero.
CountDown(n) == n - 1

\* A call takes mRecvMutex; unless the transport is open it returns at once.
BeginRecv ==
    /\ inside = "no"
    /\ mPendingRecvCount' = CountDown(mPendingRecvCount)
    /\ inside' = IF Open THEN "loop" ELSE "no"
    /\ UNCHANGED <<mState, registered, lock, mPendingRecv, mIncomingQueue, mStopping, received, calls,
                   build, flight, upper>>

BeginPosted ==
    /\ tasks > 0
    /\ tasks' = tasks - 1
    /\ BeginRecv
    /\ UNCHANGED <<timers, expired>>

BeginTimer ==
    /\ timers > 0
    /\ timers' = timers - 1
    /\ expired' = IF expired < MaxExpired THEN expired + 1 ELSE expired
    /\ BeginRecv
    /\ UNCHANGED tasks

\* A packet advances the handshake, completes it (it may then carry a message as well), or
\* makes it fail.
Negotiate(p) ==
    \/ /\ flight' \in {flight, TRUE}
       /\ UNCHANGED <<mState, inside, delivered>>
    \/ /\ mState' = "Connected"
       /\ delivered' \in {delivered, delivered \cup {p}}
       /\ UNCHANGED <<inside, flight>>
    \/ /\ inside' = "end"
       /\ UNCHANGED <<mState, flight, delivered>>

\* A packet carries a message, nothing of interest, or the end of the session.
Read(p) ==
    /\ \/ /\ delivered' \in {delivered, delivered \cup {p}}
          /\ UNCHANGED inside
       \/ /\ inside' = "end"
          /\ UNCHANGED delivered
    /\ UNCHANGED <<mState, flight>>

\* An alert stops the queue in the OpenSSL build.
Process ==
    /\ inside = "loop" /\ mIncomingQueue # <<>>
    /\ mIncomingQueue' = Tail(mIncomingQueue)
    /\ mStopping' \in IF OpenSSL THEN {mStopping, TRUE} ELSE {mStopping}
    /\ \/ mState = "Connecting" /\ Negotiate(Head(mIncomingQueue))
       \/ mState = "Connected" /\ Read(Head(mIncomingQueue))
    /\ UNCHANGED <<registered, lock, mPendingRecv, mPendingRecvCount, tasks, timers, received, calls,
                   build, expired, closures>>

\* Without a packet left, the call returns; the handshake then waits for its timer, unless it
\* has timed out.  GnuTLS and MbedTLS have a timer even before the first flight.
Drained ==
    /\ inside = "loop" /\ mIncomingQueue = <<>> /\ ~mStopping
    /\ \/ /\ mState = "Connecting" /\ expired > 0
          /\ inside' = "end"
          /\ UNCHANGED timers
       \/ /\ mState = "Connected" \/ expired < MaxExpired
          /\ inside' = "no"
          /\ timers' = IF mState = "Connecting" /\ (~OpenSSL \/ flight) THEN timers + 1 ELSE timers
    /\ UNCHANGED <<mState, registered, lock, mPendingRecv, mIncomingQueue, mStopping, mPendingRecvCount,
                   tasks, received, calls, session, upper>>

Stopped ==
    /\ inside = "loop" /\ ~QueueRunning
    /\ inside' = "end"
    /\ UNCHANGED <<mState, registered, lock, mPendingRecv, mIncomingQueue, mStopping, mPendingRecvCount,
                   tasks, timers, received, calls, session, upper>>

\* Mutant: a session that ends stays Connected.
EndStateKept == mState

EndState == IF mState = "Connected" THEN "Disconnected" ELSE "Failed"

\* The end of the session is passed up as a null message.
End ==
    /\ inside = "end"
    /\ inside' = "no"
    /\ mState' = EndState
    /\ closures' = IF mState = "Connected" THEN closures + 1 ELSE closures
    /\ UNCHANGED <<registered, lock, mPendingRecv, mIncomingQueue, mStopping, mPendingRecvCount, tasks,
                   timers, received, calls, session, delivered>>

-----------------------------------------------------------------------------

EnqueueRecv(t) == TestPending(t) \/ PostRecv(t)
Start == Register \/ Replay \/ Connect \/ Handshake
Stop == CallStop \/ Unregister \/ StopQueue
DoRecv == BeginPosted \/ BeginTimer \/ Process \/ Drained \/ Stopped \/ End

Next ==
    \/ Recv
    \/ \E t \in Threads : CallIncoming(t) \/ Incoming(t) \/ EnqueueRecv(t)
    \/ Start
    \/ Stop
    \/ DoRecv

Spec == Init /\ [][Next]_vars

\* A thread in a call goes on and gets a lock that keeps being released, and a posted or due
\* call of doRecv() begins: the pool has at least two workers.  Nothing obliges the peer to send,
\* or the application to stop.
Fairness ==
    /\ \A t \in Threads : SF_vars(CallIncoming(t)) /\ WF_vars(Incoming(t)) /\ WF_vars(EnqueueRecv(t))
    /\ WF_vars(Register) /\ WF_vars(Replay) /\ WF_vars(Connect) /\ WF_vars(Handshake)
    /\ SF_vars(Unregister) /\ WF_vars(StopQueue)
    /\ SF_vars(BeginPosted) /\ SF_vars(BeginTimer)
    /\ WF_vars(Process \/ Drained \/ Stopped \/ End)

FairSpec == Spec /\ Fairness

-----------------------------------------------------------------------------
(* Properties.                                                              *)

\* The states of the transport and the places of a thread in its calls.
States == {"Disconnected", "Connecting", "Connected", "Failed"}
Places == {"idle", "call", "push", "test", "post", "replay", "handshake", "started", "unregister", "stop",
           "stopped"}

\* enqueueRecv() relies on the counter to skip a call: while the counter is positive that many
\* posted calls of doRecv() have not begun, although the calls of a timer count down as well.
SkipIsCovered == mPendingRecvCount <= tasks

\* Once stop() has unregistered incoming(), no thread is in incoming(): the transport may be
\* destroyed (transport.cpp, unregisterIncoming).
QuietAfterStop ==
    at["stopper"] \notin {"idle", "unregister"} => lock = "none" /\ at["lower"] \in {"idle", "call"}

\* The null message is passed up once, and nothing is passed up after it.
ClosedLast ==
    [][closures > 0 => UNCHANGED upper]_vars

\* GnuTLS and MbedTLS: a call of incoming() waits for room in the queue, under the lock of the
\* callback that stop() needs, when doRecv() no longer reads.
Jammed ==
    \E t \in Threads : at[t] = "push" /\ lock = t /\ Full /\ ~OpenSSL /\ ~mStopping /\ ~Open

\* A packet that reached the transport, or was held for it, is consumed, or the transport ends,
\* unless the queue is full for good.
PacketConsumed ==
    \/ \A p \in Packets :
        p \in Range(mPendingRecv) \cup Range(replay) \cup Range(mIncomingQueue) /\ registered
            ~> \/ p \notin Range(mPendingRecv) \cup Range(replay) \cup Range(mIncomingQueue)
               \/ mState \in {"Disconnected", "Failed"} /\ at["starter"] = "started"
    \/ <>[]Jammed

\* stop() and the calls of incoming() return, and a transport that is stopped does not stay open:
\* neither the application nor the thread of the lower transport is held up, unless the queue is
\* full for good.
StopEnds ==
    \/ /\ at["stopper"] # "idle" ~> at["stopper"] = "stopped" /\ ~Open
       /\ at["lower"] # "idle" ~> at["lower"] = "idle"
    \/ <>[]Jammed

\* Both: packets are consumed and stop() ends.
TransportServes == PacketConsumed /\ StopEnds

=============================================================================
