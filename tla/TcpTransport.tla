---------------------------- MODULE TcpTransport ----------------------------
(***************************************************************************)
(* The TCP connection under a WebSocket (src/src/impl/tcptransport.cpp):   *)
(* connecting to the resolved addresses one after the other, sending       *)
(* through a non-blocking socket with a queue for what does not fit, and   *)
(* the events of the poll service.  The thread pool resolves and attempts, *)
(* any thread sends (under mSendMutex), the poll thread has the events.    *)
(* Messages are numbered modulo IdMod, their bytes counted.                *)
(***************************************************************************)
EXTENDS Integers, Sequences, SequencesExt, FiniteSets

CONSTANTS MaxAddresses, \* addresses a name resolves to
          Sizes,        \* sizes of messages
          PingSize,     \* size of the message sent when the connection is idle
          SocketRoom,   \* bytes the kernel takes before send() would block
          MaxQueue,     \* bound on mSendQueue
          IdMod

ASSUME TcpAssumption ==
    /\ MaxAddresses \in Nat /\ SocketRoom \in Nat \ {0} /\ MaxQueue \in Nat
    /\ Sizes \subseteq Nat \ {0} /\ PingSize \in Nat \ {0} /\ IdMod > MaxQueue + 1

VARIABLES tcpState, mResolved, task, \* task: what the thread pool is to do
          mSock,                     \* "invalid", "connecting", "up" or "down" (lost)
          reg,                       \* the registration: its directions and its callback
          events,                    \* events the poll thread has collected
          mSendQueue, mBufferedAmount,
          room,                      \* what the kernel still takes
          wire,                      \* the message on the wire and how much of it is missing
          inOrder, fresh,            \* ghosts: the wire is the messages in order; next number
          closing                    \* the poll thread is in the last lines of process()

tcpVars == <<tcpState, mResolved, task, mSock, reg, events, mSendQueue, mBufferedAmount, room, wire,
             inOrder, fresh, closing>>

NoReg == [dir |-> {}, cb |-> "none"]
Polled(dir) == [dir |-> dir, cb |-> "process"]
Both == {"In", "Out"}

TcpInit ==
    /\ tcpState = "Disconnected" /\ mResolved = 0 /\ task = "none" /\ mSock = "invalid"
    /\ reg = NoReg /\ events = <<>> /\ mSendQueue = <<>> /\ mBufferedAmount = 0
    /\ room = SocketRoom /\ wire = [id |-> 0, left |-> 0] /\ inOrder = TRUE /\ fresh = 1
    /\ closing = FALSE

sending == <<mSendQueue, mBufferedAmount, room, wire, inOrder, fresh>>
connecting == <<mResolved, task>>

-----------------------------------------------------------------------------
\* Connecting.
\* start(), connect().
TcpConnect ==
    /\ tcpState = "Disconnected" /\ mSock = "invalid"
    /\ tcpState' = "Connecting" /\ task' = "resolve"
    /\ UNCHANGED <<mResolved, mSock, reg, events, sending, closing>>

\* start() of a transport the server accepted.
StartAccepted ==
    /\ tcpState = "Disconnected" /\ mSock = "invalid"
    /\ tcpState' = "Connected" /\ mSock' = "up" /\ reg' = Polled({"In"})
    /\ UNCHANGED <<connecting, events, sending, closing>>

\* resolve().
Resolve(n) ==
    /\ task = "resolve"
    /\ IF tcpState # "Connecting" THEN task' = "none" /\ UNCHANGED <<tcpState, mResolved>>
       ELSE IF n = 0 THEN tcpState' = "Failed" /\ task' = "none" /\ UNCHANGED mResolved
       ELSE mResolved' = n /\ task' = "attempt" /\ UNCHANGED tcpState
    /\ UNCHANGED <<mSock, reg, events, sending, closing>>

\* Mutant: the address that was tried stays in the list.
AttemptSame(refused) ==
    /\ task = "attempt"
    /\ IF tcpState # "Connecting" THEN task' = "none" /\ UNCHANGED <<tcpState, mResolved, mSock, reg>>
       ELSE IF mResolved = 0 THEN tcpState' = "Failed" /\ task' = "none" /\ mSock' = "invalid"
                                  /\ UNCHANGED <<mResolved, reg>>
       ELSE /\ UNCHANGED mResolved
            /\ IF refused THEN mSock' = "invalid" /\ UNCHANGED <<task, reg>>
               ELSE mSock' = "connecting" /\ task' = "none" /\ reg' = [dir |-> {"Out"}, cb |-> "connect"]
            /\ UNCHANGED tcpState
    /\ UNCHANGED <<events, sending, closing>>

\* attempt(), createSocket(): connect() may fail at once.
Attempt(refused) ==
    /\ task = "attempt"
    /\ IF tcpState # "Connecting" THEN task' = "none" /\ UNCHANGED <<tcpState, mResolved, mSock, reg>>
       ELSE IF mResolved = 0 THEN tcpState' = "Failed" /\ task' = "none" /\ mSock' = "invalid"
                                  /\ UNCHANGED <<mResolved, reg>>
       ELSE /\ mResolved' = mResolved - 1
            /\ IF refused THEN mSock' = "invalid" /\ UNCHANGED <<task, reg>>
               ELSE mSock' = "connecting" /\ task' = "none" /\ reg' = [dir |-> {"Out"}, cb |-> "connect"]
            /\ UNCHANGED tcpState
    /\ UNCHANGED <<events, sending, closing>>

\* processConnect(): Out with no pending error is success, anything else tries the next address.
ProcessConnect(error) ==
    /\ events # <<>> /\ reg.cb # "process" /\ ~closing
    /\ events' = Tail(events)
    /\ IF Head(events) = "Out" /\ ~error
       THEN tcpState' = "Connected" /\ mSock' = "up" /\ reg' = Polled({"In"}) /\ UNCHANGED task
       ELSE reg' = NoReg /\ task' = "attempt" /\ UNCHANGED <<tcpState, mSock>>
    /\ UNCHANGED <<mResolved, sending, closing>>

-----------------------------------------------------------------------------

\* Sending.  trySendQueue(), trySendMessage(): the messages the kernel takes whole leave the
\* queue, the part it does not take of the next one replaces it in front.
Flushed(s) ==
    LET Bytes[k \in 0..Len(s.q)] == IF k = 0 THEN 0 ELSE Bytes[k - 1] + s.q[k].left
        whole == Cardinality({k \in 1..Len(s.q) : Bytes[k] <= s.r})
        rest == SubSeq(s.q, whole + 1, Len(s.q))
        part == IF rest = <<>> THEN 0 ELSE s.r - Bytes[whole]
        sent == Bytes[whole] + part
    IN  [q |-> IF part = 0 THEN rest ELSE [rest EXCEPT ![1].left = @ - part],
         r |-> s.r - sent,
         amount |-> s.amount - sent,
         w |-> IF part > 0 THEN [rest[1] EXCEPT !.left = @ - part]
               ELSE IF whole > 0 THEN [s.q[whole] EXCEPT !.left = 0] ELSE s.w,
         ok |-> /\ s.ok
                /\ sent > 0 => IF s.w.left > 0 THEN s.q[1] = s.w ELSE s.q[1].id = (s.w.id + 1) % IdMod
                /\ \A k \in 2..whole : s.q[k].id = (s.q[k - 1].id + 1) % IdMod]

SendState == [q |-> mSendQueue, r |-> room, amount |-> mBufferedAmount, w |-> wire, ok |-> inOrder]

SetSendState(s) ==
    /\ mSendQueue' = s.q /\ room' = s.r /\ mBufferedAmount' = s.amount
    /\ wire' = s.w /\ inOrder' = s.ok

\* outgoing(): flush, then send directly, then queue what is left.
Outgoing(size) ==
    LET m == [id |-> fresh, left |-> size]
    IN  Flushed([Flushed(SendState) EXCEPT !.q = Append(@, m), !.amount = @ + size])

\* send(), by any thread.  The kernel may also take bytes for a connection that is lost; when it
\* refuses them send() throws and nothing changes.
TcpSend(size) ==
    /\ tcpState = "Connected"
    /\ \E s \in {Outgoing(size)} :
           /\ Len(s.q) <= MaxQueue
           /\ SetSendState(s)
           /\ reg' = IF s.q # <<>> THEN Polled(Both) ELSE reg
    /\ fresh' = (fresh + 1) % IdMod
    /\ UNCHANGED <<tcpState, connecting, mSock, events, closing>>

-----------------------------------------------------------------------------
\* The poll service collects events: an error and a timeout end the registration.
CollectIO(evs) ==
    /\ events = <<>> /\ reg.dir # {} /\ ~closing
    /\ evs # <<>> /\ ToSet(evs) \subseteq reg.dir
    /\ "Out" \in ToSet(evs) => mSock = "connecting" \/ room > 0 \/ mSock = "down"
    /\ events' = evs
    /\ UNCHANGED <<tcpState, connecting, mSock, reg, sending, closing>>

CollectEnd(ev) ==
    /\ events = <<>> /\ reg.dir # {} /\ ~closing
    /\ ev = "Timeout" => reg.dir # Both      \* setPoll() gives a timeout to In only
    /\ ev = "Error" => mSock \in {"connecting", "down"}
    /\ events' = <<ev>>
    /\ reg' = [NoReg EXCEPT !.cb = reg.cb]
    /\ UNCHANGED <<tcpState, connecting, mSock, sending, closing>>

\* process(Out).
ProcessOut ==
    /\ events # <<>> /\ Head(events) = "Out" /\ reg.cb = "process" /\ mSock = "up"
    /\ \E s \in {Flushed(SendState)} :
           SetSendState(s) /\ reg' = IF s.q = <<>> THEN Polled({"In"}) ELSE reg
    /\ events' = Tail(events)
    /\ UNCHANGED <<tcpState, connecting, mSock, fresh, closing>>

\* process(In): reads until the socket is empty, or it finds the connection closed.
ProcessIn ==
    /\ events # <<>> /\ Head(events) = "In" /\ reg.cb = "process" /\ mSock = "up"
    /\ events' = Tail(events)
    /\ UNCHANGED <<tcpState, connecting, mSock, reg, sending, closing>>

\* process(Timeout): the layers above answer with a ping, then the socket is polled for input.
ProcessTimeout ==
    /\ events # <<>> /\ Head(events) = "Timeout" /\ reg.cb = "process" /\ mSock = "up"
    /\ \E s \in {Outgoing(PingSize)} : Len(s.q) <= MaxQueue /\ SetSendState(s)
    /\ fresh' = (fresh + 1) % IdMod
    /\ reg' = Polled({"In"})
    /\ events' = Tail(events)
    /\ UNCHANGED <<tcpState, connecting, mSock, closing>>

\* process(): an error, the peer's close or an exception.  It unregisters the socket and changes
\* the state without the lock senders hold.
ProcessClose ==
    /\ events # <<>> /\ reg.cb = "process" /\ mSock = "down"
    /\ events' = Tail(events)
    /\ reg' = [NoReg EXCEPT !.cb = "process"]
    /\ closing' = TRUE
    /\ UNCHANGED <<tcpState, connecting, mSock, sending>>

ProcessClosed ==
    /\ closing
    /\ tcpState' = "Disconnected" /\ closing' = FALSE
    /\ UNCHANGED <<connecting, mSock, reg, events, sending>>

\* close(), the destructor: it does not run while a callback of the object does.
TcpClose ==
    /\ ~closing /\ (tcpState # "Disconnected" \/ mSock # "invalid")
    /\ reg' = NoReg /\ mSock' = "invalid" /\ tcpState' = "Disconnected" /\ events' = <<>>
    /\ task' = "none"
    /\ mSendQueue' = <<>> /\ mBufferedAmount' = 0
    /\ wire' = [id |-> 0, left |-> 0] /\ fresh' = 1 /\ mResolved' = 0
    /\ UNCHANGED <<room, inOrder, closing>>

\* The network: the peer reads, the connection is lost.
PeerReads ==
    /\ room < SocketRoom /\ mSock = "up" /\ room' = SocketRoom
    /\ UNCHANGED <<tcpState, connecting, mSock, reg, events, mSendQueue, mBufferedAmount, wire,
                   inOrder, fresh, closing>>

Lost == /\ mSock = "up" /\ mSock' = "down"
        /\ UNCHANGED <<tcpState, connecting, reg, events, sending, closing>>

ThreadPoolRuns == (\E n \in 0..MaxAddresses : Resolve(n)) \/ \E refused \in BOOLEAN : Attempt(refused)
PollThreadRuns == ProcessOut \/ ProcessIn \/ ProcessTimeout \/ ProcessClose \/ ProcessClosed
                  \/ \E error \in BOOLEAN : ProcessConnect(error)
TimesOut == CollectEnd("Timeout")
Writable == CollectIO(<<"Out">>) \/ CollectIO(<<"In", "Out">>)

TcpNext ==
    \/ TcpConnect \/ StartAccepted \/ TcpClose \/ PeerReads \/ Lost
    \/ ThreadPoolRuns \/ PollThreadRuns
    \/ \E size \in Sizes : TcpSend(size)
    \/ TimesOut \/ CollectEnd("Error") \/ Writable \/ CollectIO(<<"In">>)

\* The threads run; a peer reads; poll() reports a writable socket; silence outlasts the timeout.
TcpFairness ==
    /\ WF_tcpVars(ThreadPoolRuns) /\ WF_tcpVars(PollThreadRuns) /\ WF_tcpVars(PeerReads)
    /\ SF_tcpVars(Writable) /\ SF_tcpVars(TimesOut)

TcpSpec == TcpInit /\ [][TcpNext]_tcpVars /\ TcpFairness

-----------------------------------------------------------------------------
InFront(k) == mSendQueue # <<>> /\ Head(mSendQueue).id = k

=============================================================================
