---------------------------- MODULE TlsTransport ----------------------------
(***************************************************************************)
(* TLS between a WebSocket and its TCP connection (src/src/impl/           *)
(* tlstransport.cpp).  The lower transport's thread queues what it reads   *)
(* and asks for doRecv() on the thread pool, at most one at a time; doRecv *)
(* runs the library.  The code has one doRecv() for each library, chosen   *)
(* when it is built.  A record is "hello" (handshake), "data", "idle" (an  *)
(* empty message, the sign of a silent connection), "notify" (the peer's   *)
(* close) or "bad".                                                        *)
(***************************************************************************)
EXTENDS Naturals, Sequences

CONSTANTS Libraries,    \* of "openssl", "gnutls", "mbedtls"
          HandshakeLength, MaxRecords

ASSUME TlsAssumption == Libraries # {} /\ HandshakeLength \in Nat \ {0} /\ MaxRecords \in Nat

VARIABLES library, tlsState,
          mIncomingQueue, queueStopped,
          mPendingRecvCount,
          receiving,    \* doRecv() runs, after its first two lines
          handshake,    \* records of the handshake still to come
          registered,   \* incoming() is the lower transport's callback
          tlsUp, ended, \* what recv() gave up: messages, the end
          tlsSent, tlsStopped

tlsVars == <<library, tlsState, mIncomingQueue, queueStopped, mPendingRecvCount, receiving, handshake,
             registered, tlsUp, tlsSent, ended, tlsStopped>>

TlsInitWith(lib) ==
    /\ library = lib /\ tlsState = "Disconnected" /\ mIncomingQueue = <<>> /\ queueStopped = FALSE
    /\ mPendingRecvCount = 0 /\ receiving = FALSE /\ handshake = HandshakeLength /\ registered = FALSE
    /\ tlsUp = 0 /\ tlsSent = 0 /\ ended = 0 /\ tlsStopped = FALSE

TlsInit == \E lib \in Libraries : TlsInitWith(lib)

\* enqueueRecv(): the count after it.
Enqueued == IF mPendingRecvCount > 0 THEN mPendingRecvCount ELSE 1
Running == mIncomingQueue # <<>> \/ ~queueStopped     \* Queue::running()

\* start(): OpenSSL starts the handshake itself, the others let doRecv() do it.
StartOpenssl ==
    /\ library = "openssl" /\ tlsState = "Disconnected" /\ ended = 0 /\ ~tlsStopped
    /\ registered' = TRUE /\ tlsState' = "Connecting"
    /\ UNCHANGED <<library, mIncomingQueue, queueStopped, mPendingRecvCount, receiving, handshake, tlsUp,
                   tlsSent, ended, tlsStopped>>

StartOther ==
    /\ library # "openssl" /\ tlsState = "Disconnected" /\ ended = 0 /\ ~tlsStopped
    /\ registered' = TRUE /\ tlsState' = "Connecting" /\ mPendingRecvCount' = Enqueued
    /\ UNCHANGED <<library, mIncomingQueue, queueStopped, receiving, handshake, tlsUp, tlsSent, ended,
                   tlsStopped>>

\* Mutant: no receive task is enqueued.
TlsIncomingQuietly(record) ==
    /\ registered /\ tlsSent < MaxRecords
    /\ tlsSent' = tlsSent + 1
    /\ mIncomingQueue' = IF queueStopped THEN mIncomingQueue ELSE Append(mIncomingQueue, record)
    /\ UNCHANGED mPendingRecvCount
    /\ UNCHANGED <<library, tlsState, queueStopped, receiving, handshake, registered, tlsUp, ended, tlsStopped>>

\* incoming(): a message, or the end of the lower transport.
TlsIncoming(record) ==
    /\ registered /\ tlsSent < MaxRecords
    /\ tlsSent' = tlsSent + 1
    /\ mIncomingQueue' = IF queueStopped THEN mIncomingQueue ELSE Append(mIncomingQueue, record)
    /\ mPendingRecvCount' = Enqueued
    /\ UNCHANGED <<library, tlsState, queueStopped, receiving, handshake, registered, tlsUp, ended, tlsStopped>>

LowerEnds ==
    /\ registered /\ ~queueStopped
    /\ queueStopped' = TRUE /\ mPendingRecvCount' = Enqueued
    /\ UNCHANGED <<library, tlsState, mIncomingQueue, receiving, handshake, registered, tlsUp, tlsSent, ended,
                   tlsStopped>>

\* stop(), also in the destructor.
TlsStop ==
    /\ ~tlsStopped
    /\ tlsStopped' = TRUE /\ registered' = FALSE /\ queueStopped' = TRUE /\ mPendingRecvCount' = Enqueued
    /\ UNCHANGED <<library, tlsState, mIncomingQueue, receiving, handshake, tlsUp, tlsSent, ended>>

-----------------------------------------------------------------------------
\* doRecv(), its first lines: mRecvMutex is taken and the request is no longer pending.
Begin ==
    /\ mPendingRecvCount > 0 /\ ~receiving
    /\ mPendingRecvCount' = mPendingRecvCount - 1
    /\ receiving' = (library = "gnutls" \/ tlsState \in {"Connecting", "Connected"})
    /\ UNCHANGED <<library, tlsState, mIncomingQueue, queueStopped, handshake, registered, tlsUp, tlsSent,
                   ended, tlsStopped>>

same == <<library, mPendingRecvCount, registered, tlsSent, tlsStopped>>

\* The last lines of doRecv().
Finish ==
    /\ tlsState' = IF tlsState = "Connected" THEN "Disconnected" ELSE "Failed"
    /\ ended' = IF tlsState = "Connected" THEN ended + 1 ELSE ended
    /\ receiving' = FALSE

ReturnFrom == receiving' = FALSE /\ UNCHANGED <<tlsState, ended>>
Continue == UNCHANGED <<receiving, tlsState, ended>>

\* What the library makes of a record, in the states Connecting and Connected.
Handle(record) ==
    \/ /\ record = "idle"
       /\ tlsUp' = tlsUp + 1 /\ UNCHANGED handshake /\ Continue
    \/ /\ record = "hello" /\ tlsState = "Connecting"
       /\ handshake' = handshake - 1
       /\ tlsState' = IF handshake = 1 THEN "Connected" ELSE tlsState
       /\ UNCHANGED <<tlsUp, receiving, ended>>
    \/ /\ record = "data" /\ tlsState = "Connected"
       /\ tlsUp' = tlsUp + 1 /\ UNCHANGED handshake /\ Continue
    \/ /\ \/ record \in {"bad", "notify"}
          \/ record = "hello" /\ tlsState = "Connected"
          \/ record = "data" /\ tlsState = "Connecting"
       /\ UNCHANGED <<tlsUp, handshake>> /\ Finish

\* doRecv() of OpenSSL: one message of the queue after the other.  An alert stops the queue.
RecvOpenssl ==
    /\ receiving /\ library = "openssl"
    /\ IF mIncomingQueue # <<>>
       THEN /\ Handle(Head(mIncomingQueue))
            /\ mIncomingQueue' = Tail(mIncomingQueue)
            /\ queueStopped' = (queueStopped \/ Head(mIncomingQueue) \in {"bad", "notify"})
       ELSE /\ IF queueStopped THEN Finish ELSE ReturnFrom
            /\ UNCHANGED <<mIncomingQueue, queueStopped, handshake, tlsUp>>
    /\ UNCHANGED same

\* doRecv() and ReadCallback() of GnuTLS: the library pulls; without input it says EAGAIN, at the
\* end of the queue the connection is terminated.  Without a check of the state, a doRecv() after
\* the end runs the last lines again.
RecvGnutls ==
    /\ receiving /\ library = "gnutls"
    /\ IF tlsState \notin {"Connecting", "Connected"}
       THEN Finish /\ UNCHANGED <<mIncomingQueue, handshake, tlsUp>>
       ELSE IF mIncomingQueue # <<>>
       THEN Handle(Head(mIncomingQueue)) /\ mIncomingQueue' = Tail(mIncomingQueue)
       ELSE (IF queueStopped THEN Finish ELSE ReturnFrom) /\ UNCHANGED <<mIncomingQueue, handshake, tlsUp>>
    /\ UNCHANGED <<same, queueStopped>>

\* doRecv() and ReadCallback() of Mbed TLS.
RecvMbedtls ==
    /\ receiving /\ library = "mbedtls"
    /\ IF mIncomingQueue # <<>>
       THEN Handle(Head(mIncomingQueue)) /\ mIncomingQueue' = Tail(mIncomingQueue)
       ELSE (IF queueStopped THEN Finish ELSE ReturnFrom) /\ UNCHANGED <<mIncomingQueue, handshake, tlsUp>>
    /\ UNCHANGED <<same, queueStopped>>

DoRecv == Begin \/ RecvOpenssl \/ RecvGnutls \/ RecvMbedtls

TlsNext ==
    \/ StartOpenssl \/ StartOther \/ LowerEnds \/ TlsStop \/ DoRecv
    \/ \E record \in {"hello", "data", "idle", "notify", "bad"} : TlsIncoming(record)

TlsFairness == WF_tlsVars(DoRecv)

TlsSpec == TlsInit /\ [][TlsNext]_tlsVars /\ TlsFairness

-----------------------------------------------------------------------------
Standing == tlsState \in {"Connecting", "Connected"}

(***************************************************************************)
(* No message waits: what incoming() queued is taken by a doRecv() while   *)
(* the connection stands, although a request is not repeated while one is  *)
(* pending, and the end of the lower connection is noticed the same way.   *)
(* The end comes once: recv(nullptr) is called at most once, when the      *)
(* connection was up, and leaves the state Disconnected (GnuTLS may fail   *)
(* after it).                                                              *)
(***************************************************************************)
RecordsTaken ==
    /\ mIncomingQueue # <<>> ~> (mIncomingQueue = <<>> \/ ~Standing)
    /\ (registered /\ queueStopped) ~> ~Standing
    /\ [](/\ ended <= 1
          /\ ended = 1 => ~Standing /\ handshake = 0
          /\ library # "gnutls" /\ ended = 1 => tlsState = "Disconnected")
=============================================================================
