---------------------------- MODULE SctpHandshake ----------------------------
(***************************************************************************)
(* The wait for the local INIT in impl::SctpTransport (sctptransport.cpp). *)
(* incoming() runs on the thread of the lower transport and blocks until   *)
(* handleWrite() has sent a packet, or the transport has failed.  close()  *)
(* and the destructor release it, and the destructor then unregisters      *)
(* incoming(), which waits for the call in progress: the lower transport   *)
(* calls it under the lock of its receive callback.                        *)
(*                                                                         *)
(* The condition variable is explicit: a thread that found the predicate   *)
(* false blocks in a later step, which releases mWriteMutex; only a        *)
(* blocked thread is woken by notify_all().                                *)
(***************************************************************************)
EXTENDS Naturals

VARIABLES state,
          mWrittenOnce,
          mWriteMutex,  \* the thread that holds it: "none" or "lower"
          written,      \* a packet of this side has been sent
          registered,   \* the lower transport calls incoming()
          lower,        \* where the thread of the lower transport is in incoming()
          message,      \* what it was called with: "packet" or "null"
          early,        \* a packet reached the stack before the local INIT was sent
          closing,      \* where close() is
          destroying    \* where the destructor is

handshakeVars == <<state, mWrittenOnce, mWriteMutex, written, registered, lower, message, early, closing,
          destroying>>

HandshakeInit ==
    /\ state = "Connecting"
    /\ mWrittenOnce = FALSE
    /\ mWriteMutex = "none"
    /\ written = FALSE
    /\ registered = TRUE
    /\ lower = "idle"
    /\ message = "packet"
    /\ early = FALSE
    /\ closing = "no"
    /\ destroying = "no"

-----------------------------------------------------------------------------
(* incoming().                                                              *)

Lower(from, to) ==
    /\ lower = from
    /\ lower' = to

\* The lower transport calls incoming(); nothing is received after a null message.
Incoming ==
    /\ registered /\ state # "Disconnected"
    /\ Lower("idle", IF mWrittenOnce THEN "proceed" ELSE "lock")
    /\ message' \in {"packet", "null"}
    /\ UNCHANGED <<state, mWrittenOnce, mWriteMutex, written, registered, early, closing, destroying>>

LockWrite ==
    /\ mWriteMutex = "none"
    /\ mWriteMutex' = "lower"
    /\ Lower("lock", "test")
    /\ UNCHANGED <<state, mWrittenOnce, written, registered, message, early, closing, destroying>>

\* Mutant: incoming() does not wait while the transport connects.
MayProceedConnecting == mWrittenOnce \/ state \in {"Failed", "Connecting"}

\* The predicate of the wait.
MayProceed == mWrittenOnce \/ state = "Failed"

TestWritten ==
    /\ IF MayProceed
       THEN /\ Lower("test", "proceed")
            /\ mWriteMutex' = "none"
       ELSE /\ Lower("test", "block")
            /\ UNCHANGED mWriteMutex
    /\ UNCHANGED <<state, mWrittenOnce, written, registered, message, early, closing, destroying>>

Block ==
    /\ Lower("block", "blocked")
    /\ mWriteMutex' = "none"
    /\ UNCHANGED <<state, mWrittenOnce, written, registered, message, early, closing, destroying>>

\* A condition variable may wake a thread for no reason.
WakeSpuriously ==
    /\ Lower("blocked", "lock")
    /\ UNCHANGED <<state, mWrittenOnce, mWriteMutex, written, registered, message, early, closing,
                   destroying>>

\* A failed transport ignores the message; a null one ends the connection; a
\* packet is given to the stack.
Proceed ==
    /\ Lower("proceed", "idle")
    /\ state' = IF state # "Failed" /\ message = "null" THEN "Disconnected" ELSE state
    /\ early' = (early \/ (state # "Failed" /\ message = "packet" /\ ~written))
    /\ UNCHANGED <<mWrittenOnce, mWriteMutex, written, registered, message, closing, destroying>>

NotifyAll == lower' = IF lower = "blocked" THEN "lock" ELSE lower

-----------------------------------------------------------------------------
(* The other threads.                                                       *)

\* Mutant: the packet is sent and reported without mWriteMutex.
HandleWriteUnlocked ==
    /\ state # "Failed" /\ destroying = "no"
    /\ written' = TRUE
    /\ mWrittenOnce' = TRUE
    /\ NotifyAll
    /\ UNCHANGED <<state, mWriteMutex, registered, message, early, closing, destroying>>

\* handleWrite(): a packet could be sent.  When it cannot nothing changes.
HandleWrite ==
    /\ state # "Failed" /\ destroying = "no"
    /\ mWriteMutex = "none"
    /\ written' = TRUE
    /\ mWrittenOnce' = TRUE
    /\ NotifyAll
    /\ UNCHANGED <<state, mWriteMutex, registered, message, early, closing, destroying>>

\* close() of a transport that is still connecting.
CloseConnecting ==
    /\ closing = "no" /\ destroying = "no"
    /\ IF state = "Connecting"
       THEN state' = "Failed" /\ closing' = "notify"
       ELSE state' = state /\ closing' = "done"
    /\ UNCHANGED <<mWrittenOnce, mWriteMutex, written, registered, lower, message, early, destroying>>

CloseNotify ==
    /\ closing = "notify"
    /\ closing' = "done"
    /\ NotifyAll
    /\ UNCHANGED <<state, mWrittenOnce, mWriteMutex, written, registered, message, early, destroying>>

\* The destructor runs after close(), or alone when start() has thrown.
Destroy ==
    /\ closing \in {"no", "done"} /\ destroying = "no"
    /\ destroying' = "notify"
    /\ mWrittenOnce' = TRUE
    /\ UNCHANGED <<state, mWriteMutex, written, registered, lower, message, early, closing>>

DestroyNotify ==
    /\ destroying = "notify"
    /\ destroying' = "unregister"
    /\ NotifyAll
    /\ UNCHANGED <<state, mWrittenOnce, mWriteMutex, written, registered, message, early, closing>>

Unregister ==
    /\ destroying = "unregister"
    /\ lower = "idle"
    /\ registered' = FALSE
    /\ destroying' = "done"
    /\ UNCHANGED <<state, mWrittenOnce, mWriteMutex, written, lower, message, early, closing>>

InIncoming == LockWrite \/ TestWritten \/ Block \/ Proceed

HandshakeNext ==
    \/ Incoming \/ InIncoming \/ WakeSpuriously
    \/ HandleWrite
    \/ CloseConnecting \/ CloseNotify
    \/ Destroy \/ DestroyNotify \/ Unregister

HandshakeSpec == HandshakeInit /\ [][HandshakeNext]_handshakeVars

\* Threads go on with what they have begun.  unregisterIncoming() gets the lock
\* of the callback between two messages; whether a packet can be sent at all is
\* up to the network.
HandshakeFairSpec ==
    /\ HandshakeSpec
    /\ WF_handshakeVars(InIncoming)
    /\ WF_handshakeVars(CloseNotify)
    /\ WF_handshakeVars(DestroyNotify)
    /\ SF_handshakeVars(Unregister)

-----------------------------------------------------------------------------
(* Properties.                                                              *)

\* incoming(): the stack gets no packet before the local INIT was sent, except from a transport that
\* is being destroyed; and once a packet was sent no call of incoming() is or becomes blocked: no
\* notification falls between its test and its wait, as handleWrite() holds mWriteMutex.
WrittenReleases ==
    /\ early => destroying # "no"
    /\ written => lower \notin {"block", "blocked"}

\* The destructor: "we need to make sure the thread from lower layers is not
\* blocked in incoming() by the WrittenOnce condition".  It sets mWrittenOnce and
\* notifies without mWriteMutex, so that a thread between its test and its wait
\* misses both, and unregisterIncoming() waits for it.
DestructorReturns == (destroying = "notify") ~> (destroying = "done")
=============================================================================
