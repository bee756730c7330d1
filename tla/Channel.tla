------------------------------- MODULE Channel -------------------------------
(***************************************************************************)
(* The receiving side of one data channel and its callbacks: impl::Channel *)
(* (src/impl/channel.cpp), impl::DataChannel (src/impl/datachannel.cpp),   *)
(* the pending data channels of impl::PeerConnection, and the stored       *)
(* callbacks of include/rtc/utils.hpp.                                     *)
(*                                                                         *)
(* Three threads work on a channel without a common lock: the processor of *)
(* the SCTP transport (messages, OPEN, ACK, stream resets), the processor  *)
(* of the PeerConnection (opening negotiated channels, announcing pending  *)
(* ones, closing), and the application.  todo[t] is what thread t has left *)
(* to execute of the handler it is in: a step executes its head, which may *)
(* put further calls in front of the rest.  A user callback runs under the *)
(* lock of its synchronized_callback and is one step.                      *)
(***************************************************************************)
EXTENDS Naturals, Sequences, SequencesExt

CONSTANTS Kinds,      \* "negotiated", "outgoing" (in-band), "incoming" (opened by the peer)
          MessageCount,       \* messages 1 .. MessageCount arrive, in this order
          QueueLimit, \* RECV_QUEUE_LIMIT
          Closers     \* the threads that may close the channel

ASSUME ChannelAssumption ==
    /\ Kinds \subseteq {"negotiated", "outgoing", "incoming"}
    /\ MessageCount \in Nat
    /\ QueueLimit \in Nat \ {0}
    /\ Closers \subseteq {"sctp", "pc", "app"}

Threads == {"sctp", "pc", "app"}

\* What a callback of the application can be told.
Open == <<"open", 0>>
Closed == <<"closed", 0>>
Message(m) == <<"message", m>>

VARIABLES kind,
          exists,          \* the impl::DataChannel has been created
          handle,          \* "none", "user" (the application has the rtc::DataChannel) or "deleted"
          todo,            \* todo[t]: the calls thread t still has to execute
          arrived,         \* number of messages handed to incoming()
          mRecvQueue,
          mOpenTriggered, mIsOpen, mIsClosed,
          openCallback,    \* "none", "pc" (triggerDataChannel) or "user"
          openStored,      \* a missed call is stored in openCallback
          closedCallback, closedStored,
          availableCallback, availableStored,
          notified,        \* the application was told that messages are available
          messageCallback,
          dataChannelCallback, \* PeerConnection::onDataChannel is set
          mPendingDataChannels, \* the channel waits to be announced
          events,          \* what the application's callbacks have seen
          lost,            \* messages popped for a callback that was gone
          late             \* onMessage() or onDataChannel() was not done when the channel opened

cbs == <<openCallback, openStored, closedCallback, closedStored, availableCallback,
         availableStored, notified, messageCallback>>
flags == <<mOpenTriggered, mIsOpen, mIsClosed>>
pending == <<dataChannelCallback, mPendingDataChannels>>
vars == <<kind, exists, handle, todo, arrived, mRecvQueue, flags, cbs, pending, events, lost, late>>

Init ==
    /\ kind \in Kinds
    /\ exists = (kind # "incoming")
    /\ handle = IF exists THEN "user" ELSE "none"
    /\ todo = [t \in Threads |-> <<>>]
    /\ arrived = 0
    /\ mRecvQueue = <<>>
    /\ mOpenTriggered = FALSE
    /\ mIsOpen = FALSE
    /\ mIsClosed = FALSE
    /\ openCallback = "none"
    /\ openStored = FALSE
    /\ closedCallback = FALSE
    /\ closedStored = FALSE
    /\ availableCallback = FALSE
    /\ availableStored = FALSE
    /\ notified = FALSE
    /\ messageCallback = FALSE
    /\ dataChannelCallback = FALSE
    /\ mPendingDataChannels = FALSE
    /\ events = <<>>
    /\ lost = {}
    /\ late = FALSE

-----------------------------------------------------------------------------
(* Handlers.  Each is entered by a thread that is in no other one.          *)

Enter(t, calls) ==
    /\ todo[t] = <<>>
    /\ todo' = [todo EXCEPT ![t] = calls]

\* DataChannel::open() of a user-negotiated channel, from openDataChannels().
OpenNegotiated ==
    /\ kind = "negotiated" /\ ~mIsClosed /\ ~mIsOpen
    /\ mIsOpen' = TRUE
    /\ Enter("pc", << <<"triggerOpen">> >>)
    /\ UNCHANGED <<kind, exists, handle, arrived, mRecvQueue, mOpenTriggered, mIsClosed, cbs, pending,
                   events, lost, late>>

\* The application is inside onMessage(), or onDataChannel() is not handled yet.
Registering == todo["app"] # <<>> \/ todo["pc"] # <<>>

\* The ACK of an outgoing channel: incoming() ignores it once the channel is closed.
RecvAck ==
    /\ kind = "outgoing" /\ ~mIsClosed /\ ~mIsOpen
    /\ mIsOpen' = TRUE
    /\ late' = (late \/ Registering)
    /\ Enter("sctp", << <<"triggerOpen">> >>)
    /\ UNCHANGED <<kind, exists, handle, arrived, mRecvQueue, mOpenTriggered, mIsClosed, cbs, pending,
                   events, lost>>

\* An OPEN: forwardMessage() creates the channel, processOpenMessage() opens it.
RecvOpen ==
    /\ kind = "incoming" /\ ~exists
    /\ exists' = TRUE
    /\ openCallback' = "pc"
    /\ mIsOpen' = TRUE
    /\ late' = (late \/ Registering)
    /\ Enter("sctp", << <<"triggerOpen">> >>)
    /\ UNCHANGED <<kind, handle, arrived, mRecvQueue, mOpenTriggered, mIsClosed, openStored,
                   closedCallback, closedStored, availableCallback, availableStored, notified,
                   messageCallback, pending, events, lost>>

\* incoming() with a String or Binary message.  The peer of an in-band channel
\* sends after its OPEN or its ACK, which is ordered before.
RecvMessage ==
    /\ exists /\ ~mIsClosed /\ arrived < MessageCount
    /\ kind = "negotiated" \/ mIsOpen
    /\ arrived' = arrived + 1
    /\ Enter("sctp", << <<"push", arrived + 1>>, <<"available">> >>)
    /\ UNCHANGED <<kind, exists, handle, mRecvQueue, flags, cbs, pending, events, lost, late>>

\* close() by the application, by a stream reset, or by the PeerConnection.  On a
\* closed channel it does nothing, but two threads may both find it open.
Close(t) ==
    /\ exists /\ ~mIsClosed
    /\ t = "app" => handle = "user"
    /\ Enter(t, << <<"close">> >>)
    /\ UNCHANGED <<kind, exists, handle, arrived, mRecvQueue, flags, cbs, pending, events, lost, late>>

\* rtcDelete(): close(), then ~Channel() resets the callbacks.
Delete ==
    /\ handle = "user"
    /\ Enter("app", << <<"close">>, <<"reset">>, <<"deleted">> >>)
    /\ UNCHANGED <<kind, exists, handle, arrived, mRecvQueue, flags, cbs, pending, events, lost, late>>

\* PeerConnection::onDataChannel(): the pending channels are announced by its processor.
OnDataChannel ==
    /\ ~dataChannelCallback
    /\ dataChannelCallback' = TRUE
    /\ late' = (late \/ mIsOpen)
    /\ Enter("pc", << <<"pending">> >>)
    /\ UNCHANGED <<kind, exists, handle, arrived, mRecvQueue, flags, cbs, mPendingDataChannels,
                   events, lost>>

\* Assigning a stored callback replays the call that was missed.
SetOpen(set) ==
    IF set
    THEN /\ openCallback' = "user"
         /\ openStored' = FALSE
    ELSE UNCHANGED <<openCallback, openStored>>

SetClosed(set) ==
    IF set
    THEN /\ closedCallback' = TRUE
         /\ closedStored' = FALSE
    ELSE UNCHANGED <<closedCallback, closedStored>>

Replayed(set, stored, what) == IF set /\ stored THEN <<what>> ELSE <<>>

\* Channel::onOpen() and Channel::onClosed().
OnOpen ==
    /\ handle = "user" /\ todo["app"] = <<>> /\ openCallback # "user"
    /\ SetOpen(TRUE)
    /\ events' = events \o Replayed(TRUE, openStored, Open)
    /\ UNCHANGED <<kind, exists, handle, todo, arrived, mRecvQueue, flags, closedCallback, closedStored,
                   availableCallback, availableStored, notified, messageCallback, pending, lost, late>>

OnClosed ==
    /\ handle = "user" /\ todo["app"] = <<>> /\ ~closedCallback
    /\ SetClosed(TRUE)
    /\ events' = events \o Replayed(TRUE, closedStored, Closed)
    /\ UNCHANGED <<kind, exists, handle, todo, arrived, mRecvQueue, flags, openCallback, openStored,
                   availableCallback, availableStored, notified, messageCallback, pending, lost, late>>

\* Channel::onAvailable(): the application polls with receive() when it is told to.
OnAvailable ==
    /\ handle = "user" /\ todo["app"] = <<>> /\ ~availableCallback /\ ~messageCallback
    /\ availableCallback' = TRUE
    /\ availableStored' = FALSE
    /\ notified' = (notified \/ availableStored)
    /\ UNCHANGED <<kind, exists, handle, todo, arrived, mRecvQueue, flags, openCallback, openStored,
                   closedCallback, closedStored, messageCallback, pending, events, lost, late>>

\* Channel::onMessage(): sets the callback, then flushes on the caller's thread.
OnMessage ==
    /\ handle = "user" /\ ~messageCallback /\ ~availableCallback
    /\ messageCallback' = TRUE
    /\ late' = (late \/ mIsOpen)
    /\ Enter("app", << <<"flush">> >>)
    /\ UNCHANGED <<kind, exists, handle, arrived, mRecvQueue, flags, openCallback, openStored,
                   closedCallback, closedStored, availableCallback, availableStored, notified,
                   pending, events, lost>>

\* Channel::receive(), until it returns nothing.
Receive ==
    /\ notified /\ todo["app"] = <<>>
    /\ \/ /\ mRecvQueue # <<>>
          /\ mRecvQueue' = Tail(mRecvQueue)
          /\ events' = Append(events, Message(Head(mRecvQueue)))
          /\ UNCHANGED notified
       \/ /\ mRecvQueue = <<>>
          /\ notified' = FALSE
          /\ UNCHANGED <<mRecvQueue, events>>
    /\ UNCHANGED <<kind, exists, handle, todo, arrived, flags, openCallback, openStored, closedCallback,
                   closedStored, availableCallback, availableStored, messageCallback, pending,
                   lost, late>>

-----------------------------------------------------------------------------
(* The calls inside the handlers.                                           *)

Step(t, call) == todo[t] # <<>> /\ Head(todo[t])[1] = call

Then(t, calls) == todo' = [todo EXCEPT ![t] = calls \o Tail(@)]

\* Mutant: messages that arrived before are not looked at when the channel opens.
OpenedQuietly == << <<"openCallback">> >>

Opened == << <<"openCallback">>, <<"flush">> >>

\* Channel::triggerOpen()
TriggerOpen(t) ==
    /\ Step(t, "triggerOpen")
    /\ mOpenTriggered' = TRUE
    /\ Then(t, Opened)
    /\ UNCHANGED <<kind, exists, handle, arrived, mRecvQueue, mIsOpen, mIsClosed, cbs, pending,
                   events, lost, late>>

\* PeerConnection::triggerDataChannel(): resetOpenCallback(), then the channel is pending.
Announce ==
    /\ mOpenTriggered' = FALSE
    /\ openCallback' = "none"
    /\ mPendingDataChannels' = TRUE

\* Mutant: the pending channels are left to the PeerConnection's processor.
AnnounceFromPc(t) ==
    todo' = [todo EXCEPT ![t] = Tail(@), !["pc"] = Append(@, <<"pending">>)]

\* triggerDataChannel() announces the pending channels itself.
AnnounceFrom(t) == Then(t, << <<"pending">> >>)

\* openCallback(): the user's, the internal one of a peer-opened channel, or stored.
OpenCallback(t) ==
    /\ Step(t, "openCallback")
    /\ \/ /\ openCallback = "pc"
          /\ Announce
          /\ AnnounceFrom(t)
          /\ UNCHANGED <<openStored, events>>
       \/ /\ openCallback = "user"
          /\ events' = Append(events, Open)
          /\ Then(t, <<>>)
          /\ UNCHANGED <<mOpenTriggered, openCallback, openStored, mPendingDataChannels>>
       \/ /\ openCallback = "none"
          /\ openStored' = TRUE
          /\ Then(t, <<>>)
          /\ UNCHANGED <<mOpenTriggered, openCallback, mPendingDataChannels, events>>
    /\ UNCHANGED <<kind, exists, handle, arrived, mRecvQueue, mIsOpen, mIsClosed, closedCallback,
                   closedStored, availableCallback, availableStored, notified, messageCallback,
                   dataChannelCallback, lost, late>>

\* triggerPendingDataChannels(): the application is handed the channel and may
\* register callbacks before the channel is opened for it.
TriggerPending(t) ==
    /\ Step(t, "pending")
    /\ \/ /\ dataChannelCallback /\ mPendingDataChannels
          /\ mPendingDataChannels' = FALSE
          /\ handle' = "user"
          /\ \E open, closed, message \in BOOLEAN :
                /\ SetOpen(open)
                /\ SetClosed(closed)
                /\ messageCallback' = (messageCallback \/ message)
                /\ events' = events \o Replayed(open, openStored, Open)
                                    \o Replayed(closed, closedStored, Closed)
                /\ Then(t, (IF message THEN << <<"flush">> >> ELSE <<>>)
                              \o << <<"triggerOpen">>, <<"pending">> >>)
       \/ /\ ~(dataChannelCallback /\ mPendingDataChannels)
          /\ Then(t, <<>>)
          /\ UNCHANGED <<handle, openCallback, openStored, closedCallback, closedStored,
                         messageCallback, mPendingDataChannels, events>>
    /\ UNCHANGED <<kind, exists, arrived, mRecvQueue, flags, availableCallback, availableStored,
                   notified, dataChannelCallback, lost, late>>

\* Queue::push() waits while the queue is full.
Push(t) ==
    /\ Step(t, "push")
    /\ Len(mRecvQueue) < QueueLimit
    /\ mRecvQueue' = Append(mRecvQueue, Head(todo[t])[2])
    /\ Then(t, <<>>)
    /\ UNCHANGED <<kind, exists, handle, arrived, flags, cbs, pending, events, lost, late>>

\* Mutant: the application is told again at every message but the first.
AvailableLater == Len(mRecvQueue) > 1

\* triggerAvailable(): only the first message of a batch is announced.
AvailableFirst == Len(mRecvQueue) = 1

TriggerAvailable(t) ==
    /\ Step(t, "available")
    /\ notified' = (notified \/ (AvailableFirst /\ availableCallback))
    /\ availableStored' = (availableStored \/ (AvailableFirst /\ ~availableCallback))
    /\ Then(t, << <<"flush">> >>)
    /\ UNCHANGED <<kind, exists, handle, arrived, mRecvQueue, flags, openCallback, openStored,
                   closedCallback, closedStored, availableCallback, messageCallback, pending,
                   events, lost, late>>

\* The message is popped, handed to the callback, and the loop goes on.
FlushNext(m) == << <<"deliver", m>>, <<"loop">> >>

\* flushPendingMessages(): nothing before triggerOpen(), then message by message.
Flush(t) ==
    /\ \/ /\ Step(t, "flush")
          /\ Then(t, IF mOpenTriggered THEN << <<"loop">> >> ELSE <<>>)
          /\ UNCHANGED mRecvQueue
       \/ /\ Step(t, "loop")
          /\ messageCallback /\ mRecvQueue # <<>>
          /\ mRecvQueue' = Tail(mRecvQueue)
          /\ Then(t, FlushNext(Head(mRecvQueue)))
       \/ /\ Step(t, "loop")
          /\ ~messageCallback \/ mRecvQueue = <<>>
          /\ Then(t, <<>>)
          /\ UNCHANGED mRecvQueue
    /\ UNCHANGED <<kind, exists, handle, arrived, flags, cbs, pending, events, lost, late>>

\* messageCallback(next), if it is still set.
Deliver(t) ==
    /\ Step(t, "deliver")
    /\ IF messageCallback
       THEN events' = Append(events, Message(Head(todo[t])[2])) /\ UNCHANGED lost
       ELSE lost' = lost \cup {Head(todo[t])[2]} /\ UNCHANGED events
    /\ Then(t, <<>>)
    /\ UNCHANGED <<kind, exists, handle, arrived, mRecvQueue, flags, cbs, pending, late>>

\* Mutant: every caller of close() triggers the closed callback.
CloseAgain == << <<"closedCallback">>, <<"reset">> >>

\* DataChannel::close() after mIsClosed.exchange(true).
CloseOnce == IF mIsClosed THEN <<>> ELSE << <<"closedCallback">>, <<"reset">> >>

DoClose(t) ==
    /\ Step(t, "close")
    /\ mIsClosed' = TRUE
    /\ Then(t, CloseOnce)
    /\ UNCHANGED <<kind, exists, handle, arrived, mRecvQueue, mOpenTriggered, mIsOpen, cbs, pending,
                   events, lost, late>>

\* Channel::triggerClosed()
ClosedCallback(t) ==
    /\ Step(t, "closedCallback")
    /\ closedStored' = (closedStored \/ ~closedCallback)
    /\ events' = IF closedCallback THEN Append(events, Closed) ELSE events
    /\ Then(t, <<>>)
    /\ UNCHANGED <<kind, exists, handle, arrived, mRecvQueue, flags, openCallback, openStored,
                   closedCallback, availableCallback, availableStored, notified, messageCallback,
                   pending, lost, late>>

\* Mutant: the message callback survives resetCallbacks().
ResetKeepsMessage == UNCHANGED messageCallback

ResetMessage == messageCallback' = FALSE

\* Channel::resetCallbacks()
ResetCallbacks(t) ==
    /\ Step(t, "reset")
    /\ mOpenTriggered' = FALSE
    /\ openCallback' = "none"
    /\ closedCallback' = FALSE
    /\ availableCallback' = FALSE
    /\ ResetMessage
    /\ Then(t, <<>>)
    /\ UNCHANGED <<kind, exists, handle, arrived, mRecvQueue, mIsOpen, mIsClosed, openStored,
                   closedStored, availableStored, notified, pending, events, lost, late>>

\* rtcDelete() returns.
Deleted(t) ==
    /\ Step(t, "deleted")
    /\ handle' = "deleted"
    /\ notified' = FALSE
    /\ Then(t, <<>>)
    /\ UNCHANGED <<kind, exists, arrived, mRecvQueue, flags, openCallback, openStored, closedCallback,
                   closedStored, availableCallback, availableStored, messageCallback, pending,
                   events, lost, late>>

Run(t) ==
    \/ TriggerOpen(t) \/ OpenCallback(t) \/ TriggerPending(t)
    \/ Push(t) \/ TriggerAvailable(t) \/ Flush(t) \/ Deliver(t)
    \/ DoClose(t) \/ ClosedCallback(t) \/ ResetCallbacks(t) \/ Deleted(t)

Next ==
    \/ OpenNegotiated \/ RecvAck \/ RecvOpen \/ RecvMessage
    \/ Delete \/ OnDataChannel \/ OnOpen \/ OnClosed \/ OnAvailable \/ OnMessage \/ Receive
    \/ \E t \in Closers : Close(t)
    \/ \E t \in Threads : Run(t)

Spec == Init /\ [][Next]_vars

\* The threads make progress; an application that was told to polls.
Fairness == WF_vars(Receive) /\ \A t \in Threads : WF_vars(Run(t))

FairSpec == Spec /\ Fairness

-----------------------------------------------------------------------------
Idle == \A t \in Threads : todo[t] = <<>>

\* No lost wakeup between the three threads: when none of them is in a handler, no message is left
\* in the queue of an open channel with a message callback, and an application that polls has been
\* told of those it has not read.
NothingStranded ==
    Idle /\ mRecvQueue # <<>> =>
        /\ ~(mOpenTriggered /\ messageCallback)
        /\ availableCallback => notified

MessagesInOrder ==
    \A i, j \in 1..Len(events) :
       i < j /\ events[i][1] = "message" /\ events[j][1] = "message" => events[i][2] < events[j][2]

\* The open callback and the closed callback are called once at most, although several threads may
\* open and close the channel, no message is seen twice, and in-band channels whose callbacks were
\* registered before they opened deliver their messages in the order in which they arrived.
EventsOrderly ==
    /\ \A i, j \in 1..Len(events) : events[i] = events[j] => i = j
    /\ kind # "negotiated" /\ ~late => MessagesInOrder

\* DOC.md:571, "no other callback will be called for id after it returns": the
\* application's callbacks stay silent once rtcDelete() has returned.
QuietAfterDelete == [][handle = "deleted" => events' = events]_vars

Reading == (messageCallback /\ mOpenTriggered) \/ notified

\* The SCTP thread, which all channels of a connection share, comes back from
\* Queue::push() unless the queue is full and the application does not read it.
SctpThreadReturns ==
    []<>(todo["sctp"] = <<>>) \/ <>[](Len(mRecvQueue) = QueueLimit /\ ~Reading)
=============================================================================
