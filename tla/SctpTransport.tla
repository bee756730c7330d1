---------------------------- MODULE SctpTransport ----------------------------
(***************************************************************************)
(* The sending side of impl::SctpTransport (src/impl/sctptransport.cpp)    *)
(* and the scheduling of its receptions: the send queue in front of the    *)
(* SCTP stack, the buffered amounts, the upcalls of the stack, the two     *)
(* counters that keep at most one doRecv() and one doFlush() scheduled,    *)
(* and the shutdown.                                                       *)
(*                                                                         *)
(* mSendMutex is held by one thread at a time and is recursive: the        *)
(* buffered amount callback is synchronous, and the application may send   *)
(* or close a channel from it.  close() takes no lock.  todo[t] is what    *)
(* thread t has left to execute, its head first.  The stack itself         *)
(* (usrsctp) is external: a send buffer with room for Room messages, and a *)
(* sequence of notifications and messages that doRecv() reads.             *)
(***************************************************************************)
EXTENDS Naturals, Sequences, SequencesExt, FiniteSetsExt

CONSTANTS Streams,
          Sizes,        \* message sizes, 0 for an empty message
          MessageCount, \* bound on the messages and stream resets submitted
          Room,         \* messages the send buffer of the stack can hold
          MaxInput,     \* bound on the messages and dry events the stack gives to read
          MaxCloses,    \* calls of close(): by PeerConnection::close() and by the tear-down
          MaxCalls      \* bound on all of these together

ASSUME SctpAssumption ==
    /\ Sizes \subseteq Nat
    /\ MessageCount \in Nat
    /\ Room \in Nat \ {0}
    /\ MaxInput \in Nat
    /\ MaxCloses \in Nat
    /\ MaxCalls \in Nat

Threads == {"app", "proc", "stack", "closer"}

VARIABLES mState,        \* Transport::mState
          mNegotiatedStreamsCount, \* it has a value: data channels may use the transport
          assoc,         \* the association of the stack: "none", "up" or "down"
          room,          \* free places in the send buffer of the stack
          inbox,         \* what doRecv() can read
          inputs,        \* number of messages and dry events put in inbox
          todo,          \* todo[t]: the calls thread t still has to execute
          result,        \* what the last trySendQueue() returned
          tasks,         \* the tasks of mProcessor that have not begun
          mPendingRecvCount, mPendingFlushCount,
          mSendQueue, mStopping, mSendShutdown,
          mBufferedAmount,
          submitted,     \* number of messages and resets submitted
          closes,        \* number of calls of close()
          accepted,      \* what was sent or queued, in the order of acceptance
          wire,          \* what the stack was given, in order
          dropped        \* what was pushed to the stopped queue

conn == <<mState, mNegotiatedStreamsCount>>
stack == <<assoc, room, inbox, inputs>>
queue == <<mSendQueue, mStopping, mSendShutdown, mBufferedAmount, result>>
counts == <<mPendingRecvCount, mPendingFlushCount>>
history == <<submitted, closes, accepted, wire, dropped>>
vars == <<conn, stack, todo, queue, tasks, counts, history>>

MayCall == submitted + inputs + closes < MaxCalls

Init ==
    /\ mState = "Connecting"
    /\ mNegotiatedStreamsCount = FALSE
    /\ assoc = "none"
    /\ room = Room
    /\ inbox = <<>>
    /\ inputs = 0
    /\ todo = [t \in Threads |-> <<>>]
    /\ result = FALSE
    /\ tasks = <<>>
    /\ mPendingRecvCount = 0
    /\ mPendingFlushCount = 0
    /\ mSendQueue = <<>>
    /\ mStopping = FALSE
    /\ mSendShutdown = FALSE
    /\ mBufferedAmount = [s \in Streams |-> 0]
    /\ submitted = 0
    /\ closes = 0
    /\ accepted = <<>>
    /\ wire = <<>>
    /\ dropped = {}

-----------------------------------------------------------------------------
(* Control.                                                                 *)

IsAt(t, call) == todo[t] # <<>> /\ Head(todo[t])[1] = call

\* The ends of the lock_guards of thread t: "leave" also stops an exception,
\* which flush(), doFlush(), the buffered amount callback or the application catches.
Scopes(t) == {i \in DOMAIN todo[t] : todo[t][i][1] = "leave"}

MayLock(t) == \A u \in Threads \ {t} : Scopes(u) = {}

\* The head of thread t is done; calls come before the rest.  The lock is
\* released with the last call made under it.
Then(t, calls) ==
    LET rest == calls \o Tail(todo[t])
        left == rest # <<>> /\ Head(rest)[1] = "leave"
    IN  todo' = [todo EXCEPT ![t] = IF left THEN Tail(rest) ELSE rest]

Throw(t) == todo' = [todo EXCEPT ![t] = SubSeq(@, Min(Scopes(t)) + 1, Len(@))]

Message(id, s, z) == [id |-> id, stream |-> s, size |-> z, reset |-> FALSE]
Reset(id, s) == [id |-> id, stream |-> s, size |-> 0, reset |-> TRUE]

-----------------------------------------------------------------------------
(* The stack.  It calls UpcallCallback() whenever it has something to tell. *)

\* SCTP_ASSOC_CHANGE with SCTP_COMM_UP.
AssociationUp ==
    /\ assoc = "none"
    /\ assoc' = "up"
    /\ inbox' = Append(inbox, "up")
    /\ UNCHANGED <<room, inputs>>

\* Any other SCTP_ASSOC_CHANGE: the peer shut down, aborted or cannot be reached.
AssociationDown ==
    /\ assoc # "down"
    /\ assoc' = "down"
    /\ inbox' = Append(inbox, "down")
    /\ UNCHANGED <<room, inputs>>

\* A message, or SCTP_SENDER_DRY_EVENT.
Input ==
    /\ assoc = "up" /\ inputs < MaxInput /\ MayCall
    /\ \E item \in {"data", "dry"} : inbox' = Append(inbox, item)
    /\ inputs' = inputs + 1
    /\ UNCHANGED <<assoc, room>>

\* The peer has acknowledged a message: there is room again.
Acknowledge ==
    /\ assoc = "up" /\ room < Room
    /\ room' = room + 1
    /\ UNCHANGED <<assoc, inbox, inputs>>

Stack(Event) ==
    /\ todo["stack"] = <<>>
    /\ Event
    /\ todo' = [todo EXCEPT !["stack"] = << <<"upcall">> >>]
    /\ UNCHANGED <<conn, queue, tasks, counts, history>>

\* handleUpcall(): usrsctp_get_events() tells what is readable and writable now.
HandleUpcall ==
    /\ IsAt("stack", "upcall")
    /\ Then("stack", (IF inbox # <<>> THEN << <<"enqueueRecv">> >> ELSE <<>>)
                     \o (IF room > 0 THEN << <<"enqueueFlush">> >> ELSE <<>>))
    /\ UNCHANGED <<conn, stack, queue, tasks, counts, history>>

EnqueueRecv ==
    /\ IsAt("stack", "enqueueRecv")
    /\ IF mPendingRecvCount > 0
       THEN UNCHANGED <<mPendingRecvCount, tasks>>
       ELSE /\ mPendingRecvCount' = mPendingRecvCount + 1
            /\ tasks' = Append(tasks, "doRecv")
    /\ Then("stack", <<>>)
    /\ UNCHANGED <<conn, stack, queue, mPendingFlushCount, history>>

EnqueueFlush ==
    /\ IsAt("stack", "enqueueFlush")
    /\ IF mPendingFlushCount > 0
       THEN UNCHANGED <<mPendingFlushCount, tasks>>
       ELSE /\ mPendingFlushCount' = mPendingFlushCount + 1
            /\ tasks' = Append(tasks, "doFlush")
    /\ Then("stack", <<>>)
    /\ UNCHANGED <<conn, stack, queue, mPendingRecvCount, history>>

-----------------------------------------------------------------------------
(* Sending.                                                                 *)

\* Thread t calls send(m), inside the calls it is making.
Send(t, m) ==
    /\ MayLock(t)
    /\ todo' = [todo EXCEPT ![t] = (IF mState = "Connected"
                                    THEN << <<"trySendQueue">>, <<"trySend", m>>, <<"leave">> >>
                                    ELSE <<>>) \o @]
    /\ UNCHANGED <<tasks, mSendQueue, accepted, dropped>>

\* Mutant: push() does not look at mStopping.
PushAlways(m) ==
    /\ mSendQueue' = Append(mSendQueue, m)
    /\ accepted' = Append(accepted, m)
    /\ UNCHANGED dropped

\* Queue::push(): a stopped queue drops the message without a word.
Push(m) ==
    IF mStopping
    THEN /\ dropped' = dropped \union {m}
         /\ UNCHANGED <<mSendQueue, accepted>>
    ELSE /\ mSendQueue' = Append(mSendQueue, m)
         /\ accepted' = Append(accepted, m)
         /\ UNCHANGED dropped

\* Thread t calls closeStream().
CloseStream(t, m) ==
    /\ MayLock(t)
    /\ Push(m)
    /\ tasks' = Append(tasks, "flush")
    /\ UNCHANGED todo

\* A data channel sends a message, or is closed and resets its stream.
Submit(t) ==
    /\ submitted < MessageCount /\ MayCall
    /\ submitted' = submitted + 1
    /\ \E s \in Streams :
         \/ \E z \in Sizes : Send(t, Message(submitted', s, z))
         \/ CloseStream(t, Reset(submitted', s))
    /\ UNCHANGED <<conn, stack, counts, mStopping, mSendShutdown, mBufferedAmount, result, closes, wire>>

AppSubmit ==
    /\ mNegotiatedStreamsCount
    /\ todo["app"] = <<>>
    /\ Submit("app")

\* The callback for a low buffered amount: the application may use the channels in it.
LowCallback(t) ==
    /\ IsAt(t, "lowCallback")
    /\ \/ Submit(t)
       \/ /\ Then(t, <<>>)
          /\ UNCHANGED <<conn, stack, queue, tasks, counts, history>>

\* What usrsctp_sendv() says to trySendMessage(m).  A reset needs no room and its errors are ignored.
Outcome(m) ==
    CASE mState # "Connected" -> "later"
      [] mState = "Connected" /\ m.reset -> "sent"
      [] mState = "Connected" /\ ~m.reset /\ (assoc # "up" \/ mSendShutdown) -> "error"
      [] OTHER -> IF room > 0 THEN "sent" ELSE "later"

HandOver(m) ==
    /\ wire' = Append(wire, m)
    /\ room' = IF m.reset THEN room ELSE room - 1
    /\ UNCHANGED <<assoc, inbox, inputs>>

\* Mutant: the amount is not updated when a message leaves the queue.
LoweredNever(m) == mBufferedAmount

\* updateBufferedAmount() after m left the queue, and the callback of the channel,
\* whose threshold is 0.
Lowered(m) == [mBufferedAmount EXCEPT ![m.stream] = IF @ > m.size THEN @ - m.size ELSE 0]

CallsLow(m) == m.size > 0 /\ Lowered(m)[m.stream] = 0

\* One round of trySendQueue(); the loop is left when the stack takes no more.
TrySendQueue(t) ==
    /\ IsAt(t, "trySendQueue")
    /\ mSendQueue # <<>>
    /\ LET m == Head(mSendQueue) IN
       \/ /\ Outcome(m) = "sent"
          /\ HandOver(m)
          /\ mSendQueue' = Tail(mSendQueue)
          /\ mBufferedAmount' = Lowered(m)
          /\ Then(t, (IF CallsLow(m) THEN << <<"lowCallback">> >> ELSE <<>>) \o << <<"trySendQueue">> >>)
          /\ UNCHANGED <<result, submitted, closes, accepted, dropped>>
       \/ /\ Outcome(m) = "later"
          /\ result' = FALSE
          /\ Then(t, <<>>)
          /\ UNCHANGED <<stack, mSendQueue, mBufferedAmount, history>>
       \/ /\ Outcome(m) = "error"
          /\ Throw(t)
          /\ UNCHANGED <<stack, result, mSendQueue, mBufferedAmount, history>>
    /\ UNCHANGED <<conn, tasks, counts, mStopping, mSendShutdown>>

\* The queue is empty: shut the association down once if the queue was stopped.
\* usrsctp_shutdown() may fail, with the connection reported as lost.
ShutdownDue == mStopping /\ ~mSendShutdown

QueueSent(t) ==
    /\ IsAt(t, "trySendQueue")
    /\ mSendQueue = <<>>
    /\ result' = TRUE
    /\ mSendShutdown' = (mSendShutdown \/ ShutdownDue)
    /\ mState' \in IF ShutdownDue THEN {mState, "Disconnected"} ELSE {mState}
    /\ Then(t, <<>>)
    /\ UNCHANGED <<mNegotiatedStreamsCount, stack, tasks, counts, mSendQueue, mStopping,
                   mBufferedAmount, history>>

\* Mutant: the message is tried although the queue could not be flushed.
DirectOutcomeAlways(m) == Outcome(m)

\* send() tries the message itself only when the queue was flushed.
DirectOutcome(m) == IF result THEN Outcome(m) ELSE "later"

\* The rest of send(m): try to send it if nothing is queued, else queue it.
TrySend(t) ==
    /\ IsAt(t, "trySend")
    /\ LET m == Head(todo[t])[2] IN
       \/ /\ DirectOutcome(m) = "sent"
          /\ HandOver(m)
          /\ accepted' = Append(accepted, m)
          /\ Then(t, <<>>)
       \/ /\ DirectOutcome(m) = "later"
          /\ Then(t, << <<"push", m>> >>)
          /\ UNCHANGED <<stack, accepted, wire>>
       \/ /\ DirectOutcome(m) = "error"
          /\ Throw(t)
          /\ UNCHANGED <<stack, accepted, wire>>
    /\ UNCHANGED <<conn, queue, tasks, counts, submitted, closes, dropped>>

PushMessage(t) ==
    /\ IsAt(t, "push")
    /\ LET m == Head(todo[t])[2] IN
       /\ Push(m)
       /\ mBufferedAmount' = [mBufferedAmount EXCEPT ![m.stream] = @ + m.size]
    /\ Then(t, <<>>)
    /\ UNCHANGED <<conn, stack, tasks, counts, mStopping, mSendShutdown, result, submitted, closes, wire>>

-----------------------------------------------------------------------------
(* The processor of the transport runs its tasks one by one.                *)

NextTask(task) ==
    /\ todo["proc"] = <<>>
    /\ tasks # <<>> /\ Head(tasks) = task
    /\ tasks' = Tail(tasks)

TryQueueThenLeave == << <<"trySendQueue">>, <<"leave">> >>

\* flush(), as a task of closeStream() or close().
FlushTask ==
    /\ NextTask("flush")
    /\ MayLock("proc")
    /\ todo' = [todo EXCEPT !["proc"] = IF mState = "Connected" THEN TryQueueThenLeave ELSE <<>>]
    /\ UNCHANGED <<conn, stack, queue, counts, history>>

\* Mutant: the counter does not go down.
DoFlushKeepsCount ==
    /\ NextTask("doFlush")
    /\ MayLock("proc")
    /\ todo' = [todo EXCEPT !["proc"] = TryQueueThenLeave]
    /\ UNCHANGED <<conn, stack, queue, counts, history>>

\* The counter goes down before the queue is read, not after.
DoFlush ==
    /\ NextTask("doFlush")
    /\ MayLock("proc")
    /\ mPendingFlushCount' = mPendingFlushCount - 1
    /\ todo' = [todo EXCEPT !["proc"] = TryQueueThenLeave]
    /\ UNCHANGED <<conn, stack, queue, mPendingRecvCount, history>>

\* Mutant: the counter does not go down.
DoRecvKeepsCount ==
    /\ NextTask("doRecv")
    /\ todo' = [todo EXCEPT !["proc"] = << <<"recv">> >>]
    /\ UNCHANGED <<conn, stack, queue, counts, history>>

DoRecv ==
    /\ NextTask("doRecv")
    /\ mPendingRecvCount' = mPendingRecvCount - 1
    /\ todo' = [todo EXCEPT !["proc"] = << <<"recv">> >>]
    /\ UNCHANGED <<conn, stack, queue, mPendingFlushCount, history>>

\* One round of the loop of doRecv(): test the state, read from the stack.
Recv ==
    /\ IsAt("proc", "recv")
    /\ IF mState \notin {"Disconnected", "Failed"} /\ inbox # <<>>
       THEN /\ inbox' = Tail(inbox)
            /\ Then("proc", << <<"process", Head(inbox)>>, <<"recv">> >>)
       ELSE /\ Then("proc", <<>>)
            /\ UNCHANGED inbox
    /\ UNCHANGED <<conn, assoc, room, inputs, queue, tasks, counts, history>>

\* processData() and processNotification().
Process ==
    /\ IsAt("proc", "process")
    /\ LET item == Head(todo["proc"])[2] IN
       \/ /\ item = "data"
          /\ Then("proc", <<>>)
          /\ UNCHANGED conn
       \/ /\ item = "dry"
          /\ MayLock("proc")
          /\ Then("proc", IF mState = "Connected" THEN TryQueueThenLeave ELSE <<>>)
          /\ UNCHANGED conn
       \/ /\ item = "up"
          /\ mNegotiatedStreamsCount' = TRUE
          /\ mState' = "Connected"
          /\ Then("proc", <<>>)
       \/ /\ item = "down"
          /\ mState' = IF mState = "Connected" THEN "Disconnected" ELSE "Failed"
          /\ Then("proc", <<>>)
          /\ UNCHANGED mNegotiatedStreamsCount
    /\ UNCHANGED <<stack, queue, tasks, counts, history>>

-----------------------------------------------------------------------------
(* Closing.                                                                 *)

\* close() stops the queue and then reads the state, twice, without a lock.
Close ==
    /\ closes < MaxCloses /\ MayCall
    /\ todo["closer"] = <<>>
    /\ closes' = closes + 1
    /\ mStopping' = TRUE
    /\ todo' = [todo EXCEPT !["closer"] = << <<"ifConnected">> >>]
    /\ UNCHANGED <<conn, stack, tasks, counts, mSendQueue, mSendShutdown, mBufferedAmount, result,
                   submitted, accepted, wire, dropped>>

\* Mutant: close() leaves the shutdown to the next message.
IfConnectedWaits ==
    /\ IsAt("closer", "ifConnected")
    /\ Then("closer", IF mState = "Connected" THEN <<>> ELSE << <<"ifConnecting">> >>)
    /\ UNCHANGED <<conn, stack, queue, tasks, counts, history>>

IfConnected ==
    /\ IsAt("closer", "ifConnected")
    /\ IF mState = "Connected"
       THEN /\ tasks' = Append(tasks, "flush")
            /\ Then("closer", <<>>)
       ELSE /\ Then("closer", << <<"ifConnecting">> >>)
            /\ UNCHANGED tasks
    /\ UNCHANGED <<conn, stack, queue, counts, history>>

\* The early shutdown ends the association, whatever became of it meanwhile.
IfConnecting ==
    /\ IsAt("closer", "ifConnecting")
    /\ IF mState = "Connecting"
       THEN Then("closer", << <<"fail">> >>)
       ELSE Then("closer", <<>>)
    /\ UNCHANGED <<conn, stack, queue, tasks, counts, history>>

EarlyShutdown ==
    /\ IsAt("closer", "fail")
    /\ mState' = "Failed"
    /\ Then("closer", <<>>)
    /\ UNCHANGED <<mNegotiatedStreamsCount, stack, queue, tasks, counts, history>>

\* incoming(nullptr): the DTLS transport below is closed.
LowerClosed ==
    /\ mState \notin {"Failed", "Disconnected"}
    /\ mState' = "Disconnected"
    /\ UNCHANGED <<mNegotiatedStreamsCount, stack, todo, queue, tasks, counts, history>>

Locked(t) == LowCallback(t) \/ TrySendQueue(t) \/ QueueSent(t) \/ TrySend(t) \/ PushMessage(t)

App == AppSubmit \/ Locked("app")
Proc == FlushTask \/ DoFlush \/ DoRecv \/ Recv \/ Process \/ Locked("proc")
Closer == Close \/ IfConnected \/ IfConnecting \/ EarlyShutdown
StackStep == HandleUpcall \/ EnqueueRecv \/ EnqueueFlush

Next ==
    \/ App
    \/ Proc
    \/ Closer
    \/ StackStep
    \/ Stack(AssociationUp)
    \/ Stack(AssociationDown)
    \/ Stack(Input)
    \/ Stack(Acknowledge)
    \/ LowerClosed

Spec == Init /\ [][Next]_vars

\* What goes on by itself: threads finish what they have begun, and the peer
\* acknowledges what it gets.
Internal ==
    \/ Locked("app")
    \/ Proc
    \/ IfConnected \/ IfConnecting \/ EarlyShutdown
    \/ StackStep
    \/ Stack(Acknowledge)

-----------------------------------------------------------------------------
(* Properties.                                                              *)

\* Total size of the messages of set ms that belong to stream s.
Buffered(ms, s) == FoldSet(LAMBDA m, sum : sum + m.size, 0, {m \in ms : m.stream = s})

\* What send() and closeStream() accept reaches the stack exactly once and in
\* the order of acceptance, whoever flushes the queue and whatever the buffered
\* amount callback sends meanwhile: no message overtakes a queued one, and the
\* reset of a stream does not overtake the data sent before it.  The buffered amount of a stream is
\* the size of its queued messages and of those pushed after the queue was stopped: it is exact
\* until close().
QueueExact ==
    /\ wire \o mSendQueue = accepted
    /\ \A s \in Streams : mBufferedAmount[s] = Buffered(Range(mSendQueue) \union dropped, s)

\* The association is shut down by trySendQueue() only when the queue was
\* stopped and everything accepted was given to the stack, and nothing is given to it later.
ShutdownLast ==
    [][IF mSendShutdown THEN wire' = wire
       ELSE mSendShutdown' => mStopping /\ mSendQueue = <<>>]_vars

Lost == mState \in {"Disconnected", "Failed"} \/ assoc = "down"

\* Every internal step uses up a task, an acknowledgement or a bounded submission, so that the
\* transport comes to rest: what holds whenever it is at rest holds in the end.
AtRest == ~ENABLED Internal

\* In the end a queued message is sent and what the stack has to read is read: enqueueFlush() and
\* enqueueRecv() are not skipped for a task that has already looked.  And close() leads to a
\* shutdown of the association, even when it reads the state while the association comes up and
\* takes neither of its branches.
NothingLeft ==
    \/ /\ mSendQueue = <<>> \/ Lost
       /\ inbox = <<>> \/ mState \in {"Disconnected", "Failed"}
       /\ mStopping => mSendShutdown \/ Lost
    \/ ~AtRest
=============================================================================
