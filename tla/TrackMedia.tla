----------------------------- MODULE TrackMedia -----------------------------
(***************************************************************************)
(* Media through a peer connection: impl::Track (src/src/impl/track.cpp),  *)
(* PacingHandler as the handler of the tracks in Paced                     *)
(* (src/src/pacinghandler.cpp), the dispatch of PeerConnection             *)
(* (src/src/impl/peerconnection.cpp) and DtlsSrtpTransport                 *)
(* (src/src/impl/dtlssrtptransport.cpp).  The application sends, receives  *)
(* and closes; the thread that runs the DTLS transport's tasks receives;   *)
(* a worker of the pool runs the pacer, which holds mMutex while it sends. *)
(***************************************************************************)
EXTENDS Integers, Sequences, SequencesExt, FiniteSets, FiniteSetsExt

CONSTANTS Tracks, Paced, Ssrcs, \* Ssrcs[t]: the SSRCs of track t
          Directions,        \* the directions the tracks may have together
          Inputs,            \* the messages the network may bring
          Sizes,             \* sizes of the packets sent
          RECV_QUEUE_LIMIT, MaxQueueAmount, MaxBudget,
          MaxSent, MaxReceived \* bounds on the packets sent and received

ASSUME TrackMediaAssumption ==
    /\ Paced \subseteq Tracks
    /\ RECV_QUEUE_LIMIT \in Nat \ {0} /\ MaxQueueAmount \in Nat /\ MaxBudget \in Nat \ {0}
    /\ \A m \in Inputs : m.control \in BOOLEAN

VARIABLES track,  \* [t -> closed, direction, transport, recvQueue]
          initDone, \* DtlsSrtpTransport::mInitDone
          recv,   \* the receiving thread: the tracks left to call, the message, where it is
          pacer,  \* [t -> mRtpBuffer, mHaveScheduled, mBudget, tasks in the pool, mMutex held]
          wire,   \* [t -> the packets given to the lower transport]
          given,  \* [t -> the packets the pacer accepted] (history)
          count, received, crashed

trackVars == <<track, initDone, recv, pacer, wire, given, count, received, crashed>>

Moved == [id |-> 0, size |-> 0]   \* a message_ptr that was moved from

-----------------------------------------------------------------------------
\* DtlsSrtpTransport.  postHandshake() derives the keys; the tracks are opened afterwards.
PostHandshake ==
    /\ ~initDone
    /\ initDone' = TRUE
    /\ UNCHANGED <<track, recv, pacer, wire, given, count, received, crashed>>

\* Track::open() on the transport.
Open(t) ==
    /\ initDone
    /\ ~track[t].transport /\ ~track[t].expired
    /\ track' = [track EXCEPT ![t].transport = TRUE]
    /\ UNCHANGED <<initDone, recv, pacer, wire, given, count, received, crashed>>

\* The peer connection releases the transport: the weak pointers of the tracks expire.
ReleaseTransport ==
    /\ \E t \in Tracks : ~track[t].expired
    /\ track' = [t \in Tracks |-> [track[t] EXCEPT !.transport = FALSE, !.expired = TRUE]]
    /\ UNCHANGED <<initDone, recv, pacer, wire, given, count, received, crashed>>

\* transportSend(), sendMedia(): a packet sent before the keys are known is dropped.
TransportSend(t, p) == IF initDone THEN [wire EXCEPT ![t] = Append(@, p.id)] ELSE wire

-----------------------------------------------------------------------------
\* PacingHandler.
Schedule(p, interval) ==
    IF p.haveScheduled THEN p
    ELSE [p EXCEPT !.haveScheduled = TRUE, !.tasks = Append(@, interval)]

\* PacingHandler::outgoing() with one message.
Pace(p, m) ==
    LET full == MaxQueueAmount # 0 /\ Len(p.buffer) >= MaxQueueAmount
    IN  Schedule(IF full THEN p ELSE [p EXCEPT !.buffer = Append(@, m)], 0)

\* Mutant: mHaveScheduled is not reset.
RunBeginKeepsFlag(t, budget) ==
    LET p == pacer[t]
        earned == IF Head(p.tasks) = 1 THEN MaxBudget ELSE budget
    IN  /\ p.tasks # <<>> /\ ~p.locked
        /\ pacer' = [pacer EXCEPT ![t] =
               [p EXCEPT !.tasks = Tail(@), !.locked = TRUE,
                         !.budget = Min({p.budget + earned, MaxBudget})]]
        /\ UNCHANGED <<track, initDone, recv, wire, given, count, received, crashed>>

\* run(): the elapsed time is worth anything after a call without delay, and a whole interval
\* after one with the interval as its delay.
RunBegin(t, budget) ==
    LET p == pacer[t]
        earned == IF Head(p.tasks) = 1 THEN MaxBudget ELSE budget
    IN  /\ p.tasks # <<>> /\ ~p.locked
        /\ pacer' = [pacer EXCEPT ![t] =
               [p EXCEPT !.tasks = Tail(@), !.locked = TRUE, !.haveScheduled = FALSE,
                         !.budget = Min({p.budget + earned, MaxBudget})]]
        /\ UNCHANGED <<track, initDone, recv, wire, given, count, received, crashed>>

\* One turn of the loop.  front()->size() on a moved-from pointer is undefined (crashed);
\* an exception of send() leaves the moved-from front in the queue and the function.
RunSend(t) ==
    LET p == pacer[t]
        m == Head(p.buffer)
    IN  /\ p.locked /\ p.buffer # <<>> /\ p.budget > 0
        /\ \/ /\ m = Moved
              /\ crashed' = TRUE
              /\ UNCHANGED <<wire, pacer>>
           \/ /\ m # Moved /\ ~track[t].transport
              /\ pacer' = [pacer EXCEPT ![t].buffer[1] = Moved, ![t].locked = FALSE]
              /\ UNCHANGED <<wire, crashed>>
           \/ /\ m # Moved /\ track[t].transport
              /\ wire' = TransportSend(t, m)
              /\ pacer' = [pacer EXCEPT ![t].buffer = Tail(@), ![t].budget = @ - m.size]
              /\ UNCHANGED crashed
        /\ UNCHANGED <<track, initDone, recv, given, count, received>>

RunEnd(t) ==
    LET p == [pacer[t] EXCEPT !.locked = FALSE]
    IN  /\ pacer[t].locked
        /\ p.buffer = <<>> \/ p.budget <= 0
        /\ pacer' = [pacer EXCEPT ![t] = IF p.buffer = <<>> THEN p ELSE Schedule(p, 1)]
        /\ UNCHANGED <<track, initDone, recv, wire, given, count, received, crashed>>

-----------------------------------------------------------------------------
\* Track::outgoing() (send(), sendFrame()): it throws on a closed track, refuses media against
\* the direction, passes the handler and sends what the handler leaves.  Without a handler RTCP
\* is a control message.  The pacer leaves nothing.
Outgoing(t, size, rtcp) ==
    LET m == [id |-> count + 1, size |-> size]
        control == rtcp /\ t \notin Paced
        refused == track[t].direction \in {"RecvOnly", "Inactive"} /\ ~control
    IN  /\ count < MaxSent
        /\ ~track[t].closed
        /\ t \in Paced => ~pacer[t].locked
        /\ count' = count + 1
        /\ IF refused THEN UNCHANGED <<wire, pacer, given>>
           ELSE IF t \in Paced
           THEN /\ pacer' = [pacer EXCEPT ![t] = Pace(@, m)]
                /\ given' = IF pacer'[t].buffer = pacer[t].buffer THEN given
                            ELSE [given EXCEPT ![t] = Append(@, m.id)]
                /\ UNCHANGED wire
           ELSE /\ wire' = IF track[t].transport THEN TransportSend(t, m) ELSE wire
                /\ UNCHANGED <<pacer, given>>
        /\ UNCHANGED <<track, initDone, recv, received, crashed>>

\* Track::close(): the handler goes too, so nothing more reaches the pacer.
Close(t) ==
    /\ ~track[t].closed
    /\ track' = [track EXCEPT ![t].closed = TRUE]
    /\ UNCHANGED <<initDone, recv, pacer, wire, given, count, received, crashed>>

\* Track::receive(), or flushPendingMessages() with a callback.
Receive(t) ==
    /\ track[t].recvQueue # <<>>
    /\ track' = [track EXCEPT ![t].recvQueue = Tail(@)]
    /\ UNCHANGED <<initDone, recv, pacer, wire, given, count, received, crashed>>

-----------------------------------------------------------------------------
\* demuxMessage(), recvMedia(): before the keys are known the packet is left to DTLS; a packet
\* that is short, not RTP or fails authentication is counted and dropped.  forwardMedia() and
\* dispatchMedia() pick the tracks: the only one, or those of the SSRCs of an RTCP message, once
\* for each SSRC, or the one of the sender.
Dispatch(m) ==
    LET Owner(ssrc) == {t \in Tracks : ssrc \in Ssrcs[t]}
        Calls(ssrcs) == SetToSeq({<<s, t>> \in ssrcs \X Tracks : t \in Owner(s)})
    IN  IF Cardinality(Tracks) = 1 THEN SetToSeq(Tracks)
        ELSE LET calls == Calls(IF m.control /\ m.ssrcs # {} THEN m.ssrcs ELSE {m.stream})
             IN  [i \in DOMAIN calls |-> calls[i][2]]

RecvMedia(m) ==
    /\ received < MaxReceived
    /\ recv.calls = <<>>
    /\ initDone
    /\ received' = received + 1
    /\ recv' = [calls |-> IF m.valid THEN Dispatch(m) ELSE <<>>, message |-> m, pc |-> "check"]
    /\ UNCHANGED <<track, initDone, pacer, wire, given, count, crashed>>

\* Mutant: the test of full() is off by one.
IncomingCheckLate ==
    LET t == Head(recv.calls)
    IN  /\ recv.calls # <<>> /\ recv.pc = "check"
        /\ recv' = IF \/ track[t].direction \in {"SendOnly", "Inactive"} /\ ~recv.message.control
                      \/ Len(track[t].recvQueue) > RECV_QUEUE_LIMIT
                   THEN [recv EXCEPT !.calls = Tail(@)] ELSE [recv EXCEPT !.pc = "push"]
        /\ UNCHANGED <<track, initDone, pacer, wire, given, count, received, crashed>>

\* Track::incoming() up to the test of full(): tail drop.
IncomingCheck ==
    LET t == Head(recv.calls)
    IN  /\ recv.calls # <<>> /\ recv.pc = "check"
        /\ recv' = IF \/ track[t].direction \in {"SendOnly", "Inactive"} /\ ~recv.message.control
                      \/ Len(track[t].recvQueue) >= RECV_QUEUE_LIMIT
                   THEN [recv EXCEPT !.calls = Tail(@)] ELSE [recv EXCEPT !.pc = "push"]
        /\ UNCHANGED <<track, initDone, pacer, wire, given, count, received, crashed>>

\* Queue::push(), which waits while the queue is full.
IncomingPush ==
    LET t == Head(recv.calls)
    IN  /\ recv.calls # <<>> /\ recv.pc = "push"
        /\ Len(track[t].recvQueue) < RECV_QUEUE_LIMIT
        /\ track' = [track EXCEPT ![t].recvQueue = Append(@, recv.message)]
        /\ recv' = [recv EXCEPT !.calls = Tail(@), !.pc = "check"]
        /\ UNCHANGED <<initDone, pacer, wire, given, count, received, crashed>>

-----------------------------------------------------------------------------
NoMessage == [control |-> FALSE, valid |-> FALSE, stream |-> 0, ssrcs |-> {}]

TrackMediaInitWith(dir) ==
    /\ track = [t \in Tracks |-> [closed |-> FALSE, direction |-> dir[t], transport |-> FALSE,
                                  expired |-> FALSE, recvQueue |-> <<>>]]
    /\ initDone = FALSE
    /\ recv = [calls |-> <<>>, message |-> NoMessage, pc |-> "check"]
    /\ pacer = [t \in Paced |-> [buffer |-> <<>>, haveScheduled |-> FALSE, budget |-> 0,
                                 tasks |-> <<>>, locked |-> FALSE]]
    /\ wire = [t \in Tracks |-> <<>>]
    /\ given = [t \in Tracks |-> <<>>]
    /\ count = 0
    /\ received = 0
    /\ crashed = FALSE

TrackMediaInit == \E dir \in Directions : TrackMediaInitWith(dir)

RunStep(t) == RunSend(t) \/ RunEnd(t) \/ \E b \in 0..MaxBudget : RunBegin(t, b)

TrackMediaNext ==
    /\ ~crashed
    /\ \/ PostHandshake
       \/ ReleaseTransport
       \/ \E t \in Tracks : Open(t) \/ Close(t) \/ Receive(t)
       \/ \E t \in Tracks, size \in Sizes, rtcp \in BOOLEAN : Outgoing(t, size, rtcp)
       \/ \E t \in Paced : RunStep(t)
       \/ \E m \in Inputs : RecvMedia(m)
       \/ IncomingCheck
       \/ IncomingPush

TrackMediaSpec == TrackMediaInit /\ [][TrackMediaNext]_trackVars

-----------------------------------------------------------------------------
\* A moved-from message at the front was lost to an exception before the track was open.
Needed(p) == p.buffer # <<>> /\ Head(p.buffer) # Moved

(***************************************************************************)
(* Media flows.  The receiving thread never waits in push(), whatever the  *)
(* application does with the queue after the test of full(): the tail drop *)
(* of Track::incoming() is enough although the two are not atomic.  What   *)
(* the pacer accepted goes out in the order it was accepted, without a     *)
(* duplicate, across runs that end on the budget.  And while it holds a    *)
(* message a run is in progress or scheduled: the flag mHaveScheduled      *)
(* never keeps a needed run from being scheduled (PacingHandler).          *)
(***************************************************************************)
MediaFlows ==
    /\ recv.pc = "push" => Len(track[Head(recv.calls)].recvQueue) < RECV_QUEUE_LIMIT
    /\ \A t \in Paced :
           /\ IsPrefix(wire[t], given[t])
           /\ Needed(pacer[t]) => pacer[t].locked \/ pacer[t].tasks # <<>>
=============================================================================
