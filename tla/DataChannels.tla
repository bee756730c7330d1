---------------------------- MODULE DataChannels ----------------------------
(***************************************************************************)
(* The data channels of two connected peers: stream selection and the      *)
(* OPEN / ACK / RESET protocol of impl::PeerConnection and                 *)
(* impl::DataChannel (src/impl/peerconnection.cpp, datachannel.cpp).       *)
(*                                                                         *)
(* Each peer has three threads: the application (createDataChannel(),      *)
(* send(), close()), the SCTP processor (the state callback and            *)
(* forwardMessage()) and the PeerConnection processor                      *)
(* (openDataChannels()).  They meet in the map mDataChannels, under        *)
(* mDataChannelsMutex, and in the channels themselves.  The SCTP           *)
(* association is reliable and keeps the order of each stream, the reset   *)
(* of the stream included.  Peer "a" has the Active role.                  *)
(***************************************************************************)
EXTENDS Naturals, FiniteSets, Sequences, SequencesExt

CONSTANTS Creators,     \* Creators[o]: the peers whose application creates channels when overlap = o
          MaxCreated,   \* bound on the channels they create
          MaxSent,      \* bound on the messages sent, one per channel
          MaxStream     \* SctpTransport::maxStream()

ASSUME DataChannelsAssumption ==
    /\ DOMAIN Creators \subseteq SUBSET {"create", "reuse", "close"}
    /\ Range(Creators) \subseteq SUBSET {"a", "b"}
    /\ MaxSent \in Nat
    /\ MaxCreated \in Nat \ {0}
    /\ MaxStream \in Nat

Peers == {"a", "b"}
Other(p) == IF p = "a" THEN "b" ELSE "a"
StreamIds == 0..MaxStream
NoStream == MaxStream + 1

\* Outgoing channels are numbered as they are created; the channel that an OPEN
\* of c creates at the other side is Mate(c).
Outgoing == 1..MaxCreated
Channels == 1..(2 * MaxCreated)
Mate(c) == IF c \in Outgoing THEN c + MaxCreated ELSE c - MaxCreated

VARIABLES created,      \* number of outgoing channels
          owner,        \* owner[c]: its peer, "none" before it exists
          stream,       \* mStream
          transport,    \* mSctpTransport is set
          mIsOpen, mIsClosed,
          gone,         \* the channels whose creation failed: the weak pointers to them are void
          mDataChannels, \* mDataChannels[p][s]: a channel, or 0
          mUnassignedDataChannels,
          connected,    \* the SCTP transport of p is Connected
          app,          \* where the application of p is in createDataChannel()
          sctp,         \* where the SCTP processor of p is in a handler
          proc,         \* openDataChannels() at p: "none", "queued", "running" or "done"
          toOpen,       \* the channels it still has to look at
          association,         \* wire[p][s]: messages sent by p on stream s, on their way
          sent,         \* the channels that have sent a message
          delivered,    \* pairs of the channel that sent a message and the one that got it
          asked,        \* the channels closed by their application
          overlap       \* chosen once for the behaviour: with "create", createDataChannel() may
                        \* overlap the time between the Connected state and the end of
                        \* openDataChannels(), with "reuse" the handling of a reset, and with
                        \* "close", close() may hit a channel openDataChannels() is about to open

chans == <<owner, stream, transport, mIsOpen, mIsClosed, gone>>
maps == <<mDataChannels, mUnassignedDataChannels>>
threads == <<app, sctp, proc, toOpen>>
channelsVars == <<created, chans, maps, connected, threads, association, sent, delivered, asked, overlap>>

Idle == <<"idle", 0>>

ChannelsInitWith(o) ==
    /\ created = 0
    /\ owner = [c \in Channels |-> "none"]
    /\ stream = [c \in Channels |-> NoStream]
    /\ transport = [c \in Channels |-> FALSE]
    /\ mIsOpen = [c \in Channels |-> FALSE]
    /\ mIsClosed = [c \in Channels |-> FALSE]
    /\ gone = {}
    /\ mDataChannels = [p \in Peers |-> [s \in StreamIds |-> 0]]
    /\ mUnassignedDataChannels = [p \in Peers |-> <<>>]
    /\ connected = [p \in Peers |-> FALSE]
    /\ app = [p \in Peers |-> Idle]
    /\ sctp = [p \in Peers |-> Idle]
    /\ proc = [p \in Peers |-> "none"]
    /\ toOpen = [p \in Peers |-> {}]
    /\ association = [p \in Peers |-> [s \in StreamIds |-> <<>>]]
    /\ sent = {}
    /\ delivered = {}
    /\ asked = {}
    /\ overlap = o

ChannelsInit == \E o \in DOMAIN Creators : ChannelsInitWith(o)

-----------------------------------------------------------------------------
(* Streams.                                                                 *)

Put(p, s, type, c) == [association EXCEPT ![p][s] = Append(@, <<type, c>>)]

\* Mutant: both peers start at 0.
ParityZero(p) == 0

\* The Active side uses even streams, the other one odd streams.
Parity(p) == IF p = "a" THEN 0 ELSE 1


\* Mutant: the map is not consulted.
UnusedAny(p, map) == {s \in StreamIds : s % 2 = Parity(p)}

Unused(p, map) == {s \in StreamIds : s % 2 = Parity(p) /\ map[s] = 0}

\* The loop of assignDataChannels(): it throws at the first channel that can
\* get no stream, or that has one already.
AssignOne(p, acc, c) ==
    LET free == Unused(p, acc.map)
        s == CHOOSE x \in free : \A y \in free : x <= y
    IN  IF acc.failed \/ c \in gone THEN acc
        ELSE IF free = {} \/ acc.stream[c] # NoStream THEN [acc EXCEPT !.failed = TRUE]
        ELSE [acc EXCEPT !.map[s] = c, !.stream[c] = s]

Assignment(p) ==
    FoldLeft(LAMBDA acc, c : AssignOne(p, acc, c),
             [map |-> mDataChannels[p], stream |-> stream, failed |-> FALSE],
             mUnassignedDataChannels[p])

\* What is assigned stays assigned when it throws, and so does the list.
AssignDataChannels(p) ==
    /\ mDataChannels' = [mDataChannels EXCEPT ![p] = Assignment(p).map]
    /\ stream' = Assignment(p).stream
    /\ mUnassignedDataChannels' =
         [mUnassignedDataChannels EXCEPT ![p] = IF Assignment(p).failed THEN @ ELSE <<>>]

-----------------------------------------------------------------------------
(* The application.                                                         *)

MayCreate(p) ==
    /\ "create" \in overlap \/ (IF connected[p] THEN proc[p] = "done" ELSE TRUE)
    /\ "reuse" \in overlap \/ sctp[p][1] # "reset"

\* emplaceDataChannel(): the channel waits for a stream.
CreateDataChannel(p) ==
    /\ p \in Creators[overlap] /\ created < MaxCreated
    /\ app[p] = Idle
    /\ MayCreate(p)
    /\ created' = created + 1
    /\ owner' = [owner EXCEPT ![created'] = p]
    /\ mUnassignedDataChannels' = [mUnassignedDataChannels EXCEPT ![p] = Append(@, created')]
    /\ app' = [app EXCEPT ![p] = <<"created", created'>>]
    /\ UNCHANGED <<stream, transport, mIsOpen, mIsClosed, gone, mDataChannels, connected, sctp, proc,
                   toOpen, association, sent, delivered, asked, overlap>>

\* If SCTP is connected it is assigned a stream now, and opened.
AssignNow(p) ==
    /\ app[p][1] = "created"
    /\ connected[p]
    /\ AssignDataChannels(p)
    /\ IF Assignment(p).failed
       THEN /\ gone' = gone \union {app[p][2]}
            /\ app' = [app EXCEPT ![p] = Idle]
       ELSE /\ app' = [app EXCEPT ![p] = <<"open", @[2]>>]
            /\ UNCHANGED gone
    /\ UNCHANGED <<created, owner, transport, mIsOpen, mIsClosed, connected, sctp, proc, toOpen, association,
                   sent, delivered, asked, overlap>>

AssignLater(p) ==
    /\ app[p][1] = "created"
    /\ ~connected[p]
    /\ app' = [app EXCEPT ![p] = Idle]
    /\ UNCHANGED <<created, chans, maps, connected, sctp, proc, toOpen, association, sent, delivered, asked, overlap>>

\* OutgoingDataChannel::open(): an OPEN is sent, whatever became of the channel.
SendOpen(p, c) ==
    /\ transport' = [transport EXCEPT ![c] = TRUE]
    /\ association' = Put(p, stream[c], "OPEN", c)

OpenNow(p) ==
    /\ app[p][1] = "open"
    /\ SendOpen(p, app[p][2])
    /\ app' = [app EXCEPT ![p] = Idle]
    /\ UNCHANGED <<created, owner, stream, mIsOpen, mIsClosed, gone, maps, connected, sctp, proc, toOpen,
                   sent, delivered, asked, overlap>>

\* A channel the application has: one it created, or one announced to it.
Has(p, c) == owner[c] = p /\ c \notin gone /\ app[p] = Idle

\* outgoing(): a message may be sent before the ACK.
SendMessage(p) ==
    /\ Cardinality(sent) < MaxSent
    /\ \E c \in Channels \ sent :
         /\ Has(p, c) /\ ~mIsClosed[c] /\ transport[c]
         /\ association' = Put(p, stream[c], "DATA", c)
         /\ sent' = sent \union {c}
    /\ UNCHANGED <<created, chans, maps, connected, threads, delivered, asked, overlap>>

\* Mutant: the stream of a closed channel is not reset.
CloseQuietly(p, c) ==
    /\ mIsClosed' = [mIsClosed EXCEPT ![c] = TRUE]
    /\ UNCHANGED association

\* DataChannel::close() of a channel that is not closed: its stream is reset if
\* the channel was opened.
CloseChannel(p, c) ==
    /\ mIsClosed' = [mIsClosed EXCEPT ![c] = TRUE]
    /\ association' = IF transport[c] /\ stream[c] # NoStream THEN Put(p, stream[c], "RESET", c) ELSE association

CloseDataChannel(p) ==
    /\ \E c \in Channels :
         /\ Has(p, c) /\ ~mIsClosed[c]
         /\ "close" \in overlap \/ c \notin toOpen[p]
         /\ CloseChannel(p, c)
         /\ asked' = asked \union {c}
    /\ UNCHANGED <<created, owner, stream, transport, mIsOpen, gone, maps, connected, threads, sent,
                   delivered, overlap>>

-----------------------------------------------------------------------------
(* The PeerConnection processor.                                            *)

\* openDataChannels() takes the channels that are not closed ...
BeginOpen(p) ==
    /\ proc[p] = "queued"
    /\ proc' = [proc EXCEPT ![p] = "running"]
    /\ toOpen' = [toOpen EXCEPT ![p] = {c \in Range(mDataChannels[p]) \ {0} :
                                            c \notin gone /\ ~mIsClosed[c]}]
    /\ UNCHANGED <<created, chans, maps, connected, app, sctp, association, sent, delivered, asked, overlap>>

\* ... and then opens, one by one, those that are not open; IncomingDataChannel ignores it.
OpenOne(p) ==
    /\ proc[p] = "running"
    /\ \E c \in toOpen[p] :
         /\ toOpen' = [toOpen EXCEPT ![p] = @ \ {c}]
         /\ IF c \in Outgoing /\ ~(mIsOpen[c] /\ ~mIsClosed[c])
            THEN SendOpen(p, c)
            ELSE UNCHANGED <<transport, association>>
    /\ UNCHANGED <<created, owner, stream, mIsOpen, mIsClosed, gone, maps, connected, app, sctp, proc,
                   sent, delivered, asked, overlap>>

EndOpen(p) ==
    /\ proc[p] = "running" /\ toOpen[p] = {}
    /\ proc' = [proc EXCEPT ![p] = "done"]
    /\ UNCHANGED <<created, chans, maps, connected, app, sctp, toOpen, association, sent, delivered, asked, overlap>>

-----------------------------------------------------------------------------
(* The SCTP processor.                                                      *)

\* The transport is Connected before its state callback runs.
Connect(p) ==
    /\ ~connected[p]
    /\ "create" \in overlap \/ app[p] = Idle
    /\ connected' = [connected EXCEPT ![p] = TRUE]
    /\ sctp' = [sctp EXCEPT ![p] = <<"connected", 0>>]
    /\ UNCHANGED <<created, chans, maps, app, proc, toOpen, association, sent, delivered, asked, overlap>>

\* Mutant: openDataChannels() is not scheduled.
NotScheduled(p) == "none"

Scheduled(p) == IF Assignment(p).failed THEN "none" ELSE "queued"

\* The callback; changeState() swallows its exception.
ConnectedCallback(p) ==
    /\ sctp[p][1] = "connected"
    /\ AssignDataChannels(p)
    /\ proc' = [proc EXCEPT ![p] = Scheduled(p)]
    /\ sctp' = [sctp EXCEPT ![p] = Idle]
    /\ UNCHANGED <<created, owner, transport, mIsOpen, mIsClosed, gone, connected, app, toOpen, association,
                   sent, delivered, asked, overlap>>

\* p takes the next message of stream s out of the association; reply is what
\* it sends on the same stream meanwhile.
Take(p, s, type, reply) ==
    /\ connected[p] /\ sctp[p] = Idle
    /\ association[Other(p)][s] # <<>> /\ Head(association[Other(p)][s])[1] = type
    /\ association' = [association EXCEPT ![Other(p)][s] = Tail(@), ![p][s] = @ \o reply]

Sender(p, s) == Head(association[Other(p)][s])[2]

\* forwardMessage() of an OPEN: an IncomingDataChannel is created, acknowledged
\* and open at once.
AcceptOpen(p, s) ==
    LET c == Mate(Sender(p, s)) IN
    /\ Take(p, s, "OPEN", << <<"ACK", c>> >>)
    /\ mDataChannels[p][s] = 0
    /\ s % 2 # Parity(p)
    /\ owner' = [owner EXCEPT ![c] = p]
    /\ stream' = [stream EXCEPT ![c] = s]
    /\ transport' = [transport EXCEPT ![c] = TRUE]
    /\ mIsOpen' = [mIsOpen EXCEPT ![c] = TRUE]
    /\ mDataChannels' = [mDataChannels EXCEPT ![p][s] = c]
    /\ UNCHANGED <<created, mIsClosed, gone, mUnassignedDataChannels, connected, threads, sent,
                   delivered, asked, overlap>>

\* The stream is used, or has the wrong parity: it is reset, with the channel that uses it.
RefuseOpen(p, s) ==
    LET c == mDataChannels[p][s] IN
    /\ Take(p, s, "OPEN", IF c = 0 \/ mIsClosed[c] \/ transport[c] THEN << <<"RESET", c>> >> ELSE <<>>)
    /\ c # 0 \/ s % 2 = Parity(p)
    /\ mIsClosed' = IF c # 0 THEN [mIsClosed EXCEPT ![c] = TRUE] ELSE mIsClosed
    /\ UNCHANGED <<created, owner, stream, transport, mIsOpen, gone, maps, connected, threads, sent,
                   delivered, asked, overlap>>

\* A closed channel ignores what it gets; a message on an unused stream resets it.
Answer(c) == IF c = 0 THEN << <<"RESET", 0>> >> ELSE <<>>

ReceiveAck(p, s) ==
    LET c == mDataChannels[p][s] IN
    /\ Take(p, s, "ACK", Answer(c))
    /\ mIsOpen' = IF c # 0 /\ ~mIsClosed[c] THEN [mIsOpen EXCEPT ![c] = TRUE] ELSE mIsOpen
    /\ UNCHANGED <<created, owner, stream, transport, mIsClosed, gone, maps, connected, threads, sent,
                   delivered, asked, overlap>>

ReceiveMessage(p, s) ==
    LET c == mDataChannels[p][s] IN
    /\ Take(p, s, "DATA", Answer(c))
    /\ delivered' = IF c # 0 /\ ~mIsClosed[c] THEN delivered \union {<<Sender(p, s), c>>} ELSE delivered
    /\ UNCHANGED <<created, chans, maps, connected, threads, sent, asked, overlap>>

\* Mutant: the channel stays in the map.
RemovedNever(p, s) == mDataChannels

\* removeDataChannel()
Removed(p, s) == [mDataChannels EXCEPT ![p][s] = 0]

\* A reset: the channel leaves the map, and is closed in the next step.
ReceiveReset(p, s) ==
    LET c == mDataChannels[p][s] IN
    /\ Take(p, s, "RESET", <<>>)
    /\ "reuse" \in overlap \/ app[p] = Idle
    /\ mDataChannels' = Removed(p, s)
    /\ sctp' = [sctp EXCEPT ![p] = IF c # 0 THEN <<"reset", c>> ELSE Idle]
    /\ UNCHANGED <<created, chans, mUnassignedDataChannels, connected, app, proc, toOpen, sent,
                   delivered, asked, overlap>>

RemoteClose(p) ==
    LET c == sctp[p][2] IN
    /\ sctp[p][1] = "reset"
    /\ IF mIsClosed[c] THEN UNCHANGED <<mIsClosed, association>> ELSE CloseChannel(p, c)
    /\ sctp' = [sctp EXCEPT ![p] = Idle]
    /\ UNCHANGED <<created, owner, stream, transport, mIsOpen, gone, maps, connected, app, proc, toOpen,
                   sent, delivered, asked, overlap>>

Receive(p, s) ==
    \/ AcceptOpen(p, s) \/ RefuseOpen(p, s)
    \/ ReceiveAck(p, s) \/ ReceiveMessage(p, s) \/ ReceiveReset(p, s)

Creating(p) == AssignNow(p) \/ AssignLater(p) \/ OpenNow(p)
Opening(p) == BeginOpen(p) \/ OpenOne(p) \/ EndOpen(p)
Processing(p) ==
    \/ Connect(p) \/ ConnectedCallback(p) \/ RemoteClose(p)
    \/ \E s \in StreamIds : Receive(p, s)

ChannelsNext ==
    \E p \in Peers :
        \/ CreateDataChannel(p) \/ SendMessage(p) \/ CloseDataChannel(p)
        \/ Creating(p)
        \/ Opening(p)
        \/ Processing(p)

ChannelsSpec == ChannelsInit /\ [][ChannelsNext]_channelsVars

\* What goes on by itself: the peers connect, the association delivers what was sent, and
\* threads finish what they have begun.
ChannelsInternal == \E p \in Peers : Creating(p) \/ Opening(p) \/ Processing(p)

-----------------------------------------------------------------------------
(* Properties.                                                              *)


Asked(c) == {c, Mate(c)} \intersect asked # {}

\* Every internal step uses up a message, a task or a channel to open, so that the peers come to
\* rest when the applications do: what holds whenever they are at rest holds in the end.
ChannelsAtRest == ~ENABLED ChannelsInternal

\* A channel opens at both ends once both peers are connected, unless the streams ran out, and is
\* not closed unless an application closes it: test/connectivity.cpp creates a channel on a
\* connection and fails "if (!asecond2 || !asecond2->isOpen() || !second1->isOpen())".
\* And closeStream(), after RFC 8831: "Closing of a data channel MUST be signaled by resetting the
\* corresponding outgoing streams": when one end is closed the other one is closed in the end, and
\* the stream becomes free again at both.
ChannelsSettle ==
    \/ /\ "create" \notin overlap =>
             \A c \in Outgoing \ gone :
                owner[c] # "none" /\ mUnassignedDataChannels[owner[c]] = <<>> =>
                   (mIsOpen[c] /\ mIsOpen[Mate(c)]) \/ Asked(c)
       /\ "close" \notin overlap =>
             \A c \in Channels :
                mIsClosed[c] =>
                   /\ owner[Mate(c)] # "none" => mIsClosed[Mate(c)]
                   /\ transport[c] => \A p \in Peers : c \notin Range(mDataChannels[p])
    \/ ~ChannelsAtRest
=============================================================================
