----------------------------- MODULE VideoStream -----------------------------
(***************************************************************************)
(* A video frame from RtpPacketizer::outgoing() (src/src/rtppacketizer.cpp)*)
(* over a network that loses and reorders packets to                       *)
(* VideoRtpDepacketizer::incoming() (src/src/rtpdepacketizer.cpp), for     *)
(* each payload format.  SRTP drops the duplicates (external), so a packet *)
(* is delivered at most once.  Sequence numbers count modulo            *)
(* SequenceModulus, 2^16 in the code.                                      *)
(***************************************************************************)
EXTENDS NalUnits, Av1Payload

CONSTANTS Codecs,
          Frames,          \* Frames[c]: the encoded frames the application sends
          Separator,       \* of NAL units in a frame
          mMaxFragmentSize,
          SequenceModulus,
          FirstNumbers,    \* values of RtpPacketizationConfig::sequenceNumber at start
          MaxFrames,       \* bound on the frames sent
          MaxLate          \* bound on the packets in flight when the next frame is sent

ASSUME VideoStreamAssumption ==
    /\ mMaxFragmentSize \in Nat /\ mMaxFragmentSize >= 4
    /\ SequenceModulus \in Nat /\ FirstNumbers \subseteq 0..SequenceModulus - 1
    /\ MaxFrames \in Nat /\ MaxLate \in Nat

VARIABLES codec,
          sequenceNumber,  \* RtpPacketizationConfig::sequenceNumber
          mSequenceHeader, \* the AV1 sequence header kept for the next OBU
          sent,            \* the frames sent, in order: the timestamp of a frame is its rank
          inFlight,        \* packets in flight
          mBuffer,         \* the packets of the timestamp being received
          disturbed,       \* the network lost or reordered a packet (history)
          out              \* the frames handed over, in order

streamVars == <<codec, sequenceNumber, mSequenceHeader, sent, inFlight, mBuffer, disturbed, out>>

\* fragment() of the packetizer of each codec, and the AV1 header it keeps.
Fragment(c, header, frame) ==
    CASE c \in {"h264", "h265"} ->
            [header |-> header, payloads |-> NalFragment(c, frame, Separator, mMaxFragmentSize)]
      [] c \in {"vp8", "vp9"} ->
            [header |-> header, payloads |-> VpxFragment(c, frame, mMaxFragmentSize)]
      [] OTHER -> Av1Fragment(header, frame, c = "av1", mMaxFragmentSize)

\* packetize(): consecutive sequence numbers, the marker on the last payload.
Packetize(payloads, first, timestamp) ==
    [i \in DOMAIN payloads |-> [seq |-> (first + i - 1) % SequenceModulus, ts |-> timestamp,
                                marker |-> i = Len(payloads), payload |-> payloads[i]]]

\* RtpPacketizer::outgoing() for one frame.
OutgoingFrame(frame) ==
    /\ Len(sent) < MaxFrames /\ Cardinality(inFlight) <= MaxLate
    /\ \E r \in {Fragment(codec, mSequenceHeader, frame)} :
        /\ sent' = Append(sent, frame)
        /\ inFlight' = inFlight \cup ToSet(Packetize(r.payloads, sequenceNumber, Len(sent) + 1))
        /\ sequenceNumber' = (sequenceNumber + Len(r.payloads)) % SequenceModulus
        /\ mSequenceHeader' = r.header
        /\ UNCHANGED <<codec, mBuffer, disturbed, out>>

-----------------------------------------------------------------------------
\* Mutant: the numbers are compared without their wrap.
SequenceLessPlain(a, b) == a.seq < b.seq

\* sequence_cmp: int16_t(b - a) > 0.
SequenceLess(a, b) == LET d == (b.seq - a.seq) % SequenceModulus IN 0 < d /\ 2 * d < SequenceModulus

Ordered(buffer) ==
    [i \in 1..Cardinality(buffer) |->
        CHOOSE p \in buffer : Cardinality({q \in buffer : SequenceLess(q, p)}) = i - 1]

Nothing == [ok |-> TRUE, messages |-> <<>>]

Message(packets, frame) == <<[ts |-> packets[1].ts, frame |-> frame, packets |-> Len(packets)]>>
NalMessage(packets, nal) ==
    [ok |-> nal.ok, messages |-> IF nal.ok THEN Message(packets, nal.frame) ELSE <<>>]
FrameMessage(packets, frame) ==
    [ok |-> TRUE, messages |-> IF frame = <<>> THEN <<>> ELSE Message(packets, frame)]

\* reassemble(): the message, if any, and whether the code throws.
Reassemble(c, packets) ==
    CASE packets = <<>> -> Nothing
      [] packets # <<>> /\ c \in {"h264", "h265"} ->
            NalMessage(packets, NalReassemble(c, packets, Separator, SequenceModulus))
      [] packets # <<>> /\ c \in {"vp8", "vp9"} ->
            FrameMessage(packets, VpxReassemble(c, packets, SequenceModulus).frame)
      [] OTHER -> FrameMessage(packets, Av1Reassemble(packets, c = "av1").frame)

\* incoming() for one packet: a new timestamp ends the frame in the buffer, a marker ends
\* its own.  After a throw, the buffer stays as it is and nothing is handed over.
Marked(c, inserted, p, flushed) ==
    LET marked == IF p.marker THEN Reassemble(c, Ordered(inserted)) ELSE Nothing
    IN  IF marked.ok THEN [buffer |-> IF p.marker THEN {} ELSE inserted,
                           messages |-> flushed \o marked.messages]
                     ELSE [buffer |-> inserted, messages |-> <<>>]

Insert(buffer, p) == IF \E q \in buffer : q.seq = p.seq THEN buffer ELSE buffer \cup {p}

IncomingResult(c, buffer, p) ==
    IF \E q \in buffer : q.ts # p.ts
    THEN LET flushed == Reassemble(c, Ordered(buffer))
         IN  IF flushed.ok THEN Marked(c, {p}, p, flushed.messages)
                           ELSE [buffer |-> buffer, messages |-> <<>>]
    ELSE Marked(c, Insert(buffer, p), p, <<>>)

\* q was sent before p.
Before(q, p) == q.ts < p.ts \/ (q.ts = p.ts /\ SequenceLess(q, p))

Incoming(p) ==
    /\ p \in inFlight
    /\ \E r \in {IncomingResult(codec, mBuffer, p)} :
        /\ inFlight' = inFlight \ {p}
        /\ mBuffer' = r.buffer
        /\ out' = out \o r.messages
        /\ disturbed' = (disturbed \/ \E q \in inFlight : Before(q, p))
        /\ UNCHANGED <<codec, sequenceNumber, mSequenceHeader, sent>>

\* The network drops a packet (external).
Lose(p) ==
    /\ p \in inFlight
    /\ inFlight' = inFlight \ {p}
    /\ disturbed' = TRUE
    /\ UNCHANGED <<codec, sequenceNumber, mSequenceHeader, sent, mBuffer, out>>

StreamInitWith(c, number) ==
    /\ codec = c
    /\ sequenceNumber = number
    /\ mSequenceHeader = <<>>
    /\ sent = <<>>
    /\ inFlight = {}
    /\ mBuffer = {}
    /\ disturbed = FALSE
    /\ out = <<>>

StreamInit == \E c \in Codecs, number \in FirstNumbers : StreamInitWith(c, number)

StreamNext ==
    \/ \E i \in DOMAIN Frames[codec] : OutgoingFrame(Frames[codec][i])
    \/ \E p \in inFlight : Incoming(p) \/ Lose(p)

StreamSpec == StreamInit /\ [][StreamNext]_streamVars

-----------------------------------------------------------------------------
\* Packets of a frame are consecutive: their number follows from the fragments.
Payloads(ts) ==
    LET before[i \in 0..ts - 1] ==
            IF i = 0 THEN <<>> ELSE Fragment(codec, before[i - 1], sent[i]).header
    IN  Fragment(codec, before[ts - 1], sent[ts]).payloads

Units(frame) == SplitFrame(frame, Separator)

\* The frame without the temporal delimiter.
Bare(c, frame) ==
    IF c = "av1" /\ Len(frame) > 2 /\ SubSeq(frame, 1, 2) = <<18, 0>>
    THEN SubSeq(frame, 3, Len(frame)) ELSE frame

\* Fragmentation and reassembly are inverse: fragment() against reassemble().
CompleteFrames ==
    \A i \in DOMAIN out :
        out[i].packets = Len(Payloads(out[i].ts))
            => out[i].frame = Bare(codec, sent[out[i].ts])

\* (The AV1 code does not look at the sequence numbers, so nothing is stated about it.)
NoGluedFragments ==
    \A i \in DOMAIN out :
        /\ codec \in {"h264", "h265"} =>
            \A u \in ToSet(Units(out[i].frame)) :
                u = <<>> \/ \E v \in ToSet(Units(sent[out[i].ts])) : IsPrefix(u, v)
        /\ codec \in {"vp8", "vp9"} => out[i].frame = sent[out[i].ts]

EveryFrameDelivered ==
    ~disturbed /\ inFlight = {}
        => SelectSeq([i \in DOMAIN sent |-> i], LAMBDA i : Payloads(i) # <<>>)
           = [i \in DOMAIN out |-> out[i].ts]

(***************************************************************************)
(* Frames arrive as they were sent, for every payload format and across    *)
(* the wrap of the sequence numbers.  A frame rebuilt from all its packets *)
(* is the frame that was sent, in whatever order its packets arrived       *)
(* before the marker.  A loss never corrupts what is handed over: an H264  *)
(* or H265 unit is a prefix of a unit of the frame with that timestamp,    *)
(* never two pieces glued over a hole, and a VP8 or VP9 frame is whole.    *)
(* Without loss or reordering every frame is handed over exactly once and  *)
(* in order, as soon as its last packet arrives.                           *)
(***************************************************************************)
FramesIntact == CompleteFrames /\ NoGluedFragments /\ EveryFrameDelivered
=============================================================================
