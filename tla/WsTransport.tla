---------------------------- MODULE WsTransport -----------------------------
(***************************************************************************)
(* The WebSocket protocol on one end (src/src/impl/wstransport.cpp,        *)
(* wshandshake.cpp, http.cpp): the HTTP handshake, frames over a byte      *)
(* stream that arrives in pieces of any size, fragments, pings and the     *)
(* closing handshake.  Lengths are scaled: EXT16 and EXT64 stand for the   *)
(* lengths 126 and 65536 at which the header grows, MaxControl for 125.    *)
(***************************************************************************)
EXTENDS Integers, Sequences, SequencesExt, FiniteSets

CONSTANTS EXT16, EXT64, MaxControl,
          MaxMessageSize,        \* mMaxMessageSize
          MaxOutstandingPings,   \* mMaxOutstandingPings, 0 for no limit
          Lengths,               \* payload lengths the peer uses
          Chunks,                \* sizes of the pieces the stream arrives in
          MaxFrames, MaxIdle     \* bounds

ASSUME WsAssumption == EXT16 < EXT64 /\ MaxControl < EXT16 /\ MaxFrames \in Nat /\ MaxIdle \in Nat

VARIABLES isClient, wsState,
          mBuffer, mIgnoreLength, mPartial, mPartialOpcode, mOutstandingPings, mCloseSent,
          stream,       \* bytes on their way
          lowerUp,      \* the lower transport sends
          replies,      \* opcodes of the control frames sent, as a set
          timer,        \* the close timeout is scheduled
          expected,     \* what the peer has sent, as the receiver should see it
          received,     \* what recv() handed up
          frames, idles, open  \* frames sent, silences, the message the peer is in the middle of

wsVars == <<isClient, wsState, mBuffer, mIgnoreLength, mPartial, mPartialOpcode, mOutstandingPings,
            mCloseSent, stream, lowerUp, replies, timer, expected, received, frames, idles, open>>

sendingSide == <<stream, expected, frames, open>>
parser == <<mBuffer, mIgnoreLength, mPartial, mPartialOpcode, received>>

SmallerOf(a, b) == IF a < b THEN a ELSE b
LargerOf(a, b) == IF a > b THEN a ELSE b
FirstBytes(s, n) == SubSeq(s, 1, SmallerOf(n, Len(s)))
After(s, n) == SubSeq(s, n + 1, Len(s))

-----------------------------------------------------------------------------
\* Masking: byte i is combined with byte i % 4 of the key.
Key == <<1, 0, 1, 1>>
Masked(payload) == [i \in DOMAIN payload |-> (payload[i] + Key[((i - 1) % 4) + 1]) % 2]

HeaderLength(length, mask) ==
    2 + (IF length < EXT16 THEN 0 ELSE IF length < EXT64 THEN 2 ELSE 8) + (IF mask THEN 4 ELSE 0)

\* sendFrame(): a header, whose first byte stands for its fields, and the payload.
FrameBytes(opcode, payload, fin, mask) ==
    <<[opcode |-> opcode, fin |-> fin, mask |-> mask, length |-> Len(payload)]>>
    \o [i \in 1..HeaderLength(Len(payload), mask) - 1 |-> 9]
    \o (IF mask THEN Masked(payload) ELSE payload)

\* parseFrame(): 0 while bytes are missing; the length of the frame may exceed the buffer, when it
\* is larger than a frame may be and is truncated.
MaxFrameLength == LargerOf(MaxControl, MaxMessageSize)
ParseFrame(buffer) ==
    IF Len(buffer) < 2 THEN [len |-> 0]
    ELSE LET f == buffer[1]
             header == HeaderLength(f.length, f.mask)
             taken == SmallerOf(f.length, MaxFrameLength)
             payload == SubSeq(buffer, header + 1, header + taken)
         IN  IF Len(buffer) - header < taken THEN [len |-> 0]
             ELSE [len |-> header + f.length, opcode |-> f.opcode, fin |-> f.fin,
                   payload |-> IF f.mask THEN Masked(payload) ELSE payload]

-----------------------------------------------------------------------------
Nothing == [on |-> FALSE, payload |-> <<>>]

WsInitWith(client) ==
    /\ isClient = client /\ wsState = "Disconnected"
    /\ mBuffer = <<>> /\ mIgnoreLength = 0 /\ mPartial = <<>> /\ mPartialOpcode = "none"
    /\ mOutstandingPings = 0 /\ mCloseSent = FALSE
    /\ stream = <<>> /\ lowerUp = TRUE /\ replies = {} /\ timer = "none"
    /\ expected = <<>> /\ received = <<>> /\ frames = 0 /\ idles = 0 /\ open = Nothing

WsInit == \E client \in BOOLEAN : WsInitWith(client)

\* start(), sendHttpRequest(); the peer's half of the handshake is on its way.
WsStart(http) ==
    /\ wsState = "Disconnected" /\ frames = 0 /\ ~mCloseSent /\ lowerUp    \* once
    /\ wsState' = "Connecting"
    /\ stream' = <<http, http>>
    /\ UNCHANGED <<isClient, parser, mOutstandingPings, mCloseSent, lowerUp, replies, timer, expected, frames,
                   idles, open>>

\* The peer: messages whole or in fragments, and control frames between them.
Payload(length) == [i \in 1..length |-> (i + frames) % 2]

PeerSends(opcode, length, fin) ==
    LET payload == Payload(length)
        data == opcode \in {"text", "binary", "continuation"}
        first == opcode \in {"text", "binary"}
        whole == IF first THEN payload ELSE open.payload \o payload
    IN  /\ frames < MaxFrames /\ wsState # "Disconnected"
        /\ first => ~open.on
        /\ opcode = "continuation" => open.on
        /\ ~data => fin /\ length <= MaxControl
        /\ stream' = stream \o FrameBytes(opcode, payload, fin, ~isClient)
        /\ expected' = IF data /\ fin THEN Append(expected, FirstBytes(whole, MaxMessageSize)) ELSE expected
        /\ open' = IF ~data THEN open ELSE IF fin THEN Nothing ELSE [on |-> TRUE, payload |-> whole]
        /\ frames' = frames + 1
        /\ UNCHANGED <<isClient, wsState, parser, mOutstandingPings, mCloseSent, lowerUp, replies, timer, idles>>

-----------------------------------------------------------------------------
\* One endpoint's state while incoming() works, as a record.
Endpoint == [st |-> wsState, buffer |-> mBuffer, ignore |-> mIgnoreLength, partial |-> mPartial,
             partialOp |-> mPartialOpcode, pings |-> mOutstandingPings, closeSent |-> mCloseSent,
             replies |-> replies, timer |-> timer, up |-> received]

SetEndpoint(e) ==
    /\ wsState' = e.st /\ mBuffer' = e.buffer /\ mIgnoreLength' = e.ignore /\ mPartial' = e.partial
    /\ mPartialOpcode' = e.partialOp /\ mOutstandingPings' = e.pings /\ mCloseSent' = e.closeSent
    /\ replies' = e.replies /\ timer' = e.timer /\ received' = e.up


\* close(): once, and only when connected.  Without a lower transport the frame cannot go.
Closed(e) ==
    IF e.st # "Connected" \/ e.closeSent THEN e
    ELSE IF lowerUp THEN [e EXCEPT !.closeSent = TRUE, !.replies = @ \cup {"close"}, !.timer = "running"]
    ELSE [e EXCEPT !.closeSent = TRUE, !.st = "Disconnected"]

\* Mutant: the limit is applied to a fragment, not to the message.
RecvFrameUncapped(e, f) ==
    CASE f.opcode \in {"text", "binary"} ->
             LET kept == FirstBytes(f.payload, MaxMessageSize)
                 flushed == IF e.partial # <<>> THEN [e EXCEPT !.up = Append(@, e.partial), !.partial = <<>>] ELSE e
             IN  IF f.fin THEN [flushed EXCEPT !.up = Append(@, kept), !.partialOp = f.opcode]
                 ELSE [flushed EXCEPT !.partial = kept, !.partialOp = f.opcode]
      [] f.opcode = "continuation" ->
             LET whole == e.partial \o FirstBytes(f.payload, MaxMessageSize)
             IN  IF f.fin THEN [e EXCEPT !.up = Append(@, whole), !.partial = <<>>]
                 ELSE [e EXCEPT !.partial = whole]
      [] f.opcode = "ping" -> [e EXCEPT !.replies = @ \cup {"pong"}]
      [] f.opcode = "pong" -> [e EXCEPT !.pings = 0]
      [] f.opcode = "close" -> [Closed(e) EXCEPT !.st = "Disconnected"]
      [] OTHER -> Closed(e)

\* recvFrame().
RecvFrame(e, f) ==
    CASE f.opcode \in {"text", "binary"} ->
             LET kept == FirstBytes(f.payload, MaxMessageSize)
                 flushed == IF e.partial # <<>> THEN [e EXCEPT !.up = Append(@, e.partial), !.partial = <<>>] ELSE e
             IN  IF f.fin THEN [flushed EXCEPT !.up = Append(@, kept), !.partialOp = f.opcode]
                 ELSE [flushed EXCEPT !.partial = kept, !.partialOp = f.opcode]
      [] f.opcode = "continuation" ->
             LET whole == FirstBytes(e.partial \o f.payload, MaxMessageSize)
             IN  IF f.fin THEN [e EXCEPT !.up = Append(@, whole), !.partial = <<>>]
                 ELSE [e EXCEPT !.partial = whole]
      [] f.opcode = "ping" -> [e EXCEPT !.replies = @ \cup {"pong"}]
      [] f.opcode = "pong" -> [e EXCEPT !.pings = 0]
      [] f.opcode = "close" -> [Closed(e) EXCEPT !.st = "Disconnected"]
      [] OTHER -> Closed(e)

\* The loop over the frames in the buffer.
Frames(e) ==
    FoldLeft(LAMBDA s, i :
                 LET f == ParseFrame(s.buffer)
                 IN  IF f.len = 0 THEN s
                     ELSE [RecvFrame(s, f) EXCEPT
                               !.ignore = IF f.len > Len(s.buffer) THEN f.len - Len(s.buffer) ELSE 0,
                               !.buffer = After(s.buffer, f.len)],
             e, [i \in 1..MaxFrames |-> i])

\* The HTTP request or response, once it is complete: accepted, or the handshake fails.
Upgrade(e) ==
    IF e.st # "Connecting" \/ Len(e.buffer) < 2 THEN e
    ELSE IF e.buffer[1] = "refused" THEN [e EXCEPT !.st = "Failed"]
    ELSE [e EXCEPT !.st = "Connected", !.buffer = After(@, 2)]

\* incoming() of a piece of the stream.
WsIncoming(n) ==
    /\ wsState \in {"Connecting", "Connected"} /\ lowerUp /\ stream # <<>>
    /\ LET piece == FirstBytes(stream, n)
           e == Upgrade([Endpoint EXCEPT !.buffer = @ \o piece])
           skip == SmallerOf(e.ignore, Len(e.buffer))
           skipped == [e EXCEPT !.buffer = After(@, skip), !.ignore = @ - skip]
       IN  /\ stream' = After(stream, n)
           /\ SetEndpoint(IF e.st # "Connected" THEN e ELSE IF skipped.ignore > 0 THEN skipped ELSE Frames(skipped))
    /\ UNCHANGED <<isClient, lowerUp, expected, frames, idles, open>>

\* incoming() of an empty message: the connection is idle, a ping goes out.
Idle ==
    /\ wsState = "Connected" /\ lowerUp /\ idles < MaxIdle
    /\ idles' = idles + 1
    /\ mOutstandingPings' = mOutstandingPings + 1
    /\ replies' = replies \cup {"ping"}
    /\ wsState' = IF MaxOutstandingPings > 0 /\ mOutstandingPings' > MaxOutstandingPings THEN "Failed" ELSE wsState
    /\ UNCHANGED <<isClient, parser, mCloseSent, sendingSide, lowerUp, timer>>

\* incoming() of nothing: the lower transport has ended.
LowerGone ==
    /\ lowerUp /\ lowerUp' = FALSE
    /\ wsState' = CASE wsState = "Connected" -> "Disconnected" [] wsState = "Connecting" -> "Failed"
                    [] OTHER -> wsState
    /\ UNCHANGED <<isClient, parser, mOutstandingPings, mCloseSent, sendingSide, replies, timer, idles>>

\* stop(), close() called by the application.
WsStop ==
    /\ Closed(Endpoint) # Endpoint
    /\ SetEndpoint(Closed(Endpoint))
    /\ UNCHANGED <<isClient, sendingSide, lowerUp, idles>>

\* The timeout of close().
WsCloseTimeout ==
    /\ timer = "running" /\ timer' = "fired" /\ wsState' = "Disconnected"
    /\ UNCHANGED <<isClient, parser, mOutstandingPings, mCloseSent, sendingSide, lowerUp, replies, idles>>

WsNext ==
    \/ \E http \in {"upgrade", "refused"} : WsStart(http)
    \/ \E opcode \in {"text", "binary", "continuation"}, length \in Lengths, fin \in BOOLEAN : PeerSends(opcode, length, fin)
    \/ \E opcode \in {"ping", "pong", "close", "unknown"} : PeerSends(opcode, 1, TRUE)
    \/ \E n \in Chunks : WsIncoming(n)
    \/ Idle \/ LowerGone \/ WsStop \/ WsCloseTimeout

WsSpec == WsInit /\ [][WsNext]_wsVars

-----------------------------------------------------------------------------
=============================================================================
