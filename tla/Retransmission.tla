--------------------------- MODULE Retransmission ---------------------------
(***************************************************************************)
(* The RTCP handlers at the two ends of a media stream.  The sender keeps  *)
(* its packets in RtcpNackResponder (src/src/rtcpnackresponder.cpp), counts*)
(* them in RtcpSrReporter and answers keyframe requests in PliHandler; the *)
(* receiver runs RtcpReceivingSession (src/src/rtcpreceivingsession.cpp),  *)
(* which unwraps retransmissions and keeps the RFC 3550 sequence state.    *)
(* NACKs are produced by the application or a browser (external).  The     *)
(* network loses and reorders media packets; RTCP is lost, not reordered.  *)
(***************************************************************************)
EXTENDS Integers, Sequences, SequencesExt, FiniteSets, Functions

CONSTANTS RTP_SEQ_MOD, MAX_DROPOUT, MAX_MISORDER,
          MaxSize,       \* maxSize of the packet store
          FirstSeqs,     \* first sequence numbers of the stream
          MaxPackets,    \* bound on the media packets sent
          ReportTimes,   \* the packet counts at which a second may have passed
          MaxNacks, MaxRequests, \* bounds on the NACKs and on the keyframe requests
          MaxInFlight, MaxFeedback \* bounds on the packets in flight each way

ASSUME RetransmissionAssumption ==
    /\ MaxSize \in Nat \ {0} /\ MaxSize < RTP_SEQ_MOD
    /\ MAX_DROPOUT \in Nat /\ MAX_MISORDER \in Nat
    /\ MAX_DROPOUT + MAX_MISORDER < RTP_SEQ_MOD
    /\ FirstSeqs \subseteq 0..RTP_SEQ_MOD - 1

None == [ssrc |-> 0]
Primary == 1
Rtx == 2

VARIABLES first,     \* the first sequence number
          sentCount, \* packets sent
          store,     \* RtcpNackResponder::Storage: the list from oldest to newest, and the map
          rtx,       \* the sender's RTX state: enabled, sequence number
          report,    \* RtcpSrReporter: packet count, and whether a report is due
          fir,       \* PliHandler: the last command number seen, and the calls of onPli()
          net,       \* media packets in flight
          feedback,  \* RTCP packets in flight to the sender
          session,   \* RtcpReceivingSession
          delivered, \* the last packet handed to the depacketizer, or None
          polluted,  \* an RTX packet went on as it was (history)
          base, top, \* the packets that set mBaseSeq and mMaxSeq (history)
          nacks, requests

sender == <<first, sentCount, store, rtx, report, fir>>
receiver == <<session, delivered, polluted, base, top>>
retransmissionVars == <<sender, receiver, net, feedback, nacks, requests>>

Number(n) == (first + n - 1) % RTP_SEQ_MOD

\* The n-th media packet, sent by a packetizer on the primary SSRC.
Media(n) == [ssrc |-> Primary, seq |-> Number(n), body |-> n]

-----------------------------------------------------------------------------
\* Mutant: the test of the size is off by one.
StoreGrows(s, p) ==
    LET list == Append(s.list, p)
        map == IF p.seq \in DOMAIN s.map THEN s.map
               ELSE [q \in DOMAIN s.map \cup {p.seq} |-> IF q = p.seq THEN p ELSE s.map[q]]
    IN  IF Cardinality(DOMAIN map) > MaxSize + 1
        THEN [list |-> Tail(list), map |-> Restrict(map, DOMAIN map \ {list[1].seq})]
        ELSE [list |-> list, map |-> map]

\* Storage::store(): emplace() does nothing when the number is in the map already.
Store(s, p) ==
    LET list == Append(s.list, p)
        map == IF p.seq \in DOMAIN s.map THEN s.map
               ELSE [q \in DOMAIN s.map \cup {p.seq} |-> IF q = p.seq THEN p ELSE s.map[q]]
    IN  IF Cardinality(DOMAIN map) > MaxSize
        THEN [list |-> Tail(list), map |-> Restrict(map, DOMAIN map \ {list[1].seq})]
        ELSE [list |-> list, map |-> map]

\* wrapInRtx(): the RTX packet carries the original number in front of the payload.
WrapInRtx(p, seq) == [ssrc |-> Rtx, seq |-> seq, osn |-> p.seq, body |-> p.body]

\* outgoing() of the responder and the reporter, then the transport.  A report that is due
\* goes out with the packets.
SendMedia ==
    LET p == Media(sentCount + 1)
    IN  /\ sentCount < MaxPackets
        /\ Cardinality(net) < MaxInFlight
        /\ sentCount' = sentCount + 1
        /\ store' = Store(store, p)
        /\ net' = net \cup {p} \cup (IF report.due THEN {[ssrc |-> 0, sr |-> report.packets + 1]} ELSE {})
        /\ report' = [packets |-> report.packets + 1, due |-> FALSE]
        /\ UNCHANGED <<first, rtx, fir, receiver, feedback, nacks, requests>>

\* A second has passed since the last sender report.
ReportDue ==
    /\ ~report.due
    /\ sentCount \in ReportTimes
    /\ report' = [report EXCEPT !.due = TRUE]
    /\ UNCHANGED <<first, sentCount, store, rtx, fir, receiver, net, feedback, nacks, requests>>

\* RtcpNackResponder::media(): a renegotiation enables or disables RTX.
Renegotiate ==
    /\ sentCount = 1
    /\ rtx' = [rtx EXCEPT !.enabled = ~@]
    /\ UNCHANGED <<first, sentCount, store, report, fir, receiver, net, feedback, nacks, requests>>

\* RtcpNackResponder::incoming() for a NACK, PliHandler::incoming() for a FIR or a PLI.
SenderIncoming ==
    LET m == Head(feedback)
        found == SelectSeq(m.seqs, LAMBDA q : q \in DOMAIN store.map)
        Answer(i) == IF rtx.enabled
                     THEN WrapInRtx(store.map[found[i]], (rtx.seq + i - 1) % RTP_SEQ_MOD)
                     ELSE store.map[found[i]]
    IN  /\ feedback # <<>>
        /\ feedback' = Tail(feedback)
        /\ CASE m.type = "NACK" ->
                    /\ net' = net \cup {Answer(i) : i \in DOMAIN found}
                    /\ rtx' = IF rtx.enabled
                              THEN [rtx EXCEPT !.seq = (@ + Len(found)) % RTP_SEQ_MOD] ELSE rtx
                    /\ UNCHANGED fir
             [] m.type = "FIR" ->
                    /\ fir' = IF m.seqNo # fir.last
                              THEN [last |-> m.seqNo, calls |-> fir.calls + 1] ELSE fir
                    /\ UNCHANGED <<net, rtx>>
             [] m.type = "PLI" -> /\ fir' = [fir EXCEPT !.calls = @ + 1]
                                  /\ UNCHANGED <<net, rtx>>
             [] OTHER -> UNCHANGED <<net, rtx, fir>>
        /\ UNCHANGED <<first, sentCount, store, report, receiver, nacks, requests>>

-----------------------------------------------------------------------------
\* Mutant: the number of the RTX stream is kept.
UnwrapRtxKeepsNumber(s, p) ==
    IF p.ssrc = Rtx /\ s.primarySsrc # 0
    THEN [ssrc |-> s.primarySsrc, seq |-> p.seq, body |-> p.body] ELSE p

\* RtcpReceivingSession.  unwrapRtx(): it needs the primary SSRC, from the description or
\* from a primary packet; without it the RTX packet goes on as it is.
UnwrapRtx(s, p) ==
    IF p.ssrc = Rtx /\ s.primarySsrc # 0
    THEN [ssrc |-> s.primarySsrc, seq |-> p.osn, body |-> p.body] ELSE p

InitSeq(s, seq) ==
    [s EXCEPT !.baseSeq = seq, !.maxSeq = seq, !.badSeq = RTP_SEQ_MOD + 1, !.cycles = 0,
              !.received = 0, !.receivedPrior = 0, !.expectedPrior = 0]

\* A jump too large for a loss and too large for reordering.
Jump(s, seq) == (seq - s.maxSeq) % RTP_SEQ_MOD \in MAX_DROPOUT .. RTP_SEQ_MOD - MAX_MISORDER

Resync(s, seq) == Jump(s, seq) /\ seq = s.badSeq


\* updateSeq() (mProbation is never set: it stays 0).
UpdateSeq(s, seq) ==
    LET Counted(t) == [t EXCEPT !.received = @ + 1]
    IN  CASE (seq - s.maxSeq) % RTP_SEQ_MOD < MAX_DROPOUT ->
                Counted([s EXCEPT !.cycles = IF seq < s.maxSeq THEN @ + RTP_SEQ_MOD ELSE @,
                                  !.maxSeq = seq])
          [] Resync(s, seq) -> Counted(InitSeq(s, seq))
          [] Jump(s, seq) /\ seq # s.badSeq -> [s EXCEPT !.badSeq = (seq + 1) % RTP_SEQ_MOD]
          [] OTHER -> Counted(s)

\* pushRR(): fraction is a uint8_t, lost 24 bits of a two's complement number.
Expected(s) == s.cycles + s.maxSeq - s.baseSeq + 1

ReceiverReport(s) ==
    LET expectedInterval == Expected(s) - s.expectedPrior
        lostInterval == expectedInterval - (s.received - s.receivedPrior)
    IN  [type |-> "RR",
         fraction |-> IF expectedInterval = 0 \/ lostInterval = 0 THEN 0
                      ELSE ((lostInterval * 256) \div expectedInterval) % 256,
         lost |-> (IF s.received > 0 THEN Expected(s) - s.received ELSE 0) % 2^24]

\* incoming() for a media packet: RTX is unwrapped, or the primary SSRC learnt.
ReceiveMedia(p) ==
    LET learnt == IF p.ssrc = Rtx \/ session.primarySsrc # 0 THEN session
                  ELSE [session EXCEPT !.primarySsrc = p.ssrc]
        q == UnwrapRtx(session, p)
        counted == UpdateSeq(learnt, q.seq)
    IN  /\ p \in net
        /\ p.ssrc # 0
        /\ net' = net \ {p}
        /\ session' = [counted EXCEPT !.ssrc = q.ssrc]
        /\ delivered' = q
        /\ polluted' = (polluted \/ q.ssrc = Rtx)
        /\ base' = IF Resync(learnt, q.seq) THEN q.body ELSE base
        /\ top' = IF q.seq = counted.maxSeq THEN q.body ELSE top
        /\ UNCHANGED <<sender, feedback, nacks, requests>>

\* incoming() for a sender report: the receiver answers with its own report.
ReceiveSenderReport(p) ==
    /\ p \in net
    /\ p.ssrc = 0
    /\ Len(feedback) < MaxFeedback
    /\ net' = net \ {p}
    /\ session' = [session EXCEPT !.ssrc = Primary, !.expectedPrior = Expected(session),
                                  !.receivedPrior = session.received]
    /\ feedback' = Append(feedback, ReceiverReport(session))
    /\ UNCHANGED <<sender, delivered, polluted, base, top, nacks, requests>>

\* requestKeyframe(): with FIR support a new command number unless it is a retransmission,
\* otherwise a PLI.
RequestKeyframe(retransmit) ==
    LET number == IF retransmit THEN session.cmd ELSE session.cmd + 1
    IN  /\ requests < MaxRequests
        /\ Len(feedback) < MaxFeedback
        /\ retransmit => session.cmd > 0
        /\ requests' = requests + 1
        /\ session' = IF session.supportsFir THEN [session EXCEPT !.cmd = number] ELSE session
        /\ feedback' = Append(feedback, IF session.supportsFir
                                        THEN [type |-> "FIR", seqNo |-> number % 256]
                                        ELSE [type |-> "PLI"])
        /\ UNCHANGED <<sender, net, delivered, polluted, base, top, nacks>>

\* The receiving application asks for packets that may be missing (external).
Nack(seqs) ==
    /\ nacks < MaxNacks
    /\ Len(feedback) < MaxFeedback
    /\ nacks' = nacks + 1
    /\ feedback' = Append(feedback, [type |-> "NACK", seqs |-> seqs])
    /\ UNCHANGED <<sender, net, receiver, requests>>

\* The network (external).
LoseMedia(p) ==
    /\ p \in net
    /\ net' = net \ {p}
    /\ UNCHANGED <<sender, receiver, feedback, nacks, requests>>

LoseFeedback ==
    /\ feedback # <<>>
    /\ feedback' = Tail(feedback)
    /\ UNCHANGED <<sender, receiver, net, nacks, requests>>

RetransmissionInitWith(seq, enabled, primary, firs) ==
    /\ first = seq
    /\ sentCount = 0
    /\ store = [list |-> <<>>, map |-> <<>>]
    /\ rtx = [enabled |-> enabled, seq |-> RTP_SEQ_MOD - 1]
    /\ report = [packets |-> 0, due |-> FALSE]
    /\ fir = [last |-> 0, calls |-> 0]
    /\ net = {}
    /\ feedback = <<>>
    /\ session = [ssrc |-> 0, primarySsrc |-> primary, supportsFir |-> firs, cmd |-> 0,
                  baseSeq |-> 0, maxSeq |-> 0, badSeq |-> 0, cycles |-> 0, received |-> 0,
                  receivedPrior |-> 0, expectedPrior |-> 0]
    /\ delivered = None
    /\ polluted = FALSE
    /\ base = 0
    /\ top = 0
    /\ nacks = 0
    /\ requests = 0

RetransmissionInit ==
    \E seq \in FirstSeqs, enabled \in BOOLEAN, primary \in {0, Primary}, firs \in BOOLEAN :
        RetransmissionInitWith(seq, enabled, primary, firs)

RetransmissionNext ==
    \/ SendMedia
    \/ ReportDue
    \/ Renegotiate
    \/ SenderIncoming
    \/ \E p \in net : ReceiveMedia(p)
    \/ \E p \in net : ReceiveSenderReport(p)
    \/ \E retransmit \in BOOLEAN : RequestKeyframe(retransmit)
    \/ \E n \in 1..sentCount : Nack(<<Number(n)>>)
    \/ \E n \in 1..sentCount : n < sentCount /\ Nack(<<Number(n), Number(n + 1)>>)
    \/ \E p \in net : LoseMedia(p)
    \/ LoseFeedback

RetransmissionSpec == RetransmissionInit /\ [][RetransmissionNext]_retransmissionVars

-----------------------------------------------------------------------------
\* The newest MaxSize packets, each under its own sequence number.
StoreHoldsNewest ==
    LET kept == IF sentCount < MaxSize THEN sentCount ELSE MaxSize
        newest == {Media(n) : n \in sentCount - kept + 1 .. sentCount}
    IN  /\ ToSet(store.list) = newest
        /\ Range(store.map) = newest
        /\ \A q \in DOMAIN store.map : store.map[q].seq = q

(***************************************************************************)
(* What reaches the depacketizer on the primary stream is a packet the     *)
(* packetizer made, with its own number and payload, also when it came     *)
(* wrapped in RTX, was unwrapped after a renegotiation, or was sent twice. *)
(* The packet store it is answered from holds exactly the newest MaxSize   *)
(* packets, also when the numbers wrap: the list and the map of            *)
(* RtcpNackResponder::Storage never diverge.                               *)
(***************************************************************************)
RetransmissionFaithful ==
    /\ CASE delivered.ssrc = Primary -> delivered \in {Media(n) : n \in 1..sentCount}
         [] delivered.ssrc = Rtx -> delivered.osn = Media(delivered.body).seq
         [] OTHER -> delivered = None
    /\ StoreHoldsNewest

=============================================================================
