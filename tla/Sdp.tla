-------------------------------- MODULE Sdp ---------------------------------
(***************************************************************************)
(* Session descriptions: Description with its entries (Media, Application),*)
(* their SDP text, and Candidate (src/src/description.cpp, candidate.cpp). *)
(* A text is the sequence of its lines, a line a tuple of a key and values.*)
(* An SSRC is the sequence of its digits: removeSSRC() compares text.      *)
(***************************************************************************)
EXTENDS Integers, Sequences, SequencesExt, FiniteSets, FiniteSetsExt, Functions, TLC

CONSTANTS DynamicTypes,   \* the payload types addRtx() may choose from, 96..127 in the code
          PayloadTypes, Formats, Ssrcs, SdpMids, SdpCandidates,   \* values the application uses
          MaxEdits        \* bound on the calls of the application

ASSUME SdpAssumption == DynamicTypes \subseteq Nat /\ PayloadTypes \subseteq Nat /\ MaxEdits \in Nat

VARIABLES description, edits

sdpVars == <<description, edits>>

-----------------------------------------------------------------------------
\* Helpers: the standard containers.
Ascending(S) == [i \in 1..Cardinality(S) |-> CHOOSE x \in S : Cardinality({y \in S : y < x}) = i - 1]
Insert(f, k, v) == (k :> v) @@ f             \* map[k] = v
Emplace(f, k, v) == f @@ (k :> v)            \* map.emplace(k, v)
Erase(f, k) == Restrict(f, DOMAIN f \ {k})
Without(s, Test(_)) == SelectSeq(s, LAMBDA x : ~Test(x))
AddUnique(s, x) == IF Contains(s, x) THEN s ELSE Append(s, x)
Concat(Op(_), s) == FlattenSeq([i \in DOMAIN s |-> Op(s[i])])
When(test, lines) == IF test THEN lines ELSE <<>>

\* Entry, Application and Media in one record.  0 or -1 is an absent optional.
NewEntry(type, mid, direction) ==
    [type |-> type, mid |-> mid, direction |-> direction, removed |-> FALSE, extMaps |-> <<>>,
     attributes |-> <<>>, rids |-> <<>>, bas |-> -1, payloadTypes |-> <<>>, rtpMaps |-> <<>>,
     feedbacks |-> <<>>, ssrcs |-> <<>>, fid |-> <<>>, sctpPort |-> 0, maxMessageSize |-> 0]

IsApplication(e) == e.type = "application"

NewDescription ==
    [role |-> "actpass", ice |-> 0, iceOptions |-> <<>>, fingerprint |-> 0, attributes |-> <<>>,
     entries |-> <<>>, candidates |-> <<>>, ended |-> FALSE]

\* bundleMid(): the first media that is not removed.
BundleMid(d) ==
    LET live == {i \in DOMAIN d.entries : ~d.entries[i].removed}
    IN  IF live = {} THEN "0" ELSE d.entries[Min(live)].mid

-----------------------------------------------------------------------------
\* Candidate::operator==, candidate(): a resolved candidate is printed with its address.
SameCandidate(a, b) == a.foundation = b.foundation /\ a.node = b.node /\ a.service = b.service
CandidateLine(c) ==
    <<"candidate", c.foundation, c.priority, IF c.address # "" THEN c.address ELSE c.node, c.service, c.type>>
\* Candidate::parse().
ParseCandidate(line, mid) ==
    [foundation |-> line[2], priority |-> line[3], node |-> line[4], service |-> line[5],
     type |-> line[6], address |-> "", mid |-> mid]

\* addCandidate(): the mid is a hint, a candidate is added once.
AddCandidate(d, c) ==
    LET hinted == IF c.mid = "" THEN [c EXCEPT !.mid = BundleMid(d)] ELSE c
    IN  IF \E i \in DOMAIN d.candidates : SameCandidate(d.candidates[i], hinted) THEN d
        ELSE [d EXCEPT !.candidates = Append(@, hinted)]

-----------------------------------------------------------------------------
\* RTP maps.
RtpMap(format, fbs, fmtps) == [format |-> format, rtcpFbs |-> fbs, fmtps |-> fmtps]

AddRtpMap(e, pt, map) == [e EXCEPT !.payloadTypes = AddUnique(@, pt), !.rtpMaps = Emplace(@, pt, map)]

\* Mutant: the maps that depend on the format stay.
RemoveRtpMapOnly(e, pt) ==
    LET gone == {pt}
    IN  [e EXCEPT !.payloadTypes = Without(@, LAMBDA q : q \in gone),
                  !.rtpMaps = Restrict(@, DOMAIN @ \ gone)]

\* removeRtpMap() takes the maps with it that depend on the format (apt=).
RemoveRtpMap(e, pt) ==
    LET gone == {pt} \cup {q \in DOMAIN e.rtpMaps : Contains(e.rtpMaps[q].fmtps, <<"apt", pt>>)}
    IN  [e EXCEPT !.payloadTypes = Without(@, LAMBDA q : q \in gone),
                  !.rtpMaps = Restrict(@, DOMAIN @ \ gone)]

RemoveFormat(e, format) ==
    FoldLeft(RemoveRtpMap, e, Ascending({q \in DOMAIN e.rtpMaps : e.rtpMaps[q].format = format}))

\* addAudioCodec(), addVideoCodec() and the functions named after a codec.
AddCodec(e, pt, format) ==
    AddRtpMap(e, pt, RtpMap(format, IF e.type = "video" THEN <<"nack", "nack pli", "ccm fir", "goog-remb">>
                                    ELSE <<>>, <<>>))

RtxPayloadTypes(e, pt) == {q \in DOMAIN e.rtpMaps : Contains(e.rtpMaps[q].fmtps, <<"apt", pt>>)}
AddRtxCodec(e, pt, orig) == AddRtpMap(e, pt, RtpMap("rtx", <<>>, <<<<"apt", orig>>>>))

\* Description::addRtx() for one media: the codecs without RTX take the free types in order.
AddRtx(e, audio) ==
    LET needing == SelectSeq(e.payloadTypes, LAMBDA pt : /\ e.rtpMaps[pt].format # "rtx"
                                                         /\ RtxPayloadTypes(e, pt) = {})
        free == Ascending(DynamicTypes \ ToSet(e.payloadTypes))
        n == Min({Len(needing), Len(free)})
    IN  IF IsApplication(e) \/ (e.type = "audio" /\ ~audio) THEN e
        ELSE FoldLeft(LAMBDA x, i : AddRtxCodec(x, free[i], needing[i]), e, [i \in 1..n |-> i])

-----------------------------------------------------------------------------
\* SSRCs.
SsrcLine(s) == <<"ssrc", s>>

AddSsrc(e, s) == [e EXCEPT !.attributes = Append(@, SsrcLine(s)), !.ssrcs = Append(@, s)]

RemoveSsrc(e, s) ==
    [e EXCEPT !.attributes = Without(@, LAMBDA a : a[1] = "ssrc" /\ IsPrefix(s, a[2])),
              !.ssrcs = Without(@, LAMBDA x : x = s)]

ClearSsrcs(e) == [e EXCEPT !.attributes = Without(@, LAMBDA a : a[1] = "ssrc"), !.ssrcs = <<>>, !.fid = <<>>]


AddRtxSsrc(e, primary, rtx) ==
    [e EXCEPT !.fid = Insert(@, primary, rtx),
              !.attributes = IF Contains(e.ssrcs, rtx) THEN @ ELSE Append(@, SsrcLine(rtx)),
              !.ssrcs = AddUnique(@, rtx)]

RemoveRtxSsrc(e, primary) ==
    IF primary \in DOMAIN e.fid
    THEN [RemoveSsrc(e, e.fid[primary]) EXCEPT !.fid = Erase(@, primary)] ELSE e

DisableRtx(e) ==
    LET primaries == SetToSeq(DOMAIN e.fid)
    IN  [FoldLeft(RemoveRtxSsrc, RemoveFormat(e, "rtx"), primaries) EXCEPT !.fid = <<>>]

-----------------------------------------------------------------------------
Inverted(direction) ==
    CASE direction = "sendonly" -> "recvonly" [] direction = "recvonly" -> "sendonly"
      [] OTHER -> direction

\* Media::reciprocate(), Application::reciprocate().
Reciprocate(e) ==
    IF IsApplication(e) THEN [e EXCEPT !.maxMessageSize = 0]
    ELSE [ClearSsrcs(e) EXCEPT
             !.direction = Inverted(@),
             !.extMaps = [id \in DOMAIN @ |-> [@[id] EXCEPT !.direction = Inverted(@)]],
             !.attributes = Without(@, LAMBDA a : a[1] = "rtcp-rsize")]

\* Extension maps, attributes, feedback and RIDs.
AddExtMap(e, id, uri, direction) ==
    [e EXCEPT !.extMaps = Emplace(@, id, [uri |-> uri, direction |-> direction])]
RemoveExtMap(e, id) == [e EXCEPT !.extMaps = Erase(@, id)]
AddAttribute(x, attribute) == [x EXCEPT !.attributes = AddUnique(@, attribute)]
AddFeedback(e, fb) == [e EXCEPT !.feedbacks = AddUnique(@, fb)]
AddRid(e, rid) == [e EXCEPT !.rids = Append(@, rid)]

\* addIceOption(), removeIceOption(), extractCandidates().
AddIceOption(d, option) == [d EXCEPT !.iceOptions = AddUnique(@, option)]
RemoveIceOption(d, option) == [d EXCEPT !.iceOptions = Without(@, LAMBDA o : o = option)]
ExtractCandidates(d) == [d EXCEPT !.candidates = <<>>, !.ended = FALSE]

\* removeApplication(), addMedia().
RemoveApplication(d) == [d EXCEPT !.entries = Without(@, IsApplication)]
AddMedia(d, e) == IF IsApplication(e) THEN [RemoveApplication(d) EXCEPT !.entries = Append(@, e)]
                  ELSE [d EXCEPT !.entries = Append(@, e)]

-----------------------------------------------------------------------------
\* Entry::generateSdp(), generateSdpLines().
EntryLines(e) ==
    <<<<"m", e.type, IF e.removed THEN 0 ELSE 9, e.payloadTypes>>>>
    \o When(e.bas >= 0, <<<<"b", e.bas>>>>)
    \o <<<<"mid", e.mid>>>>
    \o Concat(LAMBDA id : <<<<"extmap", id, e.extMaps[id]>>>>, Ascending(DOMAIN e.extMaps))
    \o When(e.direction # "unknown", <<<<"direction", e.direction>>>>)
    \o Without(e.attributes, LAMBDA a : e.rids # <<>> /\ a[1] = "ssrc")
    \o Concat(LAMBDA r : <<<<"rid", r>>>>, e.rids)
    \o When(e.rids # <<>>, <<<<"simulcast", e.rids>>>>)

\* Media::generateSdpLines(), Application::generateSdpLines().
MediaLines(e) ==
    <<<<"rtcp-mux">>>>
    \o Concat(LAMBDA fb : <<<<"rtcp-fb", -1, fb>>>>, e.feedbacks)
    \o Concat(LAMBDA pt : <<<<"rtpmap", pt, e.rtpMaps[pt].format>>>>
                          \o Concat(LAMBDA v : <<<<"rtcp-fb", pt, v>>>>, e.rtpMaps[pt].rtcpFbs)
                          \o Concat(LAMBDA v : <<<<"fmtp", pt, v>>>>, e.rtpMaps[pt].fmtps),
              Ascending(DOMAIN e.rtpMaps))
    \o Concat(LAMBDA p : <<<<"fid", p, e.fid[p]>>>>, SetToSeq(DOMAIN e.fid))

ApplicationLines(e) ==
    When(e.sctpPort # 0, <<<<"sctp-port", e.sctpPort>>>>)
    \o When(e.maxMessageSize # 0, <<<<"max-message-size", e.maxMessageSize>>>>)

AllLines(e) == EntryLines(e) \o (IF IsApplication(e) THEN ApplicationLines(e) ELSE MediaLines(e))

\* generateSdp(): the candidates follow the first media that is not removed.
GenerateSdp(d) ==
    LET first == {i \in DOMAIN d.entries : ~d.entries[i].removed
                     /\ \A j \in 1..i - 1 : d.entries[j].removed}
    IN  When(d.iceOptions # <<>>, <<<<"ice-options", d.iceOptions>>>>)
        \o When(d.fingerprint # 0, <<<<"fingerprint", d.fingerprint>>>>)
        \o d.attributes
        \o FlattenSeq([i \in DOMAIN d.entries |->
               AllLines(d.entries[i]) \o <<<<"setup", d.role>>>>
               \o When(d.ice # 0, <<<<"ice", d.ice>>>>)
               \o When(i \in first, Concat(LAMBDA c : <<CandidateLine(c)>>, d.candidates)
                                    \o When(d.ended, <<<<"end-of-candidates">>>>))])

\* The parseSdpLine() functions: those of Application and Media pass on what is not theirs.
ParseEntryLine(e, line) ==
    LET key == line[1]
    IN  CASE key = "mid" -> [e EXCEPT !.mid = line[2]]
          [] key = "extmap" -> [e EXCEPT !.extMaps = Insert(@, line[2], line[3])]
          [] key = "direction" -> [e EXCEPT !.direction = line[2]]
          [] key = "bundle-only" -> [e EXCEPT !.removed = FALSE]
          [] key = "rid" -> [e EXCEPT !.rids = Append(@, line[2])]
          [] OTHER -> [e EXCEPT !.attributes = Append(@, line)]

ParseMediaLine(e, line) ==
    LET key == line[1]
        Known(pt) == IF pt \in DOMAIN e.rtpMaps THEN e ELSE
                     [e EXCEPT !.rtpMaps = Insert(@, pt, RtpMap("", <<>>, <<>>))]
    IN  CASE key = "b" -> [e EXCEPT !.bas = line[2]]
          [] key = "rtpmap" -> [Known(line[2]) EXCEPT !.rtpMaps[line[2]].format = line[3]]
          [] key = "rtcp-fb" /\ line[2] = -1 -> [e EXCEPT !.feedbacks = AddUnique(@, line[3])]
          [] key = "rtcp-fb" /\ line[2] # -1 ->
                 [Known(line[2]) EXCEPT !.rtpMaps[line[2]].rtcpFbs = Append(@, line[3])]
          [] key = "fmtp" -> [Known(line[2]) EXCEPT !.rtpMaps[line[2]].fmtps = Append(@, line[3])]
          [] key = "rtcp-mux" -> e
          [] key = "ssrc" -> [e EXCEPT !.ssrcs = AddUnique(@, line[2]), !.attributes = Append(@, line)]
          [] key = "fid" -> [e EXCEPT !.fid = Insert(@, line[2], line[3])]
          [] OTHER -> ParseEntryLine(e, line)

ParseApplicationLine(e, line) ==
    CASE line[1] = "sctp-port" -> [e EXCEPT !.sctpPort = line[2]]
      [] line[1] = "max-message-size" -> [e EXCEPT !.maxMessageSize = line[2]]
      [] OTHER -> ParseEntryLine(e, line)

ParseAnyLine(e, line) ==
    IF IsApplication(e) THEN ParseApplicationLine(e, line) ELSE ParseMediaLine(e, line)

\* One turn of the constructor's loop.  index counts the m= lines, from -1.
ParseLine(s, line) ==
    LET d == s.d
        key == line[1]
        n == Len(d.entries)
        First(value) == value = 0 \/ s.index = 0   \* the first media overrides the session
        fresh == [NewEntry(line[2], "", IF line[2] = "application" THEN "sendrecv" ELSE "unknown")
                     EXCEPT !.removed = (line[3] = 0), !.payloadTypes = line[4]]
    IN  CASE key = "m" -> [d |-> AddMedia(d, fresh), index |-> s.index + 1]
          [] key = "setup" -> [s EXCEPT !.d.role = line[2]]
          [] key = "fingerprint" -> IF First(d.fingerprint) THEN [s EXCEPT !.d.fingerprint = line[2]] ELSE s
          [] key = "ice" -> IF First(d.ice) THEN [s EXCEPT !.d.ice = line[2]] ELSE s
          [] key = "ice-options" -> IF d.iceOptions = <<>> THEN [s EXCEPT !.d.iceOptions = line[2]] ELSE s
          [] key = "candidate" -> [s EXCEPT !.d = AddCandidate(d, ParseCandidate(line, BundleMid(d)))]
          [] key = "end-of-candidates" -> [s EXCEPT !.d.ended = TRUE]
          [] OTHER -> IF n > 0 THEN [s EXCEPT !.d.entries[n] = ParseAnyLine(@, line)]
                      ELSE [s EXCEPT !.d.attributes = Append(@, line)]

\* The constructor's loop over the lines, by halves: TLC's stack is too short for a fold.
RECURSIVE ParseLines(_, _)
ParseLines(s, lines) ==
    LET half == Len(lines) \div 2
    IN  IF Len(lines) <= 1 THEN IF lines = <<>> THEN s ELSE ParseLine(s, lines[1])
        ELSE CHOOSE r \in {ParseLines(t, SubSeq(lines, half + 1, Len(lines))) :
                               t \in {ParseLines(s, SubSeq(lines, 1, half))}} : TRUE

\* Description::Description(sdp).
ParseSdp(lines) == ParseLines([d |-> NewDescription, index |-> -1], lines).d

-----------------------------------------------------------------------------
\* The calls of an application on the description and on its entry i.
Call(d) == /\ edits < MaxEdits
           /\ d # description
           /\ description' = d
           /\ edits' = edits + 1

OnEntry(i, e) == Call([description EXCEPT !.entries[i] = e])

MediaCalls(i) ==
    LET e == description.entries[i]
    IN  /\ ~IsApplication(e)
        /\ \/ \E pt \in PayloadTypes, f \in Formats : OnEntry(i, AddCodec(e, pt, f))
           \/ \E audio \in BOOLEAN : OnEntry(i, AddRtx(e, audio))
           \/ \E f \in Formats \cup {"rtx"} : OnEntry(i, RemoveFormat(e, f))
           \/ OnEntry(i, DisableRtx(e))
           \/ \E s \in Ssrcs : ~Contains(e.ssrcs, s) /\ OnEntry(i, AddSsrc(e, s))
           \/ \E s \in Ssrcs : OnEntry(i, RemoveSsrc(e, s))
           \/ \E s \in ToSet(e.ssrcs), r \in Ssrcs \ ToSet(e.ssrcs) : OnEntry(i, AddRtxSsrc(e, s, r))
           \/ \E s \in DOMAIN e.fid : OnEntry(i, RemoveRtxSsrc(e, s))
           \/ \E id \in {1, 2}, dir \in {"unknown", "sendonly"} : OnEntry(i, AddExtMap(e, id, "u", dir))
           \/ \E id \in DOMAIN e.extMaps : OnEntry(i, RemoveExtMap(e, id))
           \/ OnEntry(i, AddAttribute(e, <<"rtcp-rsize">>))
           \/ OnEntry(i, AddFeedback(e, "transport-cc"))
           \/ e.rids = <<>> /\ OnEntry(i, AddRid(e, "r0"))
           \/ OnEntry(i, [e EXCEPT !.bas = 500])
           \/ \E dir \in {"sendonly", "inactive"} : OnEntry(i, [e EXCEPT !.direction = dir])

DescriptionCalls ==
    \/ \E m \in SdpMids, type \in {"audio", "video", "application"} :
           /\ \A i \in DOMAIN description.entries : description.entries[i].mid # m
           /\ Call(AddMedia(description, NewEntry(type, m, "sendrecv")))
    \/ \E i \in DOMAIN description.entries : OnEntry(i, [description.entries[i] EXCEPT !.removed = TRUE])
    \/ \E i \in DOMAIN description.entries : OnEntry(i, Reciprocate(description.entries[i]))
    \/ \E c \in SdpCandidates : Call(AddCandidate(description, c))
    \/ Call(ExtractCandidates(description))
    \/ Call([description EXCEPT !.ended = TRUE])
    \/ Call([description EXCEPT !.ice = 1])
    \/ Call([description EXCEPT !.fingerprint = 1])
    \/ Call(AddIceOption(description, "trickle"))
    \/ Call(RemoveIceOption(description, "trickle"))
    \/ Call(AddAttribute(description, <<"extmap-allow-mixed">>))

SdpInitWith(role, format) ==
    /\ description = [NewDescription EXCEPT !.role = role, !.entries =
          <<AddCodec(NewEntry("video", "v", "sendrecv"), 96, format),
            [NewEntry("application", "d", "sendrecv") EXCEPT !.sctpPort = 5000, !.maxMessageSize = 100]>>]
    /\ edits = 0

SdpInit == \E r \in {"actpass", "active"}, f \in Formats : SdpInitWith(r, f)

SdpNext == DescriptionCalls \/ \E i \in DOMAIN description.entries : MediaCalls(i)

SdpSpec == SdpInit /\ [][SdpNext]_sdpVars

-----------------------------------------------------------------------------
(***************************************************************************)
(* A description survives its text: whatever the application built, the    *)
(* other side parses what was meant.  Candidates need a media that is not  *)
(* removed to go with; resolved candidates come back with their address,   *)
(* all with the bundle's mid; the SSRCs of a simulcast media are not sent, *)
(* and its simulcast line comes back as an attribute.  An SSRC is lost when*)
(* removeSSRC() of one whose digits are a prefix of its own took its lines;*)
(* every other SSRC is in the text.                                        *)
(***************************************************************************)
Sent(e) ==
    IF e.rids = <<>> THEN [e EXCEPT !.ssrcs = SelectSeq(@, LAMBDA s : Contains(e.attributes, SsrcLine(s)))]
    ELSE [e EXCEPT !.attributes = Append(Without(@, LAMBDA a : a[1] = "ssrc"), <<"simulcast", e.rids>>),
                   !.ssrcs = <<>>]

AllAdvertised(e) ==
    \A s \in ToSet(e.ssrcs) : (\A r \in Ssrcs \ {s} : ~IsPrefix(r, s)) => Contains(e.attributes, SsrcLine(s))


(***************************************************************************)
(* Retransmission formats stay consistent: the payload types are those of  *)
(* the RTP maps, every RTX format names a codec the media still has, and   *)
(* addRtx() gives no codec two of them, also when the dynamic payload      *)
(* types run out and after formats were removed.                           *)
(***************************************************************************)
RtxConsistent ==
    \A i \in DOMAIN description.entries :
        LET e == description.entries[i]
        IN  /\ ToSet(e.payloadTypes) = DOMAIN e.rtpMaps
            /\ Cardinality(ToSet(e.payloadTypes)) = Len(e.payloadTypes)
            /\ \A q \in DOMAIN e.rtpMaps : e.rtpMaps[q].format = "rtx" =>
                   \E pt \in DOMAIN e.rtpMaps :
                       /\ RtxPayloadTypes(e, pt) = {q}
                       /\ e.rtpMaps[pt].format # "rtx"
=============================================================================
