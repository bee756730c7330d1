------------------------------ MODULE MCMedia -------------------------------
(***************************************************************************)
(* The media components, one at a time: "active" says which one moves, the *)
(* others stay in one of their initial states.                             *)
(***************************************************************************)
EXTENDS VideoStream, Retransmission, TrackMedia, Formats

VARIABLE active

mediaVars == <<active, streamVars, retransmissionVars, trackVars, formatVars>>

\* Two frames of each codec over packets of 6 bytes, around a wrap at 16: for each codec one
\* of three packets and one of one or two.
MCCodecs == {"h264", "h265", "vp8", "vp9", "av1", "av1obu"}

\* For each codec a frame of three packets and one of one or two.
MCFrames ==
    [c \in MCCodecs |->
        CASE c = "h264" -> <<<<0, 0, 0, 1, 101, 2, 3, 4, 5, 6, 7, 8, 9>>,
                             <<0, 0, 0, 1, 70, 30, 0, 31, 0, 0, 0, 1, 33, 32>> >>
          [] c = "h265" -> <<<<0, 0, 0, 1, 38, 1, 2, 3, 4, 5, 6, 7, 8, 9, 10>>,
                             <<0, 0, 0, 1, 2, 1, 31>> >>
          [] c = "vp8" -> <<<<16, 2, 3, 4, 5, 6, 7, 8, 9, 10, 11>>, <<17, 30, 31>> >>
          [] c = "vp9" -> <<<<130, 2, 3, 4, 5, 6, 7, 8, 9, 10, 11>>, <<134>> >>
          [] c = "av1" -> <<<<18, 0, 10, 1, 99, 50, 6, 1, 2, 3, 4, 5, 6>>, <<54, 7, 2, 8, 9>> >>
          [] OTHER -> <<<<48, 1, 2, 3, 4, 5, 6, 7>>, <<48, 9>> >>]
MCFirstNumbers == {3, 14}
MCFirstSeqs == {5}

CONSTANTS a, b

MCSsrcs == (a :> {1, 2}) @@ (b :> {3})
MCDirections == {(a :> "SendRecv") @@ (b :> "SendOnly"), (a :> "RecvOnly") @@ (b :> "Inactive")}
MCInputs == {[control |-> FALSE, valid |-> TRUE, stream |-> 1, ssrcs |-> {}],
             [control |-> TRUE, valid |-> TRUE, stream |-> 9, ssrcs |-> {1, 2, 3, 9}],
             [control |-> FALSE, valid |-> FALSE, stream |-> 1, ssrcs |-> {}]}

\* Wire formats at the boundaries of their fields.
MissingOffsets == <<0, 1, 2, 16, 17, 18, 34>>
MCNackLists ==
    {[i \in 1..Len(s) |-> (start + s[i]) % 65536] :
        start \in {5, 65519, 65534, 65535},
        s \in {SelectSeq(MissingOffsets, LAMBDA o : o \in set) :
                 set \in (SUBSET ToSet(MissingOffsets)) \ {{}}}}

MCBitrates == {[ssrcs |-> n, bitrate |-> rate] :
                  n \in {0, 1, 2, 255}, rate \in {0, 1, 262143, 262144, 262145, 1000000, 2^29 + 2^11 - 1}}

MCRtcpPackets == {[type |-> t, entries |-> n] : t \in {200, 201, 204, 206}, n \in 0..31}

TextLengths == {<<>>, <<0>>, <<1>>, <<2>>, <<3, 4>>, <<255, 255, 255>>}
MCSdesPackets == UNION {[1..n -> TextLengths] : n \in 1..2}

Extension(name, ids, sizes) == {[name |-> name, id |-> i, size |-> s] : i \in ids, s \in sizes}
Optional(exts) == {<<>>} \cup {<<e>> : e \in exts}
MCExtensionLists ==
    {o \o m \o d \o v \o p \o c \o t :
        o \in Optional(Extension("videoOrientation", {1}, {1})),
        m \in Optional(Extension("mid", {2, 15}, {1, 16})),
        d \in Optional(Extension("dependencyDescriptor", {14, 20}, {3, 17})),
        v \in Optional(Extension("videoLayersAllocation", {5}, {14, 20})),
        p \in Optional(Extension("playoutDelay", {6}, {3})),
        c \in Optional(Extension("colorSpace", {7}, {4})),
        t \in Optional(Extension("absCaptureTime", {8, 16}, {8}))}

Templates ==
    <<[spatialId |-> 0, temporalId |-> 0, dtis |-> <<3, 3>>, frameDiffs |-> <<>>, chainDiffs |-> <<0>>],
      [spatialId |-> 0, temporalId |-> 0, dtis |-> <<3, 2>>, frameDiffs |-> <<2>>, chainDiffs |-> <<2>>],
      [spatialId |-> 0, temporalId |-> 1, dtis |-> <<0, 1>>, frameDiffs |-> <<1, 2>>, chainDiffs |-> <<1>>]>>

MCContexts ==
    {[templates |-> Templates, templateIdOffset |-> 62, decodeTargetCount |-> 2, chainCount |-> 1,
      protectedBy |-> <<0, 0>>, resolutions |-> r, activeChains |-> chains,
      descriptor |-> [startOfFrame |-> start, endOfFrame |-> TRUE, frameNumber |-> 7,
                      structureAttached |-> attached, activeTargets |-> targets,
                      spatialId |-> 0, temporalId |-> t, dtis |-> dtis,
                      frameDiffs |-> diffs, chainDiffs |-> cd]] :
        r \in {<<>>, <<<<640, 480>>>>}, chains \in SUBSET {1}, start \in BOOLEAN,
        attached \in BOOLEAN, targets \in {-1, 1, 3}, t \in {0, 1},
        dtis \in {<<3, 3>>, <<3, 2>>}, diffs \in {<<>>, <<2>>, <<16, 17>>, <<256, 257, 4096>>},
        cd \in {<<0>>, <<2>>}}

Layer(rates) == [rates |-> rates, width |-> 640, height |-> 360, fps |-> 30]
MCStreams == {<<>>, <<Layer(<<100>>)>>, <<Layer(<<>>), Layer(<<127, 128>>)>>,
              <<Layer(<<1, 2, 3, 20000>>), Layer(<<5>>), Layer(<<6>>), Layer(<<7>>), Layer(<<8>>)>>}
MCAllocations == UNION {[1..n -> MCStreams] : n \in 1..3}

-----------------------------------------------------------------------------
StreamIdle == StreamInitWith("vp8", 3)
RetransmissionIdle == RetransmissionInitWith(6, FALSE, 0, FALSE)
TrackMediaIdle == TrackMediaInitWith([t \in Tracks |-> "Inactive"])
FormatIdle == kind = "nack" /\ input = <<5>> /\ encoded = <<>>

MediaInit ==
    \/ active = "stream" /\ StreamInit /\ RetransmissionIdle /\ TrackMediaIdle /\ FormatIdle
    \/ active = "rtcp" /\ RetransmissionInit /\ StreamIdle /\ TrackMediaIdle /\ FormatIdle
    \/ active = "track" /\ TrackMediaInit /\ StreamIdle /\ RetransmissionIdle /\ FormatIdle
    \/ active = "formats" /\ FormatInit /\ StreamIdle /\ RetransmissionIdle /\ TrackMediaIdle

MediaNext ==
    /\ \/ /\ active = "stream" /\ StreamNext
          /\ UNCHANGED <<retransmissionVars, trackVars, formatVars>>
       \/ /\ active = "rtcp" /\ RetransmissionNext
          /\ UNCHANGED <<streamVars, trackVars, formatVars>>
       \/ /\ active = "track" /\ TrackMediaNext
          /\ UNCHANGED <<streamVars, retransmissionVars, formatVars>>
       \/ /\ active = "formats" /\ FormatNext
          /\ UNCHANGED <<streamVars, retransmissionVars, trackVars>>
    /\ UNCHANGED active

MediaSpec == MediaInit /\ [][MediaNext]_mediaVars
=============================================================================
