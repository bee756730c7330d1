------------------------------ MODULE Formats -------------------------------
(***************************************************************************)
(* The wire formats, exercised: one step encodes an input the way the code *)
(* does, and the invariants compare what a reader gets with what went in.  *)
(***************************************************************************)
EXTENDS RtpFormats, LayerFormats

CONSTANTS NackLists,   \* sequences of missing packets, in stream order
          Bitrates, RtcpPackets, SdesPackets, ExtensionLists, Contexts, Allocations

VARIABLES kind, input, encoded

formatVars == <<kind, input, encoded>>

FormatInit ==
    /\ \/ kind = "nack" /\ input \in NackLists
       \/ kind = "remb" /\ input \in Bitrates
       \/ kind = "rtcp" /\ input \in RtcpPackets
       \/ kind = "sdes" /\ input \in SdesPackets
       \/ kind = "extensions" /\ input \in ExtensionLists
       \/ kind = "descriptor" /\ input \in Contexts
       \/ kind = "allocation" /\ input \in Allocations
    /\ encoded = <<>>

Encode(k, i) ==
    CASE k = "nack" -> NackParts(i)
      [] k = "remb" -> <<SetBitrate(i.ssrcs, i.bitrate)>>
      [] k = "rtcp" -> <<RtcpLength(i.type, i.entries)>>
      [] k = "sdes" -> <<SdesSize(i)>>
      [] k = "extensions" -> <<WriteExtensions(i)>>
      [] k = "descriptor" -> WriteDescriptor(i)
      [] k = "allocation" -> GenerateAllocation(i, 0)

FormatNext ==
    /\ encoded = <<>>
    /\ encoded' = Encode(kind, input)
    /\ UNCHANGED <<kind, input>>

FormatSpec == FormatInit /\ [][FormatNext]_formatVars

Done(k) == kind = k /\ encoded # <<>>

-----------------------------------------------------------------------------
\* addMissingPacket() against getSequenceNumbers(), setBitrate() against getBitrate(), and
\* preparePacket() against getReportBlock(), getFciCount(), dataSize(), isValid(), chunksCount().
FeedbackExact ==
    /\ Done("nack") => UNION {SequenceNumbers(encoded[i]) : i \in DOMAIN encoded} = ToSet(input)
    /\ Done("remb") => /\ GetBitrate(encoded[1]) <= input.bitrate
                       /\ input.bitrate - GetBitrate(encoded[1]) <= input.bitrate \div 2^17
                       /\ GetSSRCCount(encoded[1]) = input.ssrcs
    /\ Done("rtcp") => /\ IsRtcp(4 * (encoded[1] + 1), input.type)
                       /\ RtcpEntries(input.type, encoded[1])
                              = IF input.type = 204 THEN 4 * (input.entries \div 4) ELSE input.entries
    /\ Done("sdes") => SdesChunksCount(input, encoded[1]) = Len(input)

ExtensionsComplete ==
    Done("extensions") =>
        /\ encoded[1].written = {e.name : e \in ToSet(input)}
        /\ input # <<>> => encoded[1].offset + 4 <= ExtensionHeaderSize(input)

LayersRecovered ==
    /\ Done("descriptor") =>
           LET read == ReadDescriptor(encoded, input)
               d == input.descriptor
           IN  /\ read.ok
               /\ read.spatialId = d.spatialId /\ read.temporalId = d.temporalId
               /\ read.dtis = d.dtis /\ read.frameDiffs = d.frameDiffs
               /\ \A i \in 1..input.chainCount :
                      i \in input.activeChains => read.chainDiffs[i] = d.chainDiffs[i]
               /\ ~d.structureAttached /\ d.activeTargets = -1 =>
                      LET extra == FindBestTemplate(input).extra
                      IN  SizeBits(encoded) = 24 + (IF extra > 0 THEN 5 + extra ELSE 0)
    /\ Done("allocation") =>
           LET read == ReadAllocation(encoded)
           IN  read.ok /\ read.layers = FoldLeft(LAMBDA n, s : n + Cardinality(SpatialLayers(s)), 0, input)

=============================================================================
