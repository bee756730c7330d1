----------------------------- MODULE RtpFormats -----------------------------
(***************************************************************************)
(* The RTP and RTCP structures of src/src/rtp.cpp and the header           *)
(* extensions of RtpPacketizer::packetize() (src/src/rtppacketizer.cpp).   *)
(* A structure is a record of its fields; what is kept is how a value is   *)
(* spread over fields of a fixed width, and the sizes.                     *)
(***************************************************************************)
EXTENDS Integers, Sequences, SequencesExt, FiniteSets, FiniteSetsExt

\* IsRtcp().
IsRtcp(size, secondByte) == size >= 8 /\ secondByte % 128 \in 64..95

-----------------------------------------------------------------------------

\* RtcpNack::addMissingPacket(): a part is a packet id and a bit mask (the set of its bits).
AddMissingPacket(s, missing) ==
    IF s.parts = <<>> \/ missing < s.pid \/ missing > s.pid + 16
    THEN [parts |-> Append(s.parts, [pid |-> missing, blp |-> {}]), pid |-> missing]
    ELSE [s EXCEPT !.parts[Len(s.parts)].blp = @ \cup {missing - (1 + s.pid)}]

\* A NACK for the packets of a sequence, the way its callers build one.
NackParts(missing) == FoldLeft(AddMissingPacket, [parts |-> <<>>, pid |-> 0], missing).parts

\* RtcpNackPart::getSequenceNumbers().
SequenceNumbers(part) == {part.pid} \cup {(part.pid + 1 + b) % 2^16 : b \in part.blp}

-----------------------------------------------------------------------------
\* RtcpRemb::setBitrate(), getBitrate(), getSSRCCount(): 18 bits of mantissa.
SetBitrate(numSSRC, bitrate) ==
    LET exp == Min({e \in 0..14 : bitrate \div 2^e <= 2^18 - 1})
    IN  [num |-> numSSRC % 256, exp |-> exp, mantissa |-> bitrate \div 2^exp,
         length |-> 5 + numSSRC - 1]

GetBitrate(remb) == remb.mantissa * 2^remb.exp

GetSSRCCount(remb) == Min({remb.num, Max({remb.length + 1 - 5, 0})})

\* RtcpSr and RtcpRr: sizes in bytes, the length field, and getReportBlock(): how many blocks it
\* gives.  The header is 4 bytes, a block 24.
ReportLength(fixed, blocks) == ((4 + fixed + 24 * blocks) \div 4) - 1
ReportBlocks(lengthField, subtracted) == (4 * (lengthField + 1) - subtracted) \div 24

\* RtcpFir::preparePacket(), getFciCount(): 12 bytes, then 8 for each entry.
FirLength(fcis) == (12 \div 4) + 2 * fcis - 1
FirCount(lengthField) == (4 * (lengthField + 1) - 12) \div 8

\* RtcpApp::preparePacket() truncates the data to whole words; dataSize().
AppLength(dataLength) == (4 + 4 + dataLength) \div 4
AppDataSize(lengthField) == Max({4 * (lengthField + 1) - 12, 0})

\* The length field of a packet by its type, and the entries (or bytes of data) read from it.
RtcpLength(type, n) ==
    CASE type = 200 -> ReportLength(24, n)
      [] type = 201 -> ReportLength(4, n)
      [] type = 204 -> AppLength(n)
      [] type = 206 -> FirLength(n)

RtcpEntries(type, lengthField) ==
    CASE type = 200 -> ReportBlocks(lengthField, 24)
      [] type = 201 -> ReportBlocks(lengthField, 4)
      [] type = 204 -> AppDataSize(lengthField)
      [] type = 206 -> FirCount(lengthField)

-----------------------------------------------------------------------------
\* RtcpSdesItem::Size(), RtcpSdesChunk::Size(): the number of words is a uint8_t.
ItemSize(textLength) == textLength + 2
ChunkSize(textLengths) ==
    LET items == FoldLeft(LAMBDA n, l : n + ItemSize(l), 0, textLengths)
    IN  ((((items + 1 + 3) \div 4) % 256) + 1) * 4

\* safelyCountChunkSize(): the size of a chunk within maxChunkSize bytes, or -1.
SafelyCountChunkSize(chunk, maxChunkSize) ==
    LET Before(i) == 4 + FoldLeft(LAMBDA n, l : n + ItemSize(l), 0, SubSeq(chunk, 1, i - 1))
        fits == \A i \in DOMAIN chunk : Before(i) + ItemSize(chunk[i]) < maxChunkSize
    IN  IF maxChunkSize >= ChunkSize(<<>>) /\ fits /\ ChunkSize(chunk) <= maxChunkSize
        THEN ChunkSize(chunk) ELSE -1

\* RtcpSdes::preparePacket(), isValid(): chunk after chunk has to fill the packet.
SdesSize(chunks) == FoldLeft(LAMBDA n, c : n + ChunkSize(c), 0, chunks)

SdesIsValid(chunks, chunksSize) ==
    LET Start(i) == SdesSize(SubSeq(chunks, 1, i - 1))
        read == {i \in DOMAIN chunks : Start(i) < chunksSize}
    IN  /\ \A i \in read : SafelyCountChunkSize(chunks[i], chunksSize - Start(i)) >= 0
        /\ SdesSize(SubSeq(chunks, 1, Cardinality(read))) = chunksSize

\* chunksCount().
SdesChunksCount(chunks, chunksSize) ==
    IF SdesIsValid(chunks, chunksSize)
    THEN Cardinality({i \in DOMAIN chunks : SdesSize(SubSeq(chunks, 1, i - 1)) < chunksSize}) ELSE 0

-----------------------------------------------------------------------------
\* RtpExtensionHeader::writeOneByteHeader(), writeTwoByteHeader(), writeHeader(): bytes written.
WriteHeader(twoByteHeader, offset, id, size, space) ==
    IF twoByteHeader
    THEN IF id = 0 \/ size > 255 \/ offset + 2 + size > space THEN 0 ELSE 2 + size
    ELSE IF id \notin 1..14 \/ size \notin 1..16 \/ offset + 1 + size > space THEN 0 ELSE 1 + size

\* packetize(): a configuration gives the extensions to write, in the order they are written,
\* as records with a name, an id and a size.  The colour space id takes no part in the decision.
TwoByteHeader(extensions) ==
    \E e \in ToSet(extensions) :
        \/ e.name = "dependencyDescriptor" /\ (e.size > 16 \/ e.id > 14)
        \/ e.name = "videoLayersAllocation" /\ (e.size > 14 \/ e.id > 14)
        \/ e.name \in {"videoOrientation", "mid", "rid", "playoutDelay", "absCaptureTime"}
           /\ e.id > 14

\* The size of the extension header: 4 bytes and the extensions, rounded up to whole words.
ExtensionHeaderSize(extensions) ==
    LET header == IF TwoByteHeader(extensions) THEN 2 ELSE 1
        body == FoldLeft(LAMBDA n, e : n + header + e.size, 0, extensions)
    IN  IF body = 0 THEN 0 ELSE ((body + 4 + 3) \div 4) * 4

\* The names of the extensions that end up in the packet, and the bytes they take.
WriteExtensions(extensions) ==
    LET space == 4 * (ExtensionHeaderSize(extensions) \div 4 - 1)
        Write(s, e) ==
            LET n == WriteHeader(TwoByteHeader(extensions), s.offset, e.id, e.size, space)
            IN  [offset |-> s.offset + n,
                 written |-> IF n = 0 THEN s.written ELSE s.written \cup {e.name}]
    IN  FoldLeft(Write, [offset |-> 0, written |-> {}], extensions)
=============================================================================
