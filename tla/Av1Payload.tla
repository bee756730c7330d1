----------------------------- MODULE Av1Payload -----------------------------
(***************************************************************************)
(* The AV1 payload format (src/src/av1rtppacketizer.cpp,                   *)
(* av1rtpdepacketizer.cpp).  The sender strips the temporal delimiter and  *)
(* the size fields, keeps a sequence header to send it in front of the     *)
(* next OBU, and cuts each OBU at the packet size; the receiver joins the  *)
(* fragments (Z and Y bits) and puts the size fields back.                 *)
(***************************************************************************)
EXTENDS VpxPayload

\* A LEB128 number at offset o (bytes before it), read from at most limit bytes.
Leb128(data, o, limit) ==
    LET size == Min({k \in 1..limit : k = limit \/ o + k >= Len(data) \/ data[o + k] < 128})
        value[k \in 0..size] == IF k = 0 THEN 0
                                ELSE value[k - 1] + (data[o + k] % 128) * 2^(7 * (k - 1))
    IN  IF o >= Len(data) THEN [size |-> 0, value |-> 0, ok |-> FALSE]
        ELSE [size |-> size, value |-> value[size], ok |-> data[o + size] < 128]

\* The bytes of a LEB128 number, 4 of them at most for a uint32_t below 2^28.
Leb128Bytes(n) ==
    LET size == Min({k \in 1..4 : n < 2^(7 * k)})
    IN  [k \in 1..size |-> ((n \div 2^(7 * (k - 1))) % 128) + (IF k < size THEN 128 ELSE 0)]

\* An OBU without a size field ends the scan.
ExtractTemporalUnitObus(data) ==
    LET from[o \in 0..Len(data)] ==
            IF o >= Len(data) \/ ~Bit(data[o + 1], 1) THEN <<>>
            ELSE LET h == 1 + Flag(data[o + 1], 2)
                     leb == Leb128(data, o + h, 8)
                     start == o + h + leb.size
                     header == <<data[o + 1] - 2>> \o SubSeq(data, o + 2, o + h)
                     body == IF start + leb.value <= Len(data)
                             THEN SubSeq(data, start + 1, start + leb.value) ELSE <<>>
                 IN  <<header \o body>>
                     \o (IF start + leb.value < Len(data) THEN from[start + leb.value] ELSE <<>>)
    IN  IF Len(data) > 2 /\ data[1] = 18 /\ data[2] = 0 THEN from[2] ELSE from[0]

\* fragmentObu(): header is mSequenceHeader, <<>> for none.  It must fit in one packet.
FragmentObu(header, obu, maxFragmentSize) ==
    LET meta == IF header = <<>> THEN <<>> ELSE <<Len(header) % 128>> \o header
        room(i) == maxFragmentSize - 1 - (IF i = 1 THEN Len(meta) ELSE 0)
        first == room(1)
        count == IF Len(obu) <= first THEN 1 ELSE 1 + (Len(obu) - first + room(2) - 1) \div room(2)
        Stop(i) == IF i = count THEN Len(obu) ELSE IF i = 0 THEN 0 ELSE first + (i - 1) * room(2)
        Payload(i) ==
            LET prefix == IF i = 1 THEN meta ELSE <<>>
                aggregation == (IF prefix = <<>> THEN 16 ELSE 32 + 8) + (IF i > 1 THEN 128 ELSE 0)
                               + (IF Stop(i) < Len(obu) THEN 64 ELSE 0)
            IN  <<aggregation>> \o prefix \o SubSeq(obu, Stop(i - 1) + 1, Stop(i))
    IN  CASE obu = <<>> -> [header |-> header, payloads |-> <<>>]
          [] obu # <<>> /\ (obu[1] \div 8) % 16 = 1 -> [header |-> obu, payloads |-> <<>>]
          [] OTHER -> [header |-> <<>>, payloads |-> [i \in 1..count |-> Payload(i)]]

\* fragment(): the payloads of a temporal unit, or of one OBU, and the header left over.
Av1Fragment(header, data, temporalUnit, maxFragmentSize) ==
    LET Step(acc, obu) ==
            LET r == FragmentObu(acc.header, obu, maxFragmentSize)
            IN  [header |-> r.header, payloads |-> acc.payloads \o r.payloads]
    IN  FoldLeft(Step, [header |-> header, payloads |-> <<>>],
                 IF temporalUnit THEN ExtractTemporalUnitObus(data) ELSE <<data>>)

AppendObuWithSize(frame, obu) ==
    LET h == 1 + Flag(obu[1], 2)
        leb == Leb128(obu, h, 4)
        rest == SubSeq(obu, h + leb.size + 1, Len(obu))
        body == IF ~Bit(obu[1], 1) THEN SubSeq(obu, h + 1, Len(obu))
                ELSE IF leb.value < Len(rest) THEN SubSeq(rest, 1, leb.value) ELSE rest
        header == <<IF Bit(obu[1], 1) THEN obu[1] ELSE obu[1] + 2>> \o SubSeq(obu, 2, h)
    IN  IF obu = <<>> \/ Len(obu) < 1 + Flag(At(obu, 1), 2) THEN frame
        ELSE frame \o header \o Leb128Bytes(Len(body)) \o body

\* The OBU elements of a payload: w of them, the last without a length, or, when w = 0,
\* any number of them, all with a length.
Elements(payload) ==
    LET w == (payload[1] \div 16) % 4
        from[o \in 0..Len(payload), i \in 1..Len(payload) + 1] ==
            LET leb == Leb128(payload, o, 4)
                end == o + leb.size + leb.value
            IN  IF w # 0 /\ i = w THEN <<SubSeq(payload, o + 1, Len(payload))>>
                ELSE IF o >= Len(payload) \/ ~leb.ok \/ end > Len(payload) THEN <<>>
                ELSE <<SubSeq(payload, o + leb.size + 1, end)>> \o from[end, i + 1]
    IN  from[1, 1]

Output(frame, obu, temporalUnit) ==
    IF temporalUnit THEN AppendObuWithSize(frame, obu) ELSE frame \o obu

\* Element i of a payload: Y keeps it for the next packet, Z joins it with what was kept.
JoinElement(acc, elements, i, z, y, temporalUnit) ==
    CASE i = Len(elements) /\ y -> [acc EXCEPT !.pending = @ \o elements[i]]
      [] OTHER -> [frame |-> Output(acc.frame,
                                    (IF i = 1 /\ z THEN acc.pending ELSE <<>>) \o elements[i],
                                    temporalUnit),
                   pending |-> IF i = 1 /\ z THEN <<>> ELSE acc.pending]

JoinElements(acc, elements, aggregation, temporalUnit) ==
    LET Step(a, i) ==
            JoinElement(a, elements, i, Bit(aggregation, 7), Bit(aggregation, 6), temporalUnit)
    IN  FoldLeftDomain(Step, acc, elements)

\* reassemble().  The sequence numbers are not looked at: pending is carried over a hole.
Av1Reassemble(packets, temporalUnit) ==
    LET Step(acc, p) ==
            IF Len(p.payload) <= 1 THEN acc
            ELSE JoinElements(acc, Elements(p.payload), p.payload[1], temporalUnit)
    IN  FoldLeft(Step, [frame |-> <<>>, pending |-> <<>>], packets)
=============================================================================
