------------------------------ MODULE NalUnits ------------------------------
(***************************************************************************)
(* The H264 and H265 payload formats: splitting a frame into NAL units,    *)
(* fragmenting a unit that is larger than a packet, and reassembling the   *)
(* units of one timestamp from the packets that arrived                    *)
(* (src/src/h264rtppacketizer.cpp, nalunit.cpp, h264rtpdepacketizer.cpp    *)
(* and their H265 counterparts, which differ by the size of the header and *)
(* the place of the unit type in it).  c is the codec, bytes are 0..255,   *)
(* and the payload of a packet is what its headers and padding leave.      *)
(***************************************************************************)
EXTENDS Integers, Sequences, SequencesExt

CeilDiv(a, b) == (a + b - 1) \div b

HeaderSize(c) == IF c = "h264" THEN 1 ELSE 2
FuType(c) == IF c = "h264" THEN 28 ELSE 49
AggregateType(c) == IF c = "h264" THEN 24 ELSE 48

UnitType(c, data) == IF c = "h264" THEN data[1] % 32 ELSE (data[1] \div 2) % 64

\* setUnitType() on the header at the front of data: its other bits are kept.
SetUnitType(c, header, type) ==
    IF c = "h264" THEN <<header[1] - (header[1] % 32) + type>>
    ELSE <<header[1] - 2 * UnitType(c, header) + 2 * type, header[2]>>

-----------------------------------------------------------------------------
\* Splitting.  A match is the number of zeros seen, or the length of the start sequence found.
DetectShort(separator) == separator \in {"ShortStartSequence", "StartSequence"}
DetectLong(separator) == separator \in {"LongStartSequence", "StartSequence"}

StartSequenceMatchSucc(match, byte, separator) ==
    CASE match \in {"shortMatch", "longMatch"} -> match
      [] match = "noMatch" /\ byte = 0 -> "firstZero"
      [] match = "firstZero" /\ byte = 0 -> "secondZero"
      [] match = "secondZero" /\ byte = 0 /\ DetectLong(separator) -> "thirdZero"
      [] match = "secondZero" /\ byte = 0 /\ DetectShort(separator) /\ ~DetectLong(separator) -> "secondZero"
      [] match = "secondZero" /\ byte = 1 /\ DetectShort(separator) -> "shortMatch"
      [] match = "thirdZero" /\ byte = 0 /\ DetectLong(separator) -> "thirdZero"
      [] match = "thirdZero" /\ byte = 1 /\ DetectLong(separator) -> "longMatch"
      [] OTHER -> "noMatch"

\* The bytes before the first start sequence belong to no unit.
SplitAtStartSequences(frame, separator) ==
    LET Step(acc, byte) ==
            LET match == StartSequenceMatchSucc(acc.match, byte, separator)
                tail == IF match = "longMatch" THEN 3 ELSE 2
            IN  IF match \notin {"shortMatch", "longMatch"}
                THEN [acc EXCEPT !.match = match,
                                 !.unit = IF acc.started THEN Append(@, byte) ELSE @]
                ELSE [match |-> "noMatch", started |-> TRUE, unit |-> <<>>,
                      nalus |-> IF acc.started
                                THEN Append(acc.nalus, SubSeq(acc.unit, 1, Len(acc.unit) - tail))
                                ELSE acc.nalus]
        end == FoldLeft(Step, [match |-> "noMatch", started |-> FALSE, unit |-> <<>>, nalus |-> <<>>],
                        frame)
    IN  Append(end.nalus, end.unit)

\* Each unit is preceded by its length on 4 bytes; an incomplete one ends the frame.
SplitByLength(frame) ==
    LET from[i \in 1..Len(frame) + 1] ==
            IF i + 3 >= Len(frame) THEN <<>>
            ELSE LET last == i + 3 + 65536 * (256 * frame[i] + frame[i + 1])
                                   + 256 * frame[i + 2] + frame[i + 3]
                 IN  IF last > Len(frame) THEN <<>>
                     ELSE <<SubSeq(frame, i + 4, last)>> \o from[last + 1]
    IN  from[1]

SplitFrame(frame, separator) ==
    IF separator = "Length" THEN SplitByLength(frame) ELSE SplitAtStartSequences(frame, separator)

-----------------------------------------------------------------------------
\* Fragmenting.  The sizes are evened out before the fragment headers are taken off.
GenerateUnitFragments(c, unit, maxFragmentSize) ==
    LET size == Len(unit)
        chunk == CeilDiv(size, CeilDiv(size, maxFragmentSize)) - (HeaderSize(c) + 1)
        header == SubSeq(unit, 1, HeaderSize(c))
        payload == SubSeq(unit, HeaderSize(c) + 1, size)
        Fragment(i) ==
            LET offset == (i - 1) * chunk
                start == IF offset = 0 THEN 128 ELSE 0
                end == IF offset # 0 /\ offset + chunk >= Len(payload) THEN 64 ELSE 0
                stop == IF offset + chunk < Len(payload) THEN offset + chunk ELSE Len(payload)
            IN  SetUnitType(c, header, FuType(c)) \o <<start + end + UnitType(c, header)>>
                \o SubSeq(payload, offset + 1, stop)
    IN  [i \in 1..CeilDiv(Len(payload), chunk) |-> Fragment(i)]

GenerateFragments(c, nalus, maxFragmentSize) ==
    FlattenSeq([i \in DOMAIN nalus |->
        IF Len(nalus[i]) > maxFragmentSize
        THEN GenerateUnitFragments(c, nalus[i], maxFragmentSize)
        ELSE <<nalus[i]>>])

NalFragment(c, frame, separator, maxFragmentSize) ==
    GenerateFragments(c, SplitFrame(frame, separator), maxFragmentSize)

-----------------------------------------------------------------------------
\* Reassembling.
SeparatorBytes(separator) ==
    IF separator = "ShortStartSequence" THEN <<0, 0, 1>> ELSE <<0, 0, 0, 1>>

\* The units of an aggregation packet, each behind its size on 2 bytes; "throw" when a
\* size exceeds what is left.
AggregatedUnits(c, payload) ==
    LET from[o \in 0..Len(payload)] ==
            IF o + 2 >= Len(payload) THEN [ok |-> TRUE, units |-> <<>>]
            ELSE LET last == o + 2 + 256 * payload[o + 1] + payload[o + 2]
                 IN  IF last > Len(payload) THEN [ok |-> FALSE, units |-> <<>>]
                     ELSE [ok |-> from[last].ok,
                           units |-> <<SubSeq(payload, o + 3, last)>> \o from[last].units]
    IN  from[HeaderSize(c)]

\* Mutant: fragments after a gap are appended.
FragmentStepGlued(c, separator, acc, payload) ==
    LET h == HeaderSize(c)
        fu == payload[h + 1]
        start == fu >= 128
        continuous == TRUE
        type == fu % (IF c = "h264" THEN 32 ELSE 64)
        \* idc() keeps the two NRI bits, and not the forbidden bit
        header == IF c = "h264" THEN <<(payload[1] % 128) - (payload[1] % 32) + type>>
                  ELSE SetUnitType(c, payload, type)
    IN  IF Len(payload) <= h THEN acc
        ELSE [acc EXCEPT !.continuous = continuous /\ (fu \div 64) % 2 = 0,
                         !.frame = @ \o (IF start THEN SeparatorBytes(separator) \o header ELSE <<>>)
                                     \o (IF continuous THEN SubSeq(payload, h + 2, Len(payload))
                                                       ELSE <<>>)]

\* A fragment: the first one brings the separator and the header of the unit, and the ones
\* after a missing packet are left out.
FragmentStep(c, separator, acc, payload) ==
    LET h == HeaderSize(c)
        fu == payload[h + 1]
        start == fu >= 128
        continuous == acc.continuous \/ start
        type == fu % (IF c = "h264" THEN 32 ELSE 64)
        \* idc() keeps the two NRI bits, and not the forbidden bit
        header == IF c = "h264" THEN <<(payload[1] % 128) - (payload[1] % 32) + type>>
                  ELSE SetUnitType(c, payload, type)
    IN  IF Len(payload) <= h THEN acc
        ELSE [acc EXCEPT !.continuous = continuous /\ (fu \div 64) % 2 = 0,
                         !.frame = @ \o (IF start THEN SeparatorBytes(separator) \o header ELSE <<>>)
                                     \o (IF continuous THEN SubSeq(payload, h + 2, Len(payload))
                                                       ELSE <<>>)]

PayloadStep(c, separator, acc, payload) ==
    LET type == UnitType(c, payload)
        whole == [acc EXCEPT !.continuous = FALSE]
        aggregated == AggregatedUnits(c, payload)
        Separated(units) == FlattenSeq([i \in DOMAIN units |-> SeparatorBytes(separator) \o units[i]])
    IN  CASE payload = <<>> -> acc
          [] payload # <<>> /\ Len(payload) < HeaderSize(c) -> [acc EXCEPT !.ok = FALSE]
          [] Len(payload) >= HeaderSize(c) /\ type = FuType(c) ->
                FragmentStep(c, separator, acc, payload)
          [] Len(payload) >= HeaderSize(c) /\ type = AggregateType(c) ->
                [whole EXCEPT !.ok = aggregated.ok, !.frame = @ \o Separated(aggregated.units)]
          [] Len(payload) >= HeaderSize(c) /\ type \in (IF c = "h264" THEN 1..23 ELSE 0..46) ->
                [whole EXCEPT !.frame = @ \o Separated(<<payload>>)]
          [] OTHER -> [whole EXCEPT !.ok = c # "h264"]

\* reassemble(): packets is the ordered buffer.  The sequence numbers are compared without
\* wrapping.  ok is FALSE when the code throws.
NalReassemble(c, packets, separator, seqMod) ==
    LET Step(acc, p) ==
            IF ~acc.ok \/ p.seq < acc.next THEN acc
            ELSE PayloadStep(c, separator,
                             [acc EXCEPT !.continuous = @ /\ p.seq = acc.next,
                                         !.next = (p.seq + 1) % seqMod],
                             p.payload)
    IN  FoldLeft(Step, [frame |-> <<>>, next |-> packets[1].seq, continuous |-> FALSE, ok |-> TRUE],
                 packets)
=============================================================================
