----------------------------- MODULE VpxPayload -----------------------------
(***************************************************************************)
(* The VP8 and VP9 payload formats (src/src/vp8rtppacketizer.cpp,          *)
(* vp8rtpdepacketizer.cpp, vp9rtppacketizer.cpp, vp9rtpdepacketizer.cpp):  *)
(* the sender writes a one-byte descriptor, the receiver skips whatever    *)
(* descriptor it finds and keeps the runs of packets without a hole.       *)
(***************************************************************************)
EXTENDS Integers, Sequences, SequencesExt, FiniteSetsExt

Bit(byte, n) == (byte \div 2^n) % 2 = 1
Flag(byte, n) == (byte \div 2^n) % 2

\* The byte at i, 0 past the end: a descriptor that needs it is then longer than the payload.
At(payload, i) == IF i <= Len(payload) THEN payload[i] ELSE 0

Descriptor(c, frame, first, last) ==
    IF c = "vp8"
    THEN (IF Bit(frame[1], 0) THEN 32 ELSE 0) + (IF first THEN 16 ELSE 0)
    ELSE (IF ~Bit(frame[1], 3) /\ Bit(frame[1], 2) THEN 64 ELSE 0)
         + (IF first THEN 8 ELSE 0) + (IF last THEN 4 ELSE 0)

VpxFragment(c, frame, maxFragmentSize) ==
    LET chunk == maxFragmentSize - 1
        count == (Len(frame) + chunk - 1) \div chunk
        Stop(i) == IF i = count THEN Len(frame) ELSE i * chunk
    IN  IF Len(frame) < (IF c = "vp8" THEN 3 ELSE 1) \/ maxFragmentSize <= 1 THEN <<>>
        ELSE [i \in 1..count |-> <<Descriptor(c, frame, i = 1, i = count)>>
                                 \o SubSeq(frame, (i - 1) * chunk + 1, Stop(i))]

Vp8DescriptorSize(p) ==
    LET ext == At(p, 2)
        pictureId == IF Bit(ext, 7) THEN 1 + Flag(At(p, 3), 7) ELSE 0
        index == IF Bit(ext, 5) \/ Bit(ext, 4) THEN 1 ELSE 0
    IN  IF Bit(p[1], 7) THEN 2 + pictureId + Flag(ext, 6) + index ELSE 1

\* The scalability structure at offset o: resolutions, then picture groups.
SsSize(p, o) ==
    LET ss == At(p, o + 1)
        sizes == IF Bit(ss, 4) THEN 4 * (ss \div 32 + 1) ELSE 0
        groupsAt == o + 1 + sizes + 1
        end[i \in 0..At(p, groupsAt)] ==
            IF i = 0 THEN groupsAt ELSE end[i - 1] + 1 + ((At(p, end[i - 1] + 1) \div 4) % 4)
    IN  IF Bit(ss, 3) THEN end[At(p, groupsAt)] ELSE o + 1 + sizes

Vp9DescriptorSize(p) ==
    LET picture == 1 + (IF Bit(p[1], 7) THEN 1 + Flag(At(p, 2), 7) ELSE 0)
        layers == picture + (IF Bit(p[1], 5) THEN 2 - Flag(p[1], 4) ELSE 0)
        \* at most three reference indices, the last one without the N bit
        refs == IF Bit(p[1], 6) /\ Bit(p[1], 4) /\ layers < Len(p)
                THEN Min({k \in 1..3 : k = 3 \/ layers + k = Len(p) \/ ~Bit(At(p, layers + k), 0)})
                ELSE 0
    IN  IF Bit(p[1], 1) THEN SsSize(p, layers + refs) ELSE layers + refs

DescriptorSize(c, payload) ==
    IF c = "vp8" THEN Vp8DescriptorSize(payload) ELSE Vp9DescriptorSize(payload)

\* One packet: the start of a partition, or the marker, commits the run before it.
VpxStep(c, acc, p) ==
    LET size == DescriptorSize(c, p.payload)
        data == SubSeq(p.payload, size + 1, Len(p.payload))
        start == Bit(p.payload[1], IF c = "vp8" THEN 4 ELSE 3)
        run == IF acc.continuous THEN acc.payloads \o (IF p.marker THEN data ELSE <<>>)
               ELSE IF start /\ p.marker THEN data ELSE <<>>
        committed == IF start \/ p.marker
                     THEN [acc EXCEPT !.frame = @ \o run, !.payloads = <<>>, !.continuous = TRUE]
                     ELSE acc
    IN  IF p.payload = <<>> \/ size > Len(p.payload) THEN acc
        ELSE [committed EXCEPT !.payloads = IF p.marker THEN @ ELSE @ \o data]

\* reassemble(): an empty frame is no message.
VpxReassemble(c, packets, seqMod) ==
    LET Step(acc, p) ==
            IF p.seq < acc.next THEN acc
            ELSE VpxStep(c, [acc EXCEPT !.continuous = @ /\ p.seq = acc.next,
                                        !.next = (p.seq + 1) % seqMod], p)
    IN  FoldLeft(Step, [frame |-> <<>>, next |-> packets[1].seq, continuous |-> FALSE,
                        payloads |-> <<>>], packets)
=============================================================================
