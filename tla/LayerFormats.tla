---------------------------- MODULE LayerFormats ----------------------------
(***************************************************************************)
(* The two layer-description extensions: the AV1 dependency descriptor     *)
(* (src/src/dependencydescriptor.cpp) and the video layers allocation      *)
(* (src/src/video_layers_allocation.cpp).  A bit string is the sequence of *)
(* its fields [v, w], value and width: a reader that asks for another      *)
(* width than the writer wrote has lost its place.                         *)
(***************************************************************************)
EXTENDS Integers, Sequences, SequencesExt, FiniteSets, FiniteSetsExt, Functions

Bits(v, w) == <<[v |-> v, w |-> w]>>
Flag1(b) == Bits(IF b THEN 1 ELSE 0, 1)
\* getSizeBits(), by the widths (few, where the fields are many).
SizeBits(fields) ==
    LET Count(w) == Cardinality({i \in DOMAIN fields : fields[i].w = w})
    IN  FoldSet(LAMBDA w, n : n + w * Count(w), 0, {fields[i].w : i \in DOMAIN fields})

MapFlatten(Op(_), s) == FlattenSeq([i \in DOMAIN s |-> Op(s[i])])

\* BitWriter::writeNonSymmetric().
WriteNonSymmetric(v, n) ==
    LET w == Min({k \in 0..6 : n < 2^k})
        m == 2^w - n
    IN  IF n = 1 THEN <<>> ELSE IF v < m THEN Bits(v, w - 1) ELSE Bits(v + m, w)

-----------------------------------------------------------------------------
MaxTemplates == 64

\* calculate_match(): t is a template's position; extra is the size of what it does not say.
CalculateMatch(ctx, t) ==
    LET own == ctx.descriptor
        tpl == ctx.templates[t]
        fdiffs == own.frameDiffs # tpl.frameDiffs
        dtis == own.dtis # tpl.dtis
        chains == \E i \in 1..ctx.chainCount :
                      i \in ctx.activeChains /\ own.chainDiffs[i] # tpl.chainDiffs[i]
        DiffSize(d) == 2 + (IF d <= 2^4 THEN 4 ELSE IF d <= 2^8 THEN 8 ELSE 12)
    IN  [position |-> t, fdiffs |-> fdiffs, dtis |-> dtis, chains |-> chains,
         extra |-> (IF fdiffs THEN 2 + FoldLeft(LAMBDA n, d : n + DiffSize(d), 0, own.frameDiffs) ELSE 0)
                   + (IF dtis THEN 2 * Len(own.dtis) ELSE 0)
                   + (IF chains THEN 8 * ctx.chainCount ELSE 0)]

\* find_best_template(): the first run of templates of the frame's layer, the first of the
\* smallest among them.
SameLayer(ctx, t) == /\ ctx.templates[t].spatialId = ctx.descriptor.spatialId
                     /\ ctx.templates[t].temporalId = ctx.descriptor.temporalId

FindBestTemplate(ctx) ==
    LET first == Min({t \in DOMAIN ctx.templates : SameLayer(ctx, t)})
        run == {t \in first..Len(ctx.templates) : \A u \in first..t : SameLayer(ctx, u)}
        least == Min({CalculateMatch(ctx, t).extra : t \in run})
    IN  CalculateMatch(ctx, Min({t \in run : CalculateMatch(ctx, t).extra = least}))

NextLayerIdc(prev, next) ==
    CASE next.spatialId = prev.spatialId /\ next.temporalId = prev.temporalId -> 0
      [] next.spatialId = prev.spatialId /\ next.temporalId = prev.temporalId + 1 -> 1
      [] next.spatialId = prev.spatialId + 1 /\ next.temporalId = 0 -> 2

\* template_dependency_structure().
TemplateStructure(ctx) ==
    LET ts == ctx.templates
        n == ctx.decodeTargetCount
    IN  Bits(ctx.templateIdOffset, 6) \o Bits(n - 1, 5)
        \o FlattenSeq([i \in 1..Len(ts) - 1 |-> Bits(NextLayerIdc(ts[i], ts[i + 1]), 2)])
        \o Bits(3, 2)
        \o MapFlatten(LAMBDA t : MapFlatten(LAMBDA d : Bits(d, 2), t.dtis), ts)
        \o MapFlatten(LAMBDA t : MapFlatten(LAMBDA d : Bits(1, 1) \o Bits(d - 1, 4), t.frameDiffs)
                                 \o Bits(0, 1), ts)
        \o WriteNonSymmetric(ctx.chainCount, n + 1)
        \o (IF ctx.chainCount = 0 THEN <<>>
            ELSE MapFlatten(LAMBDA p : WriteNonSymmetric(p, ctx.chainCount), ctx.protectedBy)
                 \o MapFlatten(LAMBDA t : MapFlatten(LAMBDA d : Bits(d, 4), t.chainDiffs), ts))
        \o Flag1(ctx.resolutions # <<>>)
        \o MapFlatten(LAMBDA r : Bits(r[1] - 1, 16) \o Bits(r[2] - 1, 16), ctx.resolutions)

\* doWriteTo().  activeTargets is -1 when the optional bit mask is absent.
WriteDescriptor(ctx) ==
    LET d == ctx.descriptor
        best == FindBestTemplate(ctx)
        extended == best.extra > 0 \/ (d.startOfFrame /\ d.structureAttached) \/ d.activeTargets # -1
        active == /\ d.activeTargets # -1
                  /\ ~(d.structureAttached /\ d.activeTargets = 2^ctx.decodeTargetCount - 1)
        FrameDiff(f) == CASE f <= 2^4 -> Bits(1, 2) \o Bits(f - 1, 4)
                          [] f > 2^4 /\ f <= 2^8 -> Bits(2, 2) \o Bits(f - 1, 8)
                          [] OTHER -> Bits(3, 2) \o Bits(f - 1, 12)
    IN  Flag1(d.startOfFrame) \o Flag1(d.endOfFrame)
        \o Bits((best.position - 1 + ctx.templateIdOffset) % MaxTemplates, 6)
        \o Bits(d.frameNumber, 16)
        \o (IF extended
            THEN Flag1(d.structureAttached) \o Flag1(active)
                 \o Flag1(best.dtis) \o Flag1(best.fdiffs) \o Flag1(best.chains)
                 \o (IF d.structureAttached THEN TemplateStructure(ctx) ELSE <<>>)
                 \o (IF active THEN Bits(d.activeTargets, ctx.decodeTargetCount) ELSE <<>>)
            ELSE <<>>)
        \o (IF best.dtis THEN MapFlatten(LAMBDA i : Bits(i, 2), d.dtis) ELSE <<>>)
        \o (IF best.fdiffs THEN MapFlatten(FrameDiff, d.frameDiffs) \o Bits(0, 2) ELSE <<>>)
        \o (IF best.chains
            THEN FlattenSeq([i \in 1..ctx.chainCount |->
                     Bits(IF i \in ctx.activeChains THEN d.chainDiffs[i] ELSE 0, 8)])
            ELSE <<>>)

-----------------------------------------------------------------------------
(***************************************************************************)
(* The reader the AV1 RTP specification describes, for a receiver that     *)
(* knows the structure (the part after the structure).  It returns the     *)
(* frame's indications, or FALSE when it loses its place.                  *)
(***************************************************************************)
ReadDescriptor(fields, ctx) ==
    LET n == Len(fields)
        At(i, w) == IF i <= n /\ fields[i].w = w THEN fields[i].v ELSE -1
        t == ((At(3, 6) - ctx.templateIdOffset) % MaxTemplates) + 1
        extended == n > 4 /\ fields[5].w = 1
        present == extended /\ At(5, 1) = 1
        start == IF ~extended THEN 5
                 ELSE 10 + (IF present THEN Len(TemplateStructure(ctx)) ELSE 0)
                         + (IF At(6, 1) = 1 THEN 1 ELSE 0)
        dtis == extended /\ At(7, 1) = 1
        fdiffs == extended /\ At(8, 1) = 1
        chains == extended /\ At(9, 1) = 1
        afterDtis == start + (IF dtis THEN ctx.decodeTargetCount ELSE 0)
        ends == {i \in afterDtis..n : At(i, 2) = 0 /\ (i - afterDtis) % 2 = 0
                    /\ \A j \in afterDtis..i - 1 : (j - afterDtis) % 2 = 0 => At(j, 2) > 0}
        diffCount == IF fdiffs /\ ends # {} THEN (Min(ends) - afterDtis) \div 2 ELSE 0
        afterDiffs == afterDtis + (IF fdiffs THEN 2 * diffCount + 1 ELSE 0)
        own == ctx.templates[t]
    IN  IF t \notin DOMAIN ctx.templates \/ (fdiffs /\ ends = {})
           \/ n # afterDiffs - 1 + (IF chains THEN ctx.chainCount ELSE 0)
        THEN [ok |-> FALSE]
        ELSE [ok |-> TRUE, spatialId |-> own.spatialId, temporalId |-> own.temporalId,
              dtis |-> IF dtis THEN [i \in 1..ctx.decodeTargetCount |-> At(start + i - 1, 2)]
                       ELSE own.dtis,
              frameDiffs |-> IF fdiffs
                             THEN [i \in 1..diffCount |->
                                       1 + At(afterDtis + 2 * i - 1, 4 * At(afterDtis + 2 * i - 2, 2))]
                             ELSE own.frameDiffs,
              chainDiffs |-> IF chains THEN [i \in 1..ctx.chainCount |-> At(afterDiffs + i - 1, 8)]
                             ELSE own.chainDiffs]

-----------------------------------------------------------------------------
\* VideoLayersAllocation: streams is a sequence of streams, a stream a sequence of spatial
\* layers, a layer the sequence of the bit rates of its temporal layers with a size and a rate.
\* writeLeb128(): the bytes of a value.
Leb128Fields(value) ==
    LET count == Min({k \in 1..5 : value \div 2^(7 * (k - 1)) < 128})
    IN  FlattenSeq([i \in 1..count |-> Bits(((value \div 2^(7 * (i - 1))) % 128)
                                             + (IF i < count THEN 128 ELSE 0), 8)])

\* computeSpatialLayerBitmask(): the set of the active layers.
SpatialLayers(stream) == {i \in 1..Min({Len(stream), 4}) : stream[i].rates # <<>>}
LayerMask(layers) == FoldLeft(LAMBDA n, i : n + (IF i \in layers THEN 2^(i - 1) ELSE 0), 0, <<1, 2, 3, 4>>)

PadTo(fields, width) ==
    IF SizeBits(fields) % width = 0 THEN fields
    ELSE fields \o Bits(0, width - (SizeBits(fields) % width))

GenerateAllocation(streams, streamIndex) ==
    LET count == Min({Len(streams), 4})
        masks == [s \in 1..count |-> SpatialLayers(streams[s])]
        same == \A s \in 1..count : masks[s] = masks[1]
        active == FlattenSeq([s \in 1..count |->
                      SelectSeq([i \in 1..Min({Len(streams[s]), 4}) |-> streams[s][i]],
                                LAMBDA l : l.rates # <<>>)])
    IN  IF count = 0 \/ streamIndex >= count \/ (same /\ masks[1] = {}) THEN <<>>
        ELSE Bits(streamIndex, 2) \o Bits(count - 1, 2)
             \o Bits(IF same THEN LayerMask(masks[1]) ELSE 0, 4)
             \o (IF same THEN <<>>
                 ELSE PadTo(FlattenSeq([s \in 1..count |-> Bits(LayerMask(masks[s]), 4)]), 8))
             \o PadTo(MapFlatten(LAMBDA l : Bits(Min({Len(l.rates), 4}) - 1, 2), active), 8)
             \o MapFlatten(LAMBDA l : MapFlatten(Leb128Fields, l.rates), active)
             \o MapFlatten(LAMBDA l : Bits(Max({l.width, 1}) - 1, 16) \o Bits(Max({l.height, 1}) - 1, 16)
                                      \o Bits(l.fps, 8), active)

\* The reader of the extension's definition: bit rates per active layer, or <<>> when it loses
\* its place.
ReadAllocation(fields) ==
    LET count == fields[2].v + 1
        own == fields[3].v # 0
        masks == IF own THEN [s \in 1..count |-> fields[3].v] ELSE [s \in 1..count |-> fields[3 + s].v]
        Bit(m, i) == (m \div 2^(i - 1)) % 2
        layers == FoldLeft(LAMBDA n, m : n + Bit(m, 1) + Bit(m, 2) + Bit(m, 3) + Bit(m, 4), 0, masks)
        start == IF own THEN 4 ELSE 4 + count + (count % 2)
        temporal == [i \in 1..layers |-> fields[start + i - 1].v + 1]
        rates == start + layers + (IF layers % 4 = 0 THEN 0 ELSE 1)
        total == FoldLeft(LAMBDA n, t : n + t, 0, temporal)
        ends == SelectSeq([i \in 1..Len(fields) |-> i],
                          LAMBDA i : i >= rates /\ fields[i].w = 8 /\ fields[i].v < 128)
    IN  [layers |-> layers, temporal |-> temporal,
         ok |-> Len(ends) >= total /\ Len(fields) - ends[total] = 3 * layers]
=============================================================================
