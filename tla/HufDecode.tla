----------------------------- MODULE HufDecode ------------------------------
(* Huffman coding of literals, the decompressor: the weights read back, the  *)
(* tables of one and of two symbols per entry, and the decoders of one       *)
(* stream and of four.  Four streams are decoded into one destination, each  *)
(* into its quarter: either four symbols at a time, or by a loop that reads  *)
(* whole registers and trusts a bound computed from the first stream.        *)
EXTENDS Huf

CONSTANTS
    HUF_DECODER_FAST_TABLELOG,   \* the bits of an index in the fast loops (11)
    HufLog                       \* the largest table a DTable has room for (12)

ASSUME TableLogs == HUF_DECODER_FAST_TABLELOG \in 5 .. HufLog /\ HufLog <= HUF_TABLELOG_MAX

(***************************************************************************)
(* The weights.  The last one is what is missing to a power of 2.          *)
(***************************************************************************)
PlainWeights(mem, n) ==
    [k \in 1 .. n |-> IF k % 2 = 1 THEN MEM_readLE(mem, 1 + k \div 2, 1) \div 16 ELSE MEM_readLE(mem, k \div 2, 1) % 16]

CompleteWeights(tableLog, rest, all, size) ==
    IF tableLog > HUF_TABLELOG_MAX \/ 2 ^ highbit(rest) # rest
       \/ Cardinality({k \in DOMAIN all : all[k] = 1}) \notin {2 * j : j \in 1 .. 128} THEN ERROR
    ELSE [error |-> FALSE, size |-> size, tableLog |-> tableLog, weights |-> all]

TotalWeight(w) == Total([k \in 0 .. Len(w) - 1 |-> IF w[k + 1] = 0 THEN 0 ELSE 2 ^ (w[k + 1] - 1)])

WithLastWeight(w, size) ==
    LET weightTotal == TotalWeight(w)
        tableLog == highbit(weightTotal) + 1
        rest == 2 ^ tableLog - weightTotal
    IN IF weightTotal = 0 \/ \E k \in DOMAIN w : w[k] > HUF_TABLELOG_MAX THEN ERROR
       ELSE CompleteWeights(tableLog, rest, Append(w, highbit(rest) + 1), size)

FromDecoded(r, size) == IF r.error THEN ERROR ELSE WithLastWeight(r.out, size)

HUF_readStats(mem) ==
    LET iSize == MEM_readLE(mem, 0, 1)
    IN IF Bytes(mem) = 0 THEN ERROR
       ELSE IF iSize >= 128
            THEN (IF (iSize - 126) \div 2 + 1 > Bytes(mem) THEN ERROR
                  ELSE WithLastWeight(PlainWeights(mem, iSize - 127), (iSize - 126) \div 2 + 1))
       ELSE IF iSize + 1 > Bytes(mem) THEN ERROR
       ELSE FromDecoded(FSE_decompress_wksp(SubSeq(mem, 9, 8 * (iSize + 1)), HUF_SYMBOLVALUE_MAX, 6), iSize + 1)

(***************************************************************************)
(* Tables.  An entry has one symbol or two.  Entry u of a table of one     *)
(* symbol belongs to the symbol whose stretch of 2^(w-1) entries, lightest *)
(* weights first, holds u.                                                 *)
(***************************************************************************)
\* Increasing the depth of the table adds as much to every weight.
HUF_rescaleStats(stats, targetTableLog) ==
    IF stats.tableLog > targetTableLog THEN stats
    ELSE [stats EXCEPT !.tableLog = targetTableLog,
                       !.weights = [k \in DOMAIN @ |-> IF @[k] = 0 THEN 0 ELSE @[k] + targetTableLog - stats.tableLog]]

\* The symbols with a weight, in the order of their stretches; where each stretch starts.
ByWeight(weights) ==
    SortSeq(SelectSeq([k \in DOMAIN weights |-> k - 1], LAMBDA s : weights[s + 1] > 0),
            LAMBDA s, t : weights[s + 1] < weights[t + 1] \/ (weights[s + 1] = weights[t + 1] /\ s < t))

RECURSIVE Stretches(_, _, _, _)
Stretches(weights, order, lo, hi) ==
    IF lo = hi THEN [j \in 1 .. 2 ^ (weights[order[lo] + 1] - 1) |-> order[lo]]
    ELSE Stretches(weights, order, lo, (lo + hi) \div 2) \o Stretches(weights, order, (lo + hi) \div 2 + 1, hi)

Entry(symbols, nbBits) == [seq |-> symbols, nbBits |-> nbBits]

X1Entries(stats, symbol) ==
    [u \in 0 .. 2 ^ stats.tableLog - 1 |-> Entry(<< symbol[u + 1] >>, stats.tableLog + 1 - stats.weights[symbol[u + 1] + 1])]

StretchesBy(weights, order) == Stretches(weights, order, 1, Len(order))

X1Table(stats) ==
    [type |-> 0, tableLog |-> stats.tableLog, dt |-> X1Entries(stats, StretchesBy(stats.weights, ByWeight(stats.weights)))]

TableX1(stats) ==
    IF HUF_rescaleStats(stats, HUF_DECODER_FAST_TABLELOG).tableLog > HufLog + 1 THEN ERROR
    ELSE [error |-> FALSE, size |-> stats.size, table |-> X1Table(HUF_rescaleStats(stats, HUF_DECODER_FAST_TABLELOG))]

HUF_readDTableX1_wksp(stats) == IF stats.error THEN ERROR ELSE TableX1(stats)

\* The table of two symbols, from the one of one symbol of the tree's own depth.
X2Table(own, tableLog, targetLog) ==
    LET Index(bits, width) == IF width >= tableLog THEN bits \div 2 ^ (width - tableLog) ELSE bits * 2 ^ (tableLog - width)
        Second(u, first, left) ==
            LET second == own[Index(u % 2 ^ left, left)]
            IN IF left > 0 /\ second.nbBits <= left THEN Entry(first.seq \o second.seq, first.nbBits + second.nbBits) ELSE first
        At(u, first) == Second(u, first, targetLog - first.nbBits)
    IN [type |-> 1, tableLog |-> targetLog,
        dt |-> [u \in 0 .. 2 ^ targetLog - 1 |-> At(u, own[Index(u, targetLog)])]]

HUF_readDTableX2_wksp(stats) ==
    IF stats.error THEN ERROR
    ELSE IF stats.tableLog > HufLog THEN ERROR
    ELSE [error |-> FALSE, size |-> stats.size,
          table |-> X2Table(X1Table(stats).dt, stats.tableLog,
                            IF stats.tableLog <= HUF_DECODER_FAST_TABLELOG THEN HUF_DECODER_FAST_TABLELOG ELSE HufLog)]

algoTime ==
    << << 0, 0, 1, 1 >>, << 0, 0, 1, 1 >>, << 150, 216, 381, 119 >>, << 170, 205, 514, 112 >>, << 177, 199, 539, 110 >>,
       << 197, 194, 644, 107 >>, << 221, 192, 735, 107 >>, << 256, 189, 881, 106 >>, << 359, 188, 1167, 109 >>,
       << 582, 187, 1570, 114 >>, << 688, 187, 1712, 122 >>, << 825, 186, 1965, 136 >>, << 976, 185, 2131, 150 >>,
       << 1180, 186, 2070, 175 >>, << 1377, 185, 1731, 202 >>, << 1412, 185, 1695, 202 >> >>

\* Whether the table of two symbols is worth building.
HUF_selectDecoder(dstSize, cSrcSize) ==
    LET t == algoTime[1 + (IF cSrcSize >= dstSize THEN 15 ELSE (cSrcSize * 16) \div dstSize)]
        time0 == t[1] + t[2] * (dstSize \div 256)
        time1 == t[3] + t[4] * (dstSize \div 256)
    IN time1 + time1 \div 32 < time0

(***************************************************************************)
(* Decoding.  d: the destination, and for each stream the bits unread, the *)
(* place of the next symbol, where the stream starts in the source and     *)
(* where its part of the destination ends.  ok: nothing is written outside *)
(* the destination.  An entry of a table of two symbols is written whole,  *)
(* two bytes, whatever its length.                                         *)
(***************************************************************************)
Written(dst, p, e, type) ==
    IF type = 0 THEN [dst EXCEPT ![p + 1] = e.seq[1]]
    ELSE [dst EXCEPT ![p + 1] = e.seq[1], ![p + 2] = IF Len(e.seq) = 2 THEN e.seq[2] ELSE 0]

Decode(d, i, table) ==
    LET With(e) == [d EXCEPT !.dst = Written(@, d.op[i], e, table.type),
                             !.ok = @ /\ d.op[i] + 1 + table.type <= Len(d.dst),
                             !.op[i] = @ + Len(e.seq), !.b[i] = BIT_skipBits(@, e.nbBits)]
    IN With(table.dt[BIT_lookBits(d.b[i], table.tableLog)])

\* Nothing is defined behind a write out of bounds.
RECURSIVE DecodeTimes(_, _, _, _)
DecodeTimes(d, i, table, n) ==
    IF n = 0 \/ ~d.ok THEN d ELSE IF n = 1 THEN Decode(d, i, table)
    ELSE DecodeTimes(DecodeTimes(d, i, table, n \div 2), i, table, n - n \div 2)

\* The last symbol: one byte, and an entry of two symbols may claim more bits than are left.
HUF_decodeLastSymbolX2(d, i, table) ==
    LET With(e) ==
            [d EXCEPT !.dst[d.op[i] + 1] = e.seq[1], !.op[i] = @ + 1,
                      !.b[i] = IF Len(e.seq) = 1 THEN BIT_skipBits(@, e.nbBits)
                               ELSE IF @.left > 0 THEN [@ EXCEPT !.left = IF @ < e.nbBits THEN 0 ELSE @ - e.nbBits]
                               ELSE @]
    IN With(table.dt[BIT_lookBits(d.b[i], table.tableLog)])

RECURSIVE HUF_decodeStreamX2(_, _, _)
HUF_decodeStreamX2(d, i, table) ==
    LET left == d.end[i] - d.op[i]
    IN IF left <= 0 THEN d
       ELSE IF left = 1 THEN HUF_decodeLastSymbolX2(d, i, table)
       ELSE HUF_decodeStreamX2(DecodeTimes(d, i, table, left \div 2), i, table)

HUF_decodeStreamX1(d, i, table) == DecodeTimes(d, i, table, IF d.op[i] < d.end[i] THEN d.end[i] - d.op[i] ELSE 0)

HUF_decodeStream(d, i, table) == IF table.type = 1 THEN HUF_decodeStreamX2(d, i, table) ELSE HUF_decodeStreamX1(d, i, table)

Regenerated(d) == [k \in 1 .. Len(d.dst) |-> d.dst[k]]

Finished(d) == IF \E i \in DOMAIN d.b : ~BIT_endOfDStream(d.b[i]) THEN ERROR ELSE [error |-> FALSE, out |-> Regenerated(d), ok |-> d.ok]

OneStream(b, n, table) ==
    IF b.error THEN ERROR
    ELSE Finished(HUF_decodeStream([dst |-> [k \in 1 .. n |-> 0], ok |-> TRUE, b |-> << b >>, op |-> << 0 >>,
                                    base |-> << 0 >>, end |-> << n >>], 1, table))

HUF_decompress1X_usingDTable(mem, n, table) == OneStream(BIT_initDStream(mem), n, table)

\* Four streams behind a table with the sizes of the first three.
FourStreams(mem, n) ==
    LET size == [i \in 1 .. 3 |-> MEM_readLE(mem, 2 * i - 2, 2)]
        segmentSize == (n + 3) \div 4
        Base(i) == 6 + (IF i > 1 THEN size[1] ELSE 0) + (IF i > 2 THEN size[2] ELSE 0) + (IF i > 3 THEN size[3] ELSE 0)
        Stream(i) == SubSeq(mem, 8 * Base(i) + 1, IF i = 4 THEN Len(mem) ELSE 8 * (Base(i) + size[i]))
        Start(b) == IF \E i \in 1 .. 4 : b[i].error THEN ERROR
                    ELSE [error |-> FALSE, dst |-> [k \in 1 .. n |-> 0], ok |-> TRUE, b |-> b,
                          op |-> [i \in 1 .. 4 |-> (i - 1) * segmentSize], base |-> [i \in 1 .. 4 |-> Base(i)],
                          end |-> [i \in 1 .. 4 |-> IF i = 4 THEN n ELSE i * segmentSize]]
    IN IF Bytes(mem) < 10 \/ n < 6 THEN ERROR
       ELSE IF Base(4) > Bytes(mem) \/ 3 * segmentSize > n THEN ERROR
       ELSE Start([i \in 1 .. 4 |-> BIT_initDStream(Stream(i))])

\* The byte from which stream i fills its register, counted from the start of the source.
Ip(d, i) == d.base[i] + (d.b[i].left + 7) \div 8 - Register

\* n symbols, or all that are left (n = 0), of every stream from number i on.
RECURSIVE StreamsOf(_, _, _, _)
StreamsOf(d, i, table, n) ==
    IF i > 4 THEN d ELSE StreamsOf(IF n = 0 THEN HUF_decodeStream(d, i, table) ELSE DecodeTimes(d, i, table, n), i + 1, table, n)

AllStreams(d, table, n) == StreamsOf(d, 1, table, n)

\* Four symbols of each stream while all of them have a register's width to spare.
RECURSIVE FourAtATime(_, _, _)
FourAtATime(d, table, more) ==
    IF more /\ d.op[4] < Len(d.dst) - (IF table.type = 1 THEN Register - 1 ELSE 3)
    THEN FourAtATime(AllStreams(d, table, 4), table, \A i \in 1 .. 4 : Ip(d, i) >= d.base[i] + Register)
    ELSE d

FinishFour(d, table) == StreamsOf(d, 1, table, 0)

FinishChecked(d, table) == IF \E i \in 1 .. 3 : d.op[i] > d.end[i] THEN ERROR ELSE Finished(FinishFour(d, table))

\* d: the four streams at their start.
HUF_decompress4X_usingDTable_internal_body(d, n, table) ==
    IF d.error THEN ERROR ELSE FinishChecked(FourAtATime(d, table, n - d.op[4] >= Register), table)

\* The fast loops: five lookups per stream and round.  A round takes less than 7 bytes of a
\* stream, and the first stream has the least room below it.
LeastOf(S) == CHOOSE k \in S : \A j \in S : k <= j

RoundsX1(d) == LeastOf({Ip(d, 1) \div 7, (Len(d.dst) - d.op[4]) \div 5})

\* Two symbols to a lookup: every stream has a room of its own, which it fills at its own pace.
RoundsX2(d) == LeastOf({Ip(d, 1) \div 7} \cup {(d.end[i] - d.op[i]) \div 10 : i \in 1 .. 4})

RECURSIVE FastLoop(_, _, _)
FastLoop(d, table, olimit) ==
    LET rounds == IF table.type = 0 THEN RoundsX1(d) ELSE RoundsX2(d)
        onOrder == \A i \in 2 .. 4 : Ip(d, i) >= Ip(d, i - 1)
    IN IF d.op[4] >= olimit /\ (rounds = 0 \/ ~onOrder) THEN d
       ELSE FastLoop(AllStreams(d, table, 5), table, IF d.op[4] < olimit THEN olimit ELSE d.op[4] + 5 * rounds)

\* The fast loops' streams must end exactly where their segments do.
ResultOf(f) == IF \E i \in 1 .. 4 : f.op[i] # f.end[i] THEN ERROR ELSE [error |-> FALSE, out |-> Regenerated(f), ok |-> f.ok]

FinishRemaining(d, table) ==
    IF \E i \in 1 .. 4 : d.op[i] > d.end[i] \/ Ip(d, i) < d.base[i] - Register THEN ERROR ELSE ResultOf(FinishFour(d, table))

\* A table of another depth or a short stream goes back to four at a time.
FastApplies(d, n, table) ==
    /\ table.tableLog = HUF_DECODER_FAST_TABLELOG /\ d.op[4] < n
    /\ \A i \in 1 .. 4 : Len(d.b[i].bits) >= 8 * Register

HUF_decompress4X_usingDTable_internal_fast(d, table) == FinishRemaining(FastLoop(d, table, 0), table)

\* fast: the build and the processor have the fast loops.
DecodeFour(d, n, table, fast) ==
    IF fast /\ ~d.error /\ FastApplies(d, n, table) THEN HUF_decompress4X_usingDTable_internal_fast(d, table)
    ELSE HUF_decompress4X_usingDTable_internal_body(d, n, table)

HUF_decompress4X_usingDTable(mem, n, table, fast) == DecodeFour(FourStreams(mem, n), n, table, fast)
=============================================================================
