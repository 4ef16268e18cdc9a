----------------------------- MODULE SeqEntropy -----------------------------
(* The sequences section of a block: three interleaved state machines, for    *)
(* literal lengths, offsets and match lengths.  The compressor chooses how    *)
(* each table is told - the default one, one symbol repeated, a new one, or   *)
(* the one of an earlier block - and keeps, like for literals, whether a      *)
(* table may be used again.                                                  *)
(*                                                                           *)
(* A stored sequence is [litLength, mlBase, offBase]; an fse entropy gives    *)
(* each kind its table and its repeat mode.  Lengths stay below 64 KB.        *)
EXTENDS Literals, SeqCodes

CONSTANT LowProbSeqs   \* from this many sequences on, rare symbols count less than one

Kinds == {"ll", "of", "ml"}

Times(n, x) == [k \in 1 .. n |-> x]
Norm(seq) == [s \in 0 .. Len(seq) - 1 |-> seq[s + 1]]

LL_defaultNorm == Norm(<< 4, 3 >> \o Times(11, 2) \o Times(3, 1) \o Times(9, 2) \o << 3, 2 >> \o Times(5, 1) \o Times(4, -1))
ML_defaultNorm == Norm(<< 1, 4, 3 >> \o Times(6, 2) \o Times(37, 1) \o Times(7, -1))
OF_defaultNorm == Norm(Times(6, 1) \o Times(3, 2) \o Times(15, 1) \o Times(5, -1))

defaultNorm(kind) == CASE kind = "ll" -> LL_defaultNorm [] kind = "of" -> OF_defaultNorm [] kind = "ml" -> ML_defaultNorm
defaultNormLog(kind) == IF kind = "of" THEN 5 ELSE 6
MaxCode(kind) == CASE kind = "ll" -> MaxLL [] kind = "of" -> MaxOff [] kind = "ml" -> MaxML
DefaultMaxOff == 28
FSELog(kind) == IF kind = "of" THEN 8 ELSE 9

MIN_SEQUENCES_SIZE == 1
LONGNBSEQ == 32512   \* 0x7F00

LL_defaultCTable == FSE_buildCTable_wksp(LL_defaultNorm, 6)
ML_defaultCTable == FSE_buildCTable_wksp(ML_defaultNorm, 6)
OF_defaultCTable == FSE_buildCTable_wksp(OF_defaultNorm, 5)
defaultCTable(kind) == CASE kind = "ll" -> LL_defaultCTable [] kind = "of" -> OF_defaultCTable [] kind = "ml" -> ML_defaultCTable

ZSTD_seqToCodes(seqs, kind) ==
    [k \in DOMAIN seqs |-> CASE kind = "ll" -> ZSTD_LLcode(seqs[k].litLength)
                             [] kind = "of" -> ZSTD_highbit32(seqs[k].offBase)
                             [] kind = "ml" -> ZSTD_MLcode(seqs[k].mlBase)]

(***************************************************************************)
(* The choice of an encoding.                                              *)
(***************************************************************************)
kInverseProbabilityLog256 == <<
    0, 2048, 1792, 1642, 1536, 1453, 1386, 1329, 1280, 1236, 1197, 1162,
    1130, 1100, 1073, 1047, 1024, 1001, 980, 960, 941, 923, 906, 889,
    874, 859, 844, 830, 817, 804, 791, 779, 768, 756, 745, 734,
    724, 714, 704, 694, 685, 676, 667, 658, 650, 642, 633, 626,
    618, 610, 603, 595, 588, 581, 574, 567, 561, 554, 548, 542,
    535, 529, 523, 517, 512, 506, 500, 495, 489, 484, 478, 473,
    468, 463, 458, 453, 448, 443, 438, 434, 429, 424, 420, 415,
    411, 407, 402, 398, 394, 390, 386, 382, 377, 373, 370, 366,
    362, 358, 354, 350, 347, 343, 339, 336, 332, 329, 325, 322,
    318, 315, 311, 308, 305, 302, 298, 295, 292, 289, 286, 282,
    279, 276, 273, 270, 267, 264, 261, 258, 256, 253, 250, 247,
    244, 241, 239, 236, 233, 230, 228, 225, 222, 220, 217, 215,
    212, 209, 207, 204, 202, 199, 197, 194, 192, 190, 187, 185,
    182, 180, 178, 175, 173, 171, 168, 166, 164, 162, 159, 157,
    155, 153, 151, 149, 146, 144, 142, 140, 138, 136, 134, 132,
    130, 128, 126, 123, 121, 119, 117, 115, 114, 112, 110, 108,
    106, 104, 102, 100, 98, 96, 94, 93, 91, 89, 87, 85,
    83, 82, 80, 78, 76, 74, 73, 71, 69, 67, 66, 64,
    62, 61, 59, 57, 55, 54, 52, 50, 49, 47, 46, 44,
    42, 41, 39, 37, 36, 34, 33, 31, 30, 28, 26, 25,
    23, 22, 20, 19, 17, 16, 14, 13, 11, 10, 8, 7,
    5, 4, 2, 1 >>

Infinite == 2 ^ 30   \* an error code, as a cost

ZSTD_useLowProbCount(nbSeq) == nbSeq >= LowProbSeqs

NCountCost(norm, tableLog) == IF norm = << >> THEN Infinite ELSE Bytes(FSE_writeNCount(norm, tableLog))

NormalizedCost(tableLog, count, nbSeq) ==
    NCountCost(FSE_normalizeCount(tableLog, count, nbSeq, ZSTD_useLowProbCount(nbSeq)), tableLog)

ZSTD_NCountCost(count, nbSeq, log) == NormalizedCost(FSE_optimalTableLog(log, nbSeq, MaxSymbol(count)), count, nbSeq)

ZSTD_entropyCost(count, total) ==
    LET norm(s) == IF count[s] # 0 /\ (256 * count[s]) \div total = 0 THEN 1 ELSE (256 * count[s]) \div total
    IN Total([s \in DOMAIN count |-> count[s] * kInverseProbabilityLog256[norm(s) + 1]]) \div 256

FSE_bitCost(tt, tableLog) ==
    LET minNbBits == tt.deltaNbBits \div 65536
        deltaFromThreshold == (minNbBits + 1) * 65536 - (tt.deltaNbBits + 2 ^ tableLog)
    IN (minNbBits + 1) * 256 - (deltaFromThreshold * 256) \div 2 ^ tableLog

\* Infinite for a symbol the table does not have.
ZSTD_fseBitCost(ct, count) ==
    LET Cost(s) == FSE_bitCost(ct.symbolTT[s], ct.tableLog)
    IN IF ct.maxSymbolValue < MaxSymbol(count) THEN Infinite
       ELSE IF \E s \in DOMAIN count : count[s] # 0 /\ Cost(s) >= (ct.tableLog + 1) * 256 THEN Infinite
       ELSE Total([s \in DOMAIN count |-> count[s] * Cost(s)]) \div 256

ZSTD_crossEntropyCost(norm, accuracyLog, count) ==
    Total([s \in DOMAIN count |-> count[s] * kInverseProbabilityLog256[Points(norm[s]) * 2 ^ (8 - accuracyLog) + 1]]) \div 256

\* The first symbols' counts, up to the largest symbol that occurs.
MostFrequent(count) == count[CHOOSE s \in DOMAIN count : \A t \in DOMAIN count : count[t] <= count[s]]

Encoding(type, repeat) == [type |-> type, repeat |-> repeat]

ByCost(prev, basicCost, repeatCost, compressedCost) ==
    IF basicCost <= repeatCost /\ basicCost <= compressedCost THEN Encoding(set_basic, "none")
    ELSE IF repeatCost <= compressedCost THEN Encoding(set_repeat, prev.repeat) ELSE Encoding(set_compressed, "check")

ByCount(kind, prev, mostFrequent, isDefaultAllowed, nbSeq, strategy) ==
    IF isDefaultAllowed /\ prev.repeat = "valid" /\ nbSeq < 1000 THEN Encoding(set_repeat, "valid")
    ELSE IF isDefaultAllowed /\ (\/ nbSeq < (2 ^ defaultNormLog(kind) * (10 - strategy)) \div 8
                                 \/ mostFrequent < nbSeq \div 2 ^ (defaultNormLog(kind) - 1))
    THEN Encoding(set_basic, "none")
    ELSE Encoding(set_compressed, "check")

\* How the table is told, and whether the next block may use it again.
ZSTD_selectEncodingType(kind, prev, count, nbSeq, strategy) ==
    LET isDefaultAllowed == kind # "of" \/ MaxSymbol(count) <= DefaultMaxOff
    IN IF MostFrequent(count) = nbSeq
       THEN Encoding(IF isDefaultAllowed /\ nbSeq <= 2 THEN set_basic ELSE set_rle, "none")
       ELSE IF strategy >= ZSTD_lazy
       THEN ByCost(prev,
                   IF isDefaultAllowed THEN ZSTD_crossEntropyCost(defaultNorm(kind), defaultNormLog(kind), count) ELSE Infinite,
                   IF prev.repeat # "none" THEN ZSTD_fseBitCost(prev.table, count) ELSE Infinite,
                   8 * ZSTD_NCountCost(count, nbSeq, FSELog(kind)) + ZSTD_entropyCost(count, nbSeq))
       ELSE ByCount(kind, prev, MostFrequent(count), isDefaultAllowed, nbSeq, strategy)

Told(table, out) == [error |-> FALSE, table |-> table, out |-> out]

StoredTable(norm, tableLog, header, capacity) ==
    IF header = << >> THEN GENERIC
    ELSE IF 2 * ((Bytes(header) + 1) \div 2) > capacity THEN dstSize_tooSmall
    ELSE Told(FSE_buildCTable_wksp(norm, tableLog), header)

NormalizedTable(norm, tableLog, capacity) ==
    IF norm = << >> THEN GENERIC ELSE StoredTable(norm, tableLog, FSE_writeNCount(norm, tableLog), capacity)

NewSeqTable(tableLog, count, nbSeq, capacity) ==
    NormalizedTable(FSE_normalizeCount(tableLog, count, nbSeq, ZSTD_useLowProbCount(nbSeq)), tableLog, capacity)

\* The last symbol costs nothing: its count is one less, unless it is its only one.
WithoutLast(count, last) == IF count[last] > 1 THEN [count EXCEPT ![last] = @ - 1] ELSE count

\* The table, and how it is told.
ZSTD_buildCTable(kind, type, prevTable, count, codes, capacity) ==
    CASE type = set_rle -> IF capacity = 0 THEN dstSize_tooSmall ELSE Told(FSE_buildCTable_rle(MaxSymbol(count)), LE(codes[1], 8))
      [] type = set_repeat -> Told(prevTable, << >>)
      [] type = set_basic -> Told(defaultCTable(kind), << >>)
      [] type = set_compressed -> NewSeqTable(FSE_optimalTableLog(FSELog(kind), Len(codes), MaxSymbol(count)),
                                              WithoutLast(count, codes[Len(codes)]),
                                              Len(codes) - (IF count[codes[Len(codes)]] > 1 THEN 1 ELSE 0), capacity)

AddTable(kind, e, c, before) ==
    IF c.error THEN c
    ELSE [error |-> FALSE, out |-> before.out \o c.out, types |-> before.types @@ (kind :> e.type),
          lastCountSize |-> IF e.type = set_compressed THEN Bytes(c.out) ELSE before.lastCountSize,
          fse |-> before.fse @@ (kind :> [table |-> c.table, repeat |-> e.repeat])]

BuildKind(kind, codes, count, prev, e, capacity, before) ==
    AddTable(kind, e, ZSTD_buildCTable(kind, e.type, prev.table, count, codes, capacity - Bytes(before.out)), before)

SelectKind(kind, codes, count, prev, capacity, strategy, before) ==
    BuildKind(kind, codes, count, prev, ZSTD_selectEncodingType(kind, prev, count, Len(codes), strategy), capacity, before)

CountKind(kind, codes, prev, capacity, strategy, before) ==
    SelectKind(kind, codes, HIST_count(codes), prev, capacity, strategy, before)

\* The kinds in turn, each after what the ones before it have put there.
RECURSIVE TellKinds(_, _, _, _, _, _)
TellKinds(kinds, seqs, prev, capacity, strategy, before) ==
    IF kinds = << >> THEN before ELSE IF before.error THEN before
    ELSE TellKinds(Tail(kinds), seqs, prev, capacity, strategy,
                   CountKind(kinds[1], ZSTD_seqToCodes(seqs, kinds[1]), prev[kinds[1]], capacity, strategy, before))

ZSTD_buildSequencesStatistics(seqs, prev, capacity, strategy) ==
    TellKinds(<< "ll", "of", "ml" >>, seqs, prev, capacity, strategy,
              [error |-> FALSE, out |-> << >>, types |-> << >>, lastCountSize |-> 0, fse |-> << >>])

(***************************************************************************)
(* The stream.  It is written from the last sequence to the first.         *)
(***************************************************************************)
ExtraBits(seq) ==
    LE(seq.litLength, LL_bits(ZSTD_LLcode(seq.litLength))) \o LE(seq.mlBase, ML_bits(ZSTD_MLcode(seq.mlBase)))
      \o LE(seq.offBase, ZSTD_highbit32(seq.offBase))

\* c: the sequences left, the three states, the bits so far.
EncodeOne(seq, c, l, o, m) ==
    [left |-> c.left - 1, ll |-> l.state, of |-> o.state, ml |-> m.state,
     bits |-> c.bits \o o.bits \o m.bits \o l.bits \o ExtraBits(seq)]

EncodeLast(seq, fse, c) ==
    EncodeOne(seq, c, FSE_encodeSymbol(fse["ll"].table, c.ll, ZSTD_LLcode(seq.litLength)),
              FSE_encodeSymbol(fse["of"].table, c.of, ZSTD_highbit32(seq.offBase)),
              FSE_encodeSymbol(fse["ml"].table, c.ml, ZSTD_MLcode(seq.mlBase)))

RECURSIVE EncodeSequencesDown(_, _, _)
EncodeSequencesDown(seqs, fse, c) ==
    IF c.left = 0
    THEN c.bits \o FSE_flushCState(fse["ml"].table, c.ml) \o FSE_flushCState(fse["of"].table, c.of)
           \o FSE_flushCState(fse["ll"].table, c.ll)
    ELSE EncodeSequencesDown(seqs, fse, EncodeLast(seqs[c.left], fse, c))

ZSTD_encodeSequences(seqs, fse, capacity) ==
    LET last == seqs[Len(seqs)]
        Closed(out) == IF out = << >> THEN dstSize_tooSmall ELSE [error |-> FALSE, out |-> out]
    IN IF ~BIT_initCStream(capacity) THEN dstSize_tooSmall
       ELSE Closed(BIT_closeCStream(
                EncodeSequencesDown(seqs, fse, [left |-> Len(seqs) - 1, ll |-> FSE_initCState2(fse["ll"].table, ZSTD_LLcode(last.litLength)),
                                                of |-> FSE_initCState2(fse["of"].table, ZSTD_highbit32(last.offBase)),
                                                ml |-> FSE_initCState2(fse["ml"].table, ZSTD_MLcode(last.mlBase)),
                                                bits |-> ExtraBits(last)]), capacity))

\* The number of sequences: one byte, two, or three.
NbSeqHeader(nbSeq) ==
    IF nbSeq < 128 THEN LE(nbSeq, 8)
    ELSE IF nbSeq < LONGNBSEQ THEN LE(nbSeq \div 256 + 128, 8) \o LE(nbSeq, 8)
    ELSE LE(255, 8) \o MEM_writeLE(nbSeq - LONGNBSEQ, 2)

(***************************************************************************)
(* The decompressor.  d.fse: the tables at hand; d.fseEntropy: whether     *)
(* there are any.                                                          *)
(***************************************************************************)
\* The cells of the table of states; base value and additional bits are those of the cell's symbol.
ZSTD_buildFSETable(norm, tableLog) == FSE_buildDTable_internal(norm, tableLog)

LL_defaultDTable == ZSTD_buildFSETable(LL_defaultNorm, 6)
ML_defaultDTable == ZSTD_buildFSETable(ML_defaultNorm, 6)
OF_defaultDTable == ZSTD_buildFSETable(OF_defaultNorm, 5)
defaultDTable(kind) == CASE kind = "ll" -> LL_defaultDTable [] kind = "of" -> OF_defaultDTable [] kind = "ml" -> ML_defaultDTable

ZSTD_buildSeqTable_rle(symbol) ==
    [tableLog |-> 0, fastMode |-> FALSE, cells |-> [u \in {0} |-> [symbol |-> symbol, nbBits |-> 0, newState |-> 0]]]

TableRead(t, size) == [error |-> FALSE, table |-> t, size |-> size]

NewTableRead(kind, h) ==
    IF h.error THEN ERROR
    ELSE IF h.tableLog > FSELog(kind) THEN ERROR ELSE TableRead(ZSTD_buildFSETable(h.norm, h.tableLog), h.size)

\* mem: what is left of the section.  The table, and the bytes read.
ZSTD_buildSeqTable(kind, type, mem, table, flagRepeatTable) ==
    CASE type = set_rle -> IF mem = << >> \/ MEM_readLE(mem, 0, 1) > MaxCode(kind) THEN ERROR
                           ELSE TableRead(ZSTD_buildSeqTable_rle(MEM_readLE(mem, 0, 1)), 1)
      [] type = set_basic -> TableRead(defaultDTable(kind), 0)
      [] type = set_repeat -> IF flagRepeatTable THEN TableRead(table, 0) ELSE ERROR
      [] type = set_compressed -> NewTableRead(kind, FSE_readNCount(mem, MaxCode(kind)))

ReadNbSeq(mem) ==
    LET first == MEM_readLE(mem, 0, 1)
    IN IF first < 128 THEN [nbSeq |-> first, size |-> 1]
       ELSE IF first = 255 THEN [nbSeq |-> MEM_readLE(mem, 1, 2) + LONGNBSEQ, size |-> 3]
       ELSE [nbSeq |-> (first - 128) * 256 + MEM_readLE(mem, 1, 1), size |-> 2]

\* r: the tables so far and where the next one begins.
AfterTable(kind, t, r) == IF t.error THEN ERROR ELSE [r EXCEPT !.fse[kind] = t.table, !.size = @ + t.size]

RECURSIVE ReadTables(_, _, _, _, _)
ReadTables(kinds, types, mem, fseEntropy, r) ==
    IF kinds = << >> THEN r ELSE IF r.error THEN r
    ELSE ReadTables(Tail(kinds), types * 4, mem, fseEntropy,
                    AfterTable(kinds[1], ZSTD_buildSeqTable(kinds[1], (types \div 64) % 4, From(mem, r.size), r.fse[kinds[1]], fseEntropy), r))

AfterNbSeq(h, mem, d) ==
    IF h.size > Bytes(mem) THEN ERROR
    ELSE IF h.nbSeq = 0 THEN (IF h.size # Bytes(mem) THEN ERROR ELSE [error |-> FALSE, nbSeq |-> 0, fse |-> d.fse, size |-> h.size])
    ELSE IF h.size + 1 > Bytes(mem) THEN ERROR
    ELSE IF MEM_readLE(mem, h.size, 1) % 4 # 0 THEN ERROR
    ELSE ReadTables(<< "ll", "of", "ml" >>, MEM_readLE(mem, h.size, 1), mem, d.fseEntropy,
                    [error |-> FALSE, nbSeq |-> h.nbSeq, fse |-> d.fse, size |-> h.size + 1])

\* The number of sequences, the tables, and the bytes read.
ZSTD_decodeSeqHeaders(mem, d) == IF Bytes(mem) < MIN_SEQUENCES_SIZE THEN ERROR ELSE AfterNbSeq(ReadNbSeq(mem), mem, d)

ReadBits(b, n) == BIT_lookBits(b, n)

\* The offset a code and its extra bits stand for, and the history after it.
DecodeOffset(code, bits, ll0, prev) ==
    LET repeated == 1 + ll0 + bits
        back == IF repeated = 3 THEN prev[1] - 1 ELSE prev[repeated + 1]
        temp == IF back = 0 THEN Infinite ELSE back
    IN IF code > 1 THEN [offset |-> OF_base(code) + bits, prev |-> << OF_base(code) + bits, prev[1], prev[2] >>]
       ELSE IF code = 0 THEN [offset |-> prev[ll0 + 1], prev |-> << prev[ll0 + 1], prev[2 - ll0], prev[3] >>]
       ELSE [offset |-> temp, prev |-> << temp, prev[1], IF repeated # 1 THEN prev[2] ELSE prev[3] >>]

ZSTD_initFseState(s, kind, fse) ==
    [s EXCEPT !.state = @ @@ (kind :> ReadBits(s.b, fse[kind].tableLog)), !.b = BIT_skipBits(@, fse[kind].tableLog)]

\* First the literal lengths, then the offsets, then the match lengths.
InitSeqState(mem, fse, rep) ==
    LET With(b) == IF b.error THEN ERROR
                   ELSE [error |-> FALSE, s |-> ZSTD_initFseState(ZSTD_initFseState(ZSTD_initFseState(
                             [b |-> b, state |-> << >>, prev |-> rep], "ll", fse), "of", fse), "ml", fse)]
    IN With(BIT_initDStream(mem))

\* s: the bits, the three states and the offset history.  The sequence, and s after it.
ZSTD_decodeSequence(s, fse, isLastSeq) ==
    LET Sequence(ll, of, ml) ==
            LET ofBits == of.symbol
                mlBits == ML_bits(ml.symbol)
                llBits == LL_bits(ll.symbol)
                b1 == BIT_skipBits(s.b, ofBits)
                b2 == BIT_skipBits(s.b, ofBits + mlBits)
                b3 == BIT_skipBits(s.b, ofBits + mlBits + llBits)
                b4 == BIT_skipBits(b3, ll.nbBits)
                b5 == BIT_skipBits(b4, ml.nbBits)
                off == DecodeOffset(of.symbol, ReadBits(s.b, ofBits), IF LL_base(ll.symbol) = 0 THEN 1 ELSE 0, s.prev)
            IN [seq |-> [litLength |-> LL_base(ll.symbol) + ReadBits(b2, llBits),
                         matchLength |-> ML_base(ml.symbol) + ReadBits(b1, mlBits), offset |-> off.offset],
                s |-> [prev |-> off.prev, b |-> IF isLastSeq THEN b3 ELSE BIT_skipBits(b5, of.nbBits),
                       state |-> IF isLastSeq THEN s.state
                                 ELSE ("ll" :> ll.newState + ReadBits(b3, ll.nbBits)) @@ ("ml" :> ml.newState + ReadBits(b4, ml.nbBits))
                                      @@ ("of" :> of.newState + ReadBits(b5, of.nbBits))]]
    IN Sequence(fse["ll"].cells[s.state["ll"]], fse["of"].cells[s.state["of"]], fse["ml"].cells[s.state["ml"]])
=============================================================================
