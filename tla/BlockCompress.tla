--------------------------- MODULE BlockCompress ----------------------------
(* A block from its sequences to its bytes.  An application's sequence        *)
(* producer gives a parse of the block; the compressor stores it, and writes  *)
(* one block, or several when it expects partitions to cost less.  A block    *)
(* that is then stored raw, or as one byte repeated, leaves the decompressor  *)
(* without the offsets and tables the compressor had prepared for it.         *)
(*                                                                           *)
(* bs: what the next block starts from: the tables and the offset history.    *)
(* p: the parameters that matter here.                                       *)
EXTENDS SeqEntropy

CONSTANTS
    MIN_SEQUENCES_BLOCK_SPLITTING,   \* 300 in the code
    RLE_MAX_LENGTH                   \* 25

ZSTD_REP_NUM == 3
ZSTD_blockHeaderSize == 3
ZSTD_MAX_NB_BLOCK_SPLITS == 196
ZSTD_MAX_HUF_HEADER_SIZE == 128
ZSTD_MAX_FSE_HEADERS_SIZE == 133
COMPRESS_LITERALS_SIZE_MIN == 63

bt_raw == 0
bt_rle == 1
bt_compressed == 2

RECURSIVE SumOf(_, _)
SumOf(lengths, k) == IF k = 0 THEN 0 ELSE lengths[k] + SumOf(lengths, k - 1)

(***************************************************************************)
(* The offset history.                                                     *)
(***************************************************************************)
OFFSET_TO_OFFBASE(offset) == offset + ZSTD_REP_NUM
OFFBASE_IS_REPCODE(offBase) == offBase \in 1 .. ZSTD_REP_NUM

ZSTD_resolveRepcodeToRawOffset(rep, offBase, ll0) ==
    IF offBase - 1 + ll0 = ZSTD_REP_NUM THEN rep[1] - 1 ELSE rep[offBase + ll0]

ZSTD_updateRep(rep, offBase, ll0) ==
    LET repCode == offBase - 1 + ll0
        current == ZSTD_resolveRepcodeToRawOffset(rep, offBase, ll0)
    IN IF ~OFFBASE_IS_REPCODE(offBase) THEN << offBase - ZSTD_REP_NUM, rep[1], rep[2] >>
       ELSE IF repCode = 0 THEN rep
       ELSE << current, rep[1], IF repCode >= 2 THEN rep[2] ELSE rep[3] >>

ZSTD_finalizeOffBase(rawOffset, rep, ll0) ==
    IF ll0 = 0 /\ rawOffset = rep[1] THEN 1
    ELSE IF rawOffset = rep[2] THEN 2 - ll0
    ELSE IF rawOffset = rep[3] THEN 3 - ll0
    ELSE IF ll0 = 1 /\ rawOffset = rep[1] - 1 THEN 3
    ELSE OFFSET_TO_OFFBASE(rawOffset)

LL0(seq) == IF seq.litLength = 0 THEN 1 ELSE 0

(***************************************************************************)
(* From a sequence producer's answer to a sequence store [seqs, lits, rep]. *)
(***************************************************************************)
Delimiter(litLength) == [offset |-> 0, litLength |-> litLength, matchLength |-> 0]
IsDelimiter(seq) == seq.offset = 0 /\ seq.matchLength = 0

\* << >> when the producer failed.
ZSTD_postProcessSequenceProducerResult(out, capacity, srcSize) ==
    IF Len(out) > capacity \/ (out = << >> /\ srcSize > 0) THEN << >>
    ELSE IF srcSize = 0 THEN << Delimiter(0) >>
    ELSE IF IsDelimiter(out[Len(out)]) THEN out
    ELSE IF Len(out) = capacity THEN << >> ELSE Append(out, Delimiter(0))

ZSTD_fastSequenceLengthSum(seqs) == SumOf([k \in DOMAIN seqs |-> seqs[k].litLength + seqs[k].matchLength], Len(seqs))

\* posInSrc counts from the start of the block.
ZSTD_validateSequence(offBase, matchLength, posInSrc, windowSize, dictSize) ==
    /\ offBase <= OFFSET_TO_OFFBASE(IF posInSrc > windowSize THEN windowSize ELSE posInSrc + dictSize)
    /\ matchLength >= MINMATCH

\* Where sequence k of the parse ends in the block.
EndOf(in, k) == SumOf([j \in 1 .. k |-> in[j].litLength + in[j].matchLength], k)

\* For a sequence producer's matches of three bytes or more.
ZSTD_maxNbSeq(blockSize) == blockSize \div MINMATCH

\* store: the sequences and literals so far, and the history after them; in[store.idx + 1] comes next.
StoreSeq(in, seq, p, store, lits, offBase) ==
    IF p.validate /\ ~ZSTD_validateSequence(offBase, seq.matchLength, EndOf(in, store.idx + 1), p.windowSize, p.dictSize) THEN GENERIC
    ELSE IF store.idx >= p.maxNbSeq THEN GENERIC
    ELSE [error |-> FALSE, idx |-> store.idx + 1, rep |-> IF p.repSearch THEN ZSTD_updateRep(store.rep, offBase, LL0(seq)) ELSE store.rep,
          seqs |-> Append(store.seqs, [litLength |-> seq.litLength, mlBase |-> seq.matchLength - MINMATCH, offBase |-> offBase]),
          lits |-> store.lits \o lits]

RECURSIVE TransferFrom(_, _, _, _)
TransferFrom(in, src, p, store) ==
    LET seq == in[store.idx + 1]
        at == EndOf(in, store.idx)
        lits == SubSeq(src, at + 1, at + seq.litLength)
    IN IF store.error THEN store
       ELSE IF store.idx = Len(in) THEN GENERIC
       ELSE IF ~IsDelimiter(seq)
       THEN TransferFrom(in, src, p, StoreSeq(in, seq, p, store, lits, IF p.repSearch THEN ZSTD_finalizeOffBase(seq.offset, store.rep, LL0(seq))
                                                                       ELSE OFFSET_TO_OFFBASE(seq.offset)))
       ELSE IF at + seq.litLength # Len(src) THEN GENERIC
       ELSE [store EXCEPT !.lits = @ \o lits]

\* The history after the last offsets of a parse without a search for repeated ones.
LastOffsets(in, n, rep) ==
    CASE n = 0 -> rep
      [] n = 1 -> << in[1].offset, rep[1], rep[2] >>
      [] n = 2 -> << in[2].offset, in[1].offset, rep[1] >>
      [] n > 2 -> << in[n].offset, in[n - 1].offset, in[n - 2].offset >>

RepAtEnd(store, in, rep, p) ==
    IF store.error THEN store
    ELSE [error |-> FALSE, compress |-> TRUE, seqs |-> store.seqs, lits |-> store.lits,
          rep |-> IF p.repSearch THEN store.rep ELSE LastOffsets(in, store.idx, rep)]

ZSTD_transferSequences_wBlockDelim(in, src, rep, p) ==
    RepAtEnd(TransferFrom(in, src, p, [error |-> FALSE, idx |-> 0, seqs |-> << >>, lits |-> << >>, rep |-> rep]), in, rep, p)

StoreParse(in, src, rep, p) ==
    IF in = << >> THEN GENERIC
    ELSE IF ZSTD_fastSequenceLengthSum(in) > Len(src) THEN GENERIC
    ELSE ZSTD_transferSequences_wBlockDelim(in, src, rep, p)

\* compress is FALSE for a block too short to try.
ZSTD_buildSeqStore(produced, src, rep, p) ==
    IF Len(src) < MIN_CBLOCK_SIZE + ZSTD_blockHeaderSize + 1 + 1 THEN [error |-> FALSE, compress |-> FALSE]
    ELSE StoreParse(ZSTD_postProcessSequenceProducerResult(produced, p.extSeqBufCapacity, Len(src)), src, rep, p)

(***************************************************************************)
(* The sections.  out = << >>: the block is not worth compressing.         *)
(***************************************************************************)
Sections(out, huf, fse) == [error |-> FALSE, out |-> out, huf |-> huf, fse |-> fse]

\* st: the tables as told; e: the stream of the sequences.
WithStream(l, st, head, e) ==
    IF e.error THEN e
    ELSE Sections(IF st.lastCountSize # 0 /\ st.lastCountSize + Bytes(e.out) < 4 THEN << >> ELSE head \o e.out, l.next, st.fse)

TypesByte(st) == LE(0, 2) \o LE(st.types["ml"], 2) \o LE(st.types["of"], 2) \o LE(st.types["ll"], 2)

WithTables(store, l, head, st, capacity) ==
    IF st.error THEN st
    ELSE WithStream(l, st, head \o TypesByte(st) \o st.out,
                    ZSTD_encodeSequences(store.seqs, st.fse, capacity - Bytes(head) - 1 - Bytes(st.out)))

WithHeader(store, l, head, bs, p, capacity) ==
    IF store.seqs = << >> THEN Sections(head, l.next, bs.fse)
    ELSE WithTables(store, l, head, ZSTD_buildSequencesStatistics(store.seqs, bs.fse, capacity - Bytes(head) - 1, p.strategy), capacity)

WithLiterals(store, l, bs, p, capacity) ==
    IF l.error THEN l
    ELSE IF capacity - Bytes(l.out) < 3 + 1 THEN dstSize_tooSmall
    ELSE WithHeader(store, l, l.out \o NbSeqHeader(Len(store.seqs)), bs, p, capacity)

ZSTD_entropyCompressSeqStore_internal(store, bs, p, capacity) ==
    WithLiterals(store, ZSTD_compressLiterals(store.lits, capacity, bs.huf, p.strategy, p.litDisabled), bs, p, capacity)

\* A block that does not fit its room but would fit raw is stored raw, like one that gains too little.
WorthIt(r, blockSize, p, capacity) ==
    IF r.error THEN (IF r.tooSmall /\ blockSize <= capacity THEN [error |-> FALSE, out |-> << >>] ELSE r)
    ELSE IF Bytes(r.out) >= blockSize - ZSTD_minGain(blockSize, p.strategy) THEN [error |-> FALSE, out |-> << >>]
    ELSE r

ZSTD_entropyCompressSeqStore(store, blockSize, bs, p, capacity) ==
    WorthIt(ZSTD_entropyCompressSeqStore_internal(store, bs, p, capacity), blockSize, p, capacity)

ZSTD_isRLE(src) == \A k \in DOMAIN src : src[k] = src[1]

BlockHeader(type, size, lastBlock) == LE(lastBlock, 1) \o LE(type, 2) \o LE(size, 21)

ZSTD_noCompressBlock(src, capacity, lastBlock) ==
    IF Len(src) + ZSTD_blockHeaderSize > capacity THEN dstSize_tooSmall
    ELSE [error |-> FALSE, out |-> BlockHeader(bt_raw, Len(src), lastBlock) \o Bits8(src)]

ZSTD_rleCompressBlock(src, capacity, lastBlock) ==
    IF capacity < 4 THEN dstSize_tooSmall
    ELSE [error |-> FALSE, out |-> BlockHeader(bt_rle, Len(src), lastBlock) \o LE(src[1], 8)]

\* After the first block an offset table of a dictionary may lack a code.
CheckOffsets(bs) == [bs EXCEPT !.fse["of"].repeat = IF @ = "valid" THEN "check" ELSE @]

\* What a block leaves that was compressed, with the history after it.
ZSTD_blockState_confirmRepcodesAndEntropyTables(r, rep) == [huf |-> r.huf, fse |-> r.fse, rep |-> rep]

(***************************************************************************)
(* One block.                                                              *)
(***************************************************************************)
\* Stored raw, or one byte repeated: nothing of the block is kept.
KeepNothing(w, bs) == IF w.error THEN w ELSE w @@ [bs |-> CheckOffsets(bs), kept |-> FALSE]

WriteBlock(r, src, first, bs, rep, capacity, lastBlock) ==
    IF r.error THEN r
    ELSE IF ~first /\ Bytes(r.out) < RLE_MAX_LENGTH /\ ZSTD_isRLE(src)
    THEN KeepNothing(ZSTD_rleCompressBlock(src, capacity, lastBlock), bs)
    ELSE IF r.out = << >> THEN KeepNothing(ZSTD_noCompressBlock(src, capacity, lastBlock), bs)
    ELSE [error |-> FALSE, out |-> BlockHeader(bt_compressed, Bytes(r.out), lastBlock) \o r.out, kept |-> TRUE,
          bs |-> CheckOffsets(ZSTD_blockState_confirmRepcodesAndEntropyTables(r, rep))]

ZSTD_compressBlock_internal(store, src, bs, first, p, capacity, lastBlock) ==
    IF ~store.compress THEN KeepNothing(ZSTD_noCompressBlock(src, capacity, lastBlock), bs)
    ELSE WriteBlock(ZSTD_entropyCompressSeqStore(store, Len(src), bs, p, capacity - ZSTD_blockHeaderSize),
                    src, first, bs, store.rep, capacity, lastBlock)

(***************************************************************************)
(* Partitions: what the halves of a block would cost.                      *)
(***************************************************************************)
LiteralsBytes(seqs) == SumOf([k \in DOMAIN seqs |-> seqs[k].litLength], Len(seqs))
MatchBytes(seqs) == SumOf([k \in DOMAIN seqs |-> seqs[k].mlBase + MINMATCH], Len(seqs))

\* The sequences after number from up to number to; the last literals go with the last ones.
ZSTD_deriveSeqStoreChunk(store, from, to) ==
    LET seqs == SubSeq(store.seqs, from + 1, to)
        litStart == LiteralsBytes(SubSeq(store.seqs, 1, from))
    IN [seqs |-> seqs, rep |-> store.rep,
        lits |-> SubSeq(store.lits, litStart + 1,
                        IF to = Len(store.seqs) THEN Len(store.lits) ELSE litStart + LiteralsBytes(seqs))]

LitStats(hType, huf, size) == [error |-> FALSE, hType |-> hType, huf |-> huf, hufDesSize |-> size]

OldOrNew(n, prev, repeat, ct, hSize, oldCSize, newCSize) ==
    IF repeat # "none" /\ oldCSize < n /\ (oldCSize <= hSize + newCSize \/ hSize + 12 >= n) THEN LitStats(set_repeat, prev, 0)
    ELSE IF newCSize + hSize >= n THEN LitStats(set_basic, prev, 0)
    ELSE LitStats(set_compressed, [table |-> ct, repeat |-> "check"], hSize)

EstimateTable(n, count, prev, repeat, ct, header) ==
    IF header = << >> THEN GENERIC
    ELSE OldOrNew(n, prev, repeat, ct, Bytes(header), IF repeat = "none" THEN 0 ELSE HUF_estimateCompressedSize(prev.table, count),
                  HUF_estimateCompressedSize(ct, count))

EstimateNew(n, count, prev, repeat, ct) ==
    EstimateTable(n, count, prev, repeat, ct, HUF_writeCTable_wksp(ct, ZSTD_MAX_HUF_HEADER_SIZE))

EstimateCounted(n, count, prev, p) ==
    IF Largest(count) = n THEN LitStats(set_rle, prev, 0)
    ELSE IF Largest(count) <= n \div 128 + 4 THEN LitStats(set_basic, prev, 0)
    ELSE EstimateNew(n, count, prev, IF prev.repeat = "check" /\ ~HUF_validateCTable(prev.table, count) THEN "none" ELSE prev.repeat,
                     HUF_buildCTable_wksp(count, HUF_optimalTableLog(LitHufLog, n, count, p.strategy >= ZSTD_btultra)))

\* The way the literals would be told, the table then, and the size of its header.
ZSTD_buildBlockEntropyStats_literals(lits, prev, p) ==
    IF p.litDisabled \/ Len(lits) <= (IF prev.repeat = "valid" THEN 6 ELSE COMPRESS_LITERALS_SIZE_MIN)
    THEN LitStats(set_basic, prev, 0) ELSE EstimateCounted(Len(lits), HIST_count(lits), prev, p)

ZSTD_estimateBlockSize_literal(lits, h) ==
    CASE h.hType = set_basic -> Len(lits)
      [] h.hType = set_rle -> 1
      [] OTHER -> HUF_estimateCompressedSize(h.huf.table, HIST_count(lits)) + h.hufDesSize
                    + (IF Len(lits) < 256 THEN 0 ELSE 6) + lhSizeOf(Len(lits))

AdditionalBits(kind, code) == CASE kind = "ll" -> LL_bits(code) [] kind = "of" -> code [] kind = "ml" -> ML_bits(code)

EstimatedBytes(kind, codes, cost) ==
    IF cost >= Infinite THEN Len(codes) * 10
    ELSE (cost + SumOf([k \in DOMAIN codes |-> AdditionalBits(kind, codes[k])], Len(codes))) \div 8

ZSTD_estimateBlockSize_symbolType(kind, type, codes, table) ==
    EstimatedBytes(kind, codes,
        CASE type = set_basic -> ZSTD_crossEntropyCost(defaultNorm(kind), defaultNormLog(kind), HIST_count(codes))
          [] type = set_rle -> 0
          [] OTHER -> ZSTD_fseBitCost(table, HIST_count(codes)))

ZSTD_estimateBlockSize_sequences(seqs, st) ==
    SumOf([k \in 1 .. 3 |-> LET kind == << "of", "ll", "ml" >>[k]
                            IN ZSTD_estimateBlockSize_symbolType(kind, st.types[kind], ZSTD_seqToCodes(seqs, kind), st.fse[kind].table)], 3)
      + Bytes(st.out) + 2 + (IF Len(seqs) >= 128 THEN 1 ELSE 0) + (IF Len(seqs) >= LONGNBSEQ THEN 1 ELSE 0)

ZSTD_estimateBlockSize(chunk, h, st) ==
    IF h.error \/ st.error THEN Infinite
    ELSE ZSTD_estimateBlockSize_literal(chunk.lits, h) + ZSTD_estimateBlockSize_sequences(chunk.seqs, st) + ZSTD_blockHeaderSize

\* Infinite when the statistics cannot be built.
ZSTD_buildEntropyStatisticsAndEstimateSubBlockSize(chunk, bs, p) ==
    ZSTD_estimateBlockSize(chunk, ZSTD_buildBlockEntropyStats_literals(chunk.lits, bs.huf, p),
                           ZSTD_buildSequencesStatistics(chunk.seqs, bs.fse, ZSTD_MAX_FSE_HEADERS_SIZE, p.strategy))

\* What the whole costs, and what its halves do.
Costs(store, startIdx, midIdx, endIdx, bs, p) ==
    LET from == << startIdx, startIdx, midIdx >>
        to == << endIdx, midIdx, endIdx >>
    IN [k \in 1 .. 3 |-> ZSTD_buildEntropyStatisticsAndEstimateSubBlockSize(ZSTD_deriveSeqStoreChunk(store, from[k], to[k]), bs, p)]

WorthSplitting(cost) == (\A k \in 1 .. 3 : cost[k] < Infinite) /\ cost[2] + cost[3] < cost[1]

RECURSIVE ZSTD_deriveBlockSplitsHelper(_, _, _, _, _, _)
ZSTD_deriveBlockSplitsHelper(splits, startIdx, endIdx, store, bs, p) ==
    LET midIdx == (startIdx + endIdx) \div 2
    IN IF endIdx - startIdx < MIN_SEQUENCES_BLOCK_SPLITTING \/ Len(splits) >= ZSTD_MAX_NB_BLOCK_SPLITS THEN splits
       ELSE IF ~WorthSplitting(Costs(store, startIdx, midIdx, endIdx, bs, p)) THEN splits
       ELSE ZSTD_deriveBlockSplitsHelper(
                Append(ZSTD_deriveBlockSplitsHelper(splits, startIdx, midIdx, store, bs, p), midIdx), midIdx, endIdx, store, bs, p)

\* The ends of the partitions.
ZSTD_deriveBlockSplits(store, bs, p) ==
    IF Len(store.seqs) <= 4 THEN << Len(store.seqs) >>
    ELSE Append(ZSTD_deriveBlockSplitsHelper(<< >>, 0, Len(store.seqs), store, bs, p), Len(store.seqs))

(***************************************************************************)
(* Writing the partitions: dRep is the history the decompressor will have, *)
(* cRep the one the sequences were stored with.                            *)
(***************************************************************************)
RECURSIVE ResolveFrom(_, _, _, _)
ResolveFrom(seqs, k, dRep, cRep) ==
    LET ll0 == LL0(seqs[k])
        offBase == seqs[k].offBase
        cRaw == ZSTD_resolveRepcodeToRawOffset(cRep, offBase, ll0)
        Put(new) == ResolveFrom([seqs EXCEPT ![k].offBase = new], k + 1, ZSTD_updateRep(dRep, new, ll0),
                                ZSTD_updateRep(cRep, offBase, ll0))
    IN IF k > Len(seqs) THEN [seqs |-> seqs, dRep |-> dRep, cRep |-> cRep]
       ELSE Put(IF OFFBASE_IS_REPCODE(offBase) /\ ZSTD_resolveRepcodeToRawOffset(dRep, offBase, ll0) # cRaw
                THEN OFFSET_TO_OFFBASE(cRaw) ELSE offBase)

ZSTD_seqStore_resolveOffCodes(seqs, dRep, cRep) == ResolveFrom(seqs, 1, dRep, cRep)

\* Mutant: the history of a partition that is stored raw stays.
KeepResolved(kept, resolved, original) == resolved

RepAfterPartition(kept, resolved, original) == IF kept THEN resolved ELSE original

PartWritten(s, w, res) ==
    IF w.error THEN w
    ELSE [error |-> FALSE, out |-> s.out \o w.out, bs |-> w.bs, cRep |-> res.cRep, dRep |-> RepAfterPartition(w.kept, res.dRep, s.dRep)]

WriteResolved(chunk, src, s, res, first, p, capacity, lastBlock) ==
    PartWritten(s, WriteBlock(ZSTD_entropyCompressSeqStore([chunk EXCEPT !.seqs = res.seqs], Len(src), s.bs, p,
                                                           capacity - ZSTD_blockHeaderSize),
                              src, first, s.bs, chunk.rep, capacity, lastBlock), res)

\* s: the bytes so far, the block state, the two histories.
ZSTD_compressSeqStore_singleBlock(chunk, src, s, first, p, capacity, lastBlock) ==
    IF capacity < ZSTD_blockHeaderSize THEN dstSize_tooSmall
    ELSE WriteResolved(chunk, src, s, ZSTD_seqStore_resolveOffCodes(chunk.seqs, s.dRep, s.cRep), first, p, capacity, lastBlock)

\* The end of partition i in the block.
PartEnd(store, ends, i, blockSize) ==
    IF i = 0 THEN 0
    ELSE IF i = Len(ends) THEN blockSize
    ELSE LiteralsBytes(SubSeq(store.seqs, 1, ends[i])) + MatchBytes(SubSeq(store.seqs, 1, ends[i]))

RECURSIVE PartitionsFrom(_, _, _, _, _, _, _, _, _)
PartitionsFrom(i, ends, store, src, s, first, p, capacity, lastBlock) ==
    IF s.error THEN s
    ELSE IF i > Len(ends) THEN [s EXCEPT !.bs.rep = s.dRep]
    ELSE PartitionsFrom(i + 1, ends, store, src,
             ZSTD_compressSeqStore_singleBlock(ZSTD_deriveSeqStoreChunk(store, IF i = 1 THEN 0 ELSE ends[i - 1], ends[i]),
                 SubSeq(src, PartEnd(store, ends, i - 1, Len(src)) + 1, PartEnd(store, ends, i, Len(src))),
                 s, first, p, capacity - Bytes(s.out), IF i = Len(ends) THEN lastBlock ELSE 0),
             first, p, capacity, lastBlock)

ZSTD_compressBlock_splitBlock_internal(store, src, bs, ends, first, p, capacity, lastBlock) ==
    IF Len(ends) = 1 THEN ZSTD_compressBlock_internal(store, src, bs, first, p, capacity, lastBlock)
    ELSE PartitionsFrom(1, ends, store, src, [error |-> FALSE, out |-> << >>, bs |-> bs, dRep |-> bs.rep, cRep |-> bs.rep],
                        first, p, capacity, lastBlock)

\* Without splitting there is one partition.
ZSTD_compressBlock_splitBlock(store, src, bs, first, p, capacity, lastBlock) ==
    IF ~store.compress THEN KeepNothing(ZSTD_noCompressBlock(src, capacity, lastBlock), bs)
    ELSE ZSTD_compressBlock_splitBlock_internal(store, src, bs,
             IF p.split THEN ZSTD_deriveBlockSplits(store, bs, p) ELSE << Len(store.seqs) >>, first, p, capacity, lastBlock)
=============================================================================
