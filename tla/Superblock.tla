----------------------------- MODULE Superblock -----------------------------
(* A block cut to a target size: its entropy tables are built once, for all   *)
(* its sequences, and told in the first sub-block that is compressed; the     *)
(* others repeat them.  A sub-block that does not gain waits for the next     *)
(* sequences, and what is left at the end is stored raw: then neither the     *)
(* tables nor the offsets of its sequences have reached the decompressor.     *)
(*                                                                           *)
(* h, st: the tables of the literals and of the sequences, and how they are   *)
(* told.  A section or sub-block << >> is one that could not be compressed.   *)
EXTENDS BlockCompress

CONSTANT ZSTD_TARGETCBLOCKSIZE_MIN   \* 1340 in the code

BYTESCALE == 256

\* With the room of ZSTD_COMPRESSBOUND this does not happen: the code copies a table without a look at the room.
OutOfRoom == GENERIC

(***************************************************************************)
(* One sub-block.  written: its section tells the table.                   *)
(***************************************************************************)
Section(out, written) == [error |-> FALSE, out |-> out, written |-> written]
RawSection(lits, capacity) ==
    LET r == ZSTD_noCompressLiterals(lits, capacity) IN IF r.error THEN r ELSE Section(r.out, FALSE)

hufDesBuffer(h, writeEntropy) ==
    IF writeEntropy /\ h.hType = set_compressed THEN HUF_writeCTable_wksp(h.huf.table, ZSTD_MAX_HUF_HEADER_SIZE) ELSE << >>

\* body: the table and the streams; c: the streams.  The size of the header was fixed before theirs was known.
CodedSection(type, lits, capacity, writeEntropy, lhSize, c, body) ==
    IF c = << >> THEN Section(<< >>, FALSE)
    ELSE IF (~writeEntropy /\ Bytes(body) >= Len(lits)) \/ lhSize < lhSizeOf(Bytes(body)) THEN RawSection(lits, capacity)
    ELSE Section(HufHeader(type, TRUE, lhSize, Len(lits), Bytes(body)) \o body, TRUE)

CodeLiterals(h, lits, capacity, writeEntropy, lhSize, des) ==
    LET room == capacity - lhSize - Bytes(des)
        WithStreams(c) == CodedSection(IF writeEntropy THEN h.hType ELSE set_repeat, lits, capacity, writeEntropy, lhSize, c, des \o c)
    IN IF room < 0 THEN OutOfRoom
       ELSE WithStreams(IF lhSize = 3 THEN HUF_compress1X_usingCTable(h.huf.table, lits, room)
                        ELSE HUF_compress4X_usingCTable(h.huf.table, lits, room))

ZSTD_compressSubBlock_literal(h, lits, capacity, writeEntropy) ==
    IF lits = << >> \/ h.hType = set_basic THEN RawSection(lits, capacity)
    ELSE IF h.hType = set_rle THEN Section(ZSTD_compressRleLiteralsBlock(lits).out, FALSE)
    ELSE CodeLiterals(h, lits, capacity, writeEntropy, lhSizeOf(Len(lits) + (IF writeEntropy THEN 200 ELSE 0)), hufDesBuffer(h, writeEntropy))

\* head: the types and, once, the tables.
SeqSection(st, nbSeq, head, e, writeEntropy) ==
    IF e.error THEN e
    ELSE IF \/ writeEntropy /\ st.lastCountSize # 0 /\ st.lastCountSize + Bytes(e.out) < 4
            \/ Bytes(head) + Bytes(e.out) < 4 THEN Section(<< >>, FALSE)
    ELSE Section(NbSeqHeader(nbSeq) \o head \o e.out, TRUE)

EncodeBehind(st, seqs, head, room, writeEntropy) ==
    IF room < 0 THEN OutOfRoom
    ELSE SeqSection(st, Len(seqs), head, ZSTD_encodeSequences(seqs, st.fse, room), writeEntropy)

ZSTD_compressSubBlock_sequences(st, seqs, capacity, writeEntropy) ==
    LET head == IF writeEntropy THEN TypesByte(st) \o st.out ELSE TypesByte([types |-> [kind \in Kinds |-> set_repeat]])
    IN IF capacity < 3 + 1 THEN dstSize_tooSmall
       ELSE IF seqs = << >> THEN Section(NbSeqHeader(0), FALSE)
       ELSE EncodeBehind(st, seqs, head, capacity - Bytes(NbSeqHeader(Len(seqs))) - Bytes(head), writeEntropy)

SubBlock(l, q, lastBlock) ==
    IF q.error THEN q
    ELSE [error |-> FALSE, lit |-> l.written, seq |-> q.written,
          out |-> IF q.out = << >> THEN << >> ELSE BlockHeader(bt_compressed, Bytes(l.out) + Bytes(q.out), lastBlock) \o l.out \o q.out]

SubBlockBehind(l, st, seqs, capacity, writeSeq, lastBlock) ==
    IF l.error THEN l
    ELSE IF l.out = << >> THEN [error |-> FALSE, out |-> << >>]
    ELSE SubBlock(l, ZSTD_compressSubBlock_sequences(st, seqs, capacity - Bytes(l.out), writeSeq), lastBlock)

ZSTD_compressSubBlock(h, st, seqs, lits, capacity, writeLit, writeSeq, lastBlock) ==
    SubBlockBehind(ZSTD_compressSubBlock_literal(h, lits, capacity - ZSTD_blockHeaderSize, writeLit),
                   st, seqs, capacity - ZSTD_blockHeaderSize, writeSeq, lastBlock)

(***************************************************************************)
(* How many sub-blocks, and of how many sequences.                         *)
(***************************************************************************)
ZSTD_buildDummySequencesStatistics(prev) ==
    [error |-> FALSE, out |-> << >>, lastCountSize |-> 0, types |-> [kind \in Kinds |-> set_basic],
     fse |-> [kind \in Kinds |-> [table |-> prev[kind].table, repeat |-> "none"]]]

ZSTD_buildBlockEntropyStats_sequences(seqs, prev, p) ==
    IF seqs = << >> THEN ZSTD_buildDummySequencesStatistics(prev)
    ELSE ZSTD_buildSequencesStatistics(seqs, prev, ZSTD_MAX_FSE_HEADERS_SIZE, p.strategy)

ZSTD_estimateSubBlockSize_literal(lits, h) ==
    CASE h.hType = set_basic -> Len(lits)
      [] h.hType = set_rle -> 1
      [] OTHER -> HUF_estimateCompressedSize(h.huf.table, HIST_count(lits)) + h.hufDesSize + 3

ZSTD_estimateSubBlockSize_symbolType(kind, seqs, st) ==
    ZSTD_estimateBlockSize_symbolType(kind, st.types[kind], ZSTD_seqToCodes(seqs, kind), st.fse[kind].table)

ZSTD_estimateSubBlockSize_sequences(seqs, st) ==
    SumOf([k \in 1 .. 3 |-> ZSTD_estimateSubBlockSize_symbolType(<< "of", "ll", "ml" >>[k], seqs, st)], 3) + Bytes(st.out) + 3

ZSTD_needSequenceEntropyTables(st) == \E kind \in Kinds : st.types[kind] \in {set_compressed, set_rle}

\* What the first n sequences are expected to cost, in 256ths of a byte.
Budget(seqs, n, plan, first) == LiteralsBytes(SubSeq(seqs, 1, n)) * plan.avgLitCost + n * plan.avgSeqCost + (IF first THEN 120 * BYTESCALE ELSE 0)

\* Up to the budget, though not before the sub-block is deemed compressible.
sizeBlockSequences(seqs, plan, first) ==
    LET Full(n) == /\ Budget(seqs, n, plan, first) > plan.avgBlockBudget
                   /\ Budget(seqs, n, plan, first) < (LiteralsBytes(SubSeq(seqs, 1, n)) + MatchBytes(SubSeq(seqs, 1, n))) * BYTESCALE
        stops == {n \in 1 .. Len(seqs) - 1 : Full(n + 1)}
    IN IF Budget(seqs, 1, plan, first) > plan.avgBlockBudget THEN 1
       ELSE IF stops = {} THEN Len(seqs) ELSE CHOOSE n \in stops : \A m \in stops : n <= m

PlanFor(lit, all, store, nbSubBlocks) ==
    [nbSubBlocks |-> nbSubBlocks, avgBlockBudget |-> (all * BYTESCALE) \div nbSubBlocks,
     avgSeqCost |-> ((all - lit) * BYTESCALE) \div Len(store.seqs),
     avgLitCost |-> IF store.lits = << >> THEN BYTESCALE ELSE (lit * BYTESCALE) \div Len(store.lits)]

\* lit: the size the literals are estimated at; all: that of the block.  With one sub-block only the last is left to write.
Plan(lit, all, store, target) ==
    LET n == (all + target \div 2) \div target IN PlanFor(lit, all, store, IF n = 0 THEN 1 ELSE n)

(***************************************************************************)
(* The sub-blocks.  s: sequences, literals and bytes done, what is written, *)
(* and the tables still to be told.                                        *)
(***************************************************************************)
\* A sub-block that does not gain is not kept: its sequences go into the next one.
Commit(s, w, seqCount, litSize, decompressedSize) ==
    IF w.error THEN w
    ELSE IF w.out = << >> \/ Bytes(w.out) >= decompressedSize THEN s
    ELSE [error |-> FALSE, sp |-> s.sp + seqCount, lp |-> s.lp + litSize, ip |-> s.ip + decompressedSize, out |-> s.out \o w.out,
          writeLit |-> s.writeLit /\ ~w.lit, writeSeq |-> s.writeSeq /\ ~w.seq]

countLiterals(seqs) == LiteralsBytes(seqs)
ZSTD_seqDecompressedSize(seqs, litSize) == litSize + MatchBytes(seqs)

NextSubBlock(s, store, h, st, seqCount, litSize, capacity, lastBlock) ==
    LET seqs == SubSeq(store.seqs, s.sp + 1, s.sp + seqCount)
    IN Commit(s, ZSTD_compressSubBlock(h, st, seqs, SubSeq(store.lits, s.lp + 1, s.lp + litSize), capacity - Bytes(s.out),
                                       s.writeLit, s.writeSeq, lastBlock),
              seqCount, litSize, ZSTD_seqDecompressedSize(seqs, litSize))

RECURSIVE SubBlocksFrom(_, _, _, _, _, _, _)
SubBlocksFrom(n, s, store, h, st, plan, capacity) ==
    LET left == SubSeq(store.seqs, s.sp + 1, Len(store.seqs))
        seqCount == sizeBlockSequences(left, plan, n = 0)
    IN IF s.error THEN s
       ELSE IF n = plan.nbSubBlocks - 1 \/ seqCount = Len(left) THEN s
       ELSE SubBlocksFrom(n + 1, NextSubBlock(s, store, h, st, seqCount, countLiterals(SubSeq(left, 1, seqCount)), capacity, 0),
                          store, h, st, plan, capacity)

LastSubBlock(s, store, h, st, capacity, lastBlock) ==
    IF s.error THEN s
    ELSE NextSubBlock(s, store, h, st, Len(store.seqs) - s.sp, Len(store.lits) - s.lp, capacity, lastBlock)

RECURSIVE RepAfter(_, _, _)
RepAfter(seqs, n, rep) == IF n = 0 THEN rep ELSE ZSTD_updateRep(RepAfter(seqs, n - 1, rep), seqs[n].offBase, LL0(seqs[n]))

\* The history after the sub-blocks; of those left over none reaches the decompressor.
RepAfterSubBlocks(s, store, rep) == IF s.sp < Len(store.seqs) THEN RepAfter(store.seqs, s.sp, rep) ELSE store.rep

RawTail(s, src, capacity, lastBlock) ==
    IF s.ip < Len(src) THEN ZSTD_noCompressBlock(SubSeq(src, s.ip + 1, Len(src)), capacity - Bytes(s.out), lastBlock)
    ELSE [error |-> FALSE, out |-> << >>]

SubBlocksDone(s, store, src, h, st, bs, capacity, lastBlock) ==
    LET tail == RawTail(s, src, capacity, lastBlock)
    IN IF s.error THEN s
       ELSE IF s.writeSeq /\ ZSTD_needSequenceEntropyTables(st) THEN [error |-> FALSE, out |-> << >>]
       ELSE IF tail.error THEN tail
       ELSE [error |-> FALSE, out |-> s.out \o tail.out, huf |-> IF s.writeLit THEN bs.huf ELSE h.huf, fse |-> st.fse,
             rep |-> RepAfterSubBlocks(s, store, bs.rep)]

NothingDone(h) == [error |-> FALSE, sp |-> 0, lp |-> 0, ip |-> 0, out |-> << >>, writeLit |-> h.hType = set_compressed, writeSeq |-> TRUE]

SubBlocks(lit, all, store, src, h, st, bs, p, capacity, lastBlock) ==
    IF all > Len(src) THEN [error |-> FALSE, out |-> << >>]
    ELSE SubBlocksDone(LastSubBlock(SubBlocksFrom(0, NothingDone(h), store, h, st,
                                                  Plan(lit, all, store, IF p.targetCBlockSize < ZSTD_TARGETCBLOCKSIZE_MIN
                                                                        THEN ZSTD_TARGETCBLOCKSIZE_MIN ELSE p.targetCBlockSize), capacity),
                                    store, h, st, capacity, lastBlock),
                       store, src, h, st, bs, capacity, lastBlock)

ZSTD_estimateSubBlockSize(lit, store, st) == lit + ZSTD_estimateSubBlockSize_sequences(store.seqs, st) + ZSTD_blockHeaderSize

ZSTD_compressSubBlock_multi(store, src, h, st, bs, p, capacity, lastBlock) ==
    LET Estimated(lit) == SubBlocks(lit, ZSTD_estimateSubBlockSize(lit, store, st), store, src, h, st, bs, p, capacity, lastBlock)
    IN IF h.error THEN h ELSE IF st.error THEN st
       ELSE IF store.seqs = << >>
       THEN SubBlocksDone(LastSubBlock(NothingDone(h), store, h, st, capacity, lastBlock), store, src, h, st, bs, capacity, lastBlock)
       ELSE Estimated(ZSTD_estimateSubBlockSize_literal(store.lits, h))

ZSTD_buildBlockEntropyStats(store, bs, p) ==
    [literals |-> ZSTD_buildBlockEntropyStats_literals(store.lits, bs.huf, p),
     sequences |-> ZSTD_buildBlockEntropyStats_sequences(store.seqs, bs.fse, p)]

ZSTD_compressSuperBlock(store, src, bs, p, capacity, lastBlock) ==
    LET SubBlocksOf(e) == ZSTD_compressSubBlock_multi(store, src, e.literals, e.sequences, bs, p, capacity, lastBlock)
    IN SubBlocksOf(ZSTD_buildBlockEntropyStats(store, bs, p))

(***************************************************************************)
(* The block.                                                              *)
(***************************************************************************)
ZSTD_maybeRLE(store) == Len(store.seqs) < 4 /\ Len(store.lits) < 10

\* r: the sub-blocks, taken when they gain enough.
SuperBlockOrRaw(r, src, bs, p, capacity, lastBlock) ==
    IF r.error /\ ~r.tooSmall THEN r
    ELSE IF r.error THEN KeepNothing(ZSTD_noCompressBlock(src, capacity, lastBlock), bs)
    ELSE IF r.out # << >> /\ Bytes(r.out) < Len(src) - ZSTD_minGain(Len(src), p.strategy) + ZSTD_blockHeaderSize
    THEN [error |-> FALSE, out |-> r.out, kept |-> TRUE, bs |-> CheckOffsets(ZSTD_blockState_confirmRepcodesAndEntropyTables(r, r.rep))]
    ELSE KeepNothing(ZSTD_noCompressBlock(src, capacity, lastBlock), bs)

ZSTD_compressBlock_targetCBlockSize(store, src, bs, first, p, capacity, lastBlock) ==
    IF ~store.compress THEN KeepNothing(ZSTD_noCompressBlock(src, capacity, lastBlock), bs)
    ELSE IF ~first /\ ZSTD_maybeRLE(store) /\ ZSTD_isRLE(src) THEN KeepNothing(ZSTD_rleCompressBlock(src, capacity, lastBlock), bs)
    ELSE SuperBlockOrRaw(ZSTD_compressSuperBlock(store, src, bs, p, capacity, lastBlock), src, bs, p, capacity, lastBlock)

ZSTD_useTargetCBlockSize(p) == p.targetCBlockSize # 0

CompressStore(store, src, bs, first, p, capacity, lastBlock) ==
    IF store.error THEN store
    ELSE IF ZSTD_useTargetCBlockSize(p) THEN ZSTD_compressBlock_targetCBlockSize(store, src, bs, first, p, capacity, lastBlock)
    ELSE ZSTD_compressBlock_splitBlock(store, src, bs, first, p, capacity, lastBlock)

\* The next block of a frame: its bytes and the state after it.
ZSTD_compress_frameChunk(produced, src, bs, first, p, capacity, lastBlock) ==
    IF capacity < ZSTD_blockHeaderSize + MIN_CBLOCK_SIZE + 1 THEN dstSize_tooSmall
    ELSE CompressStore(ZSTD_buildSeqStore(produced, src, bs.rep, p), src, bs, first, p, capacity, lastBlock)
=============================================================================
