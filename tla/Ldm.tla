-------------------------------- MODULE Ldm --------------------------------
(* compress/zstd_ldm.c: long distance matching.  A rolling hash picks split   *)
(* points; the minMatchLength bytes before a split point are looked up in     *)
(* buckets of checksummed entries.  The raw sequences found for a whole input *)
(* are then spread over its blocks: a block compressor works on the literals  *)
(* between them.                                                             *)
(*                                                                           *)
(* m.ldm.seq, pos, inSeq: the raw sequences (rawSeqStore).  m.lw: the window   *)
(* of the matcher; its indexes are positions less lw.shift, which grows when  *)
(* they are reduced.  m.buckets, m.lead: the entries and the next one to       *)
(* replace.  m.feed: the input, in chunks.  m.outer: the block, while m        *)
(* describes the literals handed to the block compressor.                    *)
EXTENDS ZstdOpt, ZstdFast, ZstdDoubleFast, ZstdLazy

CONSTANTS
    LdmMin,             \* minMatchLength
    RateLog, GearBits,  \* hashRateLog; bits of the rolling hash
    Gear,               \* ZSTD_ldm_gearTab
    LDM_BATCH_SIZE,
    LdmBuckets, EntsPerBucket, Checksums,
    MaxChunk,           \* kMaxChunkSize
    LdmCurrentMax,      \* ZSTD_CURRENT_MAX
    UpdateFar, UpdateNear   \* 1024 and 512 of ZSTD_ldm_limitTableUpdate()

ASSUME LdmAssumption ==
    /\ {LdmMin, LDM_BATCH_SIZE, LdmBuckets, EntsPerBucket, Checksums, MaxChunk} \subseteq Nat \ {0}
    /\ RateLog \in 0 .. GearBits /\ LdmMin >= HASH_READ_SIZE

(***************************************************************************)
(* The rolling hash.                                                       *)
(***************************************************************************)
ZSTD_ldm_gear_init == 2 ^ GearBits - 1

Roll(r, i) == (2 * r + Gear[m.data[i] + 1]) % 2 ^ GearBits

\* The RateLog highest bits that depend on no more than LdmMin bytes are zero.
IsSplit(r) ==
    LET top == IF RateLog > 0 /\ RateLog <= Lesser(LdmMin, GearBits) THEN Lesser(LdmMin, GearBits) - RateLog ELSE 0
    IN (r \div 2 ^ top) % 2 ^ RateLog = 0

ZSTD_ldm_gear_reset(r, from) == FoldLeft(Roll, r, Positions(from, from + LdmMin))

\* Splits in [from, to), until the batch is full: at is the byte after the last one fed.
ZSTD_ldm_gear_feed(r, from, to) ==
    FoldLeft(LAMBDA w, i : IF Len(w.splits) = LDM_BATCH_SIZE THEN w
                           ELSE LET h == Roll(w.hash, i)
                                IN [hash |-> h, at |-> i + 1,
                                    splits |-> IF IsSplit(h) THEN Append(w.splits, i + 1) ELSE w.splits],
             [hash |-> r, at |-> from, splits |-> << >>], Positions(from, to))

(***************************************************************************)
(* The table.                                                              *)
(***************************************************************************)
XXH64(i) == FoldLeft(LAMBDA h, b : 3 * h + b + 1, 0, MEM_read(i, LdmMin))
BucketOf(i) == XXH64(i) % LdmBuckets
ChecksumOf(i) == (XXH64(i) \div LdmBuckets) % Checksums

\* s: the state; i: position.
ZSTD_ldm_insertEntry(s, i) ==
    LET h == BucketOf(i)
    IN [s EXCEPT !.buckets[h][s.lead[h]] = [offset |-> i - s.lw.shift, checksum |-> ChecksumOf(i)],
                 !.lead[h] = (@ + 1) % EntsPerBucket]

ZSTD_ldm_reduceTable(s, reducer) ==
    [s EXCEPT !.buckets = [h \in DOMAIN @ |-> [k \in DOMAIN @[h] |->
                             [@[h][k] EXCEPT !.offset = IF @ < reducer THEN 0 ELSE @ - reducer]]]]

\* A dictionary, before the first input.
ZSTD_ldm_fillHashTable(s, from, to) ==
    FoldLeft(LAMBDA w, i : LET h == Roll(w.hash, i)
                           IN [hash |-> h, s |-> IF IsSplit(h) /\ i + 1 >= from + LdmMin
                                                 THEN ZSTD_ldm_insertEntry(w.s, i + 1 - LdmMin) ELSE w.s],
             [hash |-> ZSTD_ldm_gear_init, s |-> s], Positions(from, to)).s

(***************************************************************************)
(* Matches.                                                                *)
(***************************************************************************)
\* Backwards above anchor; through the start of the prefix into the extDict.
BackLength(split, anchor, match, low, prefixStart) ==
    LET n == CatchUp(split, anchor, match, IF match < prefixStart THEN low ELSE prefixStart)
    IN IF match < prefixStart \/ match - n # prefixStart \/ low = prefixStart THEN n
       ELSE n + CatchUp(split - n, anchor, prefixStart, low)

\* The best entry of the bucket of split: forward and backward lengths, and its position.
BestEntry(s, split, anchor) ==
    LET ext == s.lw.low < s.lw.dictLimit
        lowest == IF ext THEN s.lw.low ELSE s.lw.dictLimit
        Try(best, k) ==
            LET e == s.buckets[BucketOf(split)][k]
                at == e.offset + s.lw.shift
                fwd == IF ext THEN ZSTD_count_2segments(split, InDict(at), at) ELSE ZSTD_count(split, FALSE, at, m.iend)
                back == BackLength(split, anchor, at, lowest + s.lw.shift, s.lw.dictLimit + s.lw.shift)
            IN IF e.checksum # ChecksumOf(split) \/ e.offset <= lowest \/ fwd < LdmMin \/ fwd + back <= best.fwd + best.back
               THEN best ELSE [fwd |-> fwd, back |-> back, at |-> at]
    IN FoldLeft(Try, [fwd |-> 0, back |-> 0, at |-> 0], Positions(0, EntsPerBucket))

\* One split point.  skip: a match runs past what was hashed; the rest of the batch is dropped.
AtSplit(s, split, end) ==
    LET Taken(best, next) ==
            IF best.fwd = 0 THEN ZSTD_ldm_insertEntry(s, split)
            ELSE IF Len(s.ldm.seq) = s.capacity THEN [s EXCEPT !.feed.error = TRUE]
            ELSE [ZSTD_ldm_insertEntry(s, split) EXCEPT
                    !.ldm.seq = Append(@, [ll |-> split - best.back - s.feed.anchor, ml |-> best.fwd + best.back,
                                           offset |-> split - best.at]),
                    !.feed.anchor = next, !.feed.skip = next > end]
        Best(best) == Taken(best, split + best.fwd)
    IN IF s.feed.skip \/ s.feed.error THEN s
       ELSE IF split < s.feed.anchor THEN ZSTD_ldm_insertEntry(s, split)
       ELSE Best(BestEntry(s, split, s.feed.anchor))

\* A chunk: indexes are reduced if they get too large, the window is moved to its end, and
\* the hash is primed with the chunk's first bytes.
LdmChunk ==
    LET f == m.feed
        end == Lesser(f.ip + MaxChunk, f.end)
        correction == f.ip - m.lw.shift - (2 + m.maxDist + 0)
        corrected == IF end - m.lw.shift <= LdmCurrentMax THEN m
                     ELSE LET Reduced(i) == IF i < correction + 2 THEN 2 ELSE i - correction
                          IN [ZSTD_ldm_reduceTable(m, correction) EXCEPT
                                !.lw = [shift |-> @.shift + correction, low |-> Reduced(@.low),
                                        dictLimit |-> Reduced(@.dictLimit), dictEnd |-> 0]]
        lw == corrected.lw
        last == end - lw.shift
        low == IF lw.low < last - m.maxDist THEN last - m.maxDist ELSE lw.low
        moved == IF last > m.maxDist + lw.dictEnd
                 THEN [lw EXCEPT !.low = low, !.dictLimit = IF @ < low THEN low ELSE @, !.dictEnd = 0] ELSE lw
        short == end - f.ip < LdmMin
    IN /\ m.who = "ldm" /\ m.pc = "chunk" /\ f.ip < f.end /\ Len(m.ldm.seq) < m.capacity
       /\ m' = [corrected EXCEPT
                  !.lw = moved, !.pc = "feed", !.iend = end,
                  !.feed = [f EXCEPT !.start = f.ip, !.anchor = f.ip, !.before = Len(m.ldm.seq),
                                     !.hash = IF short THEN 0 ELSE ZSTD_ldm_gear_reset(ZSTD_ldm_gear_init, f.ip),
                                     !.ip = IF short THEN end ELSE f.ip + LdmMin]]

\* One turn of the loop of ZSTD_ldm_generateSequences_internal().
LdmFeed ==
    LET f == m.feed
        Matched(g) == FoldLeft(LAMBDA w, split : AtSplit(w, split - LdmMin, g.at), [m EXCEPT !.feed.skip = FALSE], g.splits)
    IN /\ m.who = "ldm" /\ m.pc = "feed"
       /\ f.ip < m.iend - HASH_READ_SIZE /\ ~f.error
       /\ \E g \in {ZSTD_ldm_gear_feed(f.hash, f.ip, m.iend - HASH_READ_SIZE)} : \E s \in {Matched(g)} :
             m' = IF s.feed.skip
                  THEN [s EXCEPT !.feed.ip = s.feed.anchor, !.feed.hash = ZSTD_ldm_gear_reset(g.hash, s.feed.anchor - LdmMin)]
                  ELSE [s EXCEPT !.feed.ip = g.at, !.feed.hash = g.hash]

\* The literals left by the chunk before go to the first sequence of this one.
LdmChunkEnd ==
    LET f == m.feed
        some == f.before < Len(m.ldm.seq)
        left == m.iend - f.anchor
        chunkSize == m.iend - f.start
    IN /\ m.who = "ldm" /\ m.pc = "feed" /\ (f.ip >= m.iend - HASH_READ_SIZE \/ f.error)
       /\ m' = IF f.error THEN [m EXCEPT !.pc = "error"]
               ELSE [m EXCEPT !.pc = "chunk", !.feed.ip = m.iend,
                              !.ldm.seq = IF some THEN [@ EXCEPT ![f.before + 1].ll = @ + f.leftover] ELSE @,
                              !.feed.leftover = IF some THEN left ELSE @ + chunkSize,
                              !.asserts = @ /\ (some \/ left = chunkSize)]

LdmGenerated ==
    /\ m.who = "ldm" /\ m.pc = "chunk" /\ (m.feed.ip >= m.feed.end \/ Len(m.ldm.seq) = m.capacity)
    /\ m' = [m EXCEPT !.pc = "next", !.iend = m.istart]

(***************************************************************************)
(* The raw sequences, cut at the ends of blocks.                           *)
(***************************************************************************)
RECURSIVE ZSTD_ldm_skipSequences(_, _)
ZSTD_ldm_skipSequences(l, size) ==
    LET p == l.pos + 1
        s == l.seq[p]
        rest == s.ml - (size - s.ll)
        cut == [l EXCEPT !.seq[p] = [@ EXCEPT !.ll = 0, !.ml = rest]]
    IN IF size = 0 \/ l.pos = Len(l.seq) THEN l
       ELSE IF size <= s.ll THEN [l EXCEPT !.seq[p].ll = @ - size]
       ELSE IF rest <= 0 THEN ZSTD_ldm_skipSequences([l EXCEPT !.seq[p] = [@ EXCEPT !.ll = 0, !.ml = 0], !.pos = p], -rest)
       ELSE IF rest >= m.minMatch THEN cut
       ELSE [cut EXCEPT !.pos = p, !.seq = IF p < Len(l.seq) THEN [@ EXCEPT ![p + 1].ll = @ + rest] ELSE @]

\* Mutant: a sequence longer than the block is taken whole.
NeverSplit(l, remaining) == [seq |-> l.seq[l.pos + 1], l |-> [l EXCEPT !.pos = @ + 1]]

\* The next sequence for a block with remaining bytes left; offset 0: the rest is literals.
maybeSplitSequence(l, remaining) ==
    LET s == l.seq[l.pos + 1]
        ml == remaining - s.ll
    IN IF remaining >= s.ll + s.ml THEN [seq |-> s, l |-> [l EXCEPT !.pos = @ + 1]]
       ELSE [seq |-> IF ml <= 0 \/ ml < m.minMatch THEN [s EXCEPT !.offset = 0] ELSE [s EXCEPT !.ml = ml],
             l |-> ZSTD_ldm_skipSequences(l, remaining)]

ZSTD_ldm_skipRawSeqStoreBytes(l, bytes) == LdmSkip(l, bytes)

(***************************************************************************)
(* Blocks.  m.outer: the block; m.nested: m.istart .. m.iend are the        *)
(* literals given to the block compressor; m.after: the match behind them.  *)
(***************************************************************************)
LdmBlock ==
    LET end == Lesser(m.iend + m.blockSize, m.feed.end)
        low == IF m.lowLimit < m.iend - m.maxDist THEN m.iend - m.maxDist ELSE m.lowLimit
    IN /\ m.who = "ldm" /\ m.pc = "next" /\ m.iend < m.feed.end
       /\ m' = [m EXCEPT !.pc = "segment", !.istart = m.iend, !.iend = end, !.anchor = m.iend, !.seqs = << >>,
                         !.lowLimit = low, !.dictLimit = IF @ < low THEN low ELSE @,
                         !.mode = IF low < m.dictLimit THEN "extDict" ELSE "noDict",
                         !.next = IF @ < low THEN low ELSE @,
                         !.outer = [istart |-> m.iend, iend |-> end, rep |-> m.rep, ldm |-> m.ldm, ip |-> m.iend]]

\* After a long match the tables are brought up to date from near its end only.
ZSTD_ldm_limitTableUpdate(ip) ==
    IF ip > m.next + UpdateFar THEN ip - Lesser(UpdateNear, ip - m.next - UpdateFar) ELSE m.next

ZSTD_ldm_fillFastTables(s, ip) ==
    LET d == ZSTD_fillDoubleHashTableForCCtx([l |-> s.hl, s |-> s.hs], s.data, s.next, ip)
    IN CASE m.finder = "fast" -> [s EXCEPT !.ht = ZSTD_fillHashTableForCCtx(@, s.data, s.next, ip)]
         [] m.finder = "dfast" -> [s EXCEPT !.hl = d.l, !.hs = d.s]
         [] OTHER -> s

\* The block compressor for the dictionary mode of the window.
ZSTD_selectBlockCompressor ==
    CASE m.finder = "fast" -> IF m.mode = "extDict" THEN "fast_extDict" ELSE "fast_noDict"
      [] m.finder = "dfast" -> IF m.mode = "extDict" THEN "dfast_extDict" ELSE "dfast_noDict"
      [] OTHER -> m.finder

\* The literals up to the next raw sequence, or to the end of the block.
LdmSegment ==
    LET o == m.outer
        none == m.ldm.pos = Len(m.ldm.seq) \/ o.ip >= o.iend
        cut == maybeSplitSequence(m.ldm, o.iend - o.ip)
        last == none \/ cut.seq.offset = 0
        ready == ZSTD_ldm_fillFastTables([m EXCEPT !.next = ZSTD_ldm_limitTableUpdate(o.ip)], o.ip)
        called == [ready EXCEPT !.who = ZSTD_selectBlockCompressor, !.pc = "enter", !.nested = TRUE,
                                !.istart = o.ip, !.anchor = o.ip, !.rep0 = m.rep]
    IN /\ m.who = "ldm" /\ m.pc = "segment"
       /\ m' = CASE m.finder = "opt" -> [m EXCEPT !.who = "opt", !.pc = "enter", !.nested = TRUE, !.rep0 = m.rep]
                 [] m.finder # "opt" /\ last ->
                      [called EXCEPT !.after = << >>, !.ldm = IF none THEN @ ELSE cut.l]
                 [] OTHER -> [called EXCEPT !.after = << cut.seq >>, !.ldm = cut.l, !.iend = o.ip + cut.seq.ll,
                                            !.asserts = @ /\ o.ip + cut.seq.ll + cut.seq.ml <= o.iend]

\* The compressor is done: its offsets, then the raw sequence and its offset.
LdmStored ==
    LET s == m.after[1]
    IN /\ m.nested /\ m.pc = "done" /\ m.after # << >> /\ m.finder # "opt"
       /\ m' = [m EXCEPT !.who = "ldm", !.pc = "segment", !.nested = FALSE, !.after = << >>,
                         !.rep = << s.offset, m.repOut[1], m.repOut[2] >>,
                         !.seqs = ZSTD_storeSeq(@, m.anchor, m.iend - m.anchor, OFFSET_TO_OFFBASE(s.offset), s.ml),
                         !.outer.ip = m.iend + s.ml, !.anchor = m.iend + s.ml, !.iend = m.outer.iend]

LdmBlockDone ==
    LET o == m.outer
    IN /\ m.nested /\ m.pc = "done" /\ (m.after = << >> \/ m.finder = "opt")
       /\ m' = [m EXCEPT !.who = "ldm", !.pc = "done", !.nested = FALSE,
                         !.istart = o.istart, !.iend = o.iend, !.rep = o.rep,
                         !.ldm = IF m.finder = "opt" THEN ZSTD_ldm_skipRawSeqStoreBytes(o.ldm, o.iend - o.istart) ELSE @]

LdmNextBlock ==
    /\ m.who = "ldm" /\ m.pc = "done" /\ m.iend < m.feed.end
    /\ m' = [m EXCEPT !.pc = "next", !.rep = [k \in 1 .. 3 |-> IF k <= Len(m.repOut) THEN m.repOut[k] ELSE @[k]]]

LdmNext ==
    LdmChunk \/ LdmFeed \/ LdmChunkEnd \/ LdmGenerated \/ LdmBlock \/ LdmSegment \/ LdmStored \/ LdmBlockDone \/ LdmNextBlock
=============================================================================
