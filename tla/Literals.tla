------------------------------ MODULE Literals ------------------------------
(* The literals section of a block: stored, one byte repeated, or coded with *)
(* a Huffman table that is new or the one of an earlier block.               *)
(*                                                                           *)
(* huf: what the compressor keeps of the last table, and whether it may be   *)
(* used again: "none", "check" (if it has the symbols), "valid" (it has all).*)
EXTENDS HufDecode

set_basic == 0
set_rle == 1
set_compressed == 2
set_repeat == 3

LitHufLog == 11
MIN_CBLOCK_SIZE == 2
MIN_LITERALS_FOR_4_STREAMS == 6

dstSize_tooSmall == [error |-> TRUE, tooSmall |-> TRUE]
GENERIC == [error |-> TRUE, tooSmall |-> FALSE]

ZSTD_lazy == 4
ZSTD_btultra == 8

Bits8(bytes) == [k \in 1 .. 8 * Len(bytes) |-> (bytes[(k - 1) \div 8 + 1] \div 2 ^ ((k - 1) % 8)) % 2]
Bytes8(mem, at, n) == [k \in 1 .. n |-> MEM_readLE(mem, at + k - 1, 1)]

ZSTD_minGain(srcSize, strategy) ==
    srcSize \div 2 ^ (IF strategy >= ZSTD_btultra THEN strategy - 1 ELSE 6) + 2

(***************************************************************************)
(* Compression.                                                            *)
(***************************************************************************)
\* The header of a section whose size alone is told: 2 - 1 - 5, 2 - 2 - 12 or 2 - 2 - 20 bits.
PlainHeader(type, srcSize) ==
    LE(type, 2) \o (IF srcSize <= 31 THEN LE(0, 1) \o LE(srcSize, 5)
                    ELSE IF srcSize <= 4095 THEN LE(1, 2) \o LE(srcSize, 12) ELSE LE(3, 2) \o LE(srcSize, 20))

ZSTD_noCompressLiterals(src, capacity) ==
    LET header == PlainHeader(set_basic, Len(src))
    IN IF Len(src) + Bytes(header) > capacity THEN dstSize_tooSmall ELSE [error |-> FALSE, out |-> header \o Bits8(src)]

allBytesIdentical(src) == \A k \in DOMAIN src : src[k] = src[1]

ZSTD_compressRleLiteralsBlock(src) ==
    [error |-> FALSE, out |-> PlainHeader(set_rle, Len(src)) \o LE(src[1], 8)]

ZSTD_minLiteralsToCompress(strategy, repeat) ==
    IF repeat = "valid" THEN 6 ELSE 8 * 2 ^ (IF 9 - strategy < 3 THEN 9 - strategy ELSE 3)

\* 2 - 2 - 10 - 10, 2 - 2 - 14 - 14 or 2 - 2 - 18 - 18 bits.
HufHeader(type, single, lhSize, srcSize, cSize) ==
    LET width == CASE lhSize = 3 -> 10 [] lhSize = 4 -> 14 [] lhSize = 5 -> 18
        format == CASE lhSize = 3 -> (IF single THEN 0 ELSE 1) [] lhSize = 4 -> 2 [] lhSize = 5 -> 3
    IN LE(type, 2) \o LE(format, 2) \o LE(srcSize, width) \o LE(cSize, width)

lhSizeOf(srcSize) == IF srcSize >= 16384 THEN 5 ELSE IF srcSize >= 1024 THEN 4 ELSE 3

\* Mutant: a section that is stored marks the table which was tried for it as the last one.
ForgetsTable(src, capacity, prev, c, single, strategy) ==
    IF c.out = << >> \/ Bytes(c.out) >= Len(src) - ZSTD_minGain(Len(src), strategy)
    THEN ZSTD_noCompressLiterals(src, capacity) @@ [next |-> [table |-> c.table, repeat |-> "check"]]
    ELSE [error |-> FALSE, out |-> HufHeader(IF c.repeat # "none" THEN set_repeat ELSE set_compressed, single, lhSizeOf(Len(src)),
                                             Len(src), Bytes(c.out)) \o c.out,
          next |-> [table |-> c.table, repeat |-> "check"]]

\* A section that is not coded leaves the table as it was.
Plain(r, prev) == IF r.error THEN r ELSE r @@ [next |-> prev]

\* c: what the coder made of the literals.
SectionOf(src, capacity, prev, c, single, strategy) ==
    LET n == Len(src)
        Coded(type, next) == [error |-> FALSE, out |-> HufHeader(type, single, lhSizeOf(n), n, Bytes(c.out)) \o c.out, next |-> next]
    IN IF c.out = << >> \/ Bytes(c.out) >= n - ZSTD_minGain(n, strategy) THEN Plain(ZSTD_noCompressLiterals(src, capacity), prev)
       ELSE IF Bytes(c.out) = 1 /\ (n >= 8 \/ allBytesIdentical(src)) THEN Plain(ZSTD_compressRleLiteralsBlock(src), prev)
       ELSE IF c.repeat # "none" THEN Coded(set_repeat, prev)
       ELSE Coded(set_compressed, [table |-> c.table, repeat |-> "check"])

SingleStream(n, prev) == n < 256 \/ (prev.repeat = "valid" /\ lhSizeOf(n) = 3)

\* The section, and the table the next block starts from.
ZSTD_compressLiterals(src, capacity, prev, strategy, disabled) ==
    LET n == Len(src)
    IN IF disabled \/ n < ZSTD_minLiteralsToCompress(strategy, prev.repeat) THEN Plain(ZSTD_noCompressLiterals(src, capacity), prev)
       ELSE IF capacity < lhSizeOf(n) + 1 THEN dstSize_tooSmall
       ELSE SectionOf(src, capacity, prev,
                      HUF_compress_internal([src |-> src, huffLog |-> LitHufLog, fourStreams |-> ~SingleStream(n, prev),
                                             capacity |-> capacity - lhSizeOf(n), old |-> prev.table, repeat |-> prev.repeat,
                                             preferRepeat |-> strategy < ZSTD_lazy /\ n <= 1024,
                                             optimalDepth |-> strategy >= ZSTD_btultra]),
                      SingleStream(n, prev), strategy)

(***************************************************************************)
(* Decompression.  d: the table at hand, and whether there is one.         *)
(***************************************************************************)
\* h: the table as read from the start of mem; four: the streams behind it.
WithTableRead(h, mem, n, four, fast) ==
    IF h.error THEN ERROR
    ELSE IF h.size >= Bytes(mem) THEN ERROR
    ELSE [table |-> h.table] @@ (IF four THEN HUF_decompress4X_usingDTable(From(mem, h.size), n, h.table, fast)
                                 ELSE HUF_decompress1X_usingDTable(From(mem, h.size), n, h.table))

\* One stream always has the table of one symbol, four have the one that is worth it.
HUF_decompress1X1_DCtx(stats, mem, n) == WithTableRead(HUF_readDTableX1_wksp(stats), mem, n, FALSE, FALSE)

HUF_decompress4X_hufOnly(stats, mem, n, fast) ==
    IF n = 0 \/ Bytes(mem) = 0 THEN ERROR
    ELSE WithTableRead(IF HUF_selectDecoder(n, Bytes(mem)) THEN HUF_readDTableX2_wksp(stats) ELSE HUF_readDTableX1_wksp(stats),
                       mem, n, TRUE, fast)

\* What a header says: the size of the header, of the literals and of what codes them.
ReadHufHeader(mem) ==
    LET format == Number(mem, 3, 4)
        Fields(lhSize, width) == [lhSize |-> lhSize, litSize |-> Number(mem, 5, 4 + width),
                                  litCSize |-> Number(mem, 5 + width, 4 + 2 * width), single |-> format = 0]
    IN CASE format \in {0, 1} -> Fields(3, 10) [] format = 2 -> Fields(4, 14) [] format = 3 -> Fields(5, 18)

ReadPlainHeader(mem) ==
    LET format == Number(mem, 3, 4)
        Fields(lhSize, from, to) == [lhSize |-> lhSize, litSize |-> Number(mem, from, to)]
    IN CASE format \in {0, 2} -> Fields(1, 4, 8) [] format = 1 -> Fields(2, 5, 16) [] format = 3 -> Fields(3, 5, 24)

TooLarge(h, blockSizeMax, writeSize) == h.litSize > blockSizeMax \/ writeSize < h.litSize

\* The literals themselves, from the streams in body.
NewTableLiterals(stats, h, body, fast) ==
    IF h.single THEN HUF_decompress1X1_DCtx(stats, body, h.litSize) ELSE HUF_decompress4X_hufOnly(stats, body, h.litSize, fast)

CodedLiterals(type, h, body, d, fast) ==
    CASE type = set_repeat /\ h.single -> HUF_decompress1X_usingDTable(body, h.litSize, d.huf)
      [] type = set_repeat /\ ~h.single -> HUF_decompress4X_usingDTable(body, h.litSize, d.huf, fast)
      [] type = set_compressed -> NewTableLiterals(HUF_readStats(body), h, body, fast)

KeepTable(r, type, h, d) ==
    IF r.error THEN ERROR
    ELSE [error |-> FALSE, size |-> h.litCSize + h.lhSize, lhSize |-> h.lhSize, lits |-> r.out, ok |-> r.ok,
          d |-> [d EXCEPT !.litEntropy = TRUE, !.huf = IF type = set_repeat THEN @ ELSE r.table]]

HuffmanLiterals(mem, type, h, d, blockSizeMax, writeSize, fast) ==
    IF TooLarge(h, blockSizeMax, writeSize) \/ h.litCSize + h.lhSize > Bytes(mem)
       \/ (~h.single /\ h.litSize < MIN_LITERALS_FOR_4_STREAMS) THEN ERROR
    ELSE KeepTable(CodedLiterals(type, h, SubSeq(mem, 8 * h.lhSize + 1, 8 * (h.lhSize + h.litCSize)), d, fast), type, h, d)

PlainLiterals(mem, type, h, d, blockSizeMax, writeSize) ==
    LET size == h.lhSize + (IF type = set_rle THEN 1 ELSE h.litSize)
    IN IF TooLarge(h, blockSizeMax, writeSize) \/ size > Bytes(mem) THEN ERROR
       ELSE [error |-> FALSE, size |-> size, lhSize |-> h.lhSize, ok |-> TRUE, d |-> d,
             lits |-> [k \in 1 .. h.litSize |-> MEM_readLE(mem, h.lhSize + (IF type = set_rle THEN 0 ELSE k - 1), 1)]]

\* writeSize: the room for a block.  The bytes consumed, the literals, and the context left;
\* ok: the decoder stayed in its destination.
ZSTD_decodeLiteralsBlock(mem, d, blockSizeMax, writeSize, fast) ==
    LET type == Number(mem, 1, 2)
    IN IF Bytes(mem) < MIN_CBLOCK_SIZE THEN ERROR
       ELSE IF type \in {set_basic, set_rle} THEN PlainLiterals(mem, type, ReadPlainHeader(mem), d, blockSizeMax, writeSize)
       ELSE IF Bytes(mem) < 5 \/ (type = set_repeat /\ ~d.litEntropy) THEN ERROR
       ELSE HuffmanLiterals(mem, type, ReadHufHeader(mem), d, blockSizeMax, writeSize, fast)
=============================================================================
