----------------------------- MODULE BlockFrame -----------------------------
(* The blocks of one frame, from a sequence producer to the bytes the         *)
(* decompressor writes.  The two sides share nothing but the bytes: which     *)
(* tables may be used again and which offsets were the last ones each side    *)
(* concludes for itself from the blocks, also from those that are stored raw, *)
(* or as one byte, and from those that were cut in parts.                    *)
(*                                                                           *)
(* The decompressor has one room for the whole frame, or, when it streams, a  *)
(* ring it starts over when no block fits behind the last one.               *)
EXTENDS DictEntropy

CONSTANTS
    Settings,        \* the parameters of both sides and the shapes of the blocks, a record for each kind of frame
    Parse(_),        \* what its sequence producer answers for a shape
    LiteralAt(_, _), \* byte k of a shape's literals
    DictContent,     \* the content of the dictionary
    Samples,         \* the shapes a dictionary was trained with
    ForeignTables,   \* the normalized counts and the offsets of a dictionary that was made in another way
    WindowSize

VARIABLES
    set,        \* the parameters
    content,    \* what was compressed so far
    bs,         \* the compressor's tables and offsets
    wire,       \* bits of blocks not decompressed yet
    d,          \* the decompressor's
    buffer,     \* the decompressor's room
    outStart,   \* where in it the next block goes
    decoded,    \* bytes decompressed so far
    blocks,     \* blocks compressed so far
    ended,      \* the last one was marked as the last of the frame
    status      \* "ok" until one side fails

vars == << set, content, bs, wire, d, buffer, outStart, decoded, blocks, ended, status >>

Poison == -1
Gap == [k \in 1 .. 2 * WILDCOPY_OVERLENGTH |-> Poison]
Fresh(n) == [k \in 1 .. n |-> Poison]
BufferAt == Len(DictContent) + Len(Gap)

\* Mutant: room for the window and a block.
RingOfOneBlock == WindowSize + BlockSizeMax + 2 * WILDCOPY_OVERLENGTH

\* The ring: the window, a block, and as much again for the literals kept at the end of the block.
ZSTD_decodingBufferSize_internal == WindowSize + 2 * BlockSizeMax + 2 * WILDCOPY_OVERLENGTH

(***************************************************************************)
(* The blocks of the application.                                          *)
(***************************************************************************)
\* The bytes a parse stands for, after what is there already; k: the literals used.
RECURSIVE Expand(_, _, _, _)
Expand(past, shape, seqs, k) ==
    LET Match(bytes, seq) == bytes \o [i \in 1 .. seq.matchLength |-> bytes[Len(bytes) - seq.offset + 1 + ((i - 1) % seq.offset)]]
        Literal(n) == [i \in 1 .. n |-> LiteralAt(shape, k + i)]
    IN IF seqs = << >> THEN past
       ELSE Expand(Match(past \o Literal(seqs[1].litLength), seqs[1]), shape, Tail(seqs), k + seqs[1].litLength)

Past == (IF set.dict = "none" THEN << >> ELSE DictContent) \o content
BlockOf(shape) == SubSeq(Expand(Past, shape, Parse(shape), 0), Len(Past) + 1, Len(Past) + ZSTD_fastSequenceLengthSum(Parse(shape)))

\* A parse may refer to what the decompressor has, and with validation on to the block alone.
Available(in) ==
    \A k \in DOMAIN in : /\ in[k].offset <= EndOf(in, k) - in[k].matchLength + (IF set.p.validate THEN 0 ELSE Len(Past))
                         /\ in[k].offset <= WindowSize

ZSTD_COMPRESSBOUND(srcSize) == srcSize + srcSize \div 256 + (IF srcSize < KB128 THEN (KB128 - srcSize) \div 2048 ELSE 0)

(***************************************************************************)
(* The frame.                                                              *)
(***************************************************************************)
SampleOf(shape) == ZSTD_transferSequences_wBlockDelim(Parse(shape), Expand(<< >>, shape, Parse(shape), 0), repStartValue, set.p)

RECURSIVE LitsOf(_), SeqsOf(_)
LitsOf(samples) == IF samples = << >> THEN << >> ELSE SampleOf(samples[1]).lits \o LitsOf(Tail(samples))
SeqsOf(samples) == IF samples = << >> THEN << >> ELSE SampleOf(samples[1]).seqs \o SeqsOf(Tail(samples))

\* The entropy section of the dictionary.
DictTables ==
    IF set.dict = "trained" THEN ZDICT_analyzeEntropy(LitsOf(Samples), SeqsOf(Samples), Len(DictContent))
    ELSE EntropySection(HUF_buildCTable_wksp(HIST_count(DictContent), LitHufLog), ForeignTables.of, ForeignTables.ml, ForeignTables.ll,
                        ForeignTables.rep)

Init ==
    /\ set \in Settings
    /\ bs = ZSTD_reset_compressedBlockState
    /\ d = ZSTD_decompressBegin
    /\ content = << >> /\ wire = << >> /\ decoded = 0 /\ blocks = 0 /\ outStart = 0 /\ ended = FALSE /\ status = "new"
    /\ buffer = IF set.streaming THEN Fresh(ZSTD_decodingBufferSize_internal) ELSE << >>

\* c, e: what each side read of the dictionary.
UseDict(c, e) ==
    /\ bs' = IF c.error THEN bs ELSE [huf |-> c.huf, fse |-> c.fse, rep |-> c.rep]
    /\ d' = IF e.error THEN d ELSE ZSTD_copyDDictParameters(d, e, 0, Len(DictContent), TRUE)
    /\ status' = IF c.error THEN "compression failed" ELSE IF e.error THEN "decompression failed" ELSE "ok"

DigestDict(mem) ==
    LET stats == HUF_readStats(From(mem, DictHeader))
    IN UseDict(ZSTD_loadCEntropy(mem, stats, Len(DictContent)), ZSTD_loadDEntropy(mem, stats, Len(DictContent)))

\* Both sides begin the frame with the dictionary.
Begin ==
    /\ status = "new"
    /\ CASE set.dict = "none" -> status' = "ok" /\ UNCHANGED << bs, d >>
         [] set.dict = "raw" -> d' = ZSTD_refDictContent(d, 0, Len(DictContent)) /\ status' = "ok" /\ UNCHANGED bs
         [] OTHER -> DigestDict(DictTables)
    /\ UNCHANGED << set, content, wire, buffer, outStart, decoded, blocks, ended >>

Capacity(n) == IF set.tight THEN n + ZSTD_blockHeaderSize ELSE ZSTD_COMPRESSBOUND(n)

Sent(src, r) ==
    /\ status' = IF r.error THEN "compression failed" ELSE "ok"
    /\ content' = IF r.error THEN content ELSE content \o src
    /\ bs' = IF r.error THEN bs ELSE r.bs
    /\ wire' = IF r.error THEN << >> ELSE r.out

SendBlock(parse, src, lastBlock) ==
    Sent(src, ZSTD_compress_frameChunk(parse, src, bs, blocks = 0, set.p, Capacity(Len(src)), lastBlock))

Compress(shape, lastBlock) ==
    /\ status = "ok" /\ wire = << >> /\ ~ended /\ blocks < set.maxBlocks
    /\ Available(Parse(shape))
    /\ SendBlock(Parse(shape), BlockOf(shape), IF lastBlock THEN 1 ELSE 0)
    /\ blocks' = blocks + 1 /\ ended' = lastBlock
    /\ UNCHANGED << set, d, buffer, outStart, decoded >>

\* The room behind what is there: of a destination of the size of the frame, or of the ring.
Room == IF set.streaming THEN << >> ELSE Fresh(Len(content) - decoded + (IF ended THEN 0 ELSE BlockSizeMax))

Memory(block) ==
    LET before == DictContent \o Gap \o buffer \o Room
        extra == Len(before) + Len(Gap)
        src == extra + ZSTD_LITBUFFEREXTRASIZE + WILDCOPY_OVERLENGTH + Len(Gap)
    IN [mem |-> before \o Gap \o Fresh(ZSTD_LITBUFFEREXTRASIZE + WILDCOPY_OVERLENGTH) \o Gap \o Bytes8(block, 0, Bytes(block)) \o Gap,
        ok |-> TRUE, dst |-> BufferAt + outStart, end |-> Len(before), extra |-> extra, src |-> src]

\* The ring starts over when a block would not fit.
NextStart(at) == IF set.streaming /\ at + BlockSizeMax > Len(buffer) THEN 0 ELSE at

\* Only ZSTD_decompressContinue, for a stream, checks the size of a block once it is there.
ExceedsMaximum(r) == set.streaming /\ r.size > BlockSizeMax

Arrived(h, r) ==
    /\ status' = IF r.error \/ ExceedsMaximum(r) THEN "decompression failed" ELSE IF ~r.m.ok THEN "write out of bounds" ELSE "ok"
    /\ decoded' = decoded + r.size
    /\ outStart' = NextStart(outStart + r.size)
    /\ buffer' = SubSeq(r.m.mem, BufferAt + 1, BufferAt + (IF set.streaming THEN Len(buffer) ELSE outStart + r.size))
    /\ d' = [r.d EXCEPT !.previousDstEnd = BufferAt + outStart + r.size]
    /\ wire' = From(wire, ZSTD_blockHeaderSize + h.cSize)

Receive(h, m, e, block) ==
    Arrived(h, CASE h.type = bt_raw -> ZSTD_copyRawBlock(m, e, h.cSize)
                 [] h.type = bt_rle -> ZSTD_setRleBlock(m, e, h.origSize)
                 [] h.type = bt_compressed -> ZSTD_decompressBlock_internal(m, e, block, set.streaming, set.fast))

ReceiveBehind(h, block) == ~h.error /\ Receive(h, Memory(block), ZSTD_checkContinuity(d, BufferAt + outStart), block)

DecompressBlock ==
    LET h == ZSTD_getcBlockSize(wire)
    IN /\ status = "ok" /\ wire # << >>
       /\ ReceiveBehind(h, SubSeq(wire, 8 * ZSTD_blockHeaderSize + 1, 8 * (ZSTD_blockHeaderSize + h.cSize)))
       /\ UNCHANGED << set, content, bs, blocks, ended >>

Next == \/ Begin
        \/ \E shape \in set.shapes, lastBlock \in BOOLEAN : Compress(shape, lastBlock)
        \/ DecompressBlock

Spec == Init /\ [][Next]_vars

-----------------------------------------------------------------------------
(***************************************************************************)
(* Properties.                                                             *)
(***************************************************************************)
\* Where byte n of the frame, counted from 0, is in the decompressor's memory: behind the start of the prefix, or before it.
AddressOf(n) ==
    LET back == decoded - n IN IF d.previousDstEnd - back >= d.prefixStart THEN d.previousDstEnd - back
                               ELSE d.dictEnd - (d.prefixStart - (d.previousDstEnd - back))

\* Every byte of the last WindowSize bytes is where ZSTD_execSequence will look for it, and is what was compressed:
\* neither the copies that overshoot (ZSTD_wildcopy) nor literals kept in the output (ZSTD_allocateLiteralsBuffer) nor
\* the start over of the ring have touched it.
WindowIntact ==
    status = "ok" => \A n \in {k \in 0 .. decoded - 1 : k >= decoded - WindowSize} : buffer[AddressOf(n) - BufferAt + 1] = content[n + 1]

\* ZSTD_compress_frameChunk never fails with the room of ZSTD_COMPRESSBOUND, and ZSTD_decompressBlock_internal accepts
\* what it wrote: a block never refers to a table that the decompressor does not hold.
EveryBlockAccepted == status \notin {"compression failed", "decompression failed"}

\* The copies of ZSTD_execSequence, of the literals and of the four Huffman streams write inside the room for the frame
\* and the buffer for literals, also at the end of a frame whose room is exact.
WritesInBounds == status # "write out of bounds"

\* Between blocks the compressor's offset history is the decompressor's, whichever blocks and partitions were stored raw
\* (ZSTD_compressSeqStore_singleBlock, ZSTD_blockState_confirmRepcodesAndEntropyTables).
HistoriesAgree == wire = << >> /\ status = "ok" => bs.rep = d.rep
=============================================================================
