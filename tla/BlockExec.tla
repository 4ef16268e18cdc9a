------------------------------ MODULE BlockExec -----------------------------
(* The decompressor turns the sections of a block into bytes.  It copies in   *)
(* strides of 8, 16 and 32 bytes that overshoot the end of what is asked for, *)
(* and it keeps the literals of the block in the very buffer it is filling    *)
(* when there is no better place: past the block, or at its end, with the     *)
(* last ones in a buffer of their own.                                       *)
(*                                                                           *)
(* m: one memory for everything.  mem[a + 1] is the byte at address a; dst    *)
(* and end bound the room for the block, extra and src are where the extra    *)
(* literal buffer and the compressed block are; ok is lost when a write falls *)
(* outside the room and the extra buffer.                                    *)
EXTENDS Superblock

CONSTANTS
    BlockSizeMax,              \* the smaller of the window and 128 KB
    ZSTD_LITBUFFEREXTRASIZE    \* 65536 in the usual build, at least 64

WILDCOPY_OVERLENGTH == 32
WILDCOPY_VECLEN == 16

ASSUME LiteralBuffer == ZSTD_LITBUFFEREXTRASIZE \in 64 .. BlockSizeMax - 1

(***************************************************************************)
(* Copies.                                                                 *)
(***************************************************************************)
\* Which byte of the source, as it was, ends up as byte k of the destination, diff bytes further,
\* when unit bytes are read and then written at a time.
RECURSIVE SourceOf(_, _, _)
SourceOf(k, diff, unit) ==
    IF diff <= 0 \/ k < diff THEN k
    ELSE IF unit <= diff THEN k % diff
    ELSE IF (k - diff) \div unit = k \div unit THEN k ELSE SourceOf(k - diff, diff, unit)

Writable(m, op, n) == \/ m.dst <= op /\ op + n <= m.end
                      \/ m.extra <= op /\ op + n <= m.extra + ZSTD_LITBUFFEREXTRASIZE + WILDCOPY_OVERLENGTH

Put(m, op, bytes) ==
    [m EXCEPT !.mem = SubSeq(@, 1, op) \o bytes \o SubSeq(@, op + Len(bytes) + 1, Len(@)),
              !.ok = @ /\ Writable(m, op, Len(bytes))]

Copy(m, op, ip, n, unit) == Put(m, op, [k \in 1 .. n |-> m.mem[ip + SourceOf(k - 1, op - ip, unit) + 1]])

Bytewise(m, op, ip, n) == IF n <= 0 THEN m ELSE Copy(m, op, ip, n, 1)
memmove(m, op, ip, n) == IF n = 0 THEN m ELSE Put(m, op, SubSeq(m.mem, ip + 1, ip + n))

Strides(length, stride) == ((length + stride - 1) \div stride) * stride

ZSTD_wildcopy(m, op, ip, length, overlap) ==
    IF overlap /\ op - ip < WILDCOPY_VECLEN THEN Copy(m, op, ip, IF length <= 8 THEN 8 ELSE Strides(length, 8), 8)
    ELSE Copy(m, op, ip, IF length <= 16 THEN 16 ELSE 16 + Strides(length - 16, 32), 16)

dec32table == << 0, 1, 2, 1, 4, 4, 4, 4 >>
dec64table == << 8, 8, 8, 7, 8, 9, 10, 11 >>

\* Eight bytes of a match at any distance; then the source is moved to be 8 bytes away at least.
ZSTD_overlapCopy8(m, op, ip) ==
    IF op - ip < 8 THEN Copy(Copy(m, op, ip, 4, 1), op + 4, ip + dec32table[op - ip + 1], 4, 4) ELSE Copy(m, op, ip, 8, 8)

SourceAfter8(op, ip) == IF op - ip < 8 THEN ip + dec32table[op - ip + 1] - dec64table[op - ip + 1] + 8 ELSE ip + 8

\* The part below oend_w in strides, the rest byte by byte.
CopyUpTo(m, op, oend_w, ip, length, overlap) ==
    LET wild == IF op + length <= oend_w THEN length ELSE oend_w - op
    IN IF op > oend_w THEN Bytewise(m, op, ip, length)
       ELSE Bytewise(ZSTD_wildcopy(m, op, ip, wild, overlap), op + wild, ip + wild, length - wild)

ZSTD_safecopy(m, op, oend_w, ip, length, overlap) ==
    IF length < 8 THEN Bytewise(m, op, ip, length)
    ELSE IF overlap THEN CopyUpTo(ZSTD_overlapCopy8(m, op, ip), op + 8, oend_w, SourceAfter8(op, ip), length - 8, TRUE)
    ELSE CopyUpTo(m, op, oend_w, ip, length, FALSE)

ZSTD_safecopyDstBeforeSrc(m, op, ip, length) ==
    LET stop == op + length - WILDCOPY_OVERLENGTH
    IN IF length >= 8 /\ op - ip < - WILDCOPY_VECLEN /\ op <= stop
       THEN Bytewise(ZSTD_wildcopy(m, op, ip, stop - op, FALSE), stop, ip + stop - op, WILDCOPY_OVERLENGTH)
       ELSE Bytewise(m, op, ip, length)

(***************************************************************************)
(* One sequence.  w: the window - the prefix begins at prefixStart, what   *)
(* was before it ends at dictEnd and would begin at virtualStart.          *)
(***************************************************************************)
Beyond(seq, oLitEnd, start) == seq.offset > oLitEnd - start

\* The part of a match that lies before the prefix, and where the rest of it comes from.
FromExtDict(m, oLitEnd, seq, w) ==
    LET match == w.dictEnd - (w.prefixStart - (oLitEnd - seq.offset))
        length1 == IF match + seq.matchLength <= w.dictEnd THEN seq.matchLength ELSE w.dictEnd - match
    IN IF ~Beyond(seq, oLitEnd, w.prefixStart)
       THEN [m |-> m, op |-> oLitEnd, match |-> oLitEnd - seq.offset, left |-> seq.matchLength]
       ELSE [m |-> memmove(m, oLitEnd, match, length1), op |-> oLitEnd + length1, match |-> w.prefixStart,
             left |-> seq.matchLength - length1]

Executed(m, litPtr) == [error |-> FALSE, m |-> m, litPtr |-> litPtr]

SafeRest(x, oend_w) == IF x.left = 0 THEN x.m ELSE ZSTD_safecopy(x.m, x.op, oend_w, x.match, x.left, TRUE)

\* The match, with care for the end of the room.
SafeMatch(m, oLitEnd, oend_w, seq, iLitEnd, w) ==
    IF Beyond(seq, oLitEnd, w.virtualStart) THEN ERROR ELSE Executed(SafeRest(FromExtDict(m, oLitEnd, seq, w), oend_w), iLitEnd)

\* split: the literals lie before the end of the room.
ZSTD_execSequenceEnd(m, op, oend, oend_w, seq, litPtr, litLimit, w, split) ==
    IF seq.litLength + seq.matchLength > oend - op \/ seq.litLength > litLimit - litPtr THEN ERROR
    ELSE IF split /\ op > litPtr /\ op < litPtr + seq.litLength THEN ERROR
    ELSE SafeMatch(IF split THEN ZSTD_safecopyDstBeforeSrc(m, op, litPtr, seq.litLength)
                   ELSE ZSTD_safecopy(m, op, oend_w, litPtr, seq.litLength, FALSE),
                   op + seq.litLength, oend_w, seq, litPtr + seq.litLength, w)

WildLiterals(m, op, litPtr, litLength) ==
    IF litLength > 16 THEN ZSTD_wildcopy(Copy(m, op, litPtr, 16, 16), op + 16, litPtr + 16, litLength - 16, FALSE)
    ELSE Copy(m, op, litPtr, 16, 16)

\* A match less than a stride away: 8 bytes at its own distance, the rest at 8 or more.
CloseMatch(x, m) ==
    IF x.left > 8 THEN ZSTD_wildcopy(m, x.op + 8, SourceAfter8(x.op, x.match), x.left - 8, TRUE) ELSE m

WildRest(x, offset) ==
    IF x.left = 0 THEN x.m
    ELSE IF offset >= WILDCOPY_VECLEN THEN ZSTD_wildcopy(x.m, x.op, x.match, x.left, FALSE)
    ELSE CloseMatch(x, ZSTD_overlapCopy8(x.m, x.op, x.match))

\* Room enough to overshoot.
WildSequence(m, op, seq, litPtr, w) ==
    IF Beyond(seq, op + seq.litLength, w.virtualStart) THEN ERROR
    ELSE Executed(WildRest(FromExtDict(WildLiterals(m, op, litPtr, seq.litLength), op + seq.litLength, seq, w), seq.offset),
                  litPtr + seq.litLength)

\* Mutant: a sequence that ends in the room is taken to leave room to overshoot.
OvershootAnywhere(m, op, oend, oend_w, seq, litPtr, litLimit, w, split) ==
    IF litPtr + seq.litLength > litLimit \/ op + seq.litLength + seq.matchLength > oend
    THEN ZSTD_execSequenceEnd(m, op, oend, oend_w, seq, litPtr, litLimit, w, split)
    ELSE WildSequence(m, op, seq, litPtr, w)

\* oend_w: the last place from which a copy may overshoot.
ZSTD_execSequence(m, op, oend, oend_w, seq, litPtr, litLimit, w, split) ==
    IF litPtr + seq.litLength > litLimit \/ op + seq.litLength + seq.matchLength > oend_w
    THEN ZSTD_execSequenceEnd(m, op, oend, oend_w, seq, litPtr, litLimit, w, split)
    ELSE WildSequence(m, op, seq, litPtr, w)

(***************************************************************************)
(* The literals' place.                                                    *)
(***************************************************************************)
Place(loc, from, to) == [loc |-> loc, litBuffer |-> from, litBufferEnd |-> to]

ZSTD_allocateLiteralsBuffer(litSize, dst, capacity, extra, streaming, splitImmediately) ==
    LET end == dst + (IF capacity < BlockSizeMax THEN capacity ELSE BlockSizeMax)
        behind == dst + BlockSizeMax + WILDCOPY_OVERLENGTH
    IN IF ~streaming /\ capacity > BlockSizeMax + WILDCOPY_OVERLENGTH + litSize + WILDCOPY_OVERLENGTH
       THEN Place("in_dst", behind, behind + litSize)
       ELSE IF litSize <= ZSTD_LITBUFFEREXTRASIZE THEN Place("not_in_dst", extra, extra + litSize)
       ELSE IF splitImmediately
       THEN Place("split", end - litSize + ZSTD_LITBUFFEREXTRASIZE - WILDCOPY_OVERLENGTH, end - WILDCOPY_OVERLENGTH)
       ELSE Place("split", end - litSize, end)

\* Decoded literals whose place is split: the last ones move to the extra buffer, the others up.
MoveUp(m, at, litSize) ==
    memmove(memmove(m, m.extra, at.litBufferEnd - ZSTD_LITBUFFEREXTRASIZE, ZSTD_LITBUFFEREXTRASIZE),
            at.litBuffer + ZSTD_LITBUFFEREXTRASIZE - WILDCOPY_OVERLENGTH, at.litBuffer, litSize - ZSTD_LITBUFFEREXTRASIZE)

Placed(m, loc, from, to) == [m |-> m, loc |-> loc, litPtr |-> from, litEnd |-> to]

\* Stored or repeated literals are written where they stay, decoded ones are moved there.
WriteLiterals(m, lits, at, plain) ==
    LET n == Len(lits)
    IN IF at.loc # "split" THEN Placed(Put(m, at.litBuffer, lits), at.loc, at.litBuffer, at.litBufferEnd)
       ELSE IF plain
       THEN Placed(Put(Put(m, at.litBuffer, SubSeq(lits, 1, n - ZSTD_LITBUFFEREXTRASIZE)), m.extra,
                       SubSeq(lits, n - ZSTD_LITBUFFEREXTRASIZE + 1, n)), "split", at.litBuffer, at.litBufferEnd)
       ELSE Placed(MoveUp(Put(m, at.litBuffer, lits), at, n), "split",
                   at.litBuffer + ZSTD_LITBUFFEREXTRASIZE - WILDCOPY_OVERLENGTH, at.litBufferEnd - WILDCOPY_OVERLENGTH)

\* r: the literals as decoded, type: how they were told, srcSize: the size of the block.
PlaceLiterals(m, r, type, srcSize, streaming) ==
    LET plain == type \in {set_basic, set_rle}
    IN IF type = set_basic /\ r.lhSize + Len(r.lits) + WILDCOPY_OVERLENGTH <= srcSize
       THEN Placed(m, "not_in_dst", m.src + r.lhSize, m.src + r.lhSize + Len(r.lits))
       ELSE WriteLiterals(m, r.lits, ZSTD_allocateLiteralsBuffer(Len(r.lits), m.dst, m.end - m.dst, m.extra, streaming, plain), plain)

(***************************************************************************)
(* All sequences.  s: the memory, the next byte to write, the literals.    *)
(***************************************************************************)
\* The literals left in the block are copied, then those of the extra buffer come.
SwitchToExtra(s, mem, n) ==
    [s EXCEPT !.m = mem, !.op = @ + n, !.loc = "not_in_dst", !.litPtr = s.m.extra, !.litEnd = s.m.extra + ZSTD_LITBUFFEREXTRASIZE]

\* With the literals split, the first sequence that needs more than are left in the block.
NeedsExtra(s, seq) == s.loc = "split" /\ s.litPtr + seq.litLength > s.litEnd

Ready(s, seq) ==
    LET leftoverLit == s.litEnd - s.litPtr
    IN IF NeedsExtra(s, seq) THEN SwitchToExtra(s, ZSTD_safecopyDstBeforeSrc(s.m, s.op, s.litPtr, leftoverLit), leftoverLit) ELSE s

ReadySeq(s, seq) == IF NeedsExtra(s, seq) THEN [seq EXCEPT !.litLength = @ - (s.litEnd - s.litPtr)] ELSE seq

After(s, seq, r) ==
    IF r.error THEN [s EXCEPT !.error = TRUE]
    ELSE [s EXCEPT !.m = r.m, !.litPtr = r.litPtr, !.op = @ + seq.litLength + seq.matchLength]

ExecuteReady(s, seq, oend, w) ==
    After(s, seq, ZSTD_execSequence(s.m, s.op, oend, (IF s.loc = "split" THEN s.litPtr + seq.litLength ELSE oend) - WILDCOPY_OVERLENGTH,
                                    seq, s.litPtr, s.litEnd, w, s.loc = "split"))

Step(s, seq, oend, w) ==
    IF NeedsExtra(s, seq) /\ s.litEnd - s.litPtr > oend - s.op THEN [s EXCEPT !.error = TRUE]
    ELSE ExecuteReady(Ready(s, seq), ReadySeq(s, seq), oend, w)

\* queue: decoded and not executed, advance of them at most before one more is decoded.
RECURSIVE Regenerate(_, _, _, _, _, _, _, _), Queued(_, _, _, _, _, _, _, _)
Queued(s, queue, left, r, fse, oend, w, advance) == Regenerate(s, Append(queue, r.seq), left - 1, r.s, fse, oend, w, advance)

Regenerate(s, queue, left, dec, fse, oend, w, advance) ==
    IF s.error THEN s
    ELSE IF left > 0 /\ Len(queue) <= advance
    THEN Queued(s, queue, left, ZSTD_decodeSequence(dec, fse, left = 1), fse, oend, w, advance)
    ELSE IF queue # << >> THEN Regenerate(Step(s, queue[1], oend, w), Tail(queue), left, dec, fse, oend, w, advance)
    ELSE IF ~BIT_endOfDStream(dec.b) THEN [s EXCEPT !.error = TRUE]
    ELSE [s EXCEPT !.rep = dec.prev]

CopyLast(s, oend) ==
    LET n == s.litEnd - s.litPtr
    IN IF n > oend - s.op THEN [s EXCEPT !.error = TRUE] ELSE [s EXCEPT !.m = memmove(@, s.op, s.litPtr, n), !.op = @ + n]

FromExtra(s) ==
    IF s.error \/ s.loc # "split" THEN s
    ELSE [s EXCEPT !.litPtr = s.m.extra, !.litEnd = s.m.extra + ZSTD_LITBUFFEREXTRASIZE, !.loc = "not_in_dst"]

\* When the literals are split, those of the block and then those of the extra buffer.
LastLiterals(s, oend) ==
    LET inBlock == CopyLast(s, oend)
    IN IF s.error THEN s
       ELSE IF s.loc # "split" THEN inBlock
       ELSE IF inBlock.error THEN inBlock ELSE CopyLast(FromExtra(inBlock), oend)

Begun(s, i, h, oend, w, advance) ==
    IF i.error THEN [s EXCEPT !.error = TRUE] ELSE Regenerate(s, << >>, h.nbSeq, i.s, h.fse, oend, w, advance)

Sequences(s, mem, h, oend, w, advance) ==
    LastLiterals(IF h.nbSeq = 0 THEN s ELSE Begun(s, InitSeqState(mem, h.fse, s.rep), h, oend, w, advance), oend)

\* The decoders for long offsets decode some sequences ahead; literals behind the block end the room.
STORED_SEQS == 8

OutputEnd(s) == IF s.loc = "in_dst" THEN s.litPtr ELSE s.m.end

ZSTD_decompressSequences(s, mem, h, w, long) == Sequences(s, mem, h, OutputEnd(s), w, IF long THEN STORED_SEQS ELSE 0)

(***************************************************************************)
(* A block.  d: the tables, the offset history and the window.             *)
(***************************************************************************)
Failed(m, d) == [error |-> TRUE, m |-> m, d |-> d, size |-> 0]

BlockDone(m, d, l, h, s) ==
    IF s.error THEN Failed(s.m, d)
    ELSE [error |-> FALSE, m |-> s.m, size |-> s.op - m.dst,
          d |-> [d EXCEPT !.litEntropy = l.d.litEntropy, !.huf = l.d.huf, !.fse = h.fse, !.rep = s.rep,
                          !.fseEntropy = @ \/ h.nbSeq > 0, !.ddictIsCold = FALSE]]

WithHeaders(m, d, block, l, h, placed) ==
    IF h.error THEN Failed(placed.m, d)
    ELSE BlockDone(m, d, l, h, ZSTD_decompressSequences(placed @@ [op |-> m.dst, rep |-> d.rep, error |-> FALSE],
                                                        From(block, l.size + h.size), h, d, d.ddictIsCold))

WithLiteralsRead(m, d, block, l, streaming) ==
    IF l.error THEN Failed(m, d)
    ELSE WithHeaders(m, d, block, l, ZSTD_decodeSeqHeaders(From(block, l.size), [fse |-> d.fse, fseEntropy |-> d.fseEntropy]),
                     PlaceLiterals([m EXCEPT !.ok = @ /\ l.ok], l, Number(block, 1, 2), Bytes(block), streaming))

ZSTD_decompressBlock_internal(m, d, block, streaming, fast) ==
    IF Bytes(block) > BlockSizeMax THEN Failed(m, d)
    ELSE WithLiteralsRead(m, d, block,
             ZSTD_decodeLiteralsBlock(block, [litEntropy |-> d.litEntropy, huf |-> d.huf], BlockSizeMax,
                                      IF m.end - m.dst < BlockSizeMax THEN m.end - m.dst ELSE BlockSizeMax, fast), streaming)

\* A block somewhere else than where the last one ended: what was before it is now apart.
ZSTD_checkContinuity(d, dst) ==
    IF dst = d.previousDstEnd THEN d
    ELSE [d EXCEPT !.dictEnd = d.previousDstEnd, !.virtualStart = dst - (d.previousDstEnd - d.prefixStart),
                   !.prefixStart = dst, !.previousDstEnd = dst]

\* What a block header says; error when there is none.
ZSTD_getcBlockSize(mem) ==
    LET type == Number(mem, 2, 3)
        size == Number(mem, 4, 24)
    IN IF Bytes(mem) < ZSTD_blockHeaderSize \/ type = 3 THEN ERROR
       ELSE [error |-> FALSE, lastBlock |-> mem[1], type |-> type, origSize |-> size, cSize |-> IF type = bt_rle THEN 1 ELSE size]

ZSTD_copyRawBlock(m, d, n) ==
    IF n > m.end - m.dst THEN Failed(m, d) ELSE [error |-> FALSE, m |-> memmove(m, m.dst, m.src, n), d |-> d, size |-> n]

ZSTD_setRleBlock(m, d, n) ==
    IF n > m.end - m.dst THEN Failed(m, d)
    ELSE [error |-> FALSE, m |-> Put(m, m.dst, [k \in 1 .. n |-> m.mem[m.src + 1]]), d |-> d, size |-> n]
=============================================================================
