----------------------------- MODULE MatchState -----------------------------
(* What the block compressors of compress/ share: the window a match may     *)
(* come from, reads of it, the match counters, the hash of a position, the   *)
(* sequence store, and the decoder's view of the stored sequences.           *)
(*                                                                           *)
(* A position is an index of the window (zstd's U32 index).  The prefix,     *)
(* which holds the block, starts at dictLimit; the other segment, an         *)
(* extDict or an attached dictionary, holds dictLow .. dictLimit - 1.  The   *)
(* two are apart in memory: a read that runs off the end of one of them      *)
(* finds m.junk, whatever the memory behind it holds.                        *)
(*                                                                           *)
(* m is the state of the call in progress.  The widths that are 4 and 8      *)
(* bytes in the code are parameters, so that a block of a few bytes has      *)
(* matches of every kind.                                                    *)
EXTENDS Integers, Sequences, SequencesExt, SeqCodes

CONSTANTS
    Word,             \* bytes that MEM_read32() compares: the least match of most finders
    HASH_READ_SIZE,   \* bytes at the end of a block where no position is hashed
    HashSize,         \* entries of a hash table, 1 << hashLog
    StepIncr          \* kStepIncr: positions without a match before the step grows

ASSUME WidthsAssumption ==
    /\ Word \in Nat \ {0} /\ HASH_READ_SIZE \in Nat /\ Word <= HASH_READ_SIZE
    /\ HashSize \in Nat \ {0} /\ StepIncr \in Nat \ {0}

VARIABLE m

ZSTD_REP_NUM == 3

ilimit == m.iend - HASH_READ_SIZE

(***************************************************************************)
(* The window.                                                             *)
(***************************************************************************)
ZSTD_getLowestMatchIndex(curr) ==
    IF ~m.isDict /\ curr - m.lowLimit > m.maxDist THEN curr - m.maxDist ELSE m.lowLimit

ZSTD_getLowestPrefixIndex(curr) ==
    IF ~m.isDict /\ curr - m.dictLimit > m.maxDist THEN curr - m.maxDist ELSE m.dictLimit

\* A byte read through a pointer into one of the two segments.
Byte(inDict, i) ==
    IF (inDict /\ i \in m.dictLow .. m.dictLimit - 1) \/ (~inDict /\ i \in m.dictLimit .. m.iend - 1)
    THEN m.data[i] ELSE m.junk

InDict(i) == i < m.dictLimit

MEM_read(i, n) == [k \in 1 .. n |-> Byte(InDict(i), i + k - 1)]
MEM_read32(i) == MEM_read(i, Word)

SameWord(i, j) == MEM_read32(i) = MEM_read32(j)

\* Mutant: reads through the end of the dictionary are taken for the prefix.
NoOverlapCheck(i) == TRUE

\* Four bytes from i lie in one segment: not in the last three of the dictionary.
ZSTD_index_overlap_check(i) == ~(m.dictLimit - i \in 1 .. Word - 1)

(***************************************************************************)
(* Match lengths.  match is in the segment named; ip is in the prefix,     *)
(* except where a binary tree sorts positions of the dictionary.           *)
(***************************************************************************)
ZSTD_count(ip, inDict, match, limit) ==
    CHOOSE k \in 0 .. (IF ip < limit THEN limit - ip ELSE 0) :
        /\ \A j \in 0 .. k - 1 : Byte(InDict(ip), ip + j) = Byte(inDict, match + j)
        /\ ip + k < limit => Byte(InDict(ip), ip + k) # Byte(inDict, match + k)

\* On reaching the end of the dictionary, after n bytes, the count goes on at the prefix.
CountOn(ip, match, mEnd, n) ==
    IF match + n # mEnd THEN n ELSE n + ZSTD_count(ip + n, FALSE, m.dictLimit, m.iend)

CountUpTo(ip, inDict, match, mEnd) ==
    CountOn(ip, match, mEnd,
            ZSTD_count(ip, inDict, match, IF ip + mEnd - match < m.iend THEN ip + mEnd - match ELSE m.iend))

ZSTD_count_2segments(ip, inDict, match) ==
    CountUpTo(ip, inDict, match, IF inDict THEN m.dictLimit ELSE m.iend)

\* How far a match may be extended backwards, above anchor and above low.
CatchUp(ip, anchor, match, low) ==
    CHOOSE k \in 0 .. ip - anchor :
        LET Fits(j) == match - j >= low /\ Byte(FALSE, ip - j) = Byte(InDict(match), match - j)
        IN (\A j \in 1 .. k : Fits(j)) /\ (k < ip - anchor => ~Fits(k + 1))

(***************************************************************************)
(* Hashes: any function of the bytes read will do.                         *)
(***************************************************************************)
HashOf(bytes, size) == FoldLeft(LAMBDA h, b : 2 * h + b, 0, bytes) % size

ZSTD_hashPtr(i, mls) == HashOf(MEM_read(i, mls), HashSize)

(***************************************************************************)
(* The sequence store.  lit is the position the literals are copied from.  *)
(***************************************************************************)
OFFSET_TO_OFFBASE(o) == o + ZSTD_REP_NUM

ZSTD_storeSeq(seqs, lit, litLength, offBase, matchLength) ==
    Append(seqs, [lit |-> lit, ll |-> litLength, ob |-> offBase, ml |-> matchLength])

ZSTD_updateRep(rep, offBase, ll0) ==
    IF offBase > ZSTD_REP_NUM THEN << offBase - ZSTD_REP_NUM, rep[1], rep[2] >>
    ELSE LET repCode == offBase - 1 + (IF ll0 THEN 1 ELSE 0)
             current == IF repCode = ZSTD_REP_NUM THEN rep[1] - 1 ELSE rep[repCode + 1]
         IN IF repCode = 0 THEN rep
            ELSE << current, rep[1], IF repCode >= 2 THEN rep[2] ELSE rep[3] >>

(***************************************************************************)
(* The decoder's side: the offset a stored sequence stands for and the     *)
(* offsets remembered after it.  offBase 1 is the code without extra bits, *)
(* 2 and 3 the code with one.                                              *)
(***************************************************************************)
ZSTD_decodeSequence(prev, s) ==
    LET ll0 == IF s.ll = 0 THEN 1 ELSE 0
        long == s.ob - ZSTD_REP_NUM
        short == s.ob - 1 + ll0
        temp == IF short = 3 THEN prev[1] - 1 ELSE prev[short + 1]
    IN CASE s.ob > ZSTD_REP_NUM -> [offset |-> long, prev |-> << long, prev[1], prev[2] >>]
         [] s.ob = 1 -> [offset |-> prev[1 + ll0],
                         prev |-> << prev[1 + ll0], prev[2 - ll0], prev[3] >>]
         [] OTHER -> [offset |-> IF temp = 0 THEN -1 ELSE temp,
                      prev |-> << temp, prev[1], IF short # 1 THEN prev[2] ELSE prev[3] >>]

\* Executing sequence s at position d.pos: the literals come from where the decoder
\* stands, the match lies in the history the decoder keeps, and copies the right bytes.
Executes(d, s) ==
    LET o == ZSTD_decodeSequence(d.prev, s)
        at == d.pos + s.ll
    IN [pos |-> at + s.ml, prev |-> o.prev,
        ok |-> /\ d.ok /\ s.lit = d.pos /\ s.ll >= 0 /\ at + s.ml <= m.iend
               /\ o.offset >= 1 /\ at - o.offset >= m.dictLow
               /\ (m.isDict \/ o.offset <= m.maxDist)
               /\ \A k \in 0 .. s.ml - 1 : m.data[at + k] = m.data[at + k - o.offset]]

Decoded == FoldLeft(Executes, [pos |-> m.istart, prev |-> m.rep, ok |-> TRUE], m.seqs)
=============================================================================
