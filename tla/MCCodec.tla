------------------------------ MODULE MCCodec ------------------------------
(* Calls of the block compressors on small windows.  A window has a history   *)
(* of H bytes, which is prefix, extDict or attached dictionary, and a block   *)
(* of N bytes.  The tables hold what was entered for the history, or an index *)
(* of an earlier frame.                                                      *)
EXTENDS Ldm

VARIABLE steps   \* turns of loops so far

CONSTANTS Blocks, Inputs   \* blocks and inputs of the long distance matcher, as binary numbers

Low == 4
H == 7
N == 12
DictStart == 2
DictDelta == Low - DictStart   \* from the dictionary's own indexes to those of the window
Histories == {<< 0, 0, 1, 0, 0, 1, 0 >>, << 0, 1, 1, 0, 1, 1, 0 >>, << 0, 1, 0, 1, 0, 0, 0 >>}
Reps == {<< 1, 3, 5 >>, << 4, 1, 9 >>, << 9, 2, 1 >>}
Bits(v, n) == [k \in 1 .. n |-> (v \div 2 ^ (k - 1)) % 2]

GearTable == << 5, 2 >>

Stale == [x \in 0 .. HashSize - 1 |-> 1]
Untagged == [x \in 0 .. HashSize - 1 |-> << 0, 0 >>]
EmptyRows == [r \in 0 .. Rows - 1 |-> [head |-> 0, slot |-> [k \in 1 .. RowEntries - 1 |-> << 0, 0 >>]]]
EmptyTree == [i \in 0 .. BtSize - 1 |-> << 0, 0 >>]
NoStats == [freq |-> [t \in Tables |-> [c \in 0 .. LastSymbol[t] |-> 0]], sum |-> [t \in Tables |-> 0],
            base |-> [t \in Tables |-> 0], type |-> "dynamic"]
DictBits == [t \in Tables |-> [c \in 0 .. LastSymbol[t] |-> IF c % 3 = 0 THEN 0 ELSE c % 8]]
NoPath == [p \in 0 .. ZSTD_OPT_SIZE - 1 |-> [mlen |-> 0, litlen |-> 0, off |-> 0, price |-> 0, rep |-> << 0, 0, 0 >>]]
NoRaw == [seq |-> << >>, pos |-> 0, inSeq |-> 0, start |-> 0, end |-> 0, offset |-> 0]

\* A call of a block compressor on data, of which the last n bytes are the block.
Call(data, n, rep, mode, maxDist) ==
    LET isDict == mode \in {"dms", "dds"}
        istart == Len(data) - n + 1
        dictLimit == IF mode = "noDict" THEN Low ELSE istart
        target == istart - HASH_READ_SIZE
        inOwnTables == mode = "extDict"
        cc == IF inOwnTables THEN ZSTD_insertAndFindFirstIndex(data, Low, target, 0)
              ELSE [ht |-> Stale, ct |-> [i \in 0 .. ChainSize - 1 |-> 1]]
        cd == ZSTD_insertAndFindFirstIndex(data, DictStart, target - DictDelta, DictDelta)
        fast == ZSTD_fillHashTableForCCtx(Stale, data, Low, istart)
        double == ZSTD_fillDoubleHashTableForCCtx([l |-> Stale, s |-> Stale], data, Low, istart)
        own == SubSeq(data, 1 + DictDelta, istart - 1)   \* as the dictionary counts its positions
        tagged == ZSTD_fillDoubleHashTableForCDict([l |-> Untagged, s |-> Untagged], own, DictStart, istart - DictDelta)
    IN [data |-> data, junk |-> 0, dictLow |-> Low, lowLimit |-> IF isDict THEN dictLimit ELSE Low,
        dictLimit |-> dictLimit, istart |-> istart, iend |-> Len(data) + 1, seqs |-> << >>, anchor |-> istart,
        rep |-> rep, rep0 |-> rep, repOut |-> << 0, 0 >>, maxDist |-> maxDist, isDict |-> isDict, mode |-> mode,
        who |-> "none", pc |-> "enter", asserts |-> TRUE, nested |-> FALSE,
        ip0 |-> 0, ip1 |-> 0, ip2 |-> 0, ip3 |-> 0, idx |-> 0, step |-> 0, nextStep |-> 0,
        o1 |-> 0, o2 |-> 0, s1 |-> 0, s2 |-> 0, stepSize |-> IF isDict THEN 1 ELSE 2,
        ht |-> Stale, fastHt |-> fast, chains |-> cc, ct |-> cc.ct, hl |-> IF isDict THEN Stale ELSE double.l,
        hs |-> IF isDict THEN Stale ELSE double.s,
        dictHt |-> ZSTD_fillHashTableForCDict(Untagged, own, DictStart, istart - DictDelta), dictHl |-> tagged.l, dictHs |-> tagged.s,
        dict |-> [ht |-> cd.ht, ct |-> cd.ct, rows |-> ZSTD_row_update(data, DictStart, target - DictDelta, DictDelta),
                  dds |-> ZSTD_dedicatedDictSearch_lazy_loadDictionary(data, DictStart, target - DictDelta, DictDelta, 4), bt |-> EmptyTree],
        dictStart |-> DictStart, dictIndexDelta |-> DictDelta,
        search |-> "hc", depth |-> 0, bt |-> EmptyTree, rows |-> EmptyRows, cache |-> [i \in 0 .. CacheSize - 1 |-> 0],
        next |-> IF mode = "noDict" THEN Low + 1 ELSE istart, skipping |-> FALSE, attempts |-> 4, extra |-> 1,
        found |-> NoMatch, cur |-> [start |-> 0, ml |-> 0, ob |-> 0],
        minMatch |-> Word, targetLength |-> 7, level |-> 0, litCompressed |-> TRUE, hufValid |-> FALSE, dictBits |-> DictBits,
        stat |-> NoStats, ultra2 |-> FALSE, twice |-> FALSE, opt |-> NoPath, matches |-> << >>, lastPos |-> 0,
        last |-> NoPath[0], h3 |-> Stale, next3 |-> 0, ldm |-> NoRaw]

\* The same window as the dictionary sees it while its tree is built; then: the call itself.
Load(c) ==
    [then |-> c] @@
    [c EXCEPT !.data = SubSeq(c.data, 1 + c.dictIndexDelta, c.dictLimit - 1), !.dictLow = DictStart,
              !.lowLimit = DictStart, !.dictLimit = DictStart, !.istart = DictStart, !.iend = c.dictLimit - c.dictIndexDelta,
              !.who = "load", !.mode = "noDict", !.isDict = FALSE, !.next = DictStart + 1, !.ht = Stale]

Window(v, h, rep, mode) ==
    Call(<< 0, 0, 0 >> \o h \o Bits(v, N), N, rep, mode, IF v % 2 = 0 /\ mode \notin {"dms", "dds"} THEN 7 ELSE 32)

\* An attached dictionary is there at the start of a frame: the offsets are its own.
RepsFit(rep, mode) == mode \in {"dms", "dds"} => \A k \in 1 .. 3 : rep[k] <= H

FastInit(c) ==
    \/ /\ c.mode # "dds"
       /\ m = [c EXCEPT !.who = "fast_" \o c.mode, !.ht = IF c.isDict THEN Stale ELSE c.fastHt]
    \/ /\ c.mode # "dds"
       /\ m = [c EXCEPT !.who = "dfast_" \o c.mode]

LazyInit(c) ==
    \E search \in {"hc", "row", "bt"}, depth \in {0, 2} :
       LET l == [c EXCEPT !.who = "lazy", !.search = search, !.depth = depth, !.ht = c.chains.ht]
       IN /\ search = "bt" => c.mode # "dds" /\ depth = 2
          /\ m = IF search = "bt" /\ c.mode = "dms" THEN Load(l) ELSE l

\* A raw sequence, as the long distance matcher would give it.
RawMatches(c) ==
    {q \in [ll : 0 .. 3, ml : 4 .. 6, offset : 1 .. 9] :
        /\ q.ll + q.ml <= N /\ c.istart + q.ll - q.offset >= c.lowLimit
        /\ \A k \in 0 .. q.ml - 1 : c.data[c.istart + q.ll + k] = c.data[c.istart + q.ll + k - q.offset]}

OptInit(c, v) ==
    \E level \in {0, 2} :
       LET o == [c EXCEPT !.who = "opt", !.level = level, !.minMatch = IF v % 3 = 0 THEN Word - 1 ELSE Word,
                          !.litCompressed = v % 5 # 0, !.hufValid = v % 7 = 0,
                          !.ldm.seq = IF v % 2 = 0 \/ RawMatches(c) = {} THEN << >>
                                      ELSE << CHOOSE q \in RawMatches(c) : TRUE >>]
       IN /\ c.mode # "dds"
          /\ m = IF c.mode = "dms" THEN Load([o EXCEPT !.ldm = NoRaw]) ELSE o

\* btultra2 on the first block of a frame.
UltraInit ==
    \E v \in Blocks :
       LET c == Call(<< 0, 0, 0 >> \o Bits(v, N), N, << 1, 4, 8 >>, "noDict", 32)
       IN m = [c EXCEPT !.who = "opt", !.level = 2, !.ultra2 = TRUE, !.next = c.istart + 1]

LdmInit ==
    \E v \in Inputs, finder \in {"fast", "dfast", "lazy", "opt"}, ext \in BOOLEAN, near \in BOOLEAN :
       LET x == Bits(v, 9)
           data == << 0, 0, 0 >> \o x \o << 1, 1 >> \o x \o << 0 >> \o x
           c == Call(data, Len(data) - 3 - (IF ext THEN 9 ELSE 0), << 1, 4, 8 >>, IF ext THEN "extDict" ELSE "noDict",
                     IF near THEN 16 ELSE 32)
           start == [outer |-> << >>, after |-> << >>, finder |-> finder, capacity |-> IF v % 4 = 0 THEN 1 ELSE 5,
                     blockSize |-> 9,
                     lw |-> [shift |-> 0, low |-> Low, dictLimit |-> c.dictLimit, dictEnd |-> 0],
                     lead |-> [b \in 0 .. LdmBuckets - 1 |-> 0],
                     buckets |-> [b \in 0 .. LdmBuckets - 1 |-> [k \in 0 .. EntsPerBucket - 1 |-> [offset |-> 0, checksum |-> 0]]],
                     feed |-> [ip |-> c.istart, end |-> c.iend, start |-> 0, anchor |-> 0, before |-> 0, hash |-> 0, skip |-> FALSE,
                               error |-> FALSE, leftover |-> 0]]
           i == start @@ [c EXCEPT !.who = "ldm", !.pc = "load", !.depth = 2, !.search = "row", !.iend = c.istart,
                                   !.ht = IF finder = "fast" THEN c.fastHt ELSE c.chains.ht]
       IN m = i

\* The history goes into the matcher's table.
LdmLoad ==
    /\ m.who = "ldm" /\ m.pc = "load"
    /\ m' = [ZSTD_ldm_fillHashTable([m EXCEPT !.iend = m.feed.end], Low, m.istart) EXCEPT !.pc = "chunk"]

InitCall ==
    \/ \E v \in Blocks, h \in Histories, rep \in Reps, mode \in {"noDict", "extDict", "dms", "dds"} :
          LET c == Window(v, h, rep, mode)
          IN RepsFit(rep, mode) /\ (FastInit(c) \/ LazyInit(c) \/ OptInit(c, v))
    \/ UltraInit
    \/ LdmInit

Init == steps = 0 /\ InitCall

Step == FastNext \/ DoubleFastNext \/ LazyNext \/ OptNext \/ LdmLoad \/ LdmNext

Ended == m.pc \in {"done", "error"} /\ ~m.nested /\ (m.who = "ldm" => m.pc = "error" \/ m.iend = m.feed.end)

Next ==
    \/ Step /\ steps' = steps + 1
    \/ Ended /\ UNCHANGED << m, steps >>

Spec == Init /\ [][Next]_<< m, steps >>

-----------------------------------------------------------------------------
\* The sequences of a block, executed by the decoder, give the block back up to the last
\* literals: every match lies in the history the decoder keeps and copies the right bytes,
\* and the offsets the block leaves for the next one are those the decoder remembers.
SequencesRebuildBlock ==
    (m.pc = "done" /\ ~m.nested) =>
        LET d == Decoded
        IN d.ok /\ m.anchor = d.pos /\ \A k \in 1 .. Len(m.repOut) : d.prev[k] = m.repOut[k]

\* What the code assert()s along the way.
AssertionsHold == m.asserts

\* The sums the price functions divide by are the sums of their tables.
StatsAddUp ==
    (m.who = "opt" /\ m.pc # "enter") => \A t \in Tables : m.stat.sum[t] = sum_u32(m.stat.freq[t])

\* No loop turns for ever: a call ends within so many turns for the bytes it was given.
\* (That it does not stop before its end is the check for deadlock.)
CallsReturn == steps <= 5 * Len(m.data)
=============================================================================
