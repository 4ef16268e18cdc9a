----------------------------- MODULE LazySearch -----------------------------
(* compress/zstd_lazy.c, the searches: hash chains, dedicated dictionary      *)
(* search, and rows of tagged entries.  A search enters the positions up to   *)
(* ip into its tables and answers the best match at ip.                       *)
(*                                                                           *)
(* m.ht, m.ct: hash and chain table; m.rows: a row is a circular buffer of    *)
(* RowEntries - 1 tagged positions, newest at head; m.cache: hashes of the    *)
(* next positions, computed ahead; m.next: nextToUpdate; m.skipping:          *)
(* lazySkipping; m.dict: the tables of an attached dictionary, in the         *)
(* dictionary's own indexes (+ m.dictIndexDelta gives those of this window). *)
EXTENDS MatchState

CONSTANTS
    LMls,             \* minMatch
    ChainSize,        \* entries of the chain table
    BucketSize,       \* 1 << ZSTD_LAZY_DDSS_BUCKET_LOG
    Rows, RowEntries, RowTags, Salt,
    CacheSize,        \* ZSTD_ROW_HASH_CACHE_SIZE
    SkipThreshold, SkipStart, SkipEnd   \* 384, 96 and 32 in the code

ASSUME LazyAssumption ==
    /\ {ChainSize, BucketSize, Rows, RowEntries, RowTags, CacheSize} \subseteq Nat \ {0, 1}
    /\ SkipStart + SkipEnd <= SkipThreshold /\ LMls <= HASH_READ_SIZE

NoOffBase == 999999999     \* what a search is given, and leaves when it finds nothing

NoMatch == [ml |-> Word - 1, ob |-> NoOffBase]

Positions(from, to) == [k \in 1 .. (IF to > from THEN to - from ELSE 0) |-> from + k - 1]

\* One candidate at index i, of length len.
Better(best, ip, i, len) ==
    IF len > best.ml THEN [ml |-> len, ob |-> OFFSET_TO_OFFBASE(ip - i)] ELSE best

\* Candidates first, next(first), ... are tried while they are at least low and attempts
\* remain; a candidate that reaches the end of the block, or that is at or below minChain,
\* is the last one.
Chase(ip, first, best, attempts, low, minChain, delta, LengthAt(_, _), NextOf(_)) ==
    FoldLeft(LAMBDA w, k :
               IF w.stop \/ w.i < low THEN [w EXCEPT !.stop = TRUE]
               ELSE LET b == Better(w.best, ip, w.i + delta, LengthAt(w.i + delta, w.best.ml))
                        full == b # w.best /\ ip + b.ml = m.iend
                    IN IF full \/ w.i <= minChain THEN [w EXCEPT !.best = b, !.stop = TRUE]
                       ELSE [w EXCEPT !.best = b, !.i = NextOf(w.i), !.left = @ - 1],
             [i |-> first, best |-> best, left |-> attempts, stop |-> FALSE],
             Positions(0, attempts))

\* Four bytes agree: the length, else 0.
WordLength(ip, i) ==
    IF SameWord(i, ip) THEN Word + ZSTD_count_2segments(ip + Word, InDict(i), i + Word) ELSE 0

\* In the prefix the four bytes compared are those a better match must have.
LengthAtLeast(ip, i, ml) ==
    IF InDict(i) THEN WordLength(ip, i)
    ELSE IF SameWord(i + ml + 1 - Word, ip + ml + 1 - Word) THEN ZSTD_count(ip, FALSE, i, m.iend)
    ELSE 0

(***************************************************************************)
(* Hash chains.                                                            *)
(***************************************************************************)
lhash(i) == ZSTD_hashPtr(i, LMls)

ZSTD_insertAndFindFirstIndex_internal(ip) ==
    LET todo == Positions(m.next, ip)
    IN FoldLeft(LAMBDA t, i : [ht |-> [t.ht EXCEPT ![lhash(i)] = i],
                               ct |-> [t.ct EXCEPT ![i % ChainSize] = t.ht[lhash(i)]]],
                [ht |-> m.ht, ct |-> m.ct],
                IF m.skipping /\ todo # << >> THEN << m.next >> ELSE todo)

\* The tables of a dictionary: its positions from .. target - 1 are at + delta in data.
ZSTD_insertAndFindFirstIndex(data, from, target, delta) ==
    LET H(p) == HashOf(SubSeq(data, p + delta, p + delta + LMls - 1), HashSize)
    IN FoldLeft(LAMBDA t, i : [ht |-> [t.ht EXCEPT ![H(i)] = i],
                               ct |-> [t.ct EXCEPT ![i % ChainSize] = t.ht[H(i)]]],
                [ht |-> [h \in 0 .. HashSize - 1 |-> 0], ct |-> [i \in 0 .. ChainSize - 1 |-> 0]],
                Positions(from, target))

\* The chain of the attached dictionary.
HcDictMatch(ip, best, attempts) ==
    LET size == m.dictLimit - m.dictIndexDelta
    IN Chase(ip, m.dict.ht[lhash(ip)], best, attempts, m.dictStart,
             IF size > ChainSize THEN size - ChainSize ELSE 0, m.dictIndexDelta,
             LAMBDA i, ml : WordLength(ip, i), LAMBDA i : m.dict.ct[i % ChainSize]).best

(***************************************************************************)
(* Dedicated dictionary search: a bucket holds the newest BucketSize - 1   *)
(* positions of a hash and a pointer to the older ones, kept together.     *)
(***************************************************************************)
Cached == BucketSize - 1
Buckets == HashSize

\* The chains sorted by hash: limit of the chain, then what a chain may add below minChain.
DdsChain(tmpHash, tmpChain, tmpMinChain, minChain, chainLimit, h) ==
    LET Older(i) == IF i >= tmpMinChain THEN tmpChain[i] ELSE 0
        cache == FoldLeft(LAMBDA c, k : IF c.i < tmpMinChain THEN c
                                        ELSE [i |-> Older(c.i), n |-> c.n + 1,
                                              beyond |-> c.beyond + (IF c.i < minChain THEN 1 ELSE 0)],
                          [i |-> tmpHash[h], n |-> 0, beyond |-> 0], Positions(0, Cached))
        chain == FoldLeft(LAMBDA c, k :
                            LET beyond == c.beyond + (IF c.i < minChain THEN 1 ELSE 0)
                            IN IF c.stop \/ (c.i < minChain /\ (c.i = 0 \/ beyond > Cached))
                               THEN [c EXCEPT !.stop = TRUE]
                               ELSE [i |-> Older(c.i), beyond |-> beyond, out |-> Append(c.out, c.i),
                                     stop |-> c.i < tmpMinChain],
                          [i |-> cache.i, beyond |-> cache.beyond, out |-> << >>, stop |-> FALSE],
                          Positions(0, chainLimit))
    IN IF cache.n = Cached THEN chain.out ELSE << >>

ZSTD_dedicatedDictSearch_lazy_loadDictionary(data, from, target, delta, attempts) ==
    LET H(p) == HashOf(SubSeq(data, p + delta, p + delta + LMls - 1), Buckets)
        tmpChainSize == Cached * Buckets
        tmpMinChain == IF tmpChainSize < target THEN target - tmpChainSize ELSE from
        minChain == IF ChainSize < target - from THEN target - ChainSize ELSE from
        tmp == FoldLeft(LAMBDA t, i : [hash |-> [t.hash EXCEPT ![H(i)] = i],
                                       chain |-> IF i < tmpMinChain THEN t.chain
                                                 ELSE [t.chain EXCEPT ![i] = t.hash[H(i)]]],
                        [hash |-> [h \in 0 .. Buckets - 1 |-> 0], chain |-> [i \in 0 .. target |-> 0]],
                        Positions(from, target))
        bucket(h) == FoldLeft(LAMBDA b, i : IF H(i) = h THEN SubSeq(<< i >> \o b, 1, Cached) ELSE b,
                              [k \in 1 .. Cached |-> 0], Positions(from, target))
    IN [h \in 0 .. Buckets - 1 |->
           [bucket |-> bucket(h),
            chain |-> DdsChain(tmp.hash, tmp.chain, tmpMinChain, minChain,
                               IF attempts < Cached \/ attempts - Cached > 255 THEN 255
                               ELSE attempts - Cached, h)]]

\* The bucket first, up to an empty entry; then, with the attempts left, the chain.
ZSTD_dedicatedDictSearch_lazy_search(ip, best, attempts) ==
    LET d == m.dict.dds[HashOf(MEM_read(ip, LMls), Buckets)]
        n == IF attempts < Cached THEN attempts ELSE Cached
        Try(w, i) == IF w.stop \/ i = 0 THEN [w EXCEPT !.stop = TRUE]
                     ELSE LET at == i + m.dictIndexDelta
                              b == Better(w.best, ip, at, WordLength(ip, at))
                          IN [best |-> b, stop |-> b # w.best /\ ip + b.ml = m.iend]
        inBucket == FoldLeft(Try, [best |-> best, stop |-> FALSE], SubSeq(d.bucket, 1, n))
        more == IF attempts - n > Len(d.chain) THEN Len(d.chain) ELSE attempts - n
    IN FoldLeft(Try, inBucket, SubSeq(d.chain, 1, more)).best

\* The tables after the search, the position it stands at, and what it found.
SearchedHc(t, ip, found) ==
    [m EXCEPT !.ht = t.ht, !.ct = t.ct, !.next = ip, !.found = found]

ZSTD_HcFindBestMatch(ip) ==
    LET t == ZSTD_insertAndFindFirstIndex_internal(ip)
        w == Chase(ip, t.ht[lhash(ip)], NoMatch, m.attempts, ZSTD_getLowestMatchIndex(ip),
                   IF ip > ChainSize THEN ip - ChainSize ELSE 0, 0,
                   LAMBDA i, ml : LengthAtLeast(ip, i, ml), LAMBDA i : t.ct[i % ChainSize])
    IN SearchedHc(t, ip,
          CASE m.mode = "dds" -> ZSTD_dedicatedDictSearch_lazy_search(ip, w.best, w.left)
            [] m.mode = "dms" -> HcDictMatch(ip, w.best, w.left)
            [] OTHER -> w.best)

(***************************************************************************)
(* Rows.  The hash gives the row and the tag; it is salted in a context,   *)
(* not in a dictionary.                                                    *)
(***************************************************************************)
ZSTD_hashPtrSalted(i) == (HashOf(MEM_read(i, LMls), Rows * RowTags) + Salt) % (Rows * RowTags)

ZSTD_row_nextIndex(head) ==
    LET next == (head - 1) % RowEntries IN IF next = 0 THEN RowEntries - 1 ELSE next

RowInsert(rows, hash, i) ==
    LET r == hash \div RowTags
        pos == ZSTD_row_nextIndex(rows[r].head)
    IN [rows EXCEPT ![r] = [head |-> pos, slot |-> [@.slot EXCEPT ![pos] = << i, hash % RowTags >>]]]

\* The rows of a dictionary, entered without the cache.
ZSTD_row_update(data, from, target, delta) ==
    FoldLeft(LAMBDA rows, i : RowInsert(rows, HashOf(SubSeq(data, i + delta, i + delta + LMls - 1),
                                                     Rows * RowTags), i),
             [r \in 0 .. Rows - 1 |-> [head |-> 0, slot |-> [k \in 1 .. RowEntries - 1 |-> << 0, 0 >>]]],
             Positions(from, target))

\* From idx, at most CacheSize hashes ahead, none beyond limit.
ZSTD_row_fillHashCache(cache, idx, limit) ==
    FoldLeft(LAMBDA c, i : [c EXCEPT ![i % CacheSize] = ZSTD_hashPtrSalted(i)], cache,
             Positions(idx, IF limit + 1 < idx + CacheSize THEN limit + 1 ELSE idx + CacheSize))

\* t: rows, cache, and whether the cached hash was that of the position (an assertion).
ZSTD_row_update_internalImpl(t, from, to) ==
    FoldLeft(LAMBDA w, i :
               [rows |-> RowInsert(w.rows, w.cache[i % CacheSize], i),
                cache |-> [w.cache EXCEPT ![i % CacheSize] = ZSTD_hashPtrSalted(i + CacheSize)],
                fresh |-> w.fresh /\ w.cache[i % CacheSize] = ZSTD_hashPtrSalted(i)],
             t, Positions(from, to))

\* Of a long stretch only the beginning and the end are entered.
ZSTD_row_update_internal(t, ip) ==
    LET long == ip - m.next > SkipThreshold
        t1 == ZSTD_row_update_internalImpl(t, m.next, m.next + SkipStart)
        t2 == [t1 EXCEPT !.cache = ZSTD_row_fillHashCache(@, ip - SkipEnd, ip + 1)]
    IN IF long THEN ZSTD_row_update_internalImpl(t2, ip - SkipEnd, ip)
       ELSE ZSTD_row_update_internalImpl(t, m.next, ip)

\* The positions of a row with the tag, newest first; slot 0 holds the head and is skipped.
ZSTD_row_getMatchMask(row, tag) ==
    LET order == [k \in 1 .. RowEntries |-> (row.head + k - 1) % RowEntries]
    IN SelectSeq(order, LAMBDA p : p # 0 /\ row.slot[p][2] = tag)

\* They are collected until one is too old or the attempts are used up.
RowCandidates(row, tag, low, attempts) ==
    FoldLeft(LAMBDA w, p : IF w.stop \/ row.slot[p][1] < low \/ Len(w.out) = attempts
                           THEN [w EXCEPT !.stop = TRUE]
                           ELSE [w EXCEPT !.out = Append(@, row.slot[p][1])],
             [out |-> << >>, stop |-> FALSE], ZSTD_row_getMatchMask(row, tag)).out

RowBest(ip, best, candidates, inDict) ==
    FoldLeft(LAMBDA w, i : IF w.stop THEN w
                           ELSE LET ml == IF inDict THEN WordLength(ip, i) ELSE LengthAtLeast(ip, i, w.best.ml)
                                    b == Better(w.best, ip, i, ml)
                                IN [best |-> b, stop |-> b # w.best /\ ip + b.ml = m.iend],
             [best |-> best, stop |-> FALSE], candidates).best

\* attempts: 1 << min(searchLog, rowLog); m.extra: further attempts in a dedicated dictionary.
ZSTD_RowFindBestMatch(ip) ==
    LET Cand(rows, hash, low, n) == RowCandidates(rows[hash \div RowTags], hash % RowTags, low, n)
        Moved(s) == [k \in 1 .. Len(s) |-> s[k] + m.dictIndexDelta]
        InDictionary(best, left) ==
            CASE m.mode = "dds" -> ZSTD_dedicatedDictSearch_lazy_search(ip, best, left + m.extra)
              [] m.mode = "dms" ->
                   RowBest(ip, best, Moved(Cand(m.dict.rows, HashOf(MEM_read(ip, LMls), Rows * RowTags), m.dictStart, left)), TRUE)
              [] OTHER -> best
        Best(t, hash, cache, found) ==
            [m EXCEPT !.rows = RowInsert(t.rows, hash, ip), !.cache = cache, !.next = ip + 1,
                      !.asserts = @ /\ t.fresh /\ \A k \in 1 .. Len(found) : found[k] < ip,
                      !.found = InDictionary(RowBest(ip, NoMatch, found, FALSE), m.attempts - Len(found))]
        Look(t, hash, cache) == Best(t, hash, cache, Cand(t.rows, hash, ZSTD_getLowestMatchIndex(ip), m.attempts))
        Updated(t) == Look(t, t.cache[ip % CacheSize],
                           [t.cache EXCEPT ![ip % CacheSize] = ZSTD_hashPtrSalted(ip + CacheSize)])
        t0 == [rows |-> m.rows, cache |-> m.cache, fresh |-> TRUE]
    IN IF m.skipping THEN Look(t0, ZSTD_hashPtrSalted(ip), m.cache) ELSE Updated(ZSTD_row_update_internal(t0, ip))

-----------------------------------------------------------------------------
(* compress/zstd_lazy.c, the binary tree: m.bt[i mod BtSize] holds the         *)
(* smaller and the larger child of position i.  New positions wait unsorted, *)
(* as a chain through the first child with a mark in the second, until a      *)
(* search comes by, sorts them, oldest first, and then descends the tree.     *)

CONSTANT BtSize    \* btMask + 1
ASSUME BtAssumption == BtSize \in Nat \ {0, 1}

ZSTD_DUBT_UNSORTED_MARK == 1

Lesser(a, b) == IF a < b THEN a ELSE b
Slot(i) == i % BtSize

\* A pointer into the tree is a slot and a side, or the dummy << >>.
Put(bt, p, v) == IF p = << >> THEN bt ELSE [bt EXCEPT ![p[1]][p[2]] = v]

ZSTD_updateDUBT(ip) ==
    FoldLeft(LAMBDA t, i : [ht |-> [t.ht EXCEPT ![lhash(i)] = i],
                            bt |-> [t.bt EXCEPT ![Slot(i)] = << t.ht[lhash(i)], ZSTD_DUBT_UNSORTED_MARK >>]],
             [ht |-> m.ht, bt |-> m.bt], Positions(m.next, ip))

\* Where the bytes of position i end.
EndOf(i) == IF InDict(i) THEN m.dictLimit ELSE m.iend

\* The common length of the positions curr and i, of which n bytes are known.
TreeLength(curr, i, n) ==
    n + IF InDict(i + n) /\ ~InDict(curr) THEN ZSTD_count_2segments(curr + n, TRUE, i + n)
        ELSE ZSTD_count(curr + n, InDict(i + n), i + n, EndOf(curr))

\* The order of two positions that differ after n bytes.
IsSmaller(i, curr, n) == Byte(InDict(i + n), i + n) < Byte(InDict(curr), curr + n)

\* A longer match must be worth its larger offset.
WorthOffset(w, curr, i, len, ob) ==
    4 * (len - w.best.ml) > ZSTD_highbit32(curr - i + 1) - ZSTD_highbit32(ob)

\* A node of the tree, len bytes in common: the best match so far or, when w.all, every
\* one longer than those before it; and the farthest byte any match refers to.
Visit(w, curr, i, len, ob) ==
    LET longer == len > w.best.ml
        found == [ml |-> len, ob |-> OFFSET_TO_OFFBASE(curr - i)]
        take == longer /\ (w.all \/ WorthOffset(w, curr, i, len, ob))
    IN [w EXCEPT !.end = IF longer /\ len > @ - i THEN i + len ELSE @,
                 !.best = IF take THEN found ELSE @,
                 !.matches = IF take /\ w.all THEN Append(@, found) ELSE @]

\* Descends from w.i, hanging the nodes it meets to the left and to the right of curr;
\* a match that reaches the end has no order: the rest of the tree is dropped.
CutOff(w) == [w EXCEPT !.bt = Put(Put(@, w.sp, 0), w.lp, 0)]

\* Below w.i, which hangs on the side where it is smaller or larger than curr.
Below(w, bt, len, small, side, btLow) ==
    LET ptr == IF w.i <= btLow THEN << >> ELSE << Slot(w.i), side >>
    IN [w EXCEPT !.bt = bt, !.n = @ - 1, !.i = bt[Slot(w.i)][side],
                 !.sp = IF small THEN ptr ELSE @, !.lp = IF small THEN @ ELSE ptr,
                 !.cs = IF small THEN len ELSE @, !.cl = IF small THEN @ ELSE len]

StepDown(w, len, small, btLow) ==
    Below(w, Put(w.bt, IF small THEN w.sp ELSE w.lp, w.i), len, small, IF small THEN 2 ELSE 1, btLow)

RECURSIVE Descend(_, _, _, _)
Descend(w, curr, low, btLow) ==
    LET Lowered(next) == IF w.i <= btLow THEN CutOff([next EXCEPT !.n = w.n]) ELSE Descend(next, curr, low, btLow)
        Compared(len) ==
            IF curr + len = EndOf(curr) \/ (w.best.ml < len /\ len > w.cap)
            THEN [CutOff(Visit(w, curr, w.i, len, w.best.ob)) EXCEPT !.n = IF m.mode = "dms" THEN 0 ELSE @]
            ELSE Lowered(StepDown(Visit(w, curr, w.i, len, w.best.ob), len, IsSmaller(w.i, curr, len), btLow))
    IN IF w.n = 0 \/ w.i <= low THEN CutOff(w)
       ELSE Compared(TreeLength(curr, w.i, Lesser(w.cs, w.cl)))

Descent(bt, curr, first, n) ==
    [bt |-> bt, i |-> first, n |-> n, sp |-> << Slot(curr), 1 >>, lp |-> << Slot(curr), 2 >>,
     cs |-> 0, cl |-> 0, end |-> curr + HASH_READ_SIZE + 1, best |-> [ml |-> 0, ob |-> NoOffBase],
     all |-> FALSE, matches |-> << >>, cap |-> NoOffBase]

\* Sorts a position that waits: its first candidate is what its own chain leads to.
ZSTD_insertDUBT1(bt, curr, n, btLow) ==
    LET low == IF curr - m.lowLimit > m.maxDist THEN curr - m.maxDist ELSE m.lowLimit
    IN Descend(Descent(bt, curr, bt[Slot(curr)][1], n), curr, low, btLow).bt

\* Down the unsorted chain, leaving a way back in the marks.
RECURSIVE Unsorted(_, _)
Unsorted(w, limit) ==
    IF w.i > limit /\ w.bt[Slot(w.i)][2] = ZSTD_DUBT_UNSORTED_MARK /\ w.n > 1
    THEN Unsorted([bt |-> Put(w.bt, << Slot(w.i), 2 >>, w.prev), prev |-> w.i,
                   i |-> w.bt[Slot(w.i)][1], n |-> w.n - 1], limit)
    ELSE IF w.i > limit /\ w.bt[Slot(w.i)][2] = ZSTD_DUBT_UNSORTED_MARK
    THEN [w EXCEPT !.bt[Slot(w.i)] = << 0, 0 >>] ELSE w

\* Back up, sorting each.
RECURSIVE SortStacked(_, _, _, _)
SortStacked(bt, i, n, limit) ==
    IF i = 0 THEN bt
    ELSE SortStacked(ZSTD_insertDUBT1(bt, i, n, limit), bt[Slot(i)][2], n + 1, limit)

\* The tree of the attached dictionary, only read.
RECURSIVE DictDescend(_, _, _)
DictDescend(w, ip, btLow) ==
    IF w.n = 0 \/ w.i <= m.dictStart THEN w
    ELSE LET at == w.i + m.dictIndexDelta
             len == TreeLength(ip, at, Lesser(w.cs, w.cl))
             v == Visit(w, ip, at, len, w.best.ob + 1)
             small == IsSmaller(at, ip, len)
         IN IF (len > w.best.ml /\ (ip + len = m.iend \/ len > w.cap)) \/ w.i <= btLow THEN v
            ELSE DictDescend([v EXCEPT !.n = @ - 1, !.cs = IF small THEN len ELSE @,
                                       !.cl = IF small THEN @ ELSE len,
                                       !.i = m.dict.bt[Slot(w.i)][IF small THEN 2 ELSE 1]], ip, btLow)

\* It goes on with the attempts that are left.
ZSTD_DUBT_findBetterDictMatch(w, ip, h) ==
    LET size == m.dictLimit - m.dictIndexDelta
    IN IF m.mode # "dms" \/ w.n = 0 THEN w
       ELSE DictDescend([w EXCEPT !.i = m.dict.ht[h], !.cs = 0, !.cl = 0], ip,
                        IF BtSize - 1 >= size - m.dictStart THEN m.dictStart ELSE size - (BtSize - 1))

ZSTD_DUBT_findBestMatch(t, ip) ==
    LET low == ZSTD_getLowestMatchIndex(ip)
        btLow == IF BtSize - 1 >= ip THEN 0 ELSE ip - (BtSize - 1)
        limit == IF btLow > low THEN btLow ELSE low
        Sorted(u) == SortStacked(u.bt, u.prev, u.n, limit)
        Found(w) == [m EXCEPT !.ht = [t.ht EXCEPT ![lhash(ip)] = ip], !.bt = w.bt,
                              !.found = ZSTD_DUBT_findBetterDictMatch(w, ip, lhash(ip)).best,
                              !.next = w.end - HASH_READ_SIZE, !.asserts = @ /\ w.end > ip + HASH_READ_SIZE]
    IN Found(Descend(Descent(Sorted(Unsorted([bt |-> t.bt, prev |-> 0, i |-> t.ht[lhash(ip)], n |-> m.attempts], limit)),
                             ip, t.ht[lhash(ip)], m.attempts), ip, low, btLow))

\* Positions inside a long match are left out of the tree.
ZSTD_BtFindBestMatch(ip) ==
    IF ip < m.next THEN [m EXCEPT !.found = [ml |-> 0, ob |-> NoOffBase]]
    ELSE ZSTD_DUBT_findBestMatch(ZSTD_updateDUBT(ip), ip)
=============================================================================
