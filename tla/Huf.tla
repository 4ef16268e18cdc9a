-------------------------------- MODULE Huf ---------------------------------
(* Huffman coding of literals, the compressor: the tree and its limit, the   *)
(* canonical codes, the header with the weights, one stream or four, and the *)
(* choice between the new table and the one of the block before.             *)
(*                                                                           *)
(* A table gives a symbol's number of bits (0: absent) and value.  What a    *)
(* function of the code writes to dst is a sequence of bits here, empty for  *)
(* the size 0 by which it says that it gave up.                              *)
EXTENDS Fse, FiniteSets

HUF_TABLELOG_MAX == 12
HUF_SYMBOLVALUE_MAX == 255
MAX_FSE_TABLELOG_FOR_HUFF_HEADER == 6

NoTable == [tableLog |-> 0, maxSymbolValue |-> 0, nbBits |-> << >>, val |-> << >>]

HIST_count(src) ==
    [s \in 0 .. (CHOOSE x \in {src[k] : k \in DOMAIN src} : \A k \in DOMAIN src : src[k] <= x) |->
        Len(SelectSeq(src, LAMBDA x : x = s))]

Largest(count) == CHOOSE c \in {count[s] : s \in DOMAIN count} : \A s \in DOMAIN count : count[s] <= c

(***************************************************************************)
(* The tree.  Leaves are numbered from the most frequent symbol, 0, to the *)
(* rarest; the nodes above them follow.                                    *)
(***************************************************************************)
HUF_sort(count) ==
    SortSeq([k \in 1 .. MaxSymbol(count) + 1 |-> k - 1],
            LAMBDA s, t : count[s] > count[t] \/ (count[s] = count[t] /\ s < t))

\* The two rarest of the leaves up to lowS and the nodes from lowN get a parent.  A leaf
\* goes first only when it is rarer; -1 is a barrier, a node that is not built yet another.
Rarest(w, lowS, lowN) ==
    IF w[lowS] < w[lowN] THEN [node |-> lowS, lowS |-> lowS - 1, lowN |-> lowN] ELSE [node |-> lowN, lowS |-> lowS, lowN |-> lowN + 1]

\* t: the counts of the nodes, their parents, where the leaves and nodes left begin, the next node.
AddParent(t, r1, r2) ==
    [t EXCEPT !.w[t.nodeNb] = t.w[r1.node] + t.w[r2.node], !.parent[r1.node] = t.nodeNb, !.parent[r2.node] = t.nodeNb,
              !.lowS = r2.lowS, !.lowN = r2.lowN, !.nodeNb = @ + 1]

SecondRarest(t, r) == AddParent(t, r, Rarest(t.w, r.lowS, r.lowN))

\* At most n more parents, up to the root.
RECURSIVE CreateParents(_, _, _)
CreateParents(t, nodeRoot, n) ==
    IF t.nodeNb > nodeRoot THEN t
    ELSE IF n = 1 THEN SecondRarest(t, Rarest(t.w, t.lowS, t.lowN))
    ELSE CreateParents(CreateParents(t, nodeRoot, n \div 2), nodeRoot, n - n \div 2)

RECURSIVE Depth(_, _, _)
Depth(parent, n, nodeRoot) == IF n = nodeRoot THEN 0 ELSE 1 + Depth(parent, parent[n], nodeRoot)

Barrier == 2 ^ 30 + (2 ^ 30 - 1)

\* leaf: the counts of the leaves.  The number of bits of each.
HUF_buildTree(leaf) ==
    LET last == MaxSymbol(leaf)
        nodeRoot == 2 * last
        weights == [n \in -1 .. nodeRoot |-> IF n = -1 THEN Barrier
                                             ELSE IF n <= last THEN leaf[n]
                                             ELSE IF n = last + 1 THEN leaf[last] + leaf[last - 1] ELSE 2 ^ 30]
        parent == CreateParents([w |-> weights, parent |-> [n \in 0 .. nodeRoot |-> last + 1],
                                 lowS |-> last - 2, lowN |-> last + 1, nodeNb |-> last + 2], nodeRoot, last).parent
    IN [n \in 0 .. last |-> Depth(parent, n, nodeRoot)]

\* Limiting the height.  rankLast[r]: the last leaf with r bits less than the limit.
noSymbol == -1

\* The rank that repays: from the power of 2 above the cost down to one that is cheaper than
\* two of the next rank, or else the closest one above.
RankToPay(leaf, rankLast, h) ==
    LET Stop(k) == rankLast[k] # noSymbol
                   /\ (rankLast[k - 1] = noSymbol \/ leaf[rankLast[k]] <= 2 * leaf[rankLast[k - 1]])
        Above(k) == CHOOSE j \in k .. HUF_TABLELOG_MAX + 1 :
                        rankLast[j] # noSymbol /\ \A i \in k .. j - 1 : rankLast[i] = noSymbol
    IN Above(CHOOSE k \in 1 .. h : (k = 1 \/ Stop(k)) /\ \A j \in k + 1 .. h : ~Stop(j))

RECURSIVE RepayCost(_, _, _, _, _)
RepayCost(leaf, nbBits, rankLast, target, cost) ==
    LET Pay(k, p) ==
            LET lower == [rankLast EXCEPT ![k - 1] = IF @ = noSymbol THEN p ELSE @]
                more == [nbBits EXCEPT ![p] = @ + 1]
                left == IF p = 0 THEN noSymbol ELSE IF more[p - 1] # target - k THEN noSymbol ELSE p - 1
            IN RepayCost(leaf, more, [lower EXCEPT ![k] = left], target, cost - 2 ^ (k - 1))
        With(k) == Pay(k, rankLast[k])
    IN IF cost <= 0 THEN [nbBits |-> nbBits, rank1 |-> rankLast[1], cost |-> cost]
       ELSE With(RankToPay(leaf, rankLast, highbit(cost) + 1))

RECURSIVE TakeBack(_, _, _, _)
TakeBack(nbBits, rank1, target, cost) ==
    LET first == CHOOSE n \in DOMAIN nbBits : nbBits[n] = target /\ \A j \in 0 .. n - 1 : nbBits[j] # target
        n == IF rank1 = noSymbol THEN first ELSE rank1 + 1
    IN IF cost >= 0 THEN nbBits ELSE TakeBack([nbBits EXCEPT ![n] = @ - 1], n, target, cost + 1)

HUF_setMaxHeight(leaf, nbBits, target) ==
    LET largestBits == nbBits[MaxSymbol(nbBits)]
        excess == Total([n \in DOMAIN nbBits |-> IF nbBits[n] > target
                                                 THEN 2 ^ (largestBits - target) - 2 ^ (largestBits - nbBits[n]) ELSE 0])
        cut == [n \in DOMAIN nbBits |-> IF nbBits[n] > target THEN target ELSE nbBits[n]]
        rankLast == [r \in 0 .. HUF_TABLELOG_MAX + 1 |->
                        IF r > 0 /\ \E n \in DOMAIN cut : cut[n] = target - r
                        THEN CHOOSE n \in DOMAIN cut : cut[n] = target - r /\ \A j \in DOMAIN cut : j > n => cut[j] # target - r
                        ELSE noSymbol]
        Correct(r) == TakeBack(r.nbBits, r.rank1, target, r.cost)
    IN IF largestBits <= target THEN nbBits
       ELSE Correct(RepayCost(leaf, cut, rankLast, target, excess \div 2 ^ (largestBits - target)))

(***************************************************************************)
(* The table: codes of one length are consecutive in symbol order, longer  *)
(* codes come first.                                                       *)
(***************************************************************************)
RECURSIVE ValPerRank(_, _, _)
ValPerRank(nbPerRank, n, maxNbBits) ==
    IF n = maxNbBits THEN 0 ELSE (ValPerRank(nbPerRank, n + 1, maxNbBits) + nbPerRank[n + 1]) \div 2

CanonicalTable(nbBits, tableLog) ==
    LET nbPerRank == [n \in 1 .. tableLog |-> Cardinality({s \in DOMAIN nbBits : nbBits[s] = n})]
        start == [n \in 1 .. tableLog |-> ValPerRank(nbPerRank, n, tableLog)]
    IN [tableLog |-> tableLog, maxSymbolValue |-> MaxSymbol(nbBits), nbBits |-> nbBits,
        val |-> [s \in DOMAIN nbBits |-> IF nbBits[s] = 0 THEN 0
                                         ELSE start[nbBits[s]] + Cardinality({t \in 0 .. s - 1 : nbBits[t] = nbBits[s]})]]

HUF_buildCTableFromTree(order, nbBits) ==
    CanonicalTable([s \in 0 .. Len(order) - 1 |->
                        LET n == (CHOOSE k \in DOMAIN order : order[k] = s) - 1 IN IF n \in DOMAIN nbBits THEN nbBits[n] ELSE 0],
                   Largest(nbBits))

Limited(leaf, maxNbBits) == HUF_setMaxHeight(leaf, HUF_buildTree(leaf), maxNbBits)

FromOrder(order, count, maxNbBits) ==
    HUF_buildCTableFromTree(order, Limited([n \in 0 .. Cardinality({s \in DOMAIN count : count[s] > 0}) - 1 |-> count[order[n + 1]]],
                                           maxNbBits))

HUF_buildCTable_wksp(count, maxNbBits) == FromOrder(HUF_sort(count), count, maxNbBits)

HUF_estimateCompressedSize(ct, count) ==
    Total([s \in DOMAIN count |-> IF s \in DOMAIN ct.nbBits THEN ct.nbBits[s] * count[s] ELSE 0]) \div 8

HUF_validateCTable(ct, count) ==
    /\ ct.maxSymbolValue >= MaxSymbol(count)
    /\ \A s \in DOMAIN count : count[s] # 0 => ct.nbBits[s] # 0

(***************************************************************************)
(* The header: the weights of all symbols but the last.                    *)
(***************************************************************************)
Weights(ct) == [k \in 1 .. ct.maxSymbolValue |-> IF ct.nbBits[k - 1] = 0 THEN 0 ELSE ct.tableLog + 1 - ct.nbBits[k - 1]]

BothParts(header, stream) == IF header = << >> \/ stream = << >> THEN << >> ELSE header \o stream

StreamOfWeights(weights, norm, tableLog, header, capacity) ==
    BothParts(header, FSE_compress_usingCTable(weights, FSE_buildCTable_wksp(norm, tableLog), capacity - Bytes(header)))

EncodeWeights(weights, norm, tableLog, capacity) ==
    IF norm = << >> THEN << >> ELSE StreamOfWeights(weights, norm, tableLog, FSE_writeNCount(norm, tableLog), capacity)

CountedWeights(weights, count, tableLog, capacity) ==
    IF Largest(count) \in {1, Len(weights)} THEN << >>
    ELSE EncodeWeights(weights, FSE_normalizeCount(tableLog, count, Len(weights), FALSE), tableLog, capacity)

\* << >> is the 0 and the 1 of the code: not compressible, or one weight only.
HUF_compressWeights(weights, capacity) ==
    LET count == HIST_count(weights)
    IN IF Len(weights) <= 1 THEN << >>
       ELSE CountedWeights(weights, count,
                           FSE_optimalTableLog(MAX_FSE_TABLELOG_FOR_HUFF_HEADER, Len(weights), MaxSymbol(count)), capacity)

RawWeights(ct) ==
    LE(128 + ct.maxSymbolValue - 1, 8)
    \o LET w == Append(Weights(ct), 0)
       IN [k \in 1 .. 8 * ((ct.maxSymbolValue + 1) \div 2) |->
              LET n == (k - 1) \div 8
                  bit == (k - 1) % 8
              IN IF bit >= 4 THEN (w[2 * n + 1] \div 2 ^ (bit - 4)) % 2 ELSE (w[2 * n + 2] \div 2 ^ bit) % 2]

CompressedOrRaw(h, ct, capacity) ==
    IF Bytes(h) > 1 /\ Bytes(h) < ct.maxSymbolValue \div 2 THEN LE(Bytes(h), 8) \o h
    ELSE IF ct.maxSymbolValue > 128 \/ (ct.maxSymbolValue + 1) \div 2 + 1 > capacity THEN << >>
    ELSE RawWeights(ct)

\* << >>: the header does not fit, or the alphabet is too large for plain weights.
HUF_writeCTable_wksp(ct, capacity) ==
    IF capacity < 1 THEN << >> ELSE CompressedOrRaw(HUF_compressWeights(Weights(ct), capacity - 1), ct, capacity)

(***************************************************************************)
(* Streams: the last symbol first, closed by a mark.                       *)
(***************************************************************************)
RECURSIVE CodesDown(_, _, _, _)
CodesDown(ct, src, lo, hi) ==
    IF lo = hi THEN LE(ct.val[src[lo]], ct.nbBits[src[lo]])
    ELSE CodesDown(ct, src, (lo + hi) \div 2 + 1, hi) \o CodesDown(ct, src, lo, (lo + hi) \div 2)

HUF_compress1X_usingCTable(ct, src, capacity) ==
    IF capacity <= 8 THEN << >> ELSE BIT_closeCStream(CodesDown(ct, src, 1, Len(src)), capacity)

Segment(src, k) == SubSeq(src, (k - 1) * ((Len(src) + 3) \div 4) + 1,
                          IF k = 4 THEN Len(src) ELSE k * ((Len(src) + 3) \div 4))

\* The streams from number k on, behind those that are in parts.
RECURSIVE StreamsFrom(_, _, _, _, _), NextStream(_, _, _, _, _, _)
NextStream(k, ct, src, room, parts, stream) ==
    IF stream = << >> THEN << >> ELSE StreamsFrom(k + 1, ct, src, room - Bytes(stream), Append(parts, stream))

StreamsFrom(k, ct, src, room, parts) ==
    IF k > 4 THEN parts ELSE NextStream(k, ct, src, room, parts, HUF_compress1X_usingCTable(ct, Segment(src, k), room))

\* The sizes of the first three, then the streams.
Join(s) == IF s = << >> THEN << >>
           ELSE MEM_writeLE(Bytes(s[1]), 2) \o MEM_writeLE(Bytes(s[2]), 2) \o MEM_writeLE(Bytes(s[3]), 2)
                \o s[1] \o s[2] \o s[3] \o s[4]

HUF_compress4X_usingCTable(ct, src, capacity) ==
    IF capacity < 17 \/ Len(src) < 12 THEN << >> ELSE Join(StreamsFrom(1, ct, src, capacity - 6, << >>))

BehindHeader(header, c, srcSize) == IF c = << >> \/ Bytes(header) + Bytes(c) >= srcSize - 1 THEN << >> ELSE header \o c

\* header: what stands in dst already.
HUF_compressCTable_internal(header, ct, src, fourStreams, capacity) ==
    BehindHeader(header, IF fourStreams THEN HUF_compress4X_usingCTable(ct, src, capacity - Bytes(header))
                         ELSE HUF_compress1X_usingCTable(ct, src, capacity - Bytes(header)), Len(src))

(***************************************************************************)
(* The depth of the tree, and the whole.                                   *)
(***************************************************************************)
HUF_minTableLog(symbolCardinality) == highbit(symbolCardinality) + 1

\* best: the smallest size so far, and its depth.  The guesses go up until the size grows or
\* the tree needs no more bits.
RECURSIVE ProbeDepth(_, _, _, _, _), ProbeTable(_, _, _, _, _, _), ProbeSize(_, _, _, _, _, _)
ProbeSize(count, guess, minLog, maxLog, best, new) ==
    IF new.header # 0 /\ new.size + new.header > best.size + 1 THEN best.log
    ELSE ProbeDepth(count, guess + 1, minLog, maxLog,
                    IF new.header # 0 /\ new.size + new.header < best.size
                    THEN [size |-> new.size + new.header, log |-> guess] ELSE best)

ProbeTable(count, guess, minLog, maxLog, best, ct) ==
    IF ct.tableLog < guess /\ guess > minLog THEN best.log
    ELSE ProbeSize(count, guess, minLog, maxLog, best, [size |-> HUF_estimateCompressedSize(ct, count),
                                                        header |-> Bytes(HUF_writeCTable_wksp(ct, 256))])

ProbeDepth(count, guess, minLog, maxLog, best) ==
    IF guess > maxLog THEN best.log ELSE ProbeTable(count, guess, minLog, maxLog, best, HUF_buildCTable_wksp(count, guess))

HUF_optimalTableLog(maxTableLog, srcSize, count, optimalDepth) ==
    LET minLog == HUF_minTableLog(Cardinality({s \in DOMAIN count : count[s] # 0}))
    IN IF optimalDepth THEN ProbeDepth(count, minLog, minLog, maxTableLog, [size |-> 2 ^ 30, log |-> maxTableLog])
       ELSE FSE_optimalTableLog_internal(maxTableLog, srcSize, MaxSymbol(count), 1)

\* A call, to compress src, and what it finds: q = [src, huffLog, fourStreams, capacity, old, repeat,
\* preferRepeat, optimalDepth].
GaveUp(q, repeat) == [out |-> << >>, rle |-> FALSE, table |-> q.old, repeat |-> repeat]

WithTable(q, header, ct, table, repeat) ==
    [out |-> HUF_compressCTable_internal(header, ct, q.src, q.fourStreams, q.capacity), rle |-> FALSE, table |-> table, repeat |-> repeat]

OldIsCheaper(q, ct, count, header) ==
    HUF_estimateCompressedSize(q.old, count) <= Bytes(header) + HUF_estimateCompressedSize(ct, count)

\* The old table, the new one behind its header, or neither.
ChooseTable(q, ct, count, header, repeat) ==
    LET short == Bytes(header) + 12 >= Len(q.src)
    IN IF header = << >> \/ (repeat = "none" /\ short) THEN GaveUp(q, repeat)
       ELSE IF repeat # "none" /\ (short \/ OldIsCheaper(q, ct, count, header)) THEN WithTable(q, << >>, q.old, q.old, repeat)
       ELSE WithTable(q, header, ct, ct, "none")

NewTable(q, ct, count, repeat) == ChooseTable(q, ct, count, HUF_writeCTable_wksp(ct, q.capacity), repeat)

CheckedTable(q, count, repeat) ==
    IF q.preferRepeat /\ repeat # "none" THEN WithTable(q, << >>, q.old, q.old, repeat)
    ELSE NewTable(q, HUF_buildCTable_wksp(count, HUF_optimalTableLog(q.huffLog, Len(q.src), count, q.optimalDepth)), count, repeat)

CountedLiterals(q, count) ==
    IF Largest(count) = Len(q.src) THEN [out |-> LE(q.src[1], 8), rle |-> TRUE, table |-> q.old, repeat |-> q.repeat]
    ELSE IF Largest(count) <= Len(q.src) \div 128 + 4 THEN GaveUp(q, q.repeat)
    ELSE CheckedTable(q, count, IF q.repeat = "check" /\ ~HUF_validateCTable(q.old, count) THEN "none" ELSE q.repeat)

\* out: the bytes written; rle: the 1 that stands for one symbol; table and repeat: what the
\* call leaves in the caller's.
HUF_compress_internal(q) ==
    IF Len(q.src) = 0 \/ q.capacity = 0 THEN GaveUp(q, q.repeat)
    ELSE IF q.preferRepeat /\ q.repeat = "valid" THEN WithTable(q, << >>, q.old, q.old, q.repeat)
    ELSE CountedLiterals(q, HIST_count(q.src))
=============================================================================
