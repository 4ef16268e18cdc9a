-------------------------------- MODULE Fse ---------------------------------
(* Finite state entropy: from counts to normalized counts, their header, the *)
(* compressor's and the decompressor's table of one set of normalized        *)
(* counts, and streams of symbols with two states (the weights of a Huffman  *)
(* tree).  Memory is a sequence of bits, the lowest of each byte first; a    *)
(* stream is written forwards and read backwards, from the mark that closes  *)
(* it.                                                                       *)
(*                                                                           *)
(* A count is a function of 0 .. maxSymbolValue.  The 62-bit fixed point     *)
(* numbers of the code are exact fractions here, a hair below the fraction   *)
(* they stand for whenever the total is no power of 2.                       *)
EXTENDS Integers, Sequences, TLC

ERROR == [error |-> TRUE]

highbit(x) == CHOOSE k \in 0 .. 29 : 2 ^ k <= x /\ x < 2 ^ (k + 1)

LE(value, nbBits) == [k \in 1 .. nbBits |-> (value \div 2 ^ (k - 1)) % 2]

\* The number in bits lo .. hi; memory before the first bit and behind the last reads as 0.
RECURSIVE Number(_, _, _)
Number(bits, lo, hi) ==
    IF hi < lo THEN 0
    ELSE (IF lo \in 1 .. Len(bits) THEN bits[lo] ELSE 0) + 2 * Number(bits, lo + 1, hi)

Bytes(bits) == (Len(bits) + 7) \div 8

Padded(bits) == bits \o [k \in 1 .. 8 * Bytes(bits) - Len(bits) |-> 0]

From(mem, bytes) == SubSeq(mem, 8 * bytes + 1, Len(mem))

MEM_readLE(mem, at, bytes) == Number(mem, 8 * at + 1, 8 * (at + bytes))
MEM_writeLE(value, bytes) == LE(value, 8 * bytes)

(***************************************************************************)
(* Writing.  capacity is what the caller has room for, in bytes: a stream  *)
(* that comes within a register's width of it is not stored.               *)
(***************************************************************************)
Register == 8

BIT_initCStream(capacity) == capacity > Register

BIT_closeCStream(bits, capacity) ==
    IF (Len(bits) + 1) \div 8 >= capacity - Register THEN << >> ELSE Padded(Append(bits, 1))

(***************************************************************************)
(* Reading.  left: the bits not consumed yet, below 0 after reading more   *)
(* than there are.                                                         *)
(***************************************************************************)
BIT_initDStream(mem) ==
    LET last == Number(mem, Len(mem) - 7, Len(mem))
    IN IF Len(mem) < 8 \/ last = 0 THEN ERROR
       ELSE [error |-> FALSE, bits |-> mem, left |-> Len(mem) - 8 + highbit(last)]

BIT_lookBits(b, nbBits) == Number(b.bits, b.left - nbBits + 1, b.left)

BIT_skipBits(b, nbBits) == [b EXCEPT !.left = @ - nbBits]

BIT_overflow(b) == b.left < 0

BIT_endOfDStream(b) == b.left = 0

(***************************************************************************)
(* Counts.                                                                 *)
(***************************************************************************)
FSE_MIN_TABLELOG == 5
FSE_MAX_TABLELOG == 12
FSE_TABLELOG_ABSOLUTE_MAX == 15

MaxSymbol(f) == CHOOSE s \in DOMAIN f : \A t \in DOMAIN f : t <= s

RECURSIVE SumBetween(_, _, _)
SumBetween(f, lo, hi) ==
    IF lo > hi THEN 0 ELSE IF lo = hi THEN f[lo] ELSE SumBetween(f, lo, (lo + hi) \div 2) + SumBetween(f, (lo + hi) \div 2 + 1, hi)

SumUpTo(f, s) == SumBetween(f, 0, s)

Total(f) == SumUpTo(f, MaxSymbol(f))

\* What a normalized count takes of the table: a count of -1 stands for less than one.
Points(n) == IF n = -1 THEN 1 ELSE n

(***************************************************************************)
(* Normalization.                                                          *)
(***************************************************************************)
FSE_minTableLog(srcSize, maxSymbolValue) ==
    IF highbit(srcSize) + 1 < highbit(maxSymbolValue) + 2 THEN highbit(srcSize) + 1 ELSE highbit(maxSymbolValue) + 2

\* An unsigned difference: below zero it is larger than any table.
FSE_optimalTableLog_internal(maxTableLog, srcSize, maxSymbolValue, minus) ==
    LET src == highbit(srcSize - 1) - minus
        accuracy == IF 0 <= src /\ src < maxTableLog THEN src ELSE maxTableLog
        atLeast == FSE_minTableLog(srcSize, maxSymbolValue)
        log == IF atLeast > accuracy THEN atLeast ELSE accuracy
    IN IF log < FSE_MIN_TABLELOG THEN FSE_MIN_TABLELOG
       ELSE IF log > FSE_MAX_TABLELOG THEN FSE_MAX_TABLELOG ELSE log

FSE_optimalTableLog(maxTableLog, srcSize, maxSymbolValue) ==
    FSE_optimalTableLog_internal(maxTableLog, srcSize, maxSymbolValue, 2)

NOT_YET_ASSIGNED == -2

\* The counts below a limit get one point each.
GiveOne(norm, count, limit) ==
    [s \in DOMAIN norm |-> IF norm[s] = NOT_YET_ASSIGNED /\ count[s] <= limit THEN 1 ELSE norm[s]]

Unassigned(norm) == {s \in DOMAIN norm : norm[s] = NOT_YET_ASSIGNED}
Assigned(norm) == Len(SelectSeq([k \in 1 .. MaxSymbol(norm) + 1 |-> norm[k - 1]], LAMBDA n : n \notin {0, NOT_YET_ASSIGNED}))
Outstanding(norm, count) == Total([s \in DOMAIN norm |-> IF s \in Unassigned(norm) THEN count[s] ELSE 0])

\* The share of the first symbols, c of total, of what is to distribute: the integer part of
\* a number that lies a hair below the fraction.
Share(c, total, toDistribute) ==
    LET num == total + 2 * c * toDistribute + c
    IN num \div (2 * total) - (IF num % (2 * total) = 0 THEN 1 ELSE 0)

\* The rest of the points goes round the symbols that have some.
RECURSIVE RoundRobin(_, _, _)
RoundRobin(norm, s, points) ==
    IF points = 0 THEN norm
    ELSE IF norm[s] > 0 THEN RoundRobin([norm EXCEPT ![s] = @ + 1], (s + 1) % (MaxSymbol(norm) + 1), points - 1)
    ELSE RoundRobin(norm, (s + 1) % (MaxSymbol(norm) + 1), points)

M2Distribute(norm, count, total, toDistribute) ==
    LET open == [s \in DOMAIN norm |-> IF s \in Unassigned(norm) THEN count[s] ELSE 0]
        Weight(s) == Share(SumUpTo(open, s), total, toDistribute) - Share(SumUpTo(open, s - 1), total, toDistribute)
        largest == CHOOSE s \in DOMAIN count : \A t \in DOMAIN count : count[t] < count[s] \/ (count[t] = count[s] /\ s <= t)
    IN CASE Unassigned(norm) = {} /\ 0 \notin {norm[s] : s \in DOMAIN norm} -> [norm EXCEPT ![largest] = @ + toDistribute]
         [] Unassigned(norm) = {} /\ 0 \in {norm[s] : s \in DOMAIN norm} -> RoundRobin(norm, 0, toDistribute)
         [] \E s \in Unassigned(norm) : Weight(s) < 1 -> << >>
         [] OTHER -> [s \in DOMAIN norm |-> IF s \in Unassigned(norm) THEN Weight(s) ELSE norm[s]]

FSE_normalizeM2(tableLog, count, total, lowProbCount) ==
    LET lowThreshold == total \div 2 ^ tableLog
        lowOne == (total * 3) \div 2 ^ (tableLog + 1)
        first == [s \in DOMAIN count |-> IF count[s] = 0 THEN 0
                                         ELSE IF count[s] <= lowThreshold THEN lowProbCount
                                         ELSE IF count[s] <= lowOne THEN 1 ELSE NOT_YET_ASSIGNED]
        Second(left, points) == IF left \div points > lowOne
                                THEN GiveOne(first, count, (left * 3) \div (points * 2)) ELSE first
        Finish(norm) == M2Distribute(norm, count, Outstanding(norm, count), 2 ^ tableLog - Assigned(norm))
    IN IF 2 ^ tableLog = Assigned(first) THEN first
       ELSE Finish(Second(Outstanding(first, count), 2 ^ tableLog - Assigned(first)))

rtbTable == << 0, 473195, 504333, 520860, 550000, 700000, 750000, 830000 >>

\* count * 2^tableLog / total, rounded up when what is left beats the table.
Proba(count, total, tableLog) ==
    LET p == (count * 2 ^ tableLog) \div total
        r == (count * 2 ^ tableLog) % total
        exact == r = 0 /\ total = 2 ^ highbit(total)
    IN IF r = 0 /\ ~exact THEN (IF p - 1 < 8 THEN p ELSE p - 1)
       ELSE IF p < 8 /\ r * 2 ^ 20 > rtbTable[p + 1] * total THEN p + 1 ELSE p

Low(count, total, tableLog, s) == count[s] <= total \div 2 ^ tableLog

\* Every symbol's share by itself.
Shares(tableLog, count, total, lowProb) ==
    [s \in DOMAIN count |-> IF count[s] = 0 THEN 0
                            ELSE IF Low(count, total, tableLog, s) THEN lowProb ELSE Proba(count[s], total, tableLog)]

\* The first of the symbols with the largest share.
LargestShare(share) == CHOOSE s \in DOMAIN share : \A t \in DOMAIN share : share[t] < share[s] \/ (share[t] = share[s] /\ s <= t)

GiveRest(tableLog, count, total, lowProb, norm, largest, still) ==
    IF -still >= norm[largest] \div 2 THEN FSE_normalizeM2(tableLog, count, total, lowProb) ELSE [norm EXCEPT ![largest] = @ + still]

WithRest(tableLog, count, total, lowProb, norm) ==
    GiveRest(tableLog, count, total, lowProb, norm,
             LargestShare([s \in DOMAIN norm |-> IF Low(count, total, tableLog, s) THEN 0 ELSE norm[s]]),
             2 ^ tableLog - Total([s \in DOMAIN norm |-> Points(norm[s])]))

\* << >>: the table is too small for the counts, or a share came to nothing.
FSE_normalizeCount(tableLog, count, total, useLowProbCount) ==
    LET lowProb == IF useLowProbCount THEN -1 ELSE 1
    IN IF tableLog < FSE_minTableLog(total, MaxSymbol(count)) THEN << >>
       ELSE WithRest(tableLog, count, total, lowProb, Shares(tableLog, count, total, lowProb))

(***************************************************************************)
(* The header.  threshold and nbBits of the code follow from what remains. *)
(***************************************************************************)
Threshold(remaining) == 2 ^ highbit(remaining)

\* A run of zeros after a zero: 3 for every three, then the rest.
Zeros(n) == [k \in 1 .. 2 * (n \div 3) |-> 1] \o LE(n % 3, 2)

FirstNonZero(norm, s) == CHOOSE t \in s .. MaxSymbol(norm) : norm[t] # 0 /\ \A u \in s .. t - 1 : norm[u] = 0

\* w: the next symbol, what remains of the table, whether the last count was 0, and the bits so far.
PutCount(norm, w, t, run) ==
    LET max == 2 * Threshold(w.remaining) - 1 - w.remaining
        count == norm[t] + 1 + (IF norm[t] + 1 >= Threshold(w.remaining) THEN max ELSE 0)
        width == highbit(w.remaining) + 1 - (IF count < max THEN 1 ELSE 0)
    IN [symbol |-> t + 1, remaining |-> w.remaining - Points(norm[t]), previousIs0 |-> norm[t] = 0,
        bits |-> w.bits \o run \o LE(count, width)]

RECURSIVE WriteCounts(_, _)
WriteCounts(norm, w) ==
    IF w.symbol > MaxSymbol(norm) \/ w.remaining <= 1 THEN (IF w.remaining = 1 THEN Padded(w.bits) ELSE << >>)
    ELSE IF ~w.previousIs0 THEN WriteCounts(norm, PutCount(norm, w, w.symbol, << >>))
    ELSE IF \A t \in w.symbol .. MaxSymbol(norm) : norm[t] = 0 THEN << >>
    ELSE WriteCounts(norm, PutCount(norm, w, FirstNonZero(norm, w.symbol), Zeros(FirstNonZero(norm, w.symbol) - w.symbol)))

\* << >> for a distribution that does not add up to the table.
FSE_writeNCount(norm, tableLog) ==
    WriteCounts(norm, [symbol |-> 0, remaining |-> 2 ^ tableLog + 1, previousIs0 |-> FALSE, bits |-> LE(tableLog - FSE_MIN_TABLELOG, 4)])

\* The length of the run of 0b11 from bit at.
RECURSIVE Repeats(_, _)
Repeats(mem, at) == IF Number(mem, at, at + 1) = 3 THEN 1 + Repeats(mem, at + 2) ELSE 0

\* The zeros that follow a zero from bit at, and the bits that tell them.
ZeroRun(mem, at, previous0) ==
    LET n == Repeats(mem, at)
    IN IF previous0 THEN [zeros |-> 3 * n + Number(mem, at + 2 * n, at + 2 * n + 1), bits |-> 2 * n + 2]
       ELSE [zeros |-> 0, bits |-> 0]

\* One count, and the bits that tell it.
CountAt(mem, at, remaining) ==
    LET threshold == Threshold(remaining)
        max == 2 * threshold - 1 - remaining
        low == Number(mem, at, at + highbit(remaining) - 1)
        all == Number(mem, at, at + highbit(remaining))
    IN IF low < max THEN [count |-> low - 1, bits |-> highbit(remaining)]
       ELSE [count |-> (IF all >= threshold THEN all - max ELSE all) - 1, bits |-> highbit(remaining) + 1]

RECURSIVE ReadCounts(_, _, _, _, _, _), AfterRun(_, _, _, _, _, _), AddCount(_, _, _, _, _, _)
AfterRun(mem, at, maxSV1, remaining, counts, run) ==
    IF Len(counts) + run.zeros >= maxSV1 THEN [at |-> at, remaining |-> remaining, counts |-> counts]
    ELSE AddCount(mem, at + run.bits, maxSV1, remaining, counts \o [k \in 1 .. run.zeros |-> 0],
                  CountAt(mem, at + run.bits, remaining))

AddCount(mem, at, maxSV1, remaining, counts, c) ==
    ReadCounts(mem, at + c.bits, maxSV1, remaining - Points(c.count), c.count = 0, Append(counts, c.count))

ReadCounts(mem, at, maxSV1, remaining, previous0, counts) ==
    IF remaining <= 1 \/ Len(counts) >= maxSV1 THEN [at |-> at, remaining |-> remaining, counts |-> counts]
    ELSE AfterRun(mem, at, maxSV1, remaining, counts, ZeroRun(mem, at, previous0))

NCount(mem, tableLog, r) ==
    IF tableLog > FSE_TABLELOG_ABSOLUTE_MAX \/ r.remaining # 1 \/ (r.at + 6) \div 8 > Bytes(mem) THEN ERROR
    ELSE [error |-> FALSE, tableLog |-> tableLog, size |-> (r.at + 6) \div 8,
          norm |-> [s \in 0 .. Len(r.counts) - 1 |-> r.counts[s + 1]]]

FSE_readNCount(mem, maxSymbolValue) ==
    LET tableLog == Number(mem, 1, 4) + FSE_MIN_TABLELOG
    IN NCount(mem, tableLog, ReadCounts(mem, 5, maxSymbolValue + 1, 2 ^ tableLog + 1, FALSE, << >>))

(***************************************************************************)
(* Tables.  The symbols are laid out once for both sides: those of low     *)
(* probability at the top, the others over the rest with a fixed stride.   *)
(***************************************************************************)
FSE_TABLESTEP(tableSize) == tableSize \div 2 + tableSize \div 8 + 3

RECURSIVE InOrder(_, _)
InOrder(norm, s) == IF s < 0 THEN << >> ELSE InOrder(norm, s - 1) \o (IF norm[s] < 1 THEN << >> ELSE [k \in 1 .. norm[s] |-> s])

\* tableSymbol[u] is element u + 1.
SpreadSymbols(norm, tableLog) ==
    LET size == 2 ^ tableLog
        low == SelectSeq([k \in 1 .. MaxSymbol(norm) + 1 |-> MaxSymbol(norm) + 1 - k], LAMBDA s : norm[s] = -1)
        order == InOrder(norm, MaxSymbol(norm))
        visited == SelectSeq([k \in 1 .. size |-> ((k - 1) * FSE_TABLESTEP(size)) % size], LAMBDA p : p < size - Len(low))
        placed == SortSeq([k \in 1 .. Len(visited) |-> << visited[k], order[k] >>], LAMBDA x, y : x[1] < y[1])
    IN [k \in 1 .. Len(placed) |-> placed[k][2]] \o low

SymbolTT(norm, tableLog, s) ==
    LET before == SumUpTo([t \in DOMAIN norm |-> Points(norm[t])], s - 1)
        maxBitsOut == tableLog - highbit(norm[s] - 1)
    IN CASE norm[s] = 0 -> [deltaNbBits |-> (tableLog + 1) * 65536 - 2 ^ tableLog, deltaFindState |-> 0]
         [] norm[s] \in {-1, 1} -> [deltaNbBits |-> tableLog * 65536 - 2 ^ tableLog, deltaFindState |-> before - 1]
         [] OTHER -> [deltaNbBits |-> maxBitsOut * 65536 - norm[s] * 2 ^ maxBitsOut, deltaFindState |-> before - norm[s]]

\* The states in the order of their symbols.
StatesBySymbol(symbols) ==
    SortSeq([k \in 1 .. Len(symbols) |-> k - 1],
            LAMBDA u, v : symbols[u + 1] < symbols[v + 1] \/ (symbols[u + 1] = symbols[v + 1] /\ u < v))

StateTable(states) == [k \in 0 .. Len(states) - 1 |-> Len(states) + states[k + 1]]

FSE_buildCTable_wksp(norm, tableLog) ==
    [tableLog |-> tableLog, maxSymbolValue |-> MaxSymbol(norm),
     stateTable |-> StateTable(StatesBySymbol(SpreadSymbols(norm, tableLog))),
     symbolTT |-> [s \in DOMAIN norm |-> SymbolTT(norm, tableLog, s)]]

FSE_buildCTable_rle(symbol) ==
    [tableLog |-> 0, maxSymbolValue |-> symbol, stateTable |-> [k \in 0 .. 1 |-> 0],
     symbolTT |-> [s \in 0 .. symbol |-> [deltaNbBits |-> 0, deltaFindState |-> 0]]]

\* The decompressor's cell u of a table: how often the symbol came before tells the state.
DCell(norm, tableLog, symbols, u) ==
    LET s == symbols[u + 1]
        nextState == Points(norm[s]) + Len(SelectSeq(SubSeq(symbols, 1, u), LAMBDA t : t = s))
        nbBits == tableLog - highbit(nextState)
    IN [symbol |-> s, nbBits |-> nbBits, newState |-> nextState * 2 ^ nbBits - 2 ^ tableLog]

DCells(norm, tableLog, symbols) == [u \in 0 .. 2 ^ tableLog - 1 |-> DCell(norm, tableLog, symbols, u)]

FSE_buildDTable_internal(norm, tableLog) ==
    [tableLog |-> tableLog, fastMode |-> \A s \in DOMAIN norm : norm[s] < 2 ^ (tableLog - 1),
     cells |-> DCells(norm, tableLog, SpreadSymbols(norm, tableLog))]

(***************************************************************************)
(* States.                                                                 *)
(***************************************************************************)
FSE_initCState2(ct, symbol) ==
    LET tt == ct.symbolTT[symbol]
        nbBitsOut == (tt.deltaNbBits + 32768) \div 65536
        value == nbBitsOut * 65536 - tt.deltaNbBits
    IN ct.stateTable[value \div 2 ^ nbBitsOut + tt.deltaFindState]

NbBitsOut(ct, state, symbol) == (state + ct.symbolTT[symbol].deltaNbBits) \div 65536

\* The bits of a symbol, and the state after it.
FSE_encodeSymbol(ct, state, symbol) ==
    LET n == NbBitsOut(ct, state, symbol)
    IN [bits |-> LE(state, n), state |-> ct.stateTable[state \div 2 ^ n + ct.symbolTT[symbol].deltaFindState]]

FSE_flushCState(ct, state) == LE(state, ct.tableLog)

FSE_initDState(dt, b) == [state |-> BIT_lookBits(b, dt.tableLog), b |-> BIT_skipBits(b, dt.tableLog)]

FSE_decodeSymbol(dt, state, b) ==
    LET cell == dt.cells[state]
    IN [symbol |-> cell.symbol, b |-> BIT_skipBits(b, cell.nbBits),
        state |-> cell.newState + (IF dt.fastMode /\ cell.nbBits = 0 THEN 2 ^ 16 ELSE BIT_lookBits(b, cell.nbBits))]

(***************************************************************************)
(* A stream of symbols, from the last to the first, two states in turn.    *)
(***************************************************************************)
\* c: the symbols left, the state whose turn it is and the other one, the bits so far.
EncodedOne(c, e) == [left |-> c.left - 1, one |-> c.two, two |-> e.state, bits |-> c.bits \o e.bits]

\* At most n more symbols.
RECURSIVE EncodeDown(_, _, _, _)
EncodeDown(ct, src, c, n) ==
    IF c.left = 0 THEN c ELSE IF n = 1 THEN EncodedOne(c, FSE_encodeSymbol(ct, c.one, src[c.left]))
    ELSE EncodeDown(ct, src, EncodeDown(ct, src, c, n \div 2), n - n \div 2)

\* CState1 takes the symbols at odd places from the front, CState2 the others.
FSE_compress_usingCTable(src, ct, capacity) ==
    LET n == Len(src)
        first == [left |-> n - 2, one |-> FSE_initCState2(ct, src[n]), two |-> FSE_initCState2(ct, src[n - 1]), bits |-> << >>]
        e == EncodeDown(ct, src, first, n - 2)
    IN IF n <= 2 \/ ~BIT_initCStream(capacity) THEN << >>
       ELSE BIT_closeCStream(e.bits \o FSE_flushCState(ct, e.one) \o FSE_flushCState(ct, e.two), capacity)

\* c: state one decodes next, state two after it; room: what is left of the destination.
DecodedOne(dt, c, d) ==
    IF c.room < 2 THEN [c EXCEPT !.done = TRUE, !.error = TRUE]
    ELSE IF BIT_overflow(d.b) THEN [c EXCEPT !.done = TRUE, !.out = @ \o << d.symbol, dt.cells[c.two].symbol >>]
    ELSE [c EXCEPT !.one = c.two, !.two = d.state, !.b = d.b, !.room = @ - 1, !.out = Append(@, d.symbol)]

\* At most n more symbols.
RECURSIVE DecodeUp(_, _, _)
DecodeUp(dt, c, n) ==
    IF c.done THEN c ELSE IF n = 1 THEN DecodedOne(dt, c, FSE_decodeSymbol(dt, c.one, c.b))
    ELSE DecodeUp(dt, DecodeUp(dt, c, n \div 2), n - n \div 2)

DecodeFrom(dt, one, two, capacity) ==
    IF BIT_overflow(two.b) THEN ERROR
    ELSE DecodeUp(dt, [done |-> FALSE, error |-> FALSE, one |-> one.state, two |-> two.state, b |-> two.b, room |-> capacity, out |-> << >>],
                  capacity)

SecondState(dt, one, capacity) == DecodeFrom(dt, one, FSE_initDState(dt, one.b), capacity)

FSE_decompress_usingDTable(dt, mem, capacity) ==
    LET b == BIT_initDStream(mem)
    IN IF b.error THEN ERROR ELSE SecondState(dt, FSE_initDState(dt, b), capacity)

DecompressTold(h, mem, capacity, maxLog) ==
    IF h.error THEN ERROR
    ELSE IF h.tableLog > maxLog THEN ERROR
    ELSE FSE_decompress_usingDTable(FSE_buildDTable_internal(h.norm, h.tableLog), From(mem, h.size), capacity)

FSE_decompress_wksp(mem, capacity, maxLog) == DecompressTold(FSE_readNCount(mem, 255), mem, capacity, maxLog)
=============================================================================
