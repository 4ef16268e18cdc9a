----------------------------- MODULE ZstdWindow -----------------------------
(* The window of a compression context (ZSTD_window_t).  It gives every byte  *)
(* of the history an index: the prefix, which ends at nextSrc, holds the      *)
(* indexes from dictLimit on, at address base + index; the segment before it, *)
(* the extDict, holds lowLimit .. dictLimit - 1, at dictBase + index.         *)
(* Addresses are integers.                                                   *)
EXTENDS Integers

CONSTANTS
    HASH_READ_SIZE,    \* a segment shorter than this is not kept
    NoInput,           \* an address far from every input
    ZSTD_CURRENT_MAX   \* an index above it makes all indexes be reduced

ASSUME WindowAssumption == HASH_READ_SIZE \in Nat /\ ZSTD_CURRENT_MAX \in Nat /\ NoInput \in Int

ZSTD_WINDOW_START_INDEX == 2

MaxOf(a, b) == IF a > b THEN a ELSE b

Index(w, addr) == addr - w.base
EndIndex(w) == Index(w, w.nextSrc)

Addr(w, i) == (IF i < w.dictLimit THEN w.dictBase ELSE w.base) + i

\* base is the address of a string constant, where no input is.
ZSTD_window_init ==
    [base |-> NoInput, dictBase |-> NoInput, lowLimit |-> ZSTD_WINDOW_START_INDEX,
     dictLimit |-> ZSTD_WINDOW_START_INDEX, nextSrc |-> NoInput + ZSTD_WINDOW_START_INDEX]

ZSTD_window_clear(w) == [w EXCEPT !.lowLimit = EndIndex(w), !.dictLimit = EndIndex(w)]

\* src follows the last input in memory.
Contiguous(w, src, size, force) == size = 0 \/ (src = w.nextSrc /\ ~force)

\* Mutant: an input over the extDict does not shorten it.
KeepsOverwrittenExtDict(w, src, size, force) ==
    LET end == EndIndex(w)
        low == IF end - w.dictLimit < HASH_READ_SIZE THEN end ELSE w.dictLimit
        moved == IF Contiguous(w, src, size, force) THEN w
                 ELSE [w EXCEPT !.lowLimit = low, !.dictLimit = end, !.dictBase = w.base, !.base = src - end]
    IN IF size = 0 THEN w ELSE [moved EXCEPT !.nextSrc = src + size]

\* The prefix becomes the extDict when the input does not follow it; an input that lies
\* over the extDict leaves only what is behind it.
ZSTD_window_update(w, src, size, force) ==
    LET end == EndIndex(w)
        low == IF end - w.dictLimit < HASH_READ_SIZE THEN end ELSE w.dictLimit
        moved == IF Contiguous(w, src, size, force) THEN w
                 ELSE [w EXCEPT !.lowLimit = low, !.dictLimit = end, !.dictBase = w.base, !.base = src - end]
        high == src + size - moved.dictBase
        overlaps == /\ src + size > moved.dictBase + moved.lowLimit
                    /\ src < moved.dictBase + moved.dictLimit
    IN IF size = 0 THEN w
       ELSE [moved EXCEPT !.nextSrc = src + size,
                          !.lowLimit = IF ~overlaps THEN @
                                       ELSE IF high > moved.dictLimit THEN moved.dictLimit ELSE high]

ZSTD_window_needOverflowCorrection(endIndex) == endIndex > ZSTD_CURRENT_MAX

\* Mutant: the new index has no regard for the cycle of the tables.
ForgetsCycle(curr, cycle, maxDist) == MaxOf(maxDist, cycle) + ZSTD_WINDOW_START_INDEX

\* The index that src gets: its place in a cycle of the tables is kept, and the whole
\* window stays above the indexes with a special meaning.
newCurrent(curr, cycle, maxDist) ==
    LET currentCycle == curr % cycle
    IN currentCycle + MaxOf(maxDist, cycle)
       + IF currentCycle < ZSTD_WINDOW_START_INDEX THEN MaxOf(cycle, ZSTD_WINDOW_START_INDEX) ELSE 0

Correction(curr, cycle, maxDist) == curr - newCurrent(curr, cycle, maxDist)

\* The limits of w with every index reduced.
ZSTD_window_correctOverflow(w, correction) ==
    LET Reduced(i) == IF i < correction + ZSTD_WINDOW_START_INDEX THEN ZSTD_WINDOW_START_INDEX ELSE i - correction
    IN [w EXCEPT !.base = @ + correction, !.dictBase = @ + correction,
                 !.lowLimit = Reduced(@), !.dictLimit = Reduced(@)]

\* The code's assertions about a correction.
CorrectionIsSafe(w, curr, cycle, maxDist) ==
    LET new == newCurrent(curr, cycle, maxDist)
        v == ZSTD_window_correctOverflow(w, curr - new)
    IN /\ curr % cycle = new % cycle /\ curr > new
       /\ new - maxDist >= ZSTD_WINDOW_START_INDEX
       /\ v.lowLimit <= new /\ v.dictLimit <= new

\* An index of a table, reduced; those with a special meaning are kept apart.
ZSTD_reduceTable(i, correction) == IF i < correction + ZSTD_WINDOW_START_INDEX THEN 0 ELSE i - correction

OutOfReach(endIndex, maxDist, loadedDictEnd) == endIndex > maxDist + loadedDictEnd

ZSTD_window_enforceMaxDist(w, endIndex, maxDist, loadedDictEnd) ==
    LET low == MaxOf(w.lowLimit, endIndex - maxDist)
    IN IF OutOfReach(endIndex, maxDist, loadedDictEnd)
       THEN [w EXCEPT !.lowLimit = low, !.dictLimit = MaxOf(@, low)] ELSE w

\* Mutant: a dictionary stays valid when the input is not contiguous with it.
ValidWhileInReach(w, endIndex, maxDist, loadedDictEnd) == ~OutOfReach(endIndex, maxDist, loadedDictEnd)

ZSTD_checkDictValidity(w, endIndex, maxDist, loadedDictEnd) ==
    ~(OutOfReach(endIndex, maxDist, loadedDictEnd) \/ loadedDictEnd # w.dictLimit)
=============================================================================
