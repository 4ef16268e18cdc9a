------------------------------ MODULE ZstdFast ------------------------------
(* compress/zstd_fast.c: the fast match finder, one hash table, in its three *)
(* forms: noDict and extDict, which look at two positions per turn of a      *)
(* pipeline ip0, ip1, ip2, ip3, and dictMatchState, with an attached         *)
(* dictionary that has a hash table of tagged entries of its own.            *)
(*                                                                           *)
(* pc "start" is the label _start, "first" and "second" the two halves of    *)
(* the loop's body, "immediate" the check for a repeated offset right after  *)
(* a match, "cleanup" the label _cleanup.                                    *)
EXTENDS MatchState

CONSTANTS FastMls, Tags   \* minMatch; values of a tag, 1 << ZSTD_SHORT_CACHE_TAG_BITS

hash(i) == ZSTD_hashPtr(i, FastMls)

(***************************************************************************)
(* Loading a dictionary, every third position of [from, end).              *)
(***************************************************************************)
FillPositions(from, end) ==
    [k \in 1 .. (IF end - HASH_READ_SIZE + 1 < from + 3 THEN 0
                 ELSE (end - HASH_READ_SIZE + 1 - from) \div 3) |-> from + 3 * (k - 1)]

\* Into the table of a context.
ZSTD_fillHashTableForCCtx(table, data, from, end) ==
    FoldLeft(LAMBDA t, p : [t EXCEPT ![HashOf(SubSeq(data, p, p + FastMls - 1), HashSize)] = p],
             table, FillPositions(from, end))

\* Into the table of a dictionary: tagged, and with the positions between where their
\* entry is still empty.
ZSTD_fillHashTableForCDict(table, data, from, end) ==
    LET Tagged(p) == HashOf(SubSeq(data, p, p + FastMls - 1), HashSize * Tags)
        Write(t, p) == [t EXCEPT ![Tagged(p) \div Tags] = << p, Tagged(p) % Tags >>]
        IfEmpty(t, p) == IF t[Tagged(p) \div Tags] = << 0, 0 >> THEN Write(t, p) ELSE t
    IN FoldLeft(LAMBDA t, p : IfEmpty(IfEmpty(Write(t, p), p + 1), p + 2),
                table, FillPositions(from, end))

(***************************************************************************)
(* noDict: every match comes from the prefix.                              *)
(***************************************************************************)
prefixStartIndex == ZSTD_getLowestPrefixIndex(m.iend)

\* An entry of the table is a match: in range, and its four bytes agree.
matchFound(ip, idx) == idx >= prefixStartIndex /\ SameWord(ip, idx)

\* Repeated offsets that reach below the window are put aside for the block.
NoDictEnter ==
    LET ip == IF m.istart = prefixStartIndex THEN m.istart + 1 ELSE m.istart
        maxRep == ip - ZSTD_getLowestPrefixIndex(ip)
        Put(o) == o > maxRep
    IN /\ m.who = "fast_noDict" /\ m.pc = "enter"
       /\ m' = [m EXCEPT !.pc = "start", !.ip0 = ip,
                         !.o1 = IF Put(m.rep[1]) THEN 0 ELSE m.rep[1],
                         !.o2 = IF Put(m.rep[2]) THEN 0 ELSE m.rep[2],
                         !.s1 = IF Put(m.rep[1]) THEN m.rep[1] ELSE 0,
                         !.s2 = IF Put(m.rep[2]) THEN m.rep[2] ELSE 0]

\* _start: four positions, or no room for them.
FastStart ==
    /\ m.who \in {"fast_noDict", "fast_extDict"} /\ m.pc = "start"
    /\ m' = IF m.ip0 + m.stepSize + 1 >= ilimit THEN [m EXCEPT !.pc = "cleanup"]
            ELSE [m EXCEPT !.pc = "first", !.step = m.stepSize, !.nextStep = m.ip0 + StepIncr,
                           !.ip1 = m.ip0 + 1, !.ip2 = m.ip0 + m.stepSize,
                           !.ip3 = m.ip0 + m.stepSize + 1, !.idx = m.ht[hash(m.ip0)]]

\* _match: store the sequence, then the two entries written after every match.
StoreMatch(table, ip, match, offBase, mLength, cur0, o1, o2) ==
    LET n == mLength + ZSTD_count_2segments(ip + mLength, InDict(match), match + mLength)
        next == ip + n
        two == [[table EXCEPT ![hash(cur0 + 2)] = cur0 + 2] EXCEPT ![hash(next - 2)] = next - 2]
    IN [m EXCEPT !.seqs = ZSTD_storeSeq(@, m.anchor, ip - m.anchor, offBase, n),
                 !.ip0 = next, !.anchor = next, !.o1 = o1, !.o2 = o2,
                 !.ht = IF next <= ilimit THEN two ELSE table,
                 !.pc = IF next <= ilimit THEN "immediate" ELSE "start"]

\* _offset: the entry idx of the table matches at ip.
FoundOffset(table, ip, idx, low) ==
    LET back == CatchUp(ip, m.anchor, idx, low)
    IN StoreMatch(table, ip - back, idx - back, OFFSET_TO_OFFBASE(ip - idx), Word + back,
                  ip, ip - idx, m.o1)

\* First half: the repeated offset is tried at ip2, the table's entry at ip0.
NoDictFirst ==
    LET table == [m.ht EXCEPT ![hash(m.ip0)] = m.ip0]
        both == [table EXCEPT ![hash(m.ip1)] = m.ip1]
        rep == m.ip2 - m.o1
        back == IF Byte(FALSE, m.ip2 - 1) = Byte(FALSE, rep - 1) THEN 1 ELSE 0
    IN /\ m.who = "fast_noDict" /\ m.pc = "first"
       /\ m' = IF m.o1 > 0 /\ SameWord(m.ip2, rep)
               THEN StoreMatch(both, m.ip2 - back, rep - back, 1, Word + back, m.ip0, m.o1, m.o2)
               ELSE IF matchFound(m.ip0, m.idx)
               THEN FoundOffset(both, m.ip0, m.idx, prefixStartIndex)
               ELSE [m EXCEPT !.pc = "second", !.ht = table, !.idx = table[hash(m.ip1)],
                              !.ip0 = m.ip1, !.ip1 = m.ip2, !.ip2 = m.ip3]

\* Both forms end a turn alike: advance, lengthen the step, go round while ip3 fits.
NextTurn(table) ==
    LET ip2 == m.ip1 + m.step
        longer == ip2 >= m.nextStep
        ip3 == m.ip2 + m.step
    IN [m EXCEPT !.ht = table, !.idx = table[hash(m.ip1)],
                 !.ip0 = m.ip1, !.ip1 = m.ip2, !.ip2 = ip2, !.ip3 = ip3,
                 !.step = IF longer THEN @ + 1 ELSE @,
                 !.nextStep = IF longer THEN @ + StepIncr ELSE @,
                 !.pc = IF ip3 < ilimit THEN "first" ELSE "cleanup"]

\* Second half: the entry at the position that was ip1.  Its successor is entered only
\* when it lies before the place where the search resumes.
NoDictSecond ==
    LET table == [m.ht EXCEPT ![hash(m.ip0)] = m.ip0]
        both == IF m.step <= Word THEN [table EXCEPT ![hash(m.ip1)] = m.ip1] ELSE table
    IN /\ m.who = "fast_noDict" /\ m.pc = "second"
       /\ m' = IF matchFound(m.ip0, m.idx) THEN FoundOffset(both, m.ip0, m.idx, prefixStartIndex)
               ELSE NextTurn(table)

\* A repeated offset at once after a match: the second one, which becomes the first.
SwapRep(rep) ==
    LET n == Word + ZSTD_count_2segments(m.ip0 + Word, InDict(rep), rep + Word)
    IN [m EXCEPT !.seqs = ZSTD_storeSeq(@, m.anchor, 0, 1, n), !.o1 = m.o2, !.o2 = m.o1,
                 !.ht = [@ EXCEPT ![hash(m.ip0)] = m.ip0], !.ip0 = @ + n, !.anchor = m.ip0 + n]

NoDictImmediate ==
    /\ m.who = "fast_noDict" /\ m.pc = "immediate"
    /\ m' = IF m.o2 > 0 /\ m.ip0 <= ilimit /\ SameWord(m.ip0, m.ip0 - m.o2)
            THEN SwapRep(m.ip0 - m.o2) ELSE [m EXCEPT !.pc = "start"]

\* _cleanup: the offsets put aside come back into the history.
FastCleanup ==
    LET s2 == IF m.s1 # 0 /\ m.o1 # 0 THEN m.s1 ELSE m.s2
    IN /\ m.who \in {"fast_noDict", "fast_extDict"} /\ m.pc = "cleanup"
       /\ m' = [m EXCEPT !.pc = "done", !.repOut = << IF m.o1 # 0 THEN m.o1 ELSE m.s1,
                                                      IF m.o2 # 0 THEN m.o2 ELSE s2 >>]

(***************************************************************************)
(* extDict: the older half of the history is a segment of its own.         *)
(***************************************************************************)
dictStartIndex == ZSTD_getLowestMatchIndex(m.iend)

ExtDictEnter ==
    LET Put(o) == o >= m.istart - dictStartIndex
    IN /\ m.who = "fast_extDict" /\ m.pc = "enter"
       /\ m' = IF dictStartIndex >= m.dictLimit THEN [m EXCEPT !.who = "fast_noDict"]
               ELSE [m EXCEPT !.pc = "start", !.ip0 = m.istart,
                              !.o1 = IF Put(m.rep[1]) THEN 0 ELSE m.rep[1],
                              !.o2 = IF Put(m.rep[2]) THEN 0 ELSE m.rep[2],
                              !.s1 = IF Put(m.rep[1]) THEN m.rep[1] ELSE 0,
                              !.s2 = IF Put(m.rep[2]) THEN m.rep[2] ELSE 0]

\* The unsigned difference dictLimit - rep is at least 4: rep is in the prefix (the
\* difference wraps) or far enough from the end of the dictionary.
FarFromEnd(rep) == m.dictLimit - rep >= Word \/ rep > m.dictLimit

LowMatch(idx) == IF InDict(idx) THEN dictStartIndex ELSE m.dictLimit

\* The entry of ip1 is written after a match that goes past it.
WithNext(table, ipEnd) == IF m.ip1 < ipEnd THEN [table EXCEPT ![hash(m.ip1)] = m.ip1] ELSE table

ExtDictFirst ==
    LET table == [m.ht EXCEPT ![hash(m.ip0)] = m.ip0]
        rep == m.ip2 - m.o1
        back == IF Byte(FALSE, m.ip2 - 1) = Byte(InDict(rep), rep - 1) THEN 1 ELSE 0
        StoreRep(t) == StoreMatch(t, m.ip2 - back, rep - back, 1, Word + back, m.ip0, m.o1, m.o2)
        StoreIdx(t) == FoundOffset(t, m.ip0, m.idx, LowMatch(m.idx))
    IN /\ m.who = "fast_extDict" /\ m.pc = "first"
       /\ m' = IF m.o1 > 0 /\ FarFromEnd(rep) /\ SameWord(m.ip2, rep)
               THEN StoreRep(WithNext(table, StoreRep(table).ip0))
               ELSE IF m.idx >= dictStartIndex /\ SameWord(m.ip0, m.idx)
               THEN StoreIdx(WithNext(table, StoreIdx(table).ip0))
               ELSE [m EXCEPT !.pc = "second", !.ht = table, !.idx = table[hash(m.ip1)],
                              !.ip0 = m.ip1, !.ip1 = m.ip2, !.ip2 = m.ip3]

ExtDictSecond ==
    LET table == [m.ht EXCEPT ![hash(m.ip0)] = m.ip0]
        StoreIdx(t) == FoundOffset(t, m.ip0, m.idx, LowMatch(m.idx))
    IN /\ m.who = "fast_extDict" /\ m.pc = "second"
       /\ m' = IF m.idx >= dictStartIndex /\ SameWord(m.ip0, m.idx)
               THEN StoreIdx(WithNext(table, StoreIdx(table).ip0)) ELSE NextTurn(table)

ExtDictImmediate ==
    LET rep == m.ip0 - m.o2
    IN /\ m.who = "fast_extDict" /\ m.pc = "immediate"
       /\ m' = IF m.ip0 <= ilimit /\ m.o2 > 0 /\ ZSTD_index_overlap_check(rep) /\ SameWord(m.ip0, rep)
               THEN SwapRep(rep) ELSE [m EXCEPT !.pc = "start"]

(***************************************************************************)
(* dictMatchState: one position at a time; ip0, then ip1 = ip0 + step.     *)
(***************************************************************************)
DmsEnter ==
    /\ m.who = "fast_dms" /\ m.pc = "enter"
    /\ m' = [m EXCEPT !.pc = "outer", !.o1 = m.rep[1], !.o2 = m.rep[2],
                      !.ip0 = IF m.istart = m.dictLow THEN m.istart + 1 ELSE m.istart,
                      !.ip1 = m.istart + m.stepSize]

DmsOuter ==
    /\ m.who = "fast_dms" /\ m.pc = "outer"
    /\ m' = IF m.ip1 > ilimit THEN [m EXCEPT !.pc = "done", !.repOut = << m.o1, m.o2 >>]
            ELSE [m EXCEPT !.pc = "inner", !.step = m.stepSize, !.nextStep = m.ip0 + StepIncr,
                           !.idx = m.ht[hash(m.ip0)]]

\* The dictionary's entry for the bytes at ip: an index of this window when the tag agrees.
DictEntry(ip) ==
    LET ht == HashOf(MEM_read(ip, FastMls), HashSize * Tags)
        e == m.dictHt[ht \div Tags]
    IN IF e[2] = ht % Tags /\ e[1] > m.dictStart THEN e[1] + m.dictIndexDelta ELSE 0

DmsInner ==
    LET table == [m.ht EXCEPT ![hash(m.ip0)] = m.ip0]
        rep == m.ip0 + 1 - m.o1
        dict == DictEntry(m.ip0)
        longer == m.ip1 >= m.nextStep
        step == IF longer THEN m.step + 1 ELSE m.step
    IN /\ m.who = "fast_dms" /\ m.pc = "inner"
       /\ m' = IF ZSTD_index_overlap_check(rep) /\ SameWord(rep, m.ip0 + 1)
               THEN StoreMatch(table, m.ip0 + 1, rep, 1, Word, m.ip0, m.o1, m.o2)
               ELSE IF dict # 0 /\ SameWord(dict, m.ip0) /\ m.idx <= m.dictLimit
               THEN FoundOffset(table, m.ip0, dict, m.dictLow)
               ELSE IF m.idx >= m.dictLimit /\ SameWord(m.ip0, m.idx)
               THEN FoundOffset(table, m.ip0, m.idx, m.dictLimit)
               ELSE [m EXCEPT !.ht = table, !.idx = table[hash(m.ip1)], !.step = step,
                              !.nextStep = IF longer THEN @ + StepIncr ELSE @,
                              !.ip0 = m.ip1, !.ip1 = @ + step,
                              !.pc = IF m.ip1 + step > ilimit THEN "outer" ELSE "inner"]

\* After a match the search goes on stepSize further.
DmsImmediate ==
    LET rep == m.ip0 - m.o2
    IN /\ m.who = "fast_dms" /\ m.pc \in {"immediate", "start"}
       /\ m' = IF m.pc = "immediate" /\ m.ip0 <= ilimit
                  /\ ZSTD_index_overlap_check(rep) /\ SameWord(rep, m.ip0)
               THEN SwapRep(rep) ELSE [m EXCEPT !.pc = "outer", !.ip1 = m.ip0 + m.stepSize]

FastNext ==
    \/ NoDictEnter \/ FastStart \/ NoDictFirst \/ NoDictSecond \/ NoDictImmediate \/ FastCleanup
    \/ ExtDictEnter \/ ExtDictFirst \/ ExtDictSecond \/ ExtDictImmediate
    \/ DmsEnter \/ DmsOuter \/ DmsInner \/ DmsImmediate
=============================================================================
