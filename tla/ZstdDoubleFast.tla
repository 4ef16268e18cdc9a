--------------------------- MODULE ZstdDoubleFast ---------------------------
(* compress/zstd_double_fast.c: two hash tables, m.hl over long words of      *)
(* HASH_READ_SIZE bytes and m.hs over minMatch bytes.  A short match is kept   *)
(* only if the next position has no long one.                                *)
EXTENDS MatchState

CONSTANTS DMls, DTags    \* minMatch; values of a tag of the dictionary's tables

long(i) == ZSTD_hashPtr(i, HASH_READ_SIZE)
small(i) == ZSTD_hashPtr(i, DMls)
SameLong(i, j) == MEM_read(i, HASH_READ_SIZE) = MEM_read(j, HASH_READ_SIZE)

(***************************************************************************)
(* Loading a dictionary: every third position goes into both tables; in    *)
(* full mode those between go into the long table where it is empty.       *)
(***************************************************************************)
DoubleFillPositions(from, end) ==
    [k \in 1 .. (IF end - HASH_READ_SIZE < from + 2 THEN 0
                 ELSE (end - HASH_READ_SIZE - from + 1) \div 3) |-> from + 3 * (k - 1)]

\* Context tables, loaded in fast mode.
ZSTD_fillDoubleHashTableForCCtx(tables, data, from, end) ==
    LET H(p, n) == HashOf(SubSeq(data, p, p + n - 1), HashSize)
    IN FoldLeft(LAMBDA t, p : [l |-> [t.l EXCEPT ![H(p, HASH_READ_SIZE)] = p],
                               s |-> [t.s EXCEPT ![H(p, DMls)] = p]],
                tables, DoubleFillPositions(from, end))

\* Dictionary tables, loaded in full mode, with tags.
ZSTD_fillDoubleHashTableForCDict(tables, data, from, end) ==
    LET H(p, n) == HashOf(SubSeq(data, p, p + n - 1), HashSize * DTags)
        Put(t, p, n) == [t EXCEPT ![H(p, n) \div DTags] = << p, H(p, n) % DTags >>]
        IfEmpty(t, p) == IF t[H(p, HASH_READ_SIZE) \div DTags] = << 0, 0 >>
                         THEN Put(t, p, HASH_READ_SIZE) ELSE t
    IN FoldLeft(LAMBDA t, p : [l |-> IfEmpty(IfEmpty(Put(t.l, p, HASH_READ_SIZE), p + 1), p + 2),
                               s |-> Put(t.s, p, DMls)],
                tables, DoubleFillPositions(from, end))

(***************************************************************************)
(* What the three forms share: a sequence is stored, the positions around  *)
(* it are entered, and the second repeated offset is tried at once.        *)
(***************************************************************************)
DStored(hl, hs, ip, mLength, offBase, curr, o1, o2) ==
    LET next == ip + mLength
        l == [[hl EXCEPT ![long(curr + 2)] = curr + 2] EXCEPT ![long(next - 2)] = next - 2]
        s == [[hs EXCEPT ![small(curr + 2)] = curr + 2] EXCEPT ![small(next - 1)] = next - 1]
        more == next <= ilimit
    IN [m EXCEPT !.seqs = ZSTD_storeSeq(@, m.anchor, ip - m.anchor, offBase, mLength),
                 !.ip0 = next, !.anchor = next, !.o1 = o1, !.o2 = o2,
                 !.hl = IF more THEN l ELSE hl, !.hs = IF more THEN s ELSE hs,
                 !.pc = IF more THEN "immediate" ELSE "outer"]

\* A match of at least n bytes at ip with the position match, above low.
DFound(hl, hs, ip, match, n, low, curr) ==
    LET back == CatchUp(ip, m.anchor, match, low)
        len == n + ZSTD_count_2segments(ip + n, InDict(match), match + n)
    IN DStored(hl, hs, ip - back, len + back, OFFSET_TO_OFFBASE(ip - match), curr, ip - match, m.o1)

DRepStored(hl, hs, rep) ==
    DStored(hl, hs, m.ip0 + 1, Word + ZSTD_count_2segments(m.ip0 + 1 + Word, InDict(rep), rep + Word),
            1, m.ip0, m.o1, m.o2)

\* The immediate repeated offset; Usable says which reads are allowed.
DImmediate(Usable(_)) ==
    LET rep == m.ip0 - m.o2
        n == Word + ZSTD_count_2segments(m.ip0 + Word, InDict(rep), rep + Word)
    IN IF m.ip0 <= ilimit /\ Usable(rep) /\ SameWord(m.ip0, rep)
       THEN [m EXCEPT !.seqs = ZSTD_storeSeq(@, m.anchor, 0, 1, n), !.o1 = m.o2, !.o2 = m.o1,
                      !.hs = [@ EXCEPT ![small(m.ip0)] = m.ip0],
                      !.hl = [@ EXCEPT ![long(m.ip0)] = m.ip0],
                      !.ip0 = @ + n, !.anchor = m.ip0 + n]
       ELSE [m EXCEPT !.pc = "outer"]

LowOf(match, dictLow, low) == IF InDict(match) THEN dictLow ELSE low

(***************************************************************************)
(* noDict.                                                                 *)
(***************************************************************************)
prefixLowestIndex == ZSTD_getLowestPrefixIndex(m.iend)

DNoDictEnter ==
    LET ip == IF m.istart = prefixLowestIndex THEN m.istart + 1 ELSE m.istart
        maxRep == ip - ZSTD_getLowestPrefixIndex(ip)
        Keep(o) == IF o > maxRep THEN 0 ELSE o
        Save(o) == IF o > maxRep THEN o ELSE 0
    IN /\ m.who = "dfast_noDict" /\ m.pc = "enter"
       /\ m' = [m EXCEPT !.pc = "outer", !.ip0 = ip, !.o1 = Keep(m.rep[1]), !.o2 = Keep(m.rep[2]),
                         !.s1 = Save(m.rep[1]), !.s2 = Save(m.rep[2])]

DNoDictOuter ==
    /\ m.who = "dfast_noDict" /\ m.pc = "outer"
    /\ m' = IF m.ip0 + 1 > ilimit THEN [m EXCEPT !.pc = "cleanup"]
            ELSE [m EXCEPT !.pc = "inner", !.step = 1, !.nextStep = m.ip0 + StepIncr,
                           !.ip1 = m.ip0 + 1, !.idx = m.hl[long(m.ip0)]]

\* One position: repeated offset at ip + 1, long match, short match (and then the long
\* match at ip1 if it is longer), or on to ip1.
DNoDictInner ==
    LET ip == m.ip0
        hs == [m.hs EXCEPT ![small(ip)] = ip]
        hl == [m.hl EXCEPT ![long(ip)] = ip]
        withNext == IF m.step < Word THEN [hl EXCEPT ![long(m.ip1)] = m.ip1] ELSE hl
        rep == ip + 1 - m.o1
        idxs == m.hs[small(ip)]
        idxl1 == hl[long(m.ip1)]
        shortLen == Word + ZSTD_count(ip + Word, FALSE, idxs + Word, m.iend)
        longLen == HASH_READ_SIZE
                   + ZSTD_count(m.ip1 + HASH_READ_SIZE, FALSE, idxl1 + HASH_READ_SIZE, m.iend)
        useLong == idxl1 > prefixLowestIndex /\ SameLong(idxl1, m.ip1) /\ longLen > shortLen
        longer == m.ip1 >= m.nextStep
        step == IF longer THEN m.step + 1 ELSE m.step
    IN /\ m.who = "dfast_noDict" /\ m.pc = "inner"
       /\ m' = IF m.o1 > 0 /\ SameWord(rep, ip + 1) THEN DRepStored(hl, hs, rep)
               ELSE IF m.idx >= prefixLowestIndex /\ SameLong(m.idx, ip)
               THEN DFound(withNext, hs, ip, m.idx, HASH_READ_SIZE, prefixLowestIndex, ip)
               ELSE IF idxs >= prefixLowestIndex /\ SameWord(idxs, ip)
               THEN IF useLong THEN DFound(withNext, hs, m.ip1, idxl1, HASH_READ_SIZE, prefixLowestIndex, ip)
                    ELSE DFound(withNext, hs, ip, idxs, Word, prefixLowestIndex, ip)
               ELSE [m EXCEPT !.hl = hl, !.hs = hs, !.idx = idxl1, !.ip0 = m.ip1, !.ip1 = @ + step,
                              !.step = step, !.nextStep = IF longer THEN @ + StepIncr ELSE @,
                              !.pc = IF m.ip1 + step <= ilimit THEN "inner" ELSE "cleanup"]

DNoDictImmediate ==
    /\ m.who = "dfast_noDict" /\ m.pc = "immediate"
    /\ m' = DImmediate(LAMBDA rep : m.o2 > 0)

\* _cleanup of noDict; the other forms keep their offsets as they are.
DCleanup ==
    LET s2 == IF m.s1 # 0 /\ m.o1 # 0 THEN m.s1 ELSE m.s2
    IN /\ m.who \in {"dfast_noDict", "dfast_dms", "dfast_extDict"} /\ m.pc = "cleanup"
       /\ m' = [m EXCEPT !.pc = "done", !.repOut = << IF m.o1 # 0 THEN m.o1 ELSE m.s1,
                                                      IF m.o2 # 0 THEN m.o2 ELSE s2 >>]

(***************************************************************************)
(* dictMatchState.                                                         *)
(***************************************************************************)
DTagged(table, ip, n) ==
    LET h == HashOf(MEM_read(ip, n), HashSize * DTags)
        e == table[h \div DTags]
    IN IF e[2] = h % DTags /\ e[1] > m.dictStart THEN e[1] + m.dictIndexDelta ELSE 0

DDmsEnter ==
    /\ m.who = "dfast_dms" /\ m.pc = "enter"
    /\ m' = [m EXCEPT !.pc = "outer", !.o1 = m.rep[1], !.o2 = m.rep[2],
                      !.ip0 = IF m.istart = m.dictLow THEN m.istart + 1 ELSE m.istart]

\* Past a position without a match: one more for every StepIncr bytes since the anchor.
Skip(hl, hs) == [m EXCEPT !.hl = hl, !.hs = hs, !.ip0 = @ + 1 + (@ - m.anchor) \div StepIncr]

DDmsSearch ==
    LET ip == m.ip0
        hl == [m.hl EXCEPT ![long(ip)] = ip]
        hs == [m.hs EXCEPT ![small(ip)] = ip]
        hl3 == [hl EXCEPT ![long(ip + 1)] = ip + 1]
        rep == ip + 1 - m.o1
        L == m.hl[long(ip)]
        dL == DTagged(m.dictHl, ip, HASH_READ_SIZE)
        S == m.hs[small(ip)]
        dS == DTagged(m.dictHs, ip, DMls)
        short == IF S > prefixLowestIndex THEN S ELSE dS
        L3 == hl[long(ip + 1)]
        dL3 == DTagged(m.dictHl, ip + 1, HASH_READ_SIZE)
        Low(x) == LowOf(x, m.dictLow, prefixLowestIndex)
    IN /\ m.who = "dfast_dms" /\ m.pc = "outer"
       /\ m' = IF ip >= ilimit THEN [m EXCEPT !.pc = "cleanup"]
               ELSE IF ZSTD_index_overlap_check(rep) /\ SameWord(rep, ip + 1) THEN DRepStored(hl, hs, rep)
               ELSE IF L >= prefixLowestIndex /\ SameLong(L, ip)
               THEN DFound(hl, hs, ip, L, HASH_READ_SIZE, Low(L), ip)
               ELSE IF dL # 0 /\ SameLong(dL, ip)
               THEN DFound(hl, hs, ip, dL, HASH_READ_SIZE, Low(dL), ip)
               ELSE IF short = 0 \/ ~SameWord(short, ip) THEN Skip(hl, hs)
               ELSE IF L3 >= prefixLowestIndex /\ SameLong(L3, ip + 1)
               THEN DFound(hl3, hs, ip + 1, L3, HASH_READ_SIZE, Low(L3), ip)
               ELSE IF dL3 # 0 /\ SameLong(dL3, ip + 1)
               THEN DFound(hl3, hs, ip + 1, dL3, HASH_READ_SIZE, Low(dL3), ip)
               ELSE DFound(hl3, hs, ip, short, Word, Low(short), ip)

DDmsImmediate ==
    /\ m.who = "dfast_dms" /\ m.pc = "immediate"
    /\ m' = DImmediate(ZSTD_index_overlap_check)

(***************************************************************************)
(* extDict.                                                                *)
(***************************************************************************)
DLowest == ZSTD_getLowestMatchIndex(m.iend)

DExtDictEnter ==
    /\ m.who = "dfast_extDict" /\ m.pc = "enter"
    /\ m' = IF DLowest >= m.dictLimit THEN [m EXCEPT !.who = "dfast_noDict"]
            ELSE [m EXCEPT !.pc = "outer", !.ip0 = m.istart, !.o1 = m.rep[1], !.o2 = m.rep[2]]

DExtDictSearch ==
    LET ip == m.ip0
        hl == [m.hl EXCEPT ![long(ip)] = ip]
        hs == [m.hs EXCEPT ![small(ip)] = ip]
        hl3 == [hl EXCEPT ![long(ip + 1)] = ip + 1]
        rep == ip + 1 - m.o1
        L == m.hl[long(ip)]
        S == m.hs[small(ip)]
        L3 == hl[long(ip + 1)]
        Low(x) == LowOf(x, DLowest, m.dictLimit)
    IN /\ m.who = "dfast_extDict" /\ m.pc = "outer"
       /\ m' = IF ip >= ilimit THEN [m EXCEPT !.pc = "cleanup"]
               ELSE IF /\ ZSTD_index_overlap_check(rep) /\ m.o1 <= ip + 1 - DLowest
                       /\ SameWord(rep, ip + 1) THEN DRepStored(hl, hs, rep)
               ELSE IF L > DLowest /\ SameLong(L, ip) THEN DFound(hl, hs, ip, L, HASH_READ_SIZE, Low(L), ip)
               ELSE IF ~(S > DLowest /\ SameWord(S, ip)) THEN Skip(hl, hs)
               ELSE IF L3 > DLowest /\ SameLong(L3, ip + 1)
               THEN DFound(hl3, hs, ip + 1, L3, HASH_READ_SIZE, Low(L3), ip)
               ELSE DFound(hl3, hs, ip, S, Word, Low(S), ip)

DExtDictImmediate ==
    /\ m.who = "dfast_extDict" /\ m.pc = "immediate"
    /\ m' = DImmediate(LAMBDA rep : ZSTD_index_overlap_check(rep) /\ m.o2 <= m.ip0 - DLowest)

DoubleFastNext ==
    \/ DNoDictEnter \/ DNoDictOuter \/ DNoDictInner \/ DNoDictImmediate \/ DCleanup
    \/ DDmsEnter \/ DDmsSearch \/ DDmsImmediate
    \/ DExtDictEnter \/ DExtDictSearch \/ DExtDictImmediate
=============================================================================
