------------------------------ MODULE ZstdLazy ------------------------------
(* compress/zstd_lazy.c, the parsers: greedy (depth 0), lazy (1) and lazy2    *)
(* (2), with any of the searches and in all four dictionary modes.  A match    *)
(* is given up when one or two positions later there is a better one.        *)
(*                                                                           *)
(* pc "depth0", "depth1", "depth2" are the searches at ip, "store" the label *)
(* _storeSequence with the catch up before it.  m.cur is the match in hand:  *)
(* start, ml, ob.                                                            *)
EXTENDS LazySearch

CONSTANTS SearchStrength,   \* 1 << kSearchStrength
          LazySkippingStep  \* kLazySkippingStep

isDxS == m.mode \in {"dms", "dds"}

\* The last bytes of a block are not searched; rows look CacheSize positions ahead.
lazyLimit == m.iend - HASH_READ_SIZE - (IF m.search = "row" THEN CacheSize ELSE 0)

ZSTD_searchMax(ip) ==
    CASE m.search = "hc" -> ZSTD_HcFindBestMatch(ip)
      [] m.search = "row" -> ZSTD_RowFindBestMatch(ip)
      [] m.search = "bt" -> ZSTD_BtFindBestMatch(ip)

\* Is there a match with the repeated offset at ip, and how long is it?
RepMatches(ip, offset) ==
    LET rep == ip - offset
    IN /\ m.mode = "noDict" => offset > 0
       /\ m.mode # "noDict" => ZSTD_index_overlap_check(rep)
       /\ m.mode = "extDict" => offset <= ip - ZSTD_getLowestMatchIndex(ip)
       /\ SameWord(rep, ip)

RepLength(ip, offset) ==
    IF RepMatches(ip, offset)
    THEN Word + ZSTD_count_2segments(ip + Word, InDict(ip - offset), ip - offset + Word) ELSE 0

RefilledCache(cache) ==
    IF m.search = "row" THEN ZSTD_row_fillHashCache(cache, m.next, lazyLimit) ELSE cache

\* Without a dictionary, offsets that reach below the window are put aside.  With an
\* attached one they must not: the test for a repeated offset does not know zero.
LazyEnter ==
    LET first == IF m.mode = "extDict" THEN m.istart = m.dictLimit
                 ELSE m.istart = m.dictLimit /\ (isDxS => m.dictLow = m.dictLimit)
        ip == IF first THEN m.istart + 1 ELSE m.istart
        maxRep == ip - ZSTD_getLowestPrefixIndex(ip)
        Put2(o) == m.mode = "noDict" /\ o > maxRep
    IN /\ m.who = "lazy" /\ m.pc = "enter"
       /\ m' = [m EXCEPT !.pc = "depth0", !.ip0 = ip, !.skipping = FALSE,
                         !.cache = RefilledCache(@),
                         !.asserts = @ /\ (isDxS => /\ m.rep[1] <= m.istart - m.dictLow
                                                    /\ m.rep[2] <= m.istart - m.dictLow),
                         !.o1 = IF Put2(m.rep[1]) THEN 0 ELSE m.rep[1],
                         !.o2 = IF Put2(m.rep[2]) THEN 0 ELSE m.rep[2],
                         !.s1 = IF Put2(m.rep[1]) THEN m.rep[1] ELSE 0,
                         !.s2 = IF Put2(m.rep[2]) THEN m.rep[2] ELSE 0]

\* Mutant: no step right after a match.
NoFirstStep(ip) == (ip - m.anchor) \div SearchStrength

LazyStep(ip) == (ip - m.anchor) \div SearchStrength + 1

\* The repeated offset at ip + 1, then the search at ip.  Nothing found: step on, the
\* faster the longer it lasts.
LazyDepth0 ==
    LET ip == m.ip0
        Found(s) == [start |-> ip, ml |-> s.found.ml, ob |-> s.found.ob]
        Go(s, cur, step) ==
            IF cur.ml < Word
            THEN [s EXCEPT !.ip0 = ip + step,
                           !.skipping = step - (IF m.mode = "extDict" THEN 1 ELSE 0) > LazySkippingStep]
            ELSE [s EXCEPT !.cur = cur, !.pc = IF m.depth >= 1 THEN "depth1" ELSE "store"]
        Searched(s, rep) == Go(s, IF s.found.ml > rep.ml THEN Found(s) ELSE rep, LazyStep(ip))
    IN /\ m.who = "lazy" /\ m.pc = "depth0" /\ ip < lazyLimit
       /\ \E rep \in {[start |-> ip + 1, ml |-> RepLength(ip + 1, m.o1), ob |-> 1]} :
             m' = IF m.depth = 0 /\ rep.ml > 0 THEN [m EXCEPT !.cur = rep, !.pc = "store"]
                  ELSE Searched(ZSTD_searchMax(ip), rep)

\* The gain of a match: its length against the bits of its offset.
Gain(ml, ob, weight) == ml * weight - ZSTD_highbit32(ob)

\* A repeated offset at ip that beats the match in hand.
TryRep(cur, ip, weight) ==
    LET ml == RepLength(ip, m.o1)
    IN IF ml >= Word /\ ml * weight > Gain(cur.ml, cur.ob, weight) + 1
       THEN [start |-> ip, ml |-> ml, ob |-> 1] ELSE cur

\* A match found at ip that beats cur by the margin.
Beats(found, cur, margin) ==
    found.ml >= Word /\ Gain(found.ml, found.ob, 4) > Gain(cur.ml, cur.ob, 4) + margin

LazyDeeper(pc, weight, margin, otherwise) ==
    LET ip == m.ip0 + 1
        Searched(s, cur) ==
            IF Beats(s.found, cur, margin)
            THEN [s EXCEPT !.ip0 = ip, !.pc = "depth1", !.cur = [start |-> ip, ml |-> s.found.ml, ob |-> s.found.ob]]
            ELSE [s EXCEPT !.ip0 = ip, !.cur = cur, !.pc = otherwise]
    IN /\ m.who = "lazy" /\ m.pc = pc
       /\ m' = IF m.ip0 >= lazyLimit THEN [m EXCEPT !.pc = "store"]
               ELSE Searched(ZSTD_searchMax(ip), TryRep(m.cur, ip, weight))

LazyDepth1 == LazyDeeper("depth1", 3, 4, IF m.depth = 2 THEN "depth2" ELSE "store")
LazyDepth2 == LazyDeeper("depth2", 4, 7, "store")

\* Catch up, store; after a match nothing is skipped any more.
LazyStore ==
    LET off == m.cur.ob - ZSTD_REP_NUM
        isOffset == m.cur.ob > ZSTD_REP_NUM
        match == m.cur.start - off
        low == IF m.mode = "noDict" \/ ~InDict(match) THEN m.dictLimit ELSE m.dictLow
        back == IF isOffset THEN CatchUp(m.cur.start, m.anchor, match, low) ELSE 0
        end == m.cur.start + m.cur.ml
    IN /\ m.who = "lazy" /\ m.pc = "store"
       /\ m' = [m EXCEPT !.pc = "immediate", !.ip0 = end, !.anchor = end,
                         !.seqs = ZSTD_storeSeq(@, m.anchor, m.cur.start - back - m.anchor,
                                                m.cur.ob, m.cur.ml + back),
                         !.o1 = IF isOffset THEN off ELSE @, !.o2 = IF isOffset THEN m.o1 ELSE @,
                         !.cache = IF m.skipping THEN RefilledCache(@) ELSE @, !.skipping = FALSE]

LazyImmediate ==
    LET n == RepLength(m.ip0, m.o2)
    IN /\ m.who = "lazy" /\ m.pc = "immediate"
       /\ m' = IF m.ip0 <= lazyLimit /\ n > 0
               THEN [m EXCEPT !.seqs = ZSTD_storeSeq(@, m.anchor, 0, 1, n), !.o1 = m.o2, !.o2 = m.o1,
                              !.ip0 = @ + n, !.anchor = m.ip0 + n]
               ELSE [m EXCEPT !.pc = "depth0"]

LazyCleanup ==
    LET s2 == IF m.s1 # 0 /\ m.o1 # 0 THEN m.s1 ELSE m.s2
    IN /\ m.who = "lazy" /\ m.pc = "depth0" /\ m.ip0 >= lazyLimit
       /\ m' = [m EXCEPT !.pc = "done", !.repOut = << IF m.o1 # 0 THEN m.o1 ELSE m.s1,
                                                      IF m.o2 # 0 THEN m.o2 ELSE s2 >>]

LazyNext == LazyEnter \/ LazyDepth0 \/ LazyDepth1 \/ LazyDepth2 \/ LazyStore \/ LazyImmediate \/ LazyCleanup
=============================================================================
