------------------------------ MODULE ZstdOpt ------------------------------
(* compress/zstd_opt.c: the optimal parser.  From a first match on, a table  *)
(* m.opt holds for every position the cheapest way to reach it: a match of    *)
(* mlen bytes followed by litlen literals.  When the cheapest path is known   *)
(* it is read backwards into sequences, written over the end of the table it *)
(* is read from.                                                             *)
(*                                                                           *)
(* pc "first" looks for a first match at ip0, "forward" fixes position cur,  *)
(* "path" is the label _shortestPath.  m.rep changes during the block: it is *)
(* the history the caller gets back; m.rep0 is the one the block began with. *)
EXTENDS LazySearch

-----------------------------------------------------------------------------
(* compress/zstd_opt.c, the price functions: what a literal, a literal length *)
(* and a match cost, in 1/256 bit, from the frequencies seen so far.          *)
(*                                                                           *)
(* m.stat.freq[t], t one of "lit", "ll", "ml", "of": frequencies of symbols;  *)
(* m.stat.sum[t]: their sum, kept up along with them; m.stat.base[t]: its     *)
(* weight; m.stat.type: predef or dynamic prices.                            *)

CONSTANT MaxLit    \* largest literal

BITCOST_MULTIPLIER == 256
ZSTD_LITFREQ_ADD == 2
ZSTD_PREDEF_THRESHOLD == 8
ZSTD_MAX_PRICE == 2 ^ 30

Tables == {"lit", "ll", "ml", "of"}
LastSymbol == [lit |-> MaxLit, ll |-> MaxLL, ml |-> MaxML, of |-> MaxOff]

ZSTD_bitWeight(stat) == ZSTD_highbit32(stat + 1) * BITCOST_MULTIPLIER

ZSTD_fracWeight(stat) ==
    LET hb == ZSTD_highbit32(stat + 1)
    IN hb * BITCOST_MULTIPLIER + ((stat + 1) * BITCOST_MULTIPLIER) \div 2 ^ hb

WEIGHT(stat) == IF m.level > 0 THEN ZSTD_fracWeight(stat) ELSE ZSTD_bitWeight(stat)

sum_u32(table) == FoldFunction(LAMBDA n, s : n + s, 0, table)

\* Uncompressed literals have no statistics.
Kept(t) == t = "lit" => m.litCompressed

ZSTD_setBasePrices(s) ==
    [s EXCEPT !.base = [t \in Tables |-> IF Kept(t) THEN WEIGHT(s.sum[t]) ELSE @[t]]]

ZSTD_downscaleStats(table, shift, base1) ==
    [c \in DOMAIN table |-> table[c] \div 2 ^ shift + (IF base1 \/ table[c] > 0 THEN 1 ELSE 0)]

ZSTD_scaleStats(table, logTarget) ==
    LET factor == sum_u32(table) \div 2 ^ logTarget
    IN IF factor <= 1 THEN table ELSE ZSTD_downscaleStats(table, ZSTD_highbit32(factor), TRUE)

baseLLfreqs == [c \in 0 .. MaxLL |-> IF c = 0 THEN 4 ELSE IF c = 1 THEN 2 ELSE 1]
baseOFCfreqs ==
    [c \in 0 .. MaxOff |-> IF c <= 11 THEN << 6, 2, 1, 1, 2, 3, 4, 4, 4, 3, 2, 1 >>[c + 1] ELSE 1]

\* First block without a dictionary: the literals of the block themselves, and fixed tables.
FreshStats(s) ==
    [lit |-> IF m.litCompressed
             THEN ZSTD_downscaleStats([c \in 0 .. MaxLit |->
                      FoldLeft(LAMBDA n, i : n + (IF m.data[i] = c THEN 1 ELSE 0), 0, Positions(m.istart, m.iend))],
                      8, FALSE)
             ELSE s.freq.lit,
     ll |-> baseLLfreqs, ml |-> [c \in 0 .. MaxML |-> 1], of |-> baseOFCfreqs]

\* First block with a dictionary's entropy tables: a symbol of b bits counts 2^(scaleLog - b).
DictStats(s) ==
    [t \in Tables |->
        LET scaleLog == IF t = "lit" THEN 11 ELSE 10
        IN IF ~Kept(t) THEN s.freq[t]
           ELSE [c \in 0 .. LastSymbol[t] |->
                    IF m.dictBits[t][c] = 0 THEN 1 ELSE 2 ^ (scaleLog - m.dictBits[t][c])]]

ZSTD_rescaleFreqs(s) ==
    LET first == s.sum.ll = 0
        freq == CASE first /\ m.hufValid -> DictStats(s)
                  [] first /\ ~m.hufValid -> FreshStats(s)
                  [] OTHER -> [t \in Tables |-> IF Kept(t) THEN ZSTD_scaleStats(s.freq[t], IF t = "lit" THEN 12 ELSE 11)
                                                ELSE s.freq[t]]
    IN ZSTD_setBasePrices(
         [s EXCEPT !.freq = freq,
                   !.sum = [t \in Tables |-> IF Kept(t) THEN sum_u32(freq[t]) ELSE @[t]],
                   !.type = IF first /\ ~m.hufValid /\ m.iend - m.istart <= ZSTD_PREDEF_THRESHOLD
                            THEN "predef" ELSE "dynamic"])

\* One literal at position i.
ZSTD_rawLiteralsCost(i) ==
    LET max == m.stat.base.lit - BITCOST_MULTIPLIER
        w == WEIGHT(m.stat.freq.lit[m.data[i]])
    IN CASE ~m.litCompressed -> 8 * BITCOST_MULTIPLIER
         [] m.litCompressed /\ m.stat.type = "predef" -> 6 * BITCOST_MULTIPLIER
         [] OTHER -> m.stat.base.lit - (IF w > max THEN max ELSE w)

ZSTD_litLengthPrice(litLength) ==
    IF m.stat.type = "predef" THEN WEIGHT(litLength)
    ELSE LET c == ZSTD_LLcode(litLength)
         IN LL_bits(c) * BITCOST_MULTIPLIER + m.stat.base.ll - WEIGHT(m.stat.freq.ll[c])

LL_INCPRICE(l) == ZSTD_litLengthPrice(l) - ZSTD_litLengthPrice(l - 1)

\* min: MINMATCH of this model.
ZSTD_getMatchPrice(offBase, matchLength, min) ==
    LET of == ZSTD_highbit32(offBase)
        ml == ZSTD_MLcode(matchLength - min)
    IN IF m.stat.type = "predef" THEN WEIGHT(matchLength - min) + (16 + of) * BITCOST_MULTIPLIER
       ELSE of * BITCOST_MULTIPLIER + m.stat.base.of - WEIGHT(m.stat.freq.of[of])
            + (IF m.level < 2 /\ of >= 20 THEN (of - 19) * 2 * BITCOST_MULTIPLIER ELSE 0)
            + ML_bits(ml) * BITCOST_MULTIPLIER + m.stat.base.ml - WEIGHT(m.stat.freq.ml[ml])
            + BITCOST_MULTIPLIER \div 5

\* Mutant: the sum counts a literal once, its frequency ZSTD_LITFREQ_ADD times.
CountsLiteralsOnce(s, lit, litLength, offBase, matchLength, min) ==
    LET Count(f, c) == [f EXCEPT ![c] = @ + 1]
        lits == Positions(lit, lit + litLength)
    IN [s EXCEPT
          !.freq = [lit |-> IF m.litCompressed
                            THEN FoldLeft(LAMBDA f, i : [f EXCEPT ![m.data[i]] = @ + ZSTD_LITFREQ_ADD], @.lit, lits)
                            ELSE @.lit,
                    ll |-> Count(@.ll, ZSTD_LLcode(litLength)), of |-> Count(@.of, ZSTD_highbit32(offBase)),
                    ml |-> Count(@.ml, ZSTD_MLcode(matchLength - min))],
          !.sum = [lit |-> IF m.litCompressed THEN @.lit + litLength ELSE @.lit,
                   ll |-> @.ll + 1, of |-> @.of + 1, ml |-> @.ml + 1]]

ZSTD_updateStats(s, lit, litLength, offBase, matchLength, min) ==
    LET Count(f, c) == [f EXCEPT ![c] = @ + 1]
        lits == Positions(lit, lit + litLength)
    IN [s EXCEPT
          !.freq = [lit |-> IF m.litCompressed
                            THEN FoldLeft(LAMBDA f, i : [f EXCEPT ![m.data[i]] = @ + ZSTD_LITFREQ_ADD], @.lit, lits)
                            ELSE @.lit,
                    ll |-> Count(@.ll, ZSTD_LLcode(litLength)), of |-> Count(@.of, ZSTD_highbit32(offBase)),
                    ml |-> Count(@.ml, ZSTD_MLcode(matchLength - min))],
          !.sum = [lit |-> IF m.litCompressed THEN @.lit + litLength * ZSTD_LITFREQ_ADD ELSE @.lit,
                   ll |-> @.ll + 1, of |-> @.of + 1, ml |-> @.ml + 1]]

-----------------------------------------------------------------------------
(* The parser. *)

CONSTANTS
    ZSTD_OPT_NUM,             \* positions of a path
    LongMatch, LongMatchSkip, \* 384 and 192: positions left out of the tree in a long match
    Hash3Dist                 \* 1 << 18: farthest match the table of 3 bytes is asked for

ASSUME OptAssumption == {ZSTD_OPT_NUM, LongMatch, LongMatchSkip, Hash3Dist} \subseteq Nat \ {0}

ZSTD_OPT_SIZE == ZSTD_OPT_NUM + 3

\* A match of 3 bytes is Word - 1 here; m.minMatch is Word - 1 or Word.
MinLength == Word - 1
sufficient_len == IF m.targetLength < ZSTD_OPT_NUM - 1 THEN m.targetLength ELSE ZSTD_OPT_NUM - 1

ohash(i) == ZSTD_hashPtr(i, m.minMatch)

(***************************************************************************)
(* The tree, sorted at once.                                               *)
(***************************************************************************)
TreeLow(curr) == IF BtSize - 1 >= curr THEN 0 ELSE curr - (BtSize - 1)

\* One position; t.next is the next one to enter, past a repetitive stretch.
ZSTD_insertBt1(t, curr, target) ==
    LET low == ZSTD_getLowestMatchIndex(target)
        w == Descend([Descent(t.bt, curr, t.ht[ohash(curr)], m.attempts) EXCEPT
                         !.best = [ml |-> HASH_READ_SIZE, ob |-> 1], !.all = TRUE],
                     curr, low - 1, TreeLow(curr))
        skip == IF w.best.ml > LongMatch THEN Lesser(LongMatchSkip, w.best.ml - LongMatch) ELSE 0
        forward == w.end - (curr + HASH_READ_SIZE)
    IN [bt |-> w.bt, ht |-> [t.ht EXCEPT ![ohash(curr)] = curr],
        next |-> curr + (IF skip > forward THEN skip ELSE forward),
        ok |-> t.ok /\ w.end > curr + HASH_READ_SIZE]

RECURSIVE ZSTD_updateTree_internal(_, _)
ZSTD_updateTree_internal(t, target) ==
    IF t.next >= target THEN t
    ELSE ZSTD_updateTree_internal(ZSTD_insertBt1(t, t.next, target), target)

(***************************************************************************)
(* All matches at ip, each longer than the one before.                     *)
(***************************************************************************)
SameMin(i, j) == MEM_read(i, m.minMatch) = MEM_read(j, m.minMatch)

\* The length of a match with the repeated offset; 0 and -1 are no offsets.
RepLen(ip, offset) ==
    LET rep == ip - offset
        low == CASE m.mode = "dms" -> m.dictLow
                 [] OTHER -> ZSTD_getLowestMatchIndex(ip)
        ok == IF offset \in 1 .. ip - m.dictLimit THEN rep >= ZSTD_getLowestMatchIndex(ip)
              ELSE m.mode # "noDict" /\ offset \in 1 .. ip - low /\ ZSTD_index_overlap_check(rep)
    IN IF ok /\ SameMin(ip, rep)
       THEN m.minMatch + ZSTD_count_2segments(ip + m.minMatch, InDict(rep), rep + m.minMatch) ELSE 0

\* A match so long, or to the very end: no more are looked for.
BestPossible(ip, len) == len > sufficient_len \/ ip + len = m.iend

RepMatchesAt(ip, rep, ll0, best) ==
    FoldLeft(LAMBDA w, code :
               LET len == RepLen(ip, IF code = ZSTD_REP_NUM THEN rep[1] - 1 ELSE rep[code + 1])
               IN IF w.stop \/ len <= w.best THEN w
                  ELSE [best |-> len, out |-> Append(w.out, [ml |-> len, ob |-> code - ll0 + 1]),
                        stop |-> BestPossible(ip, len)],
             [best |-> best, out |-> << >>, stop |-> FALSE], Positions(ll0, ll0 + ZSTD_REP_NUM))

\* The table of the shortest matches, entered up to ip.
ZSTD_insertAndFindFirstIndexHash3(ip) ==
    FoldLeft(LAMBDA t, i : [t EXCEPT ![HashOf(MEM_read(i, MinLength), HashSize)] = i], m.h3,
             Positions(m.next3, ip))

\* A match in the prefix is counted there, one in the extDict over both segments.
Hash3Match(ip, h3) ==
    LET i == h3[HashOf(MEM_read(ip, MinLength), HashSize)]
        len == ZSTD_count_2segments(ip, InDict(i), i)
    IN IF i >= ZSTD_getLowestMatchIndex(ip) /\ ip - i < Hash3Dist /\ len >= MinLength
       THEN << [ml |-> len, ob |-> OFFSET_TO_OFFBASE(ip - i)] >> ELSE << >>

\* Answers the state m with the tables after the call; m.matches is what was found.
\* The longer and longer matches of the tree, then of the dictionary's, after those known already.
MatchesInTree(t, ip, first, known) ==
    LET low == ZSTD_getLowestMatchIndex(ip)
        Found(w, d) ==
            [first EXCEPT !.ht[ohash(ip)] = ip, !.bt = w.bt, !.matches = d.matches,
                          !.next = d.end - HASH_READ_SIZE, !.asserts = @ /\ d.end > ip + HASH_READ_SIZE]
        Searched(w) == Found(w, ZSTD_DUBT_findBetterDictMatch(w, ip, ohash(ip)))
    IN Searched(Descend([Descent(t.bt, ip, t.ht[ohash(ip)], m.attempts) EXCEPT
                           !.all = TRUE, !.cap = ZSTD_OPT_NUM, !.matches = known,
                           !.best = IF known = << >> THEN [ml |-> m.minMatch - 1, ob |-> 1] ELSE known[Len(known)]],
                        ip, (IF low = 0 THEN 1 ELSE low) - 1, TreeLow(ip)))

ZSTD_insertBtAndGetAllMatches(t, ip, rep, ll0) ==
    LET Tree(first, known) == MatchesInTree(t, ip, first, known)
        After3(first, reps, short) ==
            IF short # << >> /\ BestPossible(ip, short[1].ml)
            THEN [first EXCEPT !.matches = reps.out \o short, !.next = ip + 1]
            ELSE Tree(first, reps.out \o short)
        With3(first, reps, h3) == After3([first EXCEPT !.h3 = h3, !.next3 = ip], reps, Hash3Match(ip, h3))
        AfterReps(first, reps) ==
            IF reps.stop THEN [first EXCEPT !.matches = reps.out]
            ELSE IF m.minMatch = MinLength /\ reps.best < MinLength
            THEN With3(first, reps, ZSTD_insertAndFindFirstIndexHash3(ip))
            ELSE Tree(first, reps.out)
    IN AfterReps([m EXCEPT !.bt = t.bt, !.ht = t.ht, !.next = ip, !.asserts = @ /\ t.ok],
                 RepMatchesAt(ip, rep, ll0, m.minMatch - 1))

ZSTD_btGetAllMatches_internal(ip, rep, ll0) ==
    IF ip < m.next THEN [m EXCEPT !.matches = << >>]
    ELSE ZSTD_insertBtAndGetAllMatches(
           ZSTD_updateTree_internal([bt |-> m.bt, ht |-> m.ht, next |-> m.next, ok |-> TRUE], ip), ip, rep, ll0)

(***************************************************************************)
(* Candidates of the long distance matcher, l: raw sequences seq, the one   *)
(* at pos of which inSeq bytes are passed; start, end and offset of the     *)
(* match at hand, in positions of the block.                                *)
(***************************************************************************)
NeverInBlock == 2 ^ 30     \* UINT_MAX

RECURSIVE ZSTD_optLdm_skipRawSeqStoreBytes(_, _)
ZSTD_optLdm_skipRawSeqStoreBytes(l, bytes) ==
    LET s == l.seq[l.pos + 1]
    IN IF bytes = 0 \/ l.pos = Len(l.seq) THEN [l EXCEPT !.inSeq = 0]
       ELSE IF bytes >= s.ll + s.ml
       THEN ZSTD_optLdm_skipRawSeqStoreBytes([l EXCEPT !.pos = @ + 1], bytes - (s.ll + s.ml))
       ELSE [l EXCEPT !.inSeq = bytes]

LdmSkip(l, bytes) == ZSTD_optLdm_skipRawSeqStoreBytes(l, l.inSeq + bytes)

ZSTD_opt_getNextMatchAndUpdateSeqStore(l, at, remaining) ==
    LET s == l.seq[l.pos + 1]
        lits == IF l.inSeq < s.ll THEN s.ll - l.inSeq ELSE 0
        bytes == IF lits = 0 THEN s.ml - (l.inSeq - s.ll) ELSE s.ml
        end == at + lits + bytes
    IN IF l.pos >= Len(l.seq) THEN [l EXCEPT !.start = NeverInBlock, !.end = NeverInBlock]
       ELSE IF lits >= remaining
       THEN [LdmSkip(l, remaining) EXCEPT !.start = NeverInBlock, !.end = NeverInBlock]
       ELSE [LdmSkip(l, IF end > at + remaining THEN remaining ELSE lits + bytes) EXCEPT
               !.start = at + lits, !.end = IF end > at + remaining THEN at + remaining ELSE end,
               !.offset = s.offset]

\* Longer than what is known, or nothing is.
ZSTD_optLdm_maybeAddMatch(l, matches, at) ==
    LET len == l.end - at
    IN IF /\ at >= l.start /\ at < l.end /\ len >= m.minMatch
          /\ matches = << >> \/ (len > matches[Len(matches)].ml /\ Len(matches) < ZSTD_OPT_NUM)
       THEN Append(matches, [ml |-> len, ob |-> OFFSET_TO_OFFBASE(l.offset)]) ELSE matches

\* s: the state after the search at ip.  When the match at hand is passed, the next one.
ZSTD_optLdm_processMatchCandidate(s, ip) ==
    LET at == ip - m.istart
        l == IF at < s.ldm.end THEN s.ldm
             ELSE ZSTD_opt_getNextMatchAndUpdateSeqStore(
                    IF at > s.ldm.end THEN LdmSkip(s.ldm, at - s.ldm.end) ELSE s.ldm, at, m.iend - ip)
    IN IF s.ldm.pos >= Len(s.ldm.seq) THEN s
       ELSE [s EXCEPT !.ldm = l, !.matches = ZSTD_optLdm_maybeAddMatch(l, @, at)]

getAllMatches(ip, rep, ll0) ==
    ZSTD_optLdm_processMatchCandidate(ZSTD_btGetAllMatches_internal(ip, rep, ll0), ip)

(***************************************************************************)
(* The parser.                                                             *)
(***************************************************************************)
\* btultra2 reads a first block twice: once for the statistics only.
TwoPasses ==
    /\ m.level = 2 /\ m.ultra2 /\ m.stat.sum.ll = 0 /\ m.seqs = << >> /\ m.dictLimit = m.lowLimit
    /\ m.istart = m.dictLimit /\ m.iend - m.istart > ZSTD_PREDEF_THRESHOLD

OptEnter ==
    /\ m.who = "opt" /\ m.pc = "enter"
    /\ m' = [m EXCEPT !.pc = "first", !.stat = ZSTD_rescaleFreqs(@), !.next3 = m.next,
                      !.ip0 = IF m.istart = m.dictLimit THEN m.istart + 1 ELSE m.istart,
                      !.twice = TwoPasses,
                      !.ldm = ZSTD_opt_getNextMatchAndUpdateSeqStore(@, 0, m.iend - m.istart)]

\* The prices of the positions the first matches reach.
FirstPrices(s, litlen) ==
    LET base == ZSTD_litLengthPrice(litlen)
        longest == s.matches[Len(s.matches)].ml
        which(p) == CHOOSE k \in 1 .. Len(s.matches) :
                       p <= s.matches[k].ml /\ \A j \in 1 .. k - 1 : p > s.matches[j].ml
        price(p) == base + ZSTD_getMatchPrice(s.matches[which(p)].ob, p, MinLength) + ZSTD_litLengthPrice(0)
    IN [p \in DOMAIN s.opt |->
          CASE p = 0 -> [s.opt[0] EXCEPT !.mlen = 0, !.litlen = litlen, !.price = base, !.rep = m.rep]
            [] p \in 1 .. m.minMatch - 1 ->
                  [s.opt[p] EXCEPT !.price = ZSTD_MAX_PRICE, !.mlen = 0, !.litlen = litlen + p]
            [] p \in m.minMatch .. longest ->
                  [s.opt[p] EXCEPT !.mlen = p, !.off = s.matches[which(p)].ob, !.litlen = 0, !.price = price(p)]
            [] p = longest + 1 -> [s.opt[p] EXCEPT !.price = ZSTD_MAX_PRICE]
            [] OTHER -> s.opt[p]]

\* A match that ends the series: cur is where it begins.
Ending(s, cur, match) ==
    [s EXCEPT !.pc = "path", !.cur = cur, !.lastPos = cur + match.ml,
              !.last = [m.opt[0] EXCEPT !.mlen = match.ml, !.off = match.ob, !.litlen = 0]]

OptFirst ==
    LET litlen == m.ip0 - m.anchor
        Start(o) == [o EXCEPT ![0] = [@ EXCEPT !.mlen = 0, !.litlen = litlen,
                                               !.price = ZSTD_litLengthPrice(litlen), !.rep = m.rep]]
        Found(s, best) ==
            IF best.ml > sufficient_len THEN [Ending(s, 0, best) EXCEPT !.opt = Start(@)]
            ELSE [s EXCEPT !.pc = "forward", !.opt = FirstPrices(s, litlen), !.cur = 1, !.lastPos = best.ml]
    IN /\ m.who = "opt" /\ m.pc = "first" /\ m.ip0 < ilimit
       /\ \E s \in {getAllMatches(m.ip0, m.rep, IF litlen = 0 THEN 1 ELSE 0)} :
             m' = IF s.matches = << >> THEN [s EXCEPT !.ip0 = @ + 1] ELSE Found(s, s.matches[Len(s.matches)])

\* One literal after position cur - 1 instead of what reaches cur, if that is cheaper.  The
\* match that is replaced may still be the better way to cur + 1.
FixedLiteral ==
    LET o == m.opt
        cur == m.cur
        prev == o[cur - 1]
        litlen == prev.litlen + 1
        price == prev.price + ZSTD_rawLiteralsCost(m.ip0 + cur - 1) + LL_INCPRICE(litlen)
        was == o[cur]
        o1 == [o EXCEPT ![cur] = [prev EXCEPT !.litlen = litlen, !.price = price]]
        lit == ZSTD_rawLiteralsCost(m.ip0 + cur)
        with1literal == was.price + lit + LL_INCPRICE(1)
        withMore == price + lit + LL_INCPRICE(litlen + 1)
        from == o1[cur - was.mlen]
    IN IF price > was.price THEN [opt |-> o, last |-> m.lastPos]
       ELSE IF m.level >= 1 /\ was.litlen = 0 /\ LL_INCPRICE(1) < 0 /\ m.ip0 + cur < m.iend
               /\ with1literal < withMore /\ with1literal < o1[cur + 1].price
       THEN [opt |-> [o1 EXCEPT ![cur + 1] = [was EXCEPT !.rep = ZSTD_updateRep(from.rep, was.off, from.litlen = 0),
                                                         !.litlen = 1, !.price = with1literal]],
             last |-> IF m.lastPos < cur + 1 THEN cur + 1 ELSE m.lastPos]
       ELSE [opt |-> o1, last |-> m.lastPos]

\* A match that ends at cur is settled now: its history of offsets.
SettledRep(o, cur) ==
    LET from == o[cur - o[cur].mlen]
    IN IF o[cur].litlen # 0 THEN o
       ELSE [o EXCEPT ![cur].rep = ZSTD_updateRep(from.rep, o[cur].off, from.litlen = 0)]

\* The lengths of one match at cur, from the longest down; level 0 gives up at the first
\* that does not pay.
RECURSIVE PriceLengths(_, _, _, _, _)
PriceLengths(w, cur, match, len, start) ==
    LET pos == cur + len
        price == w.o[cur].price + ZSTD_litLengthPrice(0) + ZSTD_getMatchPrice(match.ob, len, MinLength)
        filled == [p \in DOMAIN w.o |-> IF p > w.last /\ p <= pos
                                        THEN [w.o[p] EXCEPT !.price = ZSTD_MAX_PRICE, !.litlen = 1] ELSE w.o[p]]
        better == pos > w.last \/ price < w.o[pos].price
        set == [o |-> [filled EXCEPT ![pos] = [@ EXCEPT !.mlen = len, !.off = match.ob, !.litlen = 0, !.price = price]],
                last |-> IF pos > w.last THEN pos ELSE w.last]
    IN IF len < start \/ (~better /\ m.level = 0) THEN w
       ELSE PriceLengths(IF better THEN set ELSE w, cur, match, len - 1, start)

PriceMatches(o, last, cur, matches) ==
    FoldLeft(LAMBDA w, k : PriceLengths(w, cur, matches[k], matches[k].ml,
                                        IF k > 1 THEN matches[k - 1].ml + 1 ELSE m.minMatch),
             [o |-> o, last |-> last], Positions(1, Len(matches) + 1))

\* Matches from cur on: the longest may end the series.
Forwarded(s, cur, longest, priced) ==
    IF longest.ml > sufficient_len \/ cur + longest.ml >= ZSTD_OPT_NUM \/ m.ip0 + cur + longest.ml >= m.iend
    THEN Ending(s, cur, longest)
    ELSE [s EXCEPT !.opt = [priced.o EXCEPT ![priced.last + 1].price = ZSTD_MAX_PRICE],
                   !.lastPos = priced.last, !.cur = cur + 1]

OptForward ==
    LET cur == m.cur
        inr == m.ip0 + cur
        Searched(s) ==
            IF s.matches = << >> THEN [s EXCEPT !.cur = cur + 1]
            ELSE Forwarded(s, cur, s.matches[Len(s.matches)], PriceMatches(s.opt, s.lastPos, cur, s.matches))
        Skip(o, last) == [m EXCEPT !.opt = o, !.lastPos = last, !.cur = cur + 1,
                                   !.asserts = @ /\ cur <= ZSTD_OPT_NUM /\ cur >= o[cur].mlen /\ o[cur].price >= 0]
        Settled(o, last) ==
            CASE cur = last -> [Skip(o, last) EXCEPT !.pc = "path", !.last = o[last], !.cur = last - o[last].mlen,
                                                     !.asserts = @ /\ last >= o[last].mlen]
              [] cur # last /\ (inr > ilimit \/ (m.level = 0 /\ o[cur + 1].price <= o[cur].price + BITCOST_MULTIPLIER \div 2)) ->
                   Skip(o, last)
              [] OTHER -> Searched([getAllMatches(inr, o[cur].rep, IF o[cur].litlen = 0 THEN 1 ELSE 0) EXCEPT
                                      !.opt = o, !.lastPos = last])
    IN /\ m.who = "opt" /\ m.pc = "forward"
       /\ \E f \in {FixedLiteral} : m' = Settled(SettledRep(f.opt, cur), f.last)

\* Backwards from the last stretch, writing the sequences downwards from cur + 2.
RECURSIVE ReverseTraversal(_, _, _)
ReverseTraversal(o, start, pos) ==
    LET next == o[pos]
        o1 == [o EXCEPT ![start].litlen = next.litlen]
    IN IF next.mlen = 0 THEN [o |-> o1, start |-> start, ok |-> TRUE]
       ELSE IF next.litlen + next.mlen > pos THEN [o |-> o1, start |-> start, ok |-> FALSE]
       ELSE ReverseTraversal([o1 EXCEPT ![start - 1] = next], start - 1, pos - (next.litlen + next.mlen))

\* The sequences of the path, and the statistics they add.
StorePath(w, q) ==
    [w EXCEPT !.stat = ZSTD_updateStats(@, w.anchor, q.litlen, q.off, q.mlen, MinLength),
              !.seqs = ZSTD_storeSeq(@, w.anchor, q.litlen, q.off, q.mlen),
              !.anchor = @ + q.litlen + q.mlen, !.ip0 = w.anchor + q.litlen + q.mlen]

OptPath ==
    LET l == m.last
        from == m.opt[m.cur]
        rep == IF l.litlen = 0 THEN ZSTD_updateRep(from.rep, l.off, from.litlen = 0) ELSE l.rep
        cur == m.cur - l.litlen
        r == ReverseTraversal([m.opt EXCEPT ![cur + 2] = l], cur + 2, cur)
        path == [k \in 1 .. cur + 3 - r.start |-> r.o[r.start + k - 1]]
        stored == FoldLeft(StorePath, [m EXCEPT !.opt = r.o, !.rep = rep, !.pc = "first"], path)
    IN /\ m.who = "opt" /\ m.pc = "path"
       /\ m' = IF l.mlen = 0
               THEN [m EXCEPT !.pc = "first", !.ip0 = @ + m.lastPos,
                              !.asserts = @ /\ l.litlen = m.ip0 - m.anchor + m.lastPos]
               ELSE [stored EXCEPT !.stat = ZSTD_setBasePrices(@),
                                   !.asserts = @ /\ r.ok /\ m.opt[0].mlen = 0 /\ cur >= 0
                                                 /\ cur + 2 < ZSTD_OPT_SIZE /\ l.off > 0]

\* The first pass of btultra2 is forgotten: its indexes fall out of the window.
OptDone ==
    LET n == m.iend - m.istart
    IN /\ m.who = "opt" /\ m.pc = "first" /\ m.ip0 >= ilimit
       /\ m' = IF ~m.twice THEN [m EXCEPT !.pc = "done", !.repOut = m.rep, !.rep = m.rep0]
               ELSE [m EXCEPT !.pc = "enter", !.seqs = << >>, !.anchor = m.istart + n, !.rep = m.rep0,
                              !.data = [k \in 1 .. n |-> m.junk] \o @, !.istart = @ + n, !.iend = @ + n,
                              !.dictLow = @ + n, !.dictLimit = @ + n, !.lowLimit = m.dictLimit + n,
                              !.next = m.dictLimit + n]

\* A dictionary to attach is loaded first: m describes it as a block of its own, m.then is
\* the call that follows.  Every position but the last few enters the tree.
ZSTD_updateTree ==
    LET t == ZSTD_updateTree_internal([bt |-> m.bt, ht |-> m.ht, next |-> m.next, ok |-> TRUE], ilimit)
    IN /\ m.who = "load"
       /\ m' = [m.then EXCEPT !.dict.bt = t.bt, !.dict.ht = t.ht, !.asserts = t.ok]

OptNext == ZSTD_updateTree \/ OptEnter \/ OptFirst \/ OptForward \/ OptPath \/ OptDone
=============================================================================
