---------------------------- MODULE MCBlockFrame ----------------------------
(* Blocks for BlockFrame that reach the cases of the coders: short, noise,     *)
(* one byte, few and many symbols, close and far matches, and halves of which *)
(* the first is stored raw and the second repeats its offsets.  Of blocks cut *)
(* to a target size: literals only late, a rest that does not gain, and a     *)
(* table of literals that is prepared and never told.                        *)
EXTENDS BlockFrame

Sq(ll, of, ml) == [litLength |-> ll, offset |-> of, matchLength |-> ml]

\* Skewed: most bytes are a few symbols.
Skewed(k) == LET r == (k * k * 7 + 3 * k) % 17 IN IF r < 8 THEN 97 ELSE IF r < 12 THEN 101 ELSE IF r < 14 THEN 110 ELSE 100 + r
Noise(k) == (k * 167 + ((k * k) % 251) + (k \div 7) * 31) % 256

MCLiteralAt(shape, k) ==
    CASE shape \in {"tiny", "text", "far", "near", "same"} -> Skewed(k)
      [] shape = "noise" -> Noise(k)
      [] shape = "one" -> 7
      [] shape = "late" -> Skewed(k)
      [] shape = "rough" -> Noise(k)
      [] shape = "thin" -> IF k % 7 = 0 THEN 3 ELSE (k * 29) % 70
      [] shape = "halves" -> IF k <= 320 THEN Noise(k) ELSE Skewed(k)

Seqs(n, F(_)) == [k \in 1 .. n |-> F(k)]

MCParse(shape) ==
    CASE shape = "tiny" -> << Delimiter(6) >>
      [] shape = "noise" -> << Delimiter(1024) >>
      [] shape = "one" -> << Sq(1, 1, 400), Delimiter(0) >>
      [] shape = "text" -> Append(Seqs(20, LAMBDA k : Sq(30 + ((k * 5) % 9), 20 + ((k * 37) % 29), 3 + ((k * 7) % 12))), Delimiter(20))
      [] shape = "far" -> << Sq(0, 350, 40), Sq(70, 390, 33), Sq(3, 200, 21), Delimiter(5) >>
      [] shape = "near" -> Append(Seqs(15, LAMBDA k : Sq(IF k = 1 THEN 20 ELSE (k % 3) * 2, k, 10 + k)), Delimiter(0))
      [] shape = "halves" -> Append(Seqs(8, LAMBDA k : Sq(40, << 33, 60, 97, 130, 111, 75, 51, 99 >>[k], 3))
                                    \o Seqs(9, LAMBDA k : Sq(1 + (k % 2), IF k % 3 = 0 THEN 99 ELSE 51, 24)), Delimiter(3))
      [] shape = "late" -> Append(Seqs(6, LAMBDA k : Sq(0, 200 + 13 * k, 40)) \o Seqs(6, LAMBDA k : Sq(25, 40 + k, 12)), Delimiter(10))
      [] shape = "rough" -> Append(Seqs(9, LAMBDA k : Sq(2, 17 + k, 24)) \o Seqs(4, LAMBDA k : Sq(40, 150 + k, 3)), Delimiter(30))
      [] shape = "thin" -> Append(Seqs(35, LAMBDA k : Sq(0, 30 + ((k * 67) % 160), 3)), Delimiter(80))
      [] shape = "same" -> Append(Seqs(12, LAMBDA k : Sq(8, 8, 8)), Delimiter(8))

P(strategy, split, repSearch, validate) ==
    [strategy |-> strategy, split |-> split, repSearch |-> repSearch, validate |-> validate, litDisabled |-> FALSE,
     targetCBlockSize |-> 0, windowSize |-> WindowSize, dictSize |-> 0, extSeqBufCapacity |-> 400, maxNbSeq |-> ZSTD_maxNbSeq(BlockSizeMax)]

\* Blocks cut to a target size.
Cut(p, target) == [p EXCEPT !.targetCBlockSize = target]

OneShot(p, dict, fast, tight, shapes) ==
    [p |-> p, dict |-> dict, streaming |-> FALSE, fast |-> fast, tight |-> tight, shapes |-> shapes, maxBlocks |-> 2]

MCSettings ==
    { OneShot(P(1, FALSE, TRUE, FALSE), "none", TRUE, TRUE, {"tiny", "noise", "one", "text", "far", "near", "halves", "same"}),
      OneShot(P(7, TRUE, TRUE, FALSE), "raw", FALSE, FALSE, {"noise", "text", "far", "near", "halves"}),
      OneShot(P(9, TRUE, FALSE, TRUE), "none", TRUE, FALSE, {"tiny", "text", "near", "halves", "same"}),
      OneShot(P(4, FALSE, FALSE, FALSE), "trained", TRUE, FALSE, {"one", "text", "far", "near", "same"}),
      OneShot(P(1, TRUE, TRUE, FALSE), "foreign", TRUE, FALSE, {"noise", "text", "far", "near", "halves"}),
      OneShot(Cut(P(5, FALSE, TRUE, FALSE), 60), "none", TRUE, FALSE, {"tiny", "one", "text", "far", "near", "halves", "late"}),
      OneShot(Cut(P(5, FALSE, TRUE, FALSE), 40), "raw", TRUE, FALSE, {"late", "rough", "thin"}),
      OneShot(Cut(P(1, FALSE, FALSE, FALSE), 100), "trained", TRUE, FALSE, {"one", "text", "near", "halves", "same"}),
      [p |-> P(4, TRUE, TRUE, FALSE), dict |-> "raw", streaming |-> TRUE, fast |-> FALSE, tight |-> FALSE,
       shapes |-> {"noise", "far", "halves"}, maxBlocks |-> 4] }

MCDictContent == [k \in 1 .. 200 |-> Skewed(k * 3)]

MCSamples == << "text", "near" >>

\* A dictionary whose tables lack the longer literal lengths and the farther offsets.
MCForeignTables ==
    [of |-> [norm |-> Norm(Times(8, 4)), log |-> 5], ml |-> [norm |-> ML_defaultNorm, log |-> 6],
     ll |-> [norm |-> Norm(Times(16, 2)), log |-> 5], rep |-> << 3, 50, 200 >>]
=============================================================================
