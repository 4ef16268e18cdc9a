----------------------------- MODULE DictEntropy ----------------------------
(* The entropy section of a dictionary: a Huffman table for literals, three   *)
(* tables for sequences and three offsets, as the trainer writes it from      *)
(* samples.  Each side reads it on its own, the compressor also for how far   *)
(* the tables may be trusted: a table that lacks a symbol is used only after  *)
(* a look at the block.                                                      *)
EXTENDS BlockExec

DictHeader == 8   \* the magic number and the identity
KB128 == 131072
repStartValue == << 1, 4, 8 >>

\* An offset is below 2^16 here.
LE32(offset) == LE(offset, 16) \o LE(0, 16)

(***************************************************************************)
(* Training.  lits, seqs: the literals and the sequences of the samples.   *)
(***************************************************************************)
ZDICT_flatLit == [s \in 0 .. 255 |-> IF s = 0 THEN 4 ELSE IF s \in {253, 254} THEN 1 ELSE 2]

\* Every symbol counts once before the samples are looked at.
ZDICT_countEStats(symbols, max) == [s \in 0 .. max |-> 1 + Len(SelectSeq(symbols, LAMBDA c : c = s))]

\* The largest offset code that a first block of 128 KB may need.
OffcodeMax(contentSize) == LET max == highbit(contentSize + KB128) IN IF max < MaxOff THEN max ELSE MaxOff

\* A table of literals as deep as their bytes is wide could not be written.
DescribableTable(ct) == IF ct.tableLog = 8 THEN HUF_buildCTable_wksp(ZDICT_flatLit, LitHufLog) ELSE ct

EntropySection(ct, of, ml, ll, rep) ==
    Times(8 * DictHeader, 0) \o HUF_writeCTable_wksp(ct, 256) \o FSE_writeNCount(of.norm, of.log) \o FSE_writeNCount(ml.norm, ml.log)
      \o FSE_writeNCount(ll.norm, ll.log) \o LE32(rep[1]) \o LE32(rep[2]) \o LE32(rep[3])

Normalized(count, log) == [norm |-> FSE_normalizeCount(log, count, Total(count), TRUE), log |-> log]

ZDICT_analyzeEntropy(lits, seqs, contentSize) ==
    EntropySection(DescribableTable(HUF_buildCTable_wksp(ZDICT_countEStats(lits, 255), LitHufLog)),
                   Normalized(ZDICT_countEStats(ZSTD_seqToCodes(seqs, "of"), OffcodeMax(contentSize)), FSELog("of")),
                   Normalized(ZDICT_countEStats(ZSTD_seqToCodes(seqs, "ml"), MaxML), FSELog("ml")),
                   Normalized(ZDICT_countEStats(ZSTD_seqToCodes(seqs, "ll"), MaxLL), FSELog("ll")), repStartValue)

(***************************************************************************)
(* Loading.                                                                *)
(***************************************************************************)
TableOf(stats) ==
    CanonicalTable([s \in 0 .. Len(stats.weights) - 1 |-> IF stats.weights[s + 1] = 0 THEN 0 ELSE stats.tableLog + 1 - stats.weights[s + 1]],
                   stats.tableLog)

\* The table, and whether a symbol of its range has no code.
HUF_readCTable(stats) ==
    IF stats.error THEN ERROR
    ELSE [error |-> FALSE, size |-> stats.size, hasZeroWeights |-> \E k \in DOMAIN stats.weights : stats.weights[k] = 0,
          table |-> TableOf(stats)]

ZSTD_dictNCountRepeat(norm, maxSymbolValue) ==
    IF MaxSymbol(norm) >= maxSymbolValue /\ \A s \in 0 .. maxSymbolValue : norm[s] # 0 THEN "valid" ELSE "check"

Padding(norm, max) == [s \in 0 .. max |-> IF s \in DOMAIN norm THEN norm[s] ELSE 0]

\* r: the headers of counts read so far, and where the next begins.
AddNCount(kind, h, r) ==
    IF h.error THEN ERROR
    ELSE IF h.tableLog > FSELog(kind) THEN ERROR
    ELSE [r EXCEPT !.at = @ + h.size, !.counts = @ @@ (kind :> [norm |-> h.norm, tableLog |-> h.tableLog])]

RECURSIVE NCountsFrom(_, _, _)
NCountsFrom(kinds, mem, r) ==
    IF kinds = << >> THEN r ELSE IF r.error THEN r
    ELSE NCountsFrom(Tail(kinds), mem, AddNCount(kinds[1], FSE_readNCount(From(mem, r.at), MaxCode(kinds[1])), r))

RepsAt(mem, at) == << MEM_readLE(mem, at, 2), MEM_readLE(mem, at + 4, 2), MEM_readLE(mem, at + 8, 2) >>
GoodReps(rep, contentSize) == \A k \in DOMAIN rep : rep[k] # 0 /\ rep[k] <= contentSize

WithReps(huf, r, rep, contentSize) ==
    IF ~GoodReps(rep, contentSize) THEN ERROR ELSE [error |-> FALSE, huf |-> huf, counts |-> r.counts, rep |-> rep]

AllParts(huf, r, mem, contentSize) ==
    IF r.error THEN ERROR ELSE IF r.at + 12 > Bytes(mem) THEN ERROR ELSE WithReps(huf, r, RepsAt(mem, r.at), contentSize)

\* The parts in their order: the literals' table huf, the counts of offsets, match lengths and literal lengths, the offsets.
PartsBehind(huf, mem, contentSize) ==
    IF huf.error THEN ERROR
    ELSE AllParts(huf, NCountsFrom(<< "of", "ml", "ll" >>, mem, [error |-> FALSE, at |-> DictHeader + huf.size, counts |-> << >>]),
                  mem, contentSize)

CTables(e, offcodeMax) ==
    IF e.error THEN ERROR
    ELSE [error |-> FALSE,
          huf |-> [table |-> e.huf.table,
                   repeat |-> IF ~e.huf.hasZeroWeights /\ e.huf.table.maxSymbolValue = 255 THEN "valid" ELSE "check"],
          fse |-> [kind \in Kinds |->
                      [table |-> FSE_buildCTable_wksp(IF kind = "of" THEN Padding(e.counts[kind].norm, MaxOff) ELSE e.counts[kind].norm,
                                                      e.counts[kind].tableLog),
                       repeat |-> ZSTD_dictNCountRepeat(e.counts[kind].norm, IF kind = "of" THEN offcodeMax ELSE MaxCode(kind))]],
          rep |-> e.rep]

\* mem: the entropy section; stats: the weights at its start; contentSize: the bytes of the dictionary after it.
ZSTD_loadCEntropy(mem, stats, contentSize) == CTables(PartsBehind(HUF_readCTable(stats), mem, contentSize), OffcodeMax(contentSize))

DTables(e) ==
    IF e.error THEN ERROR
    ELSE [error |-> FALSE, huf |-> e.huf.table, rep |-> e.rep,
          fse |-> [kind \in Kinds |-> ZSTD_buildFSETable(e.counts[kind].norm, e.counts[kind].tableLog)]]

ZSTD_loadDEntropy(mem, stats, contentSize) ==
    IF Bytes(mem) + contentSize <= DictHeader THEN ERROR ELSE DTables(PartsBehind(HUF_readDTableX2_wksp(stats), mem, contentSize))

\* What a block with no dictionary starts from.
ZSTD_reset_compressedBlockState ==
    [huf |-> [table |-> NoTable, repeat |-> "none"], fse |-> [kind \in Kinds |-> [table |-> << >>, repeat |-> "none"]], rep |-> repStartValue]

ZSTD_decompressBegin ==
    [litEntropy |-> FALSE, huf |-> << >>, fse |-> [kind \in Kinds |-> << >>], fseEntropy |-> FALSE, rep |-> repStartValue,
     ddictIsCold |-> FALSE, prefixStart |-> 0, virtualStart |-> 0, dictEnd |-> 0, previousDstEnd |-> 0]

\* The content of a dictionary is what was written before the frame.
ZSTD_refDictContent(d, dict, dictSize) ==
    [d EXCEPT !.dictEnd = d.previousDstEnd, !.virtualStart = dict - (d.previousDstEnd - d.prefixStart), !.prefixStart = dict,
              !.previousDstEnd = dict + dictSize]

\* e: the entropy section as read; cold: the dictionary is another than the last one's.
ZSTD_copyDDictParameters(d, e, dict, dictSize, cold) ==
    [d EXCEPT !.prefixStart = dict, !.virtualStart = dict, !.dictEnd = dict + dictSize, !.previousDstEnd = dict + dictSize,
              !.litEntropy = TRUE, !.fseEntropy = TRUE, !.huf = e.huf, !.fse = e.fse, !.rep = e.rep, !.ddictIsCold = cold]
=============================================================================
