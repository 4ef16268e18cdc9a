------------------------------ MODULE SeqCodes ------------------------------
(* The codes of literal lengths, match lengths and offsets: those the         *)
(* compressor assigns, and the base values and extra bits from which the      *)
(* decompressor takes the number back.                                       *)
EXTENDS Integers, Sequences, FiniteSets

ZSTD_highbit32(x) == CHOOSE k \in 0 .. 29 : 2 ^ k <= x /\ x < 2 ^ (k + 1)

MINMATCH == 3
MaxLL == 35
MaxML == 52
MaxOff == 31

\* The compressor: the first values of the codes after the ones that stand for themselves.
CodeBy(starts, first, x) == first - 1 + Cardinality({k \in 1 .. Len(starts) : starts[k] <= x})

ZSTD_LLcode(litLength) ==
    IF litLength > 63 THEN ZSTD_highbit32(litLength) + 19
    ELSE IF litLength < 16 THEN litLength
    ELSE CodeBy(<< 16, 18, 20, 22, 24, 28, 32, 40, 48 >>, 16, litLength)

ZSTD_MLcode(mlBase) ==
    IF mlBase > 127 THEN ZSTD_highbit32(mlBase) + 36
    ELSE IF mlBase < 32 THEN mlBase
    ELSE CodeBy(<< 32, 34, 36, 38, 40, 44, 48, 56, 64, 80, 96 >>, 32, mlBase)

\* The decompressor, and the number of extra bits both sides use.
LL_bits(code) ==
    IF code < 16 THEN 0 ELSE << 1, 1, 1, 1, 2, 2, 3, 3, 4, 6, 7, 8, 9, 10, 11, 12, 13, 14, 15, 16 >>[code - 15]
LL_base(code) ==
    IF code < 16 THEN code
    ELSE << 16, 18, 20, 22, 24, 28, 32, 40, 48, 64, 128, 256, 512, 1024, 2048, 4096, 8192, 16384,
            32768, 65536 >>[code - 15]
ML_bits(code) ==
    IF code < 32 THEN 0 ELSE << 1, 1, 1, 1, 2, 2, 3, 3, 4, 4, 5, 7, 8, 9, 10, 11, 12, 13, 14, 15, 16 >>[code - 31]
ML_base(code) ==
    IF code < 32 THEN code + 3
    ELSE << 35, 37, 39, 41, 43, 47, 51, 59, 67, 83, 99, 131, 259, 515, 1027, 2051, 4099, 8195, 16387,
            32771, 65539 >>[code - 31]
OF_base(code) == IF code < 3 THEN << 0, 1, 1 >>[code + 1] ELSE 2 ^ code - 3
=============================================================================
