-------------------------- MODULE FrameWindow_proofs --------------------------
(***************************************************************************)
(* Proofs about FrameWindow, for every window size, table size, block size *)
(* and limit of the indexes that LimitsAssumption allows, and for inputs   *)
(* of any size anywhere in memory.  First what the operations of           *)
(* ZstdWindow keep, for any window: the segments stay in order, and an     *)
(* index that survives an operation keeps its byte's address.              *)
(***************************************************************************)
EXTENDS FrameWindow, TLAPS

(***************************************************************************)
(* Remainders by the size of a table                                       *)
(***************************************************************************)
\* Division with remainder.
LEMMA DivMod ==
    ASSUME NEW x \in Int, NEW c \in Nat \ {0}
    PROVE  x = c * (x \div c) + (x % c) /\ x % c \in 0 .. c - 1 /\ x \div c \in Int
  OBVIOUS

\* The only multiple of c between -c and c is 0.
LEMMA Between ==
    ASSUME NEW c \in Nat \ {0}, NEW n \in Int, -c < c * n, c * n < c
    PROVE  n = 0
<1>1. CASE n >= 1
  <2>1. c * n >= c * 1
    BY <1>1
  <2> QED
    BY <2>1
<1>2. CASE n <= -1
  <2>1. c * n <= c * (-1)
    BY <1>2
  <2> QED
    BY <2>1
<1> QED
  BY <1>1, <1>2

\* The remainder is unique.
LEMMA ModUnique ==
    ASSUME NEW x \in Int, NEW c \in Nat \ {0}, NEW q \in Int, NEW r \in 0 .. c - 1, x = c * q + r
    PROVE  x % c = r
<1>1. x = c * (x \div c) + (x % c) /\ x % c \in 0 .. c - 1 /\ x \div c \in Int
  BY DivMod
<1>2. c * (x \div c) \in Int /\ c * q \in Int
  BY <1>1
<1>3. c * (q - (x \div c)) = c * q - c * (x \div c)
  BY <1>1
<1>4. q - (x \div c) = 0
  BY <1>1, <1>2, <1>3, Between
<1> QED
  BY <1>1, <1>4

\* Multiples of c do not change it.
LEMMA ModShift ==
    ASSUME NEW x \in Int, NEW y \in Int, NEW c \in Nat \ {0}, y % c = 0,
           NEW z \in Int, z = x + y \/ z = x - y
    PROVE  z % c = x % c
<1>1. x = c * (x \div c) + (x % c) /\ x % c \in 0 .. c - 1 /\ x \div c \in Int
  BY DivMod
<1>2. y = c * (y \div c) /\ y \div c \in Int
  BY DivMod
<1>3. CASE z = x + y
  <2>1. z = c * ((x \div c) + (y \div c)) + (x % c) /\ (x \div c) + (y \div c) \in Int
    BY <1>1, <1>2, <1>3
  <2> QED
    BY <1>1, <2>1, ModUnique
<1>4. CASE z = x - y
  <2>1. z = c * ((x \div c) - (y \div c)) + (x % c) /\ (x \div c) - (y \div c) \in Int
    BY <1>1, <1>2, <1>4
  <2> QED
    BY <1>1, <2>1, ModUnique
<1> QED
  BY <1>3, <1>4

\* What is left of x after its remainder is a multiple of c.
LEMMA ModRest ==
    ASSUME NEW x \in Int, NEW c \in Nat \ {0}
    PROVE  (x - (x % c)) % c = 0
<1>1. x = c * (x \div c) + (x % c) /\ x % c \in 0 .. c - 1 /\ x \div c \in Int
  BY DivMod
<1>2. x - (x % c) = c * (x \div c) + 0
  BY <1>1
<1>3. x - (x % c) \in Int /\ 0 \in 0 .. c - 1
  BY <1>1
<1> QED
  BY <1>1, <1>2, <1>3, ModUnique

-----------------------------------------------------------------------------
(***************************************************************************)
(* Windows                                                                 *)
(***************************************************************************)
Windows == [base : Int, dictBase : Int, lowLimit : Int, dictLimit : Int, nextSrc : Int]

\* The segments of a window follow each other.
Ordered(w) ==
    /\ ZSTD_WINDOW_START_INDEX <= w.lowLimit
    /\ w.lowLimit <= w.dictLimit /\ w.dictLimit <= EndIndex(w)

USE DEF ZSTD_WINDOW_START_INDEX

\* The window before the input is noted: the prefix becomes the extDict when the input
\* does not follow it.
Moved(w, src, size, force) ==
    LET end == EndIndex(w)
        low == IF end - w.dictLimit < HASH_READ_SIZE THEN end ELSE w.dictLimit
    IN IF Contiguous(w, src, size, force) THEN w
       ELSE [w EXCEPT !.lowLimit = low, !.dictLimit = end, !.dictBase = w.base, !.base = src - end]

\* The fields after ZSTD_window_update().
LEMMA UpdateFields ==
    ASSUME NEW w \in Windows, NEW src \in Int, NEW size \in Nat \ {0}, NEW force \in BOOLEAN,
           NEW v, v = ZSTD_window_update(w, src, size, force),
           NEW m \in Windows, m = Moved(w, src, size, force)
    PROVE  /\ v \in Windows
           /\ v.base = m.base /\ v.dictBase = m.dictBase /\ v.dictLimit = m.dictLimit
           /\ v.nextSrc = src + size
           /\ \/ /\ v.lowLimit = m.lowLimit
                 /\ src + size <= m.dictBase + m.lowLimit \/ src >= m.dictBase + m.dictLimit
              \/ /\ src + size > m.dictBase + m.lowLimit /\ src < m.dictBase + m.dictLimit
                 /\ v.lowLimit = IF src + size - m.dictBase > m.dictLimit THEN m.dictLimit
                                 ELSE src + size - m.dictBase
<1> DEFINE high == src + size - m.dictBase
           overlaps == src + size > m.dictBase + m.lowLimit /\ src < m.dictBase + m.dictLimit
           low == IF ~overlaps THEN m.lowLimit ELSE IF high > m.dictLimit THEN m.dictLimit ELSE high
<1>1. v = [m EXCEPT !.nextSrc = src + size, !.lowLimit = low]
  BY DEF ZSTD_window_update, Moved
<1>2. /\ m.base \in Int /\ m.dictBase \in Int /\ m.lowLimit \in Int /\ m.dictLimit \in Int
      /\ low \in Int /\ src + size \in Int
  BY DEF Windows
<1>3. /\ v \in Windows
      /\ v.base = m.base /\ v.dictBase = m.dictBase /\ v.dictLimit = m.dictLimit
      /\ v.nextSrc = src + size /\ v.lowLimit = low
  <2> DEFINE next == src + size
  <2>1. v = [m EXCEPT !.nextSrc = next, !.lowLimit = low] /\ next \in Int
    BY <1>1, <1>2
  <2> HIDE DEF low, next
  <2>2. /\ v \in Windows
        /\ v.base = m.base /\ v.dictBase = m.dictBase /\ v.dictLimit = m.dictLimit
        /\ v.nextSrc = next /\ v.lowLimit = low
    BY <1>2, <2>1 DEF Windows
  <2> QED
    BY <2>2 DEF next
<1> QED
  BY <1>2, <1>3

\* The fields of the window that moved.
LEMMA MovedFields ==
    ASSUME NEW w \in Windows, NEW src \in Int, NEW size \in Nat \ {0}, NEW force \in BOOLEAN,
           ~Contiguous(w, src, size, force), NEW m, m = Moved(w, src, size, force)
    PROVE  /\ m \in Windows
           /\ m.base = src - EndIndex(w) /\ m.dictBase = w.base /\ m.dictLimit = EndIndex(w)
           /\ m.lowLimit = IF EndIndex(w) - w.dictLimit < HASH_READ_SIZE THEN EndIndex(w) ELSE w.dictLimit
<1> DEFINE low == IF EndIndex(w) - w.dictLimit < HASH_READ_SIZE THEN EndIndex(w) ELSE w.dictLimit
<1>1. m = [w EXCEPT !.lowLimit = low, !.dictLimit = EndIndex(w), !.dictBase = w.base,
                    !.base = src - EndIndex(w)]
  BY DEF Moved
<1>2. EndIndex(w) \in Int /\ low \in Int /\ src - EndIndex(w) \in Int /\ w.base \in Int
  BY DEF Windows, EndIndex, Index
<1> HIDE DEF low
<1>3. /\ m \in Windows
      /\ m.base = src - EndIndex(w) /\ m.dictBase = w.base /\ m.dictLimit = EndIndex(w)
      /\ m.lowLimit = low
  BY <1>1, <1>2 DEF Windows
<1> QED
  BY <1>3 DEF low

\* ZSTD_window_update() gives the input the next indexes, discards no more than it must,
\* and keeps no index whose byte the input overwrites.
UpdateRight(w, src, size, force, v) ==
    /\ v \in Windows /\ Ordered(v)
    /\ v.nextSrc = src + size
    /\ Index(v, src) = EndIndex(w) /\ EndIndex(v) = EndIndex(w) + size
    /\ v.lowLimit >= w.lowLimit
    /\ v.dictLimit = IF Contiguous(w, src, size, force) THEN w.dictLimit ELSE EndIndex(w)
    /\ w.lowLimit = w.dictLimit /\ Contiguous(w, src, size, force) => v.lowLimit = v.dictLimit
    /\ w.lowLimit = EndIndex(w) => v.lowLimit = EndIndex(w) /\ v.dictLimit = EndIndex(w)
    /\ \A i \in v.lowLimit .. EndIndex(w) - 1 :
          Addr(v, i) = Addr(w, i) /\ Addr(v, i) \notin src .. src + size - 1
    /\ \A i \in EndIndex(w) .. EndIndex(v) - 1 : Addr(v, i) = src + (i - EndIndex(w))

LEMMA UpdateKeeps ==
    ASSUME NEW w \in Windows, Ordered(w),
           NEW src \in Int, NEW size \in Nat \ {0}, NEW force \in BOOLEAN
    PROVE  UpdateRight(w, src, size, force, ZSTD_window_update(w, src, size, force))
<1> DEFINE v == ZSTD_window_update(w, src, size, force)
<1> HIDE DEF v
<1> SUFFICES UpdateRight(w, src, size, force, v)
  BY DEF v
<1> DEFINE m == Moved(w, src, size, force)
           E == w.nextSrc - w.base
<1>1. /\ w.base \in Int /\ w.dictBase \in Int /\ w.nextSrc \in Int /\ E \in Int
      /\ w.lowLimit \in Int /\ w.dictLimit \in Int
      /\ 2 <= w.lowLimit /\ w.lowLimit <= w.dictLimit /\ w.dictLimit <= E /\ EndIndex(w) = E
  BY DEF Windows, Ordered, EndIndex, Index
<1>2. m \in Windows
  <2>1. CASE Contiguous(w, src, size, force)
    BY <2>1 DEF Moved
  <2>2. CASE ~Contiguous(w, src, size, force)
    BY <2>2, MovedFields
  <2> QED
    BY <2>1, <2>2
<1> HIDE DEF m
<1>3. /\ v \in Windows
      /\ v.base = m.base /\ v.dictBase = m.dictBase /\ v.dictLimit = m.dictLimit
      /\ v.nextSrc = src + size
      /\ \/ /\ v.lowLimit = m.lowLimit
            /\ src + size <= m.dictBase + m.lowLimit \/ src >= m.dictBase + m.dictLimit
         \/ /\ src + size > m.dictBase + m.lowLimit /\ src < m.dictBase + m.dictLimit
            /\ v.lowLimit = IF src + size - m.dictBase > m.dictLimit THEN m.dictLimit
                            ELSE src + size - m.dictBase
  BY <1>2, UpdateFields DEF m, v
<1>4. CASE Contiguous(w, src, size, force)
  <2>1. m = w /\ src = w.nextSrc
    BY <1>4 DEF m, Moved, Contiguous
  <2>2. /\ v.base = w.base /\ v.dictBase = w.dictBase /\ v.dictLimit = w.dictLimit
        /\ v.nextSrc = w.nextSrc + size
        /\ v.lowLimit \in Int /\ v.lowLimit >= w.lowLimit /\ v.lowLimit <= v.dictLimit
        /\ w.lowLimit = w.dictLimit => v.lowLimit = v.dictLimit
        /\ \A i \in v.lowLimit .. v.dictLimit - 1 : w.dictBase + i \notin src .. src + size - 1
    BY <1>1, <1>3, <2>1
  <2>3. EndIndex(v) = E + size /\ Index(v, src) = E /\ v.lowLimit >= w.lowLimit /\ Ordered(v)
    BY <1>1, <2>1, <2>2 DEF EndIndex, Index, Ordered
  <2>4. ASSUME NEW i \in v.lowLimit .. E - 1
        PROVE  Addr(v, i) = Addr(w, i) /\ Addr(v, i) \notin src .. src + size - 1
    BY <1>1, <2>1, <2>2 DEF Addr
  <2>5. ASSUME NEW i \in E .. E + size - 1
        PROVE  Addr(v, i) = src + (i - E)
    BY <1>1, <2>1, <2>2 DEF Addr
  <2> HIDE DEF E
  <2> QED
    BY <1>1, <1>3, <1>4, <2>2, <2>3, <2>4, <2>5 DEF UpdateRight
<1>5. CASE ~Contiguous(w, src, size, force)
  <2>1. /\ m.base = src - E /\ m.dictBase = w.base /\ m.dictLimit = E
        /\ m.lowLimit = IF E - w.dictLimit < HASH_READ_SIZE THEN E ELSE w.dictLimit
    BY <1>1, <1>5, MovedFields DEF m
  <2>2. /\ v.base = src - E /\ v.dictBase = w.base /\ v.dictLimit = E
        /\ v.nextSrc = src + size
        /\ v.lowLimit \in Int /\ v.lowLimit >= w.dictLimit /\ v.lowLimit <= E
        /\ \A i \in v.lowLimit .. E - 1 : w.base + i \notin src .. src + size - 1
    BY <1>1, <1>3, <2>1, WindowAssumption
  <2>3. EndIndex(v) = E + size /\ Index(v, src) = E /\ v.lowLimit >= w.lowLimit /\ Ordered(v)
    BY <1>1, <2>1, <2>2 DEF EndIndex, Index, Ordered
  <2>4. ASSUME NEW i \in v.lowLimit .. E - 1
        PROVE  Addr(v, i) = Addr(w, i) /\ Addr(v, i) \notin src .. src + size - 1
    BY <1>1, <2>1, <2>2 DEF Addr
  <2>5. ASSUME NEW i \in E .. E + size - 1
        PROVE  Addr(v, i) = src + (i - E)
    BY <1>1, <2>1, <2>2 DEF Addr
  <2> HIDE DEF E
  <2> QED
    BY <1>1, <1>3, <1>5, <2>2, <2>3, <2>4, <2>5 DEF UpdateRight
<1> QED
  BY <1>4, <1>5
\* ZSTD_window_clear() empties the window, and the indexes go on.
LEMMA ClearKeeps ==
    ASSUME NEW w \in Windows, Ordered(w), NEW v, v = ZSTD_window_clear(w)
    PROVE  /\ v \in Windows /\ Ordered(v)
           /\ v.base = w.base /\ v.nextSrc = w.nextSrc /\ EndIndex(v) = EndIndex(w)
           /\ v.lowLimit = EndIndex(v) /\ v.dictLimit = EndIndex(v)
<1> DEFINE E == EndIndex(w)
<1>1. E \in Int /\ E >= 2 /\ E = w.nextSrc - w.base
  BY DEF Windows, Ordered, EndIndex, Index
<1> HIDE DEF E
<1>2. v = [w EXCEPT !.lowLimit = E, !.dictLimit = E]
  BY DEF ZSTD_window_clear, E
<1>3. /\ v \in Windows /\ v.base = w.base /\ v.nextSrc = w.nextSrc
      /\ v.lowLimit = E /\ v.dictLimit = E
  BY <1>1, <1>2 DEF Windows
<1>4. EndIndex(v) = E
  BY <1>1, <1>3 DEF EndIndex, Index
<1> QED
  BY <1>1, <1>3, <1>4 DEF Ordered, E

\* A new window is empty.
LEMMA InitWindow ==
    /\ ZSTD_window_init \in Windows /\ Ordered(ZSTD_window_init)
    /\ EndIndex(ZSTD_window_init) = 2
    /\ ZSTD_window_init.lowLimit = 2 /\ ZSTD_window_init.dictLimit = 2
  BY WindowAssumption DEF ZSTD_window_init, Windows, Ordered, EndIndex, Index

\* The index that src gets in a correction keeps its place in a cycle of the tables, and
\* leaves a window below it.
LEMMA NewCurrent ==
    ASSUME NEW curr \in Int, NEW cycle \in Nat \ {0}, NEW maxDist \in Nat \ {0},
           MaxOf(maxDist, cycle) % cycle = 0,
           NEW new, new = newCurrent(curr, cycle, maxDist)
    PROVE  /\ new \in Int
           /\ new % cycle = curr % cycle
           /\ new - maxDist >= ZSTD_WINDOW_START_INDEX
           /\ new <= MaxOf(maxDist, cycle) + 1 + MaxOf(cycle, ZSTD_WINDOW_START_INDEX)
           /\ Correction(curr, cycle, maxDist) = curr - new
           /\ (curr - new) % cycle = 0
<1> DEFINE r == curr % cycle
           M == MaxOf(maxDist, cycle)
           X == IF r < 2 THEN MaxOf(cycle, 2) ELSE 0
<1>1. r \in 0 .. cycle - 1
  BY DivMod
<1>2. M \in Nat /\ M >= maxDist /\ M >= cycle /\ M % cycle = 0
  BY DEF MaxOf
<1>3. X \in Nat /\ (r < 2 => X >= 2) /\ X <= MaxOf(cycle, 2) /\ (r >= 2 => X = 0)
  BY <1>1 DEF MaxOf
<1>4. X % cycle = 0
  <2>1. 0 % cycle = 0 /\ cycle % cycle = 0 /\ 2 % 1 = 0
    <3>1. 0 = cycle * 0 + 0 /\ cycle = cycle * 1 + 0 /\ 0 \in 0 .. cycle - 1
      OBVIOUS
    <3>2. 0 % cycle = 0
      BY <3>1, ModUnique
    <3>3. cycle % cycle = 0
      BY <3>1, ModUnique
    <3> QED
      BY <3>2, <3>3
  <2>2. X = 0 \/ X = cycle \/ (X = 2 /\ cycle = 1)
    BY DEF MaxOf
  <2> QED
    BY <2>1, <2>2
<1>5. new = r + M + X /\ MaxOf(cycle, 2) \in Nat
  BY DEF newCurrent, MaxOf
<1> HIDE DEF r, M, X
<1>6. new \in Int /\ new - maxDist >= 2 /\ new <= M + 1 + MaxOf(cycle, 2)
  <2>1. CASE r < 2
    BY <1>1, <1>2, <1>3, <1>5, <2>1
  <2>2. CASE r >= 2
    <3>1. new = r + M
      BY <1>1, <1>2, <1>3, <1>5, <2>2
    <3>2. MaxOf(cycle, 2) >= cycle
      BY DEF MaxOf
    <3> QED
      BY <1>1, <1>2, <1>5, <2>2, <3>1, <3>2
  <2> QED
    BY <1>1, <2>1, <2>2
<1> DEFINE S == M + X
           R == curr - r
           C == curr - new
<1>7. S \in Int /\ R \in Int /\ C \in Int /\ new = r + S /\ C = R - S /\ S = M + X
  BY <1>1, <1>2, <1>3, <1>5
<1>8. R % cycle = 0
  BY ModRest DEF r
<1> HIDE DEF S, R, C
<1>9. S % cycle = 0
  <2>1. M \in Int /\ X \in Int /\ X % cycle = 0 /\ S \in Int /\ S = M + X
    BY <1>2, <1>3, <1>4, <1>7
  <2>2. S % cycle = M % cycle
    BY <2>1, ModShift, ZenonT(60)
  <2> QED
    BY <1>2, <2>2
<1>10. new % cycle = r
  <2>1. new % cycle = r % cycle
    BY <1>1, <1>6, <1>7, <1>9, ModShift
  <2>2. r = cycle * 0 + r
    BY <1>1
  <2>3. r % cycle = r
    BY <1>1, <2>2, ModUnique
  <2> QED
    BY <2>1, <2>3
<1>11. C % cycle = 0
  <2>1. C % cycle = R % cycle
    BY <1>7, <1>9, ModShift
  <2> QED
    BY <1>8, <2>1
<1> QED
  BY <1>6, <1>10, <1>11 DEF Correction, M, r, C

\* Reducing the indexes by a correction keeps every byte that keeps an index.
LEMMA CorrectKeeps ==
    ASSUME NEW w \in Windows, Ordered(w), NEW c \in Int, EndIndex(w) - c >= ZSTD_WINDOW_START_INDEX,
           NEW v, v = ZSTD_window_correctOverflow(w, c)
    PROVE  /\ v \in Windows /\ Ordered(v)
           /\ v.nextSrc = w.nextSrc /\ v.base = w.base + c /\ EndIndex(v) = EndIndex(w) - c
           /\ v.lowLimit = IF w.lowLimit < c + 2 THEN 2 ELSE w.lowLimit - c
           /\ v.dictLimit = IF w.dictLimit < c + 2 THEN 2 ELSE w.dictLimit - c
           /\ \A i \in v.lowLimit .. EndIndex(v) - 1 :
                 i + c \in w.lowLimit .. EndIndex(w) - 1 /\ Addr(v, i) = Addr(w, i + c)
<1> DEFINE low == IF w.lowLimit < c + 2 THEN 2 ELSE w.lowLimit - c
           lim == IF w.dictLimit < c + 2 THEN 2 ELSE w.dictLimit - c
           E == w.nextSrc - w.base
<1>1. /\ w.base \in Int /\ w.dictBase \in Int /\ w.nextSrc \in Int /\ E \in Int
      /\ w.lowLimit \in Int /\ w.dictLimit \in Int
      /\ 2 <= w.lowLimit /\ w.lowLimit <= w.dictLimit /\ w.dictLimit <= E /\ EndIndex(w) = E
      /\ E - c >= 2
  BY DEF Windows, Ordered, EndIndex, Index
<1>2. low \in Int /\ lim \in Int /\ w.base + c \in Int /\ w.dictBase + c \in Int
  BY <1>1
<1>3. v = [w EXCEPT !.base = w.base + c, !.dictBase = w.dictBase + c, !.lowLimit = low, !.dictLimit = lim]
  BY DEF ZSTD_window_correctOverflow
<1>4. /\ v \in Windows /\ v.nextSrc = w.nextSrc /\ v.base = w.base + c /\ v.dictBase = w.dictBase + c
      /\ v.lowLimit = low /\ v.dictLimit = lim
  <2> HIDE DEF low, lim
  <2> QED
    BY <1>2, <1>3 DEF Windows
<1>5. EndIndex(v) = E - c /\ Ordered(v)
  BY <1>1, <1>4 DEF EndIndex, Index, Ordered
<1>6. ASSUME NEW i \in v.lowLimit .. E - c - 1
      PROVE  i + c \in w.lowLimit .. E - 1 /\ Addr(v, i) = Addr(w, i + c)
  BY <1>1, <1>4 DEF Addr
<1> QED
  BY <1>1, <1>4, <1>5, <1>6

\* ZSTD_window_enforceMaxDist() shortens the window from below.
EnforceRight(w, e, d, l, v) ==
    /\ v \in Windows /\ Ordered(v)
    /\ v.nextSrc = w.nextSrc /\ v.base = w.base /\ EndIndex(v) = EndIndex(w)
    /\ v.lowLimit >= w.lowLimit
    /\ v.dictLimit = w.dictLimit \/ (v.dictLimit = v.lowLimit /\ v.dictLimit = e - d)
    /\ w.lowLimit = w.dictLimit => v.lowLimit = v.dictLimit
    /\ ~OutOfReach(e, d, l) => v = w
    /\ \A i \in v.lowLimit .. EndIndex(v) - 1 : Addr(v, i) = Addr(w, i)

LEMMA EnforceKeeps ==
    ASSUME NEW w \in Windows, Ordered(w), NEW e \in Int, NEW d \in Nat, NEW l \in Int,
           e - d <= EndIndex(w),
           NEW v, v = ZSTD_window_enforceMaxDist(w, e, d, l)
    PROVE  EnforceRight(w, e, d, l, v)
<1> USE DEF EnforceRight
<1> DEFINE low == MaxOf(w.lowLimit, e - d)
           lim == MaxOf(w.dictLimit, low)
           E == w.nextSrc - w.base
<1>1. /\ w.base \in Int /\ w.dictBase \in Int /\ w.nextSrc \in Int /\ E \in Int
      /\ w.lowLimit \in Int /\ w.dictLimit \in Int
      /\ 2 <= w.lowLimit /\ w.lowLimit <= w.dictLimit /\ w.dictLimit <= E /\ EndIndex(w) = E
      /\ e - d <= E
  BY DEF Windows, Ordered, EndIndex, Index
<1>2. CASE OutOfReach(e, d, l)
  <2>1. low \in Int /\ lim \in Int
    BY <1>1 DEF MaxOf
  <2>2. v = [w EXCEPT !.lowLimit = low, !.dictLimit = lim]
    BY <1>2 DEF ZSTD_window_enforceMaxDist
  <2>3. /\ v \in Windows /\ v.nextSrc = w.nextSrc /\ v.base = w.base /\ v.dictBase = w.dictBase
        /\ v.lowLimit = low /\ v.dictLimit = lim
    <3> HIDE DEF low, lim
    <3> QED
      BY <2>1, <2>2 DEF Windows
  <2>4. /\ v.lowLimit >= w.lowLimit /\ 2 <= v.lowLimit /\ v.lowLimit <= v.dictLimit /\ v.dictLimit <= E
        /\ v.dictLimit = w.dictLimit \/ (v.dictLimit = v.lowLimit /\ v.dictLimit = e - d)
        /\ w.lowLimit = w.dictLimit => v.lowLimit = v.dictLimit
        /\ v.dictLimit >= w.dictLimit
    BY <1>1, <2>3 DEF MaxOf
  <2>5. EndIndex(v) = E /\ Ordered(v)
    BY <1>1, <2>3, <2>4 DEF EndIndex, Index, Ordered
  <2>6. ASSUME NEW i \in v.lowLimit .. E - 1
        PROVE  Addr(v, i) = Addr(w, i)
    BY <1>1, <2>1, <2>3, <2>4 DEF Addr
  <2> QED
    BY <1>1, <1>2, <2>3, <2>4, <2>5, <2>6
<1>3. CASE ~OutOfReach(e, d, l)
  <2>1. v = w
    BY <1>3 DEF ZSTD_window_enforceMaxDist
  <2> QED
    BY <1>1, <2>1
<1> QED
  BY <1>2, <1>3

USE DEF ZSTD_WINDOW_START_INDEX

(***************************************************************************)
(* The inductive invariant.  Its core is about any window w, table t,      *)
(* memory m and number f of bytes fed, for an action goes through several. *)
(***************************************************************************)
Slots == 0 .. Cycle - 1
Tables == [Slots -> [i : Nat, byte : Int]]
MatchStates == [loadedDictEnd : Int, dms : Nat, force : BOOLEAN, next : Int, table : Tables]

\* The byte that index i of w should name when f bytes have been fed.
Byte(w, f, i) == f + 1 - (EndIndex(w) - i)

\* Every index of the window names its byte.
History(w, m, f) ==
    \A i \in w.lowLimit .. EndIndex(w) - 1 : Addr(w, i) \in Memory /\ m[Addr(w, i)] = Byte(w, f, i)

\* No entry holds an index that is still to be given; one in the window means its
\* byte; each is in its slot.
Entries(w, t, f) ==
    \A s \in Slots : /\ t[s].i < EndIndex(w)
                     /\ t[s].i >= w.lowLimit => t[s].byte = Byte(w, f, t[s].i)
                     /\ t[s].i # 0 => t[s].i % Cycle = s

Good(w, t, m, f) ==
    /\ w \in Windows /\ Ordered(w) /\ t \in Tables /\ m \in [Memory -> Int] /\ f \in Nat
    /\ History(w, m, f) /\ Entries(w, t, f)

\* Every variable has its type.
TypeInv ==
    /\ ms \in MatchStates
    /\ frame \in Nat /\ dictByte \in Nat
    /\ call \in [pc : {"idle", "chunk", "block"}, ip : Int, left : Nat, size : Nat, safe : BOOLEAN]

\* The match finder goes on in the prefix, or there is nothing but the prefix.
NextInv == ms.next >= win.dictLimit \/ win.lowLimit = win.dictLimit

\* The chunk in progress is the end of the prefix; in a block the dictionary, if it is
\* still there, ends where the prefix begins, within a window of the block's end.
ChunkInv ==
    /\ call.pc # "idle" => /\ win.dictLimit <= Index(win, call.ip)
                           /\ call.ip + call.left = win.nextSrc /\ call.left > 0
    /\ call.pc = "block" => /\ call.size \in 1 .. call.left
                            /\ ms.next >= win.dictLimit
                            /\ ms.loadedDictEnd # 0 =>
                                  /\ ms.loadedDictEnd = win.dictLimit
                                  /\ Index(win, call.ip) + call.size <= MaxDist + win.dictLimit

\* The window holds nothing older than the frame; the end of the dictionary is the index
\* of the byte behind it.
DictInv ==
    /\ ByteOf(win.lowLimit) >= frame
    /\ ms.loadedDictEnd # 0 /\ ms.dms = 0 => dictByte > 0 /\ ByteOf(ms.loadedDictEnd) = dictByte + 1
    /\ ms.dms > 0 => /\ ms.loadedDictEnd >= ZSTD_WINDOW_START_INDEX + ms.dms
                     /\ ByteOf(ms.loadedDictEnd) = frame /\ win.lowLimit >= ms.loadedDictEnd

IndInv == Good(win, ms.table, mem, fed) /\ TypeInv /\ NextInv /\ ChunkInv /\ DictInv /\ call.safe

-----------------------------------------------------------------------------
(***************************************************************************)
(* What the pieces of an action keep                                       *)
(***************************************************************************)
\* The numbers of a window.
LEMMA WindowInts ==
    ASSUME NEW w \in Windows
    PROVE  /\ w.base \in Int /\ w.dictBase \in Int /\ w.nextSrc \in Int
           /\ w.lowLimit \in Int /\ w.dictLimit \in Int /\ EndIndex(w) \in Int
           /\ EndIndex(w) = w.nextSrc - w.base
  BY DEF Windows, EndIndex, Index

\* The match state without its dictionary.
Drop(s, n, t) == [s EXCEPT !.loadedDictEnd = 0, !.dms = 0, !.next = n, !.table = t]

LEMMA Dropped ==
    ASSUME NEW s \in MatchStates, NEW n \in Int, NEW t \in Tables,
           NEW q, q = Drop(s, n, t)
    PROVE  /\ q \in MatchStates /\ q.loadedDictEnd = 0 /\ q.dms = 0 /\ q.next = n /\ q.table = t
           /\ q.force = s.force
<1> DEFINE zero == 0
<1>1. zero \in Int /\ zero \in Nat /\ zero = 0
  OBVIOUS
<1>2. q = [s EXCEPT !.loadedDictEnd = zero, !.dms = zero, !.next = n, !.table = t]
  BY DEF Drop
<1> HIDE DEF zero
<1>3. /\ q \in MatchStates /\ q.loadedDictEnd = zero /\ q.dms = zero /\ q.next = n /\ q.table = t
      /\ q.force = s.force
  BY <1>1, <1>2 DEF MatchStates
<1> QED
  BY <1>1, <1>3

\* An empty window is right about every byte, if the table holds older indexes only.
LEMMA GoodEmpty ==
    ASSUME NEW w \in Windows, Ordered(w), w.lowLimit = EndIndex(w), NEW t \in Tables,
           NEW m \in [Memory -> Int], NEW f \in Nat,
           \A s \in Slots : t[s].i < EndIndex(w) /\ (t[s].i # 0 => t[s].i % Cycle = s)
    PROVE  Good(w, t, m, f)
<1>1. History(w, m, f)
  BY WindowInts DEF History
<1>2. \A s \in Slots : t[s].i \in Int
  BY DEF Tables
<1>3. Entries(w, t, f)
  BY <1>2, WindowInts DEF Entries
<1> QED
  BY <1>1, <1>3 DEF Good

\* Cleared tables hold no index.
LEMMA NoEntries ==
    LET t == [s \in Slots |-> NoEntry]
    IN /\ t \in Tables
       /\ \A s \in Slots : t[s].i = 0
  BY DEF NoEntry, Tables

\* A window shortened from below is still right.
LEMMA GoodShorter ==
    ASSUME NEW w, NEW t, NEW m, NEW f, Good(w, t, m, f),
           NEW v \in Windows, Ordered(v), EndIndex(v) = EndIndex(w), v.lowLimit >= w.lowLimit,
           \A i \in v.lowLimit .. EndIndex(v) - 1 : Addr(v, i) = Addr(w, i)
    PROVE  Good(v, t, m, f)
<1>1. w.lowLimit \in Int /\ v.lowLimit \in Int /\ EndIndex(w) \in Int
  BY WindowInts DEF Good
<1>2. \A i : Byte(v, f, i) = Byte(w, f, i)
  BY DEF Byte
<1>3. History(v, m, f)
  BY <1>1, <1>2 DEF Good, History
<1>4. \A s \in Slots : t[s].i \in Int
  BY DEF Good, Tables
<1>5. Entries(v, t, f)
  BY <1>1, <1>2, <1>4 DEF Good, Entries
<1> QED
  BY <1>3, <1>5 DEF Good

\* Memory with an input in it.
LEMMA GoodFed ==
    ASSUME NEW w, NEW t, NEW m, NEW f, Good(w, t, m, f),
           NEW src \in Int, NEW size \in Nat \ {0}, NEW force \in BOOLEAN,
           src .. src + size - 1 \subseteq Memory, Memory \subseteq Int,
           NEW n, n = [a \in Memory |-> IF a \in src .. src + size - 1 THEN f + 1 + a - src ELSE m[a]],
           NEW v, v = ZSTD_window_update(w, src, size, force)
    PROVE  Good(v, t, n, f + size)
<1>1. w \in Windows /\ Ordered(w) /\ f \in Nat /\ m \in [Memory -> Int] /\ t \in Tables
  BY DEF Good
<1>2. /\ v \in Windows /\ Ordered(v)
      /\ EndIndex(v) = EndIndex(w) + size
      /\ v.lowLimit >= w.lowLimit
      /\ \A i \in v.lowLimit .. EndIndex(w) - 1 :
            Addr(v, i) = Addr(w, i) /\ Addr(v, i) \notin src .. src + size - 1
      /\ \A i \in EndIndex(w) .. EndIndex(v) - 1 : Addr(v, i) = src + (i - EndIndex(w))
  <2>1. UpdateRight(w, src, size, force, v)
    BY <1>1, UpdateKeeps
  <2> QED
    BY <2>1 DEF UpdateRight
<1>3. w.lowLimit \in Int /\ v.lowLimit \in Int /\ EndIndex(w) \in Int /\ EndIndex(v) \in Int
  BY <1>1, <1>2, WindowInts
<1>4. \A i \in Int : Byte(v, f + size, i) = Byte(w, f, i)
  BY <1>1, <1>2, <1>3 DEF Byte
<1>5. n \in [Memory -> Int]
  BY <1>1
<1>6. ASSUME NEW i \in v.lowLimit .. EndIndex(v) - 1
      PROVE  Addr(v, i) \in Memory /\ n[Addr(v, i)] = Byte(v, f + size, i)
  <2>1. CASE i < EndIndex(w)
    <3>1. i \in v.lowLimit .. EndIndex(w) - 1 /\ i \in w.lowLimit .. EndIndex(w) - 1
      BY <1>2, <1>3, <2>1
    <3>2. /\ Addr(v, i) = Addr(w, i) /\ Addr(v, i) \notin src .. src + size - 1
          /\ Addr(w, i) \in Memory /\ m[Addr(w, i)] = Byte(w, f, i)
      BY <1>2, <3>1 DEF Good, History
    <3>3. n[Addr(v, i)] = m[Addr(w, i)]
      BY <3>2
    <3> QED
      BY <1>4, <3>2, <3>3
  <2>2. CASE i >= EndIndex(w)
    <3>1. i \in EndIndex(w) .. EndIndex(v) - 1
      BY <1>3, <2>2
    <3>2. Addr(v, i) = src + (i - EndIndex(w))
      BY <1>2, <3>1
    <3>3. Addr(v, i) \in src .. src + size - 1
      BY <1>2, <1>3, <3>1, <3>2
    <3>4. Addr(v, i) \in Memory /\ n[Addr(v, i)] = f + 1 + Addr(v, i) - src
      BY <3>3
    <3> QED
      BY <1>1, <1>2, <1>3, <3>1, <3>2, <3>4 DEF Byte
  <2> QED
    BY <1>3, <2>1, <2>2
<1>7. \A s \in Slots : t[s].i \in Int
  BY <1>1 DEF Tables
<1>8. Entries(v, t, f + size)
  BY <1>2, <1>3, <1>4, <1>7 DEF Good, Entries
<1> QED
  BY <1>1, <1>2, <1>5, <1>6, <1>8 DEF Good, History

\* Window and tables reduced by a multiple of the cycle are right about the same bytes.
LEMMA GoodCorrected ==
    ASSUME NEW w, NEW t, NEW m, NEW f, Good(w, t, m, f),
           NEW c \in Nat, c % Cycle = 0, EndIndex(w) - c >= ZSTD_WINDOW_START_INDEX,
           NEW v, v = ZSTD_window_correctOverflow(w, c)
    PROVE  Good(v, ZSTD_reduceIndex(t, c), m, f)
<1> DEFINE u == ZSTD_reduceIndex(t, c)
<1>1. w \in Windows /\ Ordered(w) /\ f \in Nat /\ m \in [Memory -> Int] /\ t \in Tables
  BY DEF Good
<1>2. /\ v \in Windows /\ Ordered(v)
      /\ EndIndex(v) = EndIndex(w) - c
      /\ v.lowLimit = IF w.lowLimit < c + 2 THEN 2 ELSE w.lowLimit - c
      /\ \A i \in v.lowLimit .. EndIndex(v) - 1 :
            i + c \in w.lowLimit .. EndIndex(w) - 1 /\ Addr(v, i) = Addr(w, i + c)
  BY <1>1, CorrectKeeps
<1>3. w.lowLimit \in Int /\ v.lowLimit \in Int /\ EndIndex(w) \in Int /\ EndIndex(v) \in Int
  BY <1>1, <1>2, WindowInts
<1>4. \A i \in Int : Byte(v, f, i) = Byte(w, f, i + c)
  BY <1>1, <1>2, <1>3 DEF Byte
<1>5. History(v, m, f)
  BY <1>2, <1>3, <1>4 DEF Good, History
<1>6. ASSUME NEW s \in Slots
      PROVE  /\ t[s] \in [i : Nat, byte : Int]
             /\ u[s] \in [i : Nat, byte : Int]
             /\ u[s].byte = t[s].byte
             /\ u[s].i = IF t[s].i < c + 2 THEN 0 ELSE t[s].i - c
  <2>1. t[s] \in [i : Nat, byte : Int] /\ s \in DOMAIN t
    BY <1>1 DEF Tables
  <2>2. ZSTD_reduceTable(t[s].i, c) \in Nat
    BY <2>1 DEF ZSTD_reduceTable
  <2>3. u[s] = [t[s] EXCEPT !.i = ZSTD_reduceTable(t[s].i, c)]
    BY <2>1 DEF ZSTD_reduceIndex
  <2> QED
    BY <2>1, <2>2, <2>3 DEF ZSTD_reduceTable
<1>7. u \in Tables
  BY <1>1, <1>6 DEF Tables, ZSTD_reduceIndex
<1>8. ASSUME NEW s \in Slots
      PROVE  /\ u[s].i < EndIndex(v)
             /\ u[s].i >= v.lowLimit => u[s].byte = Byte(v, f, u[s].i)
             /\ u[s].i # 0 => u[s].i % Cycle = s
  <2>1. t[s].i \in Nat /\ u[s].i \in Nat /\ u[s].byte = t[s].byte
    BY <1>6
  <2>2. /\ t[s].i < EndIndex(w)
        /\ t[s].i >= w.lowLimit => t[s].byte = Byte(w, f, t[s].i)
        /\ t[s].i # 0 => t[s].i % Cycle = s
    BY DEF Good, Entries
  <2>3. CASE t[s].i < c + 2
    <3>1. u[s].i = 0
      BY <1>6, <2>3
    <3>2. v.lowLimit >= 2
      BY <1>2 DEF Ordered
    <3> QED
      BY <1>2, <1>3, <3>1, <3>2
  <2>4. CASE ~(t[s].i < c + 2)
    <3>1. u[s].i = t[s].i - c
      BY <1>6, <2>4
    <3>2. u[s].i < EndIndex(v)
      BY <1>2, <1>3, <2>1, <2>2, <3>1
    <3>3. u[s].i >= v.lowLimit => t[s].i >= w.lowLimit
      BY <1>2, <1>3, <2>1, <2>4, <3>1
    <3>4. Byte(v, f, u[s].i) = Byte(w, f, t[s].i)
      BY <1>1, <1>2, <1>3, <2>1, <3>1 DEF Byte
    <3>5. u[s].i # 0 => u[s].i % Cycle = s
      <4>1. t[s].i # 0
        BY <2>1, <2>4
      <4>2. u[s].i % Cycle = t[s].i % Cycle
        BY <2>1, <3>1, ModShift, FrameWindowAssumption
      <4> QED
        BY <2>2, <4>1, <4>2
    <3> QED
      BY <2>1, <2>2, <3>2, <3>3, <3>4, <3>5
  <2> QED
    BY <2>3, <2>4
<1> HIDE DEF u
<1>9. Entries(v, u, f)
  BY <1>8 DEF Entries
<1> QED
  BY <1>1, <1>2, <1>5, <1>7, <1>9 DEF Good, u
\* Positions of the prefix entered in the table get the bytes they stand for.
EnteredRight(w, s, m, f, u) ==
    /\ Good(w, u.table, m, f) /\ u \in MatchStates
    /\ u.next >= s.next
    /\ u.loadedDictEnd = s.loadedDictEnd /\ u.dms = s.dms /\ u.force = s.force

LEMMA GoodEntered ==
    ASSUME NEW w, NEW s \in MatchStates, NEW m, NEW f, Good(w, s.table, m, f),
           s.next >= w.dictLimit, NEW end \in Int, end <= w.nextSrc,
           NEW u, u = Entered(w, s, end, m)
    PROVE  EnteredRight(w, s, m, f, u)
<1> DEFINE last == Index(w, end) - HASH_READ_SIZE
           N(k) == last - ((last - k) % Cycle)
           T == [k \in DOMAIN s.table |-> IF N(k) < s.next THEN s.table[k]
                                          ELSE [i |-> N(k), byte |-> m[w.base + N(k)]]]
           X == MaxOf(s.next, last + 1)
<1>1. w \in Windows /\ Ordered(w) /\ f \in Nat /\ m \in [Memory -> Int] /\ s.table \in Tables
  BY DEF Good
<1>2. /\ w.base \in Int /\ w.lowLimit \in Int /\ w.dictLimit \in Int /\ EndIndex(w) \in Int
      /\ w.nextSrc \in Int /\ EndIndex(w) = w.nextSrc - w.base
  BY <1>1, WindowInts
<1>3. last \in Int /\ last < EndIndex(w) /\ s.next \in Int /\ Cycle \in Nat \ {0}
  BY <1>2, WindowAssumption, LimitsAssumption, FrameWindowAssumption DEF Index, MatchStates
<1>4. ASSUME NEW k \in Slots
      PROVE  /\ N(k) \in Int /\ N(k) < EndIndex(w) /\ N(k) % Cycle = k
             /\ N(k) >= s.next => /\ N(k) \in Nat /\ w.base + N(k) \in Memory
                                  /\ m[w.base + N(k)] = Byte(w, f, N(k)) /\ m[w.base + N(k)] \in Int
  <2> DEFINE x == last - k
             y == x - (x % Cycle)
             z == N(k)
  <2>1. k \in Int /\ k \in 0 .. Cycle - 1 /\ x \in Int
    BY <1>3 DEF Slots
  <2>2. x % Cycle \in 0 .. Cycle - 1
    BY <1>3, <2>1, DivMod
  <2>3. y % Cycle = 0
    BY <1>3, <2>1, ModRest
  <2>4. y \in Int /\ z \in Int /\ z = k + y /\ z <= last
    BY <1>3, <2>1, <2>2
  <2>5. k % Cycle = k
    <3>1. k = Cycle * 0 + k
      BY <1>3, <2>1
    <3> QED
      BY <1>3, <2>1, <3>1, ModUnique
  <2> HIDE DEF x, y, z, last
  <2>6. z % Cycle = k
    <3>1. z % Cycle = k % Cycle
      BY <1>3, <2>1, <2>3, <2>4, ModShift
    <3> QED
      BY <2>5, <3>1
  <2>7. z < EndIndex(w)
    BY <1>2, <1>3, <2>4
  <2>8. ASSUME z >= s.next
        PROVE  /\ z \in Nat /\ w.base + z \in Memory
               /\ m[w.base + z] = Byte(w, f, z) /\ m[w.base + z] \in Int
    <3>1. z >= w.dictLimit /\ w.dictLimit >= w.lowLimit /\ w.lowLimit >= 2
      BY <1>1, <1>2, <1>3, <2>4, <2>8 DEF Ordered
    <3>2. z \in w.lowLimit .. EndIndex(w) - 1 /\ z \in Nat
      BY <1>2, <2>4, <2>7, <3>1
    <3>3. Addr(w, z) = w.base + z
      BY <1>2, <2>4, <3>1 DEF Addr
    <3>4. Addr(w, z) \in Memory /\ m[Addr(w, z)] = Byte(w, f, z)
      BY <3>2 DEF Good, History
    <3>5. m[Addr(w, z)] \in Int
      BY <1>1, <3>4
    <3> QED
      BY <3>2, <3>3, <3>4, <3>5
  <2> QED
    BY <2>4, <2>6, <2>7, <2>8 DEF z
<1> HIDE DEF N, last
<1>5. ASSUME NEW k \in Slots
      PROVE  /\ T[k] \in [i : Nat, byte : Int]
             /\ T[k].i < EndIndex(w)
             /\ T[k].i >= w.lowLimit => T[k].byte = Byte(w, f, T[k].i)
             /\ T[k].i # 0 => T[k].i % Cycle = k
  <2>1. k \in DOMAIN s.table /\ s.table[k] \in [i : Nat, byte : Int]
    BY <1>1 DEF Tables
  <2>2. CASE N(k) < s.next
    <3>1. T[k] = s.table[k]
      BY <2>1, <2>2
    <3> QED
      BY <2>1, <3>1 DEF Good, Entries
  <2>3. CASE ~(N(k) < s.next)
    <3>1. T[k] = [i |-> N(k), byte |-> m[w.base + N(k)]]
      BY <2>1, <2>3
    <3>2. N(k) >= s.next
      BY <1>3, <1>4, <2>3
    <3> QED
      BY <1>4, <3>1, <3>2
  <2> QED
    BY <2>2, <2>3
<1>6. T \in Tables
  BY <1>1, <1>5 DEF Tables
<1>7. X \in Int /\ X >= s.next
  BY <1>3 DEF MaxOf
<1>8. u = [s EXCEPT !.table = T, !.next = X]
  BY DEF Entered, N, last
<1> HIDE DEF T, X
<1>9. /\ u \in MatchStates /\ u.table = T /\ u.next = X
      /\ u.loadedDictEnd = s.loadedDictEnd /\ u.dms = s.dms /\ u.force = s.force
  BY <1>6, <1>7, <1>8 DEF MatchStates
<1>10. Entries(w, T, f)
  BY <1>5 DEF Entries
<1> QED
  BY <1>1, <1>6, <1>7, <1>9, <1>10 DEF Good, EnteredRight

\* What ZSTD_overflowCorrectIfNeeded() leaves behind, for a block from ip to end at the end
\* of the prefix: the same bytes under other indexes, all assertions of the code true.
CorrectionRight(w, s, ip, m, f, o) ==
    /\ Good(o.w, o.s.table, m, f) /\ o.s \in MatchStates /\ o.safe = TRUE
    /\ o.w.nextSrc = w.nextSrc /\ o.w.dictLimit <= Index(o.w, ip)
    /\ Byte(o.w, f, o.w.lowLimit) >= Byte(w, f, w.lowLimit)
    /\ o.s.force = s.force
    /\ s.next >= w.dictLimit \/ w.lowLimit = w.dictLimit =>
          o.s.next >= o.w.dictLimit \/ o.w.lowLimit = o.w.dictLimit
    /\ s.next = Index(w, ip) => o.s.next = Index(o.w, ip)
    /\ (o.w = w /\ o.s = s) \/ (o.s.loadedDictEnd = 0 /\ o.s.dms = 0)

LEMMA CorrectionKeeps ==
    ASSUME NEW w, NEW s \in MatchStates, NEW m, NEW f, Good(w, s.table, m, f),
           NEW ip \in Int, NEW end \in Int, w.dictLimit <= Index(w, ip), ip <= end, end <= w.nextSrc,
           \/ Index(w, end) <= ZSTD_CURRENT_MAX
           \/ end - ip < ZSTD_CURRENT_MAX - MaxOf(MaxDist, Cycle) - MaxOf(Cycle, ZSTD_WINDOW_START_INDEX)
    PROVE  CorrectionRight(w, s, ip, m, f, ZSTD_overflowCorrectIfNeeded(w, s, ip, end))
<1>1. w \in Windows /\ Ordered(w) /\ f \in Nat /\ s.table \in Tables
  BY DEF Good
<1>2. /\ w.base \in Int /\ w.lowLimit \in Int /\ w.dictLimit \in Int /\ EndIndex(w) \in Int
      /\ w.nextSrc \in Int /\ EndIndex(w) = w.nextSrc - w.base /\ Index(w, end) = end - w.base
      /\ Index(w, ip) = ip - w.base /\ Index(w, ip) \in Int
  BY <1>1, WindowInts DEF Index
<1>3. /\ s.next \in Int /\ Cycle \in Nat \ {0} /\ MaxDist \in Nat \ {0}
      /\ MaxOf(MaxDist, Cycle) % Cycle = 0 /\ ZSTD_CURRENT_MAX \in Int
  BY WindowAssumption, LimitsAssumption, FrameWindowAssumption DEF MatchStates
<1> PICK o : o = ZSTD_overflowCorrectIfNeeded(w, s, ip, end)
  OBVIOUS
<1> PICK curr \in Int : curr = Index(w, ip)
  BY <1>2
<1> PICK new : new = newCurrent(curr, Cycle, MaxDist)
  OBVIOUS
<1> PICK c : c = curr - new
  OBVIOUS
<1> PICK v : v = ZSTD_window_correctOverflow(w, c)
  OBVIOUS
<1>4. CASE ~(Index(w, end) > ZSTD_CURRENT_MAX)
  <2>1. o = [w |-> w, s |-> s, safe |-> TRUE]
    BY <1>4 DEF ZSTD_overflowCorrectIfNeeded, ZSTD_window_needOverflowCorrection
  <2>2. o.w = w /\ o.s = s /\ o.safe = TRUE
    BY <2>1
  <2>3. Byte(w, f, w.lowLimit) \in Int
    BY <1>1, <1>2 DEF Byte
  <2> QED
    BY <1>2, <2>2, <2>3 DEF CorrectionRight
<1>5. CASE Index(w, end) > ZSTD_CURRENT_MAX
  <2>1. /\ new \in Int /\ new % Cycle = curr % Cycle /\ new - MaxDist >= 2
        /\ new <= MaxOf(MaxDist, Cycle) + 1 + MaxOf(Cycle, 2)
        /\ Correction(curr, Cycle, MaxDist) = curr - new /\ (curr - new) % Cycle = 0
    BY <1>3, NewCurrent
  <2>2. MaxOf(MaxDist, Cycle) \in Int /\ MaxOf(Cycle, 2) \in Int
    BY <1>3 DEF MaxOf
  <2>3. curr > new
    BY <1>2, <1>3, <1>5, <2>1, <2>2
  <2>4. c \in Nat /\ c > 0 /\ EndIndex(w) - c >= 2 /\ curr - c = new /\ new >= 2 /\ c \in Int
    BY <1>2, <1>3, <2>1, <2>3
  <2>5. /\ v \in Windows /\ Ordered(v) /\ v.nextSrc = w.nextSrc /\ v.base = w.base + c
        /\ EndIndex(v) = EndIndex(w) - c
        /\ v.lowLimit = IF w.lowLimit < c + 2 THEN 2 ELSE w.lowLimit - c
        /\ v.dictLimit = IF w.dictLimit < c + 2 THEN 2 ELSE w.dictLimit - c
    BY <1>1, <2>4, CorrectKeeps
  <2> PICK t : t = ZSTD_reduceIndex(s.table, c)
    OBVIOUS
  <2> PICK n : n = IF s.next < c THEN 0 ELSE s.next - c
    OBVIOUS
  <2> PICK q : q = Drop(s, n, t)
    OBVIOUS
  <2>6. Good(v, t, m, f)
    <3>1. c % Cycle = 0
      BY <2>1
    <3> QED
      BY <2>4, <3>1, GoodCorrected
  <2>7. o = [w |-> v, s |-> q, safe |-> CorrectionIsSafe(w, curr, Cycle, MaxDist)]
    <3>1. c = Correction(Index(w, ip), Cycle, MaxDist) /\ ZSTD_window_needOverflowCorrection(Index(w, end))
      BY <1>5, <2>1 DEF ZSTD_window_needOverflowCorrection
    <3> QED
      BY <3>1 DEF ZSTD_overflowCorrectIfNeeded, Drop
  <2>8. o.w = v /\ o.s = q /\ o.safe = CorrectionIsSafe(w, curr, Cycle, MaxDist)
    BY <2>7
  <2>9. /\ q \in MatchStates /\ q.table = t /\ q.next = n /\ q.loadedDictEnd = 0 /\ q.dms = 0
        /\ q.force = s.force
    <3>1. n \in Int /\ t \in Tables
      BY <1>3, <2>4, <2>6 DEF Good
    <3> QED
      BY <3>1, Dropped
  <2>10. Index(v, ip) = new /\ v.dictLimit <= new /\ v.lowLimit <= new
    BY <1>1, <1>2, <2>1, <2>4, <2>5 DEF Index, Ordered
  <2>11. CorrectionIsSafe(w, curr, Cycle, MaxDist)
    BY <2>1, <2>3, <2>10 DEF CorrectionIsSafe
  <2>12. Byte(v, f, v.lowLimit) >= Byte(w, f, w.lowLimit)
    BY <1>1, <1>2, <2>4, <2>5 DEF Byte
  <2>13. s.next >= w.dictLimit \/ w.lowLimit = w.dictLimit => n >= v.dictLimit \/ v.lowLimit = v.dictLimit
    BY <1>1, <1>2, <1>3, <2>4, <2>5 DEF Ordered
  <2>14. s.next = curr => n = new
    BY <1>2, <1>3, <2>1, <2>4
  <2>15. CorrectionRight(w, s, ip, m, f, o)
    BY <2>5, <2>6, <2>8, <2>9, <2>10, <2>11, <2>12, <2>13, <2>14 DEF CorrectionRight
  <2> QED
    BY <2>15
<1> QED
  BY <1>4, <1>5

-----------------------------------------------------------------------------
(***************************************************************************)
(* One lemma per action                                                    *)
(***************************************************************************)
LEMMA InitOK == Init => IndInv
<1> SUFFICES ASSUME Init PROVE IndInv
  OBVIOUS
<1> DEFINE t == [s \in Slots |-> NoEntry]
<1>1. t \in Tables /\ \A s \in Slots : t[s].i = 0
  BY NoEntries
<1>2. win \in Windows /\ Ordered(win) /\ EndIndex(win) = 2 /\ win.lowLimit = 2 /\ win.dictLimit = 2
  BY InitWindow DEF Init
<1>3. mem \in [Memory -> Int] /\ fed \in Nat /\ fed = 0 /\ frame = 1 /\ dictByte = 0
  BY DEF Init
<1>4. ms = [loadedDictEnd |-> 0, dms |-> 0, force |-> FALSE, next |-> 2, table |-> t]
  BY DEF Init, Slots
<1> HIDE DEF t
<1>5. /\ ms \in MatchStates /\ ms.table = t /\ ms.loadedDictEnd = 0 /\ ms.dms = 0 /\ ms.next = 2
  BY <1>1, <1>4 DEF MatchStates
<1>6. Good(win, t, mem, fed)
  BY <1>1, <1>2, <1>3, GoodEmpty
<1>7. call = [pc |-> "idle", ip |-> 0, left |-> 0, size |-> 0, safe |-> TRUE]
  BY DEF Init, Idle
<1>8. TypeInv /\ call.safe /\ call.pc = "idle"
  BY <1>3, <1>5, <1>7 DEF TypeInv
<1>9. NextInv /\ ChunkInv
  BY <1>2, <1>5, <1>8 DEF NextInv, ChunkInv
<1>10. DictInv
  BY <1>2, <1>3, <1>5 DEF DictInv, ByteOf
<1> QED
  BY <1>5, <1>6, <1>8, <1>9, <1>10 DEF IndInv

\* A reset leaves an empty window; a large dictionary gets the indexes from the first on.
ResetRight(r, m, f, size) ==
    /\ Good(r.win, r.ms.table, m, f) /\ r.ms \in MatchStates
    /\ r.ms.loadedDictEnd = 0 /\ r.ms.dms = 0 /\ r.ms.next = r.win.dictLimit
    /\ r.win.lowLimit = EndIndex(r.win) /\ r.win.dictLimit = EndIndex(r.win)
    /\ size > ZSTD_CHUNKSIZE_MAX => EndIndex(r.win) = 2

LEMMA ResetKeeps ==
    ASSUME Good(win, ms.table, mem, fed), ms \in MatchStates, NEW size \in Nat
    PROVE  ResetRight(ZSTD_resetCCtx_internal(size), mem, fed, size)
<1> DEFINE t0 == [s \in 0 .. Cycle - 1 |-> NoEntry]
<1> PICK reset : reset = (ZSTD_indexTooCloseToMax \/ ZSTD_dictTooBig(size))
  OBVIOUS
<1> PICK w : w = IF reset THEN ZSTD_window_init ELSE ZSTD_window_clear(win)
  OBVIOUS
<1> PICK t : t = IF reset THEN t0 ELSE ms.table
  OBVIOUS
<1> PICK q : q = [ms EXCEPT !.loadedDictEnd = 0, !.dms = 0, !.next = w.dictLimit, !.table = t]
  OBVIOUS
<1>1. ZSTD_resetCCtx_internal(size) = [win |-> w, ms |-> q]
  BY DEF ZSTD_resetCCtx_internal, ZSTD_invalidateMatchState
<1>2. win \in Windows /\ Ordered(win) /\ ms.table \in Tables /\ mem \in [Memory -> Int] /\ fed \in Nat
  BY DEF Good
<1>3. t0 \in Tables /\ \A s \in Slots : t0[s].i = 0
  BY NoEntries DEF Slots
<1> HIDE DEF t0
<1>4. /\ w \in Windows /\ Ordered(w) /\ w.lowLimit = EndIndex(w) /\ w.dictLimit = EndIndex(w)
      /\ w.dictLimit \in Int /\ t \in Tables
      /\ \A s \in Slots : t[s].i < EndIndex(w) /\ (t[s].i # 0 => t[s].i % Cycle = s)
      /\ size > ZSTD_CHUNKSIZE_MAX => EndIndex(w) = 2
  <2>1. CASE reset
    <3>1. w = ZSTD_window_init /\ t = t0
      BY <2>1
    <3> QED
      BY <1>3, <3>1, InitWindow, WindowInts
  <2>2. CASE ~reset
    <3>1. w = ZSTD_window_clear(win) /\ t = ms.table
      BY <2>2
    <3>2. /\ w \in Windows /\ Ordered(w) /\ EndIndex(w) = EndIndex(win)
          /\ w.lowLimit = EndIndex(w) /\ w.dictLimit = EndIndex(w)
      BY <1>2, <3>1, ClearKeeps
    <3>3. ~(size > ZSTD_CHUNKSIZE_MAX)
      BY <2>2 DEF ZSTD_dictTooBig
    <3> QED
      BY <1>2, <3>1, <3>2, <3>3, WindowInts DEF Good, Entries
  <2> QED
    BY <2>1, <2>2
<1>5. Good(w, t, mem, fed)
  BY <1>2, <1>4, GoodEmpty
<1>6. /\ q \in MatchStates /\ q.loadedDictEnd = 0 /\ q.dms = 0 /\ q.next = w.dictLimit /\ q.table = t
  <2> DEFINE zero == 0
  <2>1. zero \in Int /\ zero \in Nat /\ zero = 0
    OBVIOUS
  <2>2. q = [ms EXCEPT !.loadedDictEnd = zero, !.dms = zero, !.next = w.dictLimit, !.table = t]
    OBVIOUS
  <2> HIDE DEF zero
  <2>3. /\ q \in MatchStates /\ q.loadedDictEnd = zero /\ q.dms = zero /\ q.next = w.dictLimit
        /\ q.table = t
    BY <1>4, <2>1, <2>2 DEF MatchStates
  <2> QED
    BY <2>1, <2>3
<1> PICK r : r = ZSTD_resetCCtx_internal(size)
  OBVIOUS
<1>7. r.win = w /\ r.ms = q
  BY <1>1
<1>8. ResetRight(r, mem, fed, size)
  BY <1>4, <1>5, <1>6, <1>7 DEF ResetRight
<1> QED
  BY <1>8

LEMMA NewFrameOK == IndInv /\ NewFrame => IndInv'
<1> SUFFICES ASSUME IndInv, NewFrame PROVE IndInv'
  OBVIOUS
<1> PICK r : r = ZSTD_resetCCtx_internal(0)
  OBVIOUS
<1>1. Good(win, ms.table, mem, fed) /\ ms \in MatchStates /\ fed \in Nat /\ call.safe /\ TypeInv
  BY DEF IndInv, TypeInv, Good
<1>2. ResetRight(r, mem, fed, 0)
  BY <1>1, ResetKeeps
<1>3. /\ Good(r.win, r.ms.table, mem, fed) /\ r.ms \in MatchStates /\ r.win \in Windows
      /\ r.ms.loadedDictEnd = 0 /\ r.ms.dms = 0 /\ r.ms.next = r.win.dictLimit
      /\ r.win.lowLimit = EndIndex(r.win) /\ r.win.dictLimit = EndIndex(r.win) /\ EndIndex(r.win) \in Int
  BY <1>2, WindowInts DEF ResetRight, Good
<1>4. /\ win' = r.win /\ ms' = r.ms /\ frame' = fed + 1 /\ dictByte' = 0
      /\ mem' = mem /\ fed' = fed /\ call' = call /\ call.pc = "idle"
  BY DEF NewFrame
<1>5. TypeInv'
  BY <1>1, <1>3, <1>4 DEF TypeInv
<1>6. NextInv' /\ ChunkInv'
  BY <1>3, <1>4 DEF NextInv, ChunkInv
<1>7. DictInv'
  BY <1>1, <1>3, <1>4 DEF DictInv, ByteOf
<1> QED
  BY <1>1, <1>3, <1>4, <1>5, <1>6, <1>7 DEF IndInv

LEMMA AttachOK ==
    ASSUME IndInv, NEW size \in DictSizes, ZSTD_resetCCtx_byAttachingCDict(size)
    PROVE  IndInv'
<1> PICK r : r = ZSTD_resetCCtx_internal(0)
  OBVIOUS
<1> PICK x : x = [r.win EXCEPT !.nextSrc = r.win.base + (2 + size)]
  OBVIOUS
<1> PICK w : w = IF r.win.dictLimit < 2 + size THEN ZSTD_window_clear(x) ELSE r.win
  OBVIOUS
<1>1. /\ Good(win, ms.table, mem, fed) /\ ms \in MatchStates /\ fed \in Nat /\ call.safe /\ TypeInv
      /\ mem \in [Memory -> Int]
  BY DEF IndInv, TypeInv, Good
<1>2. ResetRight(r, mem, fed, 0)
  BY <1>1, ResetKeeps
<1>3. /\ Good(r.win, r.ms.table, mem, fed) /\ r.ms \in MatchStates /\ r.win \in Windows
      /\ Ordered(r.win) /\ r.ms.table \in Tables
      /\ r.win.lowLimit = EndIndex(r.win) /\ r.win.dictLimit = EndIndex(r.win) /\ EndIndex(r.win) \in Int
      /\ r.win.base \in Int /\ r.win.dictBase \in Int
  BY <1>2, WindowInts DEF ResetRight, Good
<1>4. size \in Nat
  BY FrameWindowAssumption
<1>5. /\ win' = w /\ ms' = [r.ms EXCEPT !.dms = size, !.loadedDictEnd = w.dictLimit]
      /\ frame' = fed + 1 /\ dictByte' = 0 /\ size > 0
      /\ mem' = mem /\ fed' = fed /\ call' = call /\ call.pc = "idle"
  BY DEF ZSTD_resetCCtx_byAttachingCDict
<1>6. /\ w \in Windows /\ Ordered(w) /\ w.lowLimit = EndIndex(w) /\ w.dictLimit = EndIndex(w)
      /\ EndIndex(w) >= EndIndex(r.win) /\ EndIndex(w) >= 2 + size /\ EndIndex(w) \in Int
  <2>1. CASE r.win.dictLimit < 2 + size
    <3>1. w = ZSTD_window_clear(x)
      BY <2>1
    <3>2. /\ x \in Windows /\ x.base = r.win.base /\ x.lowLimit = r.win.lowLimit
          /\ x.dictLimit = r.win.dictLimit /\ x.nextSrc = r.win.base + (2 + size)
      BY <1>3, <1>4 DEF Windows
    <3>3. EndIndex(x) = 2 + size
      BY <1>3, <1>4, <3>2 DEF EndIndex, Index
    <3>4. Ordered(x)
      BY <1>3, <1>4, <2>1, <3>2, <3>3 DEF Ordered
    <3>5. /\ w \in Windows /\ Ordered(w) /\ EndIndex(w) = EndIndex(x)
          /\ w.lowLimit = EndIndex(w) /\ w.dictLimit = EndIndex(w)
      BY <3>1, <3>2, <3>4, ClearKeeps
    <3> QED
      BY <1>3, <1>4, <2>1, <3>3, <3>5
  <2>2. CASE ~(r.win.dictLimit < 2 + size)
    <3>1. w = r.win
      BY <2>2
    <3> QED
      BY <1>3, <1>4, <2>2, <3>1
  <2> QED
    BY <2>1, <2>2
<1>7. \A s \in Slots : /\ r.ms.table[s].i < EndIndex(w)
                       /\ r.ms.table[s].i # 0 => r.ms.table[s].i % Cycle = s
  <2>1. \A s \in Slots : r.ms.table[s].i \in Int
    BY <1>3 DEF Tables
  <2> QED
    BY <1>3, <1>6, <2>1 DEF Good, Entries
<1>8. Good(w, r.ms.table, mem, fed)
  BY <1>1, <1>3, <1>6, <1>7, GoodEmpty
<1>9. ms' \in MatchStates /\ ms'.table = r.ms.table /\ ms'.dms = size /\ ms'.loadedDictEnd = w.dictLimit
  BY <1>3, <1>4, <1>5, <1>6 DEF MatchStates
<1>10. TypeInv'
  BY <1>1, <1>5, <1>9 DEF TypeInv
<1>11. NextInv' /\ ChunkInv'
  BY <1>5, <1>6 DEF NextInv, ChunkInv
<1>12. DictInv'
  BY <1>1, <1>4, <1>5, <1>6, <1>9 DEF DictInv, ByteOf
<1> QED
  BY <1>1, <1>5, <1>8, <1>9, <1>10, <1>11, <1>12 DEF IndInv

\* Where input and dictionaries are.
LEMMA MemoryInts ==
    /\ Memory \subseteq Int /\ Input \subseteq Memory
    /\ \A size \in DictSizes : size \in Nat /\ Dict .. Dict + size - 1 \subseteq Memory
<1> DEFINE R == {Dict .. Dict + size - 1 : size \in DictSizes}
<1>1. Input \subseteq Int /\ Dict \in Int /\ \A size \in DictSizes : size \in Nat
  BY FrameWindowAssumption
<1>2. Memory = Input \cup UNION R
  BY DEF Memory
<1>3. \A S \in R : S \subseteq Int
  BY <1>1
<1>4. \A size \in DictSizes : Dict .. Dict + size - 1 \in R
  OBVIOUS
<1> HIDE DEF R
<1> QED
  BY <1>1, <1>2, <1>3, <1>4

LEMMA ContinueOK ==
    ASSUME IndInv, NEW src \in Input, NEW size \in Sizes, ZSTD_compressContinue_internal(src, size)
    PROVE  IndInv'
<1> PICK w : w = ZSTD_window_update(win, src, size, ms.force)
  OBVIOUS
<1> PICK con : con = Contiguous(win, src, size, ms.force)
  OBVIOUS
<1>1. /\ Good(win, ms.table, mem, fed) /\ ms \in MatchStates /\ fed \in Nat /\ call.safe /\ TypeInv
      /\ win \in Windows /\ Ordered(win) /\ ms.force \in BOOLEAN /\ ms.next \in Int /\ ms.loadedDictEnd \in Int
      /\ call \in [pc : {"idle", "chunk", "block"}, ip : Int, left : Nat, size : Nat, safe : BOOLEAN]
      /\ ms.dms \in Nat /\ frame \in Nat /\ dictByte \in Nat
  BY DEF IndInv, TypeInv, Good, MatchStates
<1>2. /\ src \in Int /\ size \in Nat \ {0} /\ src .. src + size - 1 \subseteq Memory /\ Memory \subseteq Int
  <2>1. src .. src + size - 1 \subseteq Input /\ size > 0
    BY DEF ZSTD_compressContinue_internal
  <2>2. src \in Int /\ size \in Nat
    BY FrameWindowAssumption
  <2> QED
    BY <2>1, <2>2, MemoryInts
<1>3. /\ mem' = [a \in Memory |-> IF a \in src .. src + size - 1 THEN fed + 1 + a - src ELSE mem[a]]
      /\ fed' = fed + size /\ win' = w
      /\ ms' = IF con THEN ms ELSE [ms EXCEPT !.force = FALSE, !.next = w.dictLimit]
      /\ call' = [call EXCEPT !.pc = "chunk", !.ip = src, !.left = size, !.size = 0]
      /\ frame' = frame /\ dictByte' = dictByte
  BY DEF ZSTD_compressContinue_internal, Filled
<1>4. UpdateRight(win, src, size, ms.force, w)
  BY <1>1, <1>2, UpdateKeeps
<1>5. /\ w \in Windows /\ w.nextSrc = src + size /\ Index(w, src) = EndIndex(win)
      /\ EndIndex(w) = EndIndex(win) + size /\ w.lowLimit >= win.lowLimit
      /\ w.dictLimit = IF con THEN win.dictLimit ELSE EndIndex(win)
      /\ win.lowLimit = win.dictLimit /\ con => w.lowLimit = w.dictLimit
  BY <1>4 DEF UpdateRight
<1>6. Good(w, ms.table, mem', fed')
  BY <1>1, <1>2, <1>3, GoodFed
<1>7. /\ EndIndex(w) \in Int /\ w.lowLimit \in Int /\ w.dictLimit \in Int /\ w.nextSrc \in Int
      /\ EndIndex(win) \in Int /\ win.lowLimit \in Int /\ win.dictLimit \in Int
      /\ win.dictLimit <= EndIndex(win) /\ win.lowLimit <= win.dictLimit
  BY <1>1, <1>5, WindowInts DEF Ordered
<1>8. /\ ms' \in MatchStates /\ ms'.table = ms.table /\ ms'.loadedDictEnd = ms.loadedDictEnd
      /\ ms'.dms = ms.dms /\ ms'.next = IF con THEN ms.next ELSE w.dictLimit
  <2>1. CASE con
    BY <1>1, <1>3, <2>1
  <2>2. CASE ~con
    <3>1. ms' = [ms EXCEPT !.force = FALSE, !.next = w.dictLimit]
      BY <1>3, <2>2
    <3> QED
      BY <1>1, <1>7, <2>2, <3>1 DEF MatchStates
  <2> QED
    BY <2>1, <2>2
<1>9. /\ call' \in [pc : {"idle", "chunk", "block"}, ip : Int, left : Nat, size : Nat, safe : BOOLEAN]
      /\ call'.pc = "chunk" /\ call'.ip = src /\ call'.left = size /\ call'.safe
  <2>1. call' = [pc |-> "chunk", ip |-> src, left |-> size, size |-> 0, safe |-> call.safe]
    BY <1>1, <1>3
  <2> QED
    BY <1>1, <1>2, <2>1
<1>10. TypeInv'
  BY <1>1, <1>3, <1>8, <1>9 DEF TypeInv
<1>11. NextInv'
  BY <1>1, <1>3, <1>5, <1>7, <1>8 DEF IndInv, NextInv
<1>12. ChunkInv'
  BY <1>2, <1>3, <1>5, <1>7, <1>9 DEF ChunkInv
<1>13. DictInv'
  BY <1>1, <1>2, <1>3, <1>5, <1>7, <1>8 DEF IndInv, DictInv, ByteOf
<1> QED
  BY <1>3, <1>6, <1>8, <1>9, <1>10, <1>11, <1>12, <1>13 DEF IndInv

LEMMA LoadOK ==
    ASSUME IndInv, NEW size \in DictSizes, NEW refPrefix \in BOOLEAN, NEW forceWindow \in BOOLEAN,
           ZSTD_loadDictionaryContent(size, refPrefix, forceWindow)
    PROVE  IndInv'
<1>r. PICK r : r = ZSTD_resetCCtx_internal(size)
  OBVIOUS
<1>w. PICK w : w = ZSTD_window_update(r.win, Dict, size, FALSE)
  OBVIOUS
<1>e. PICK end : end = Dict + size
  OBVIOUS
<1>i. PICK ip : ip = MaxOf(Dict, end - MaxIndexed)
  OBVIOUS
<1>l. PICK l : l = IF forceWindow THEN 0 ELSE Index(w, end)
  OBVIOUS
<1>s. PICK s : s = [r.ms EXCEPT !.next = Index(w, ip),
                               !.loadedDictEnd = IF forceWindow THEN 0 ELSE Index(w, end),
                               !.force = refPrefix]
  OBVIOUS
<1>o. PICK o : o = ZSTD_overflowCorrectIfNeeded(w, s, ip, end)
  OBVIOUS
<1>1. /\ Good(win, ms.table, mem, fed) /\ ms \in MatchStates /\ fed \in Nat /\ call.safe /\ TypeInv
      /\ call \in [pc : {"idle", "chunk", "block"}, ip : Int, left : Nat, size : Nat, safe : BOOLEAN]
  BY DEF IndInv, TypeInv, Good
<1>2. /\ size \in Nat \ {0} /\ Dict \in Int /\ Dict .. Dict + size - 1 \subseteq Memory /\ Memory \subseteq Int
      /\ call.pc = "idle"
  BY MemoryInts, FrameWindowAssumption DEF ZSTD_loadDictionaryContent
<1>3. /\ mem' = [a \in Memory |-> IF a \in Dict .. Dict + size - 1 THEN fed + 1 + a - Dict ELSE mem[a]]
      /\ fed' = fed + size /\ frame' = fed + 1 /\ dictByte' = fed + size
  <2>1. mem' = Filled(Dict, size)
    BY DEF ZSTD_loadDictionaryContent
  <2>2. fed' = fed + size /\ frame' = fed + 1 /\ dictByte' = fed + size
    BY DEF ZSTD_loadDictionaryContent
  <2> QED
    BY <2>1, <2>2 DEF Filled
<1>4. IF end - ip <= HASH_READ_SIZE THEN win' = w /\ ms' = s /\ call' = call
      ELSE /\ win' = o.w /\ call' = [call EXCEPT !.safe = o.safe]
           /\ ms' = [Entered(o.w, o.s, end, mem') EXCEPT !.next = Index(o.w, end)]
  BY <1>r, <1>w, <1>e, <1>i, <1>s, <1>o DEF ZSTD_loadDictionaryContent
<1>5. ResetRight(r, mem, fed, size)
  BY <1>1, <1>2, <1>r, ResetKeeps
<1>6. /\ Good(r.win, r.ms.table, mem, fed) /\ r.ms \in MatchStates /\ r.win \in Windows
      /\ Ordered(r.win) /\ r.ms.dms = 0
      /\ r.win.lowLimit = EndIndex(r.win) /\ EndIndex(r.win) \in Int
      /\ size > ZSTD_CHUNKSIZE_MAX => EndIndex(r.win) = 2
  BY <1>5, WindowInts DEF ResetRight, Good
<1>7. UpdateRight(r.win, Dict, size, FALSE, w)
  BY <1>2, <1>6, <1>w, UpdateKeeps
<1>8. /\ w \in Windows /\ w.nextSrc = end /\ Index(w, Dict) = EndIndex(r.win)
      /\ EndIndex(w) = EndIndex(r.win) + size
      /\ w.lowLimit = EndIndex(r.win) /\ w.dictLimit = EndIndex(r.win)
  BY <1>6, <1>7, <1>e DEF UpdateRight
<1>9. Good(w, r.ms.table, mem', fed')
  BY <1>2, <1>3, <1>6, <1>w, GoodFed
<1>10. /\ w.base \in Int /\ Index(w, end) = EndIndex(w) /\ EndIndex(w) \in Int
       /\ ip \in Int /\ end \in Int /\ Dict <= ip /\ ip <= end
       /\ Index(w, ip) \in Int /\ w.dictLimit <= Index(w, ip) /\ l \in Int
       /\ l = 0 \/ l = EndIndex(w)
  BY <1>2, <1>6, <1>8, <1>e, <1>i, <1>l, WindowInts, FrameWindowAssumption DEF EndIndex, Index, MaxOf
<1>11. /\ s \in MatchStates /\ s.table = r.ms.table /\ s.dms = 0 /\ s.loadedDictEnd = l
       /\ s.next = Index(w, ip)
  BY <1>6, <1>10, <1>l, <1>s DEF MatchStates
<1>12. Byte(w, fed', w.lowLimit) = fed + 1 /\ Byte(w, fed', EndIndex(w)) = fed + size + 1
  BY <1>1, <1>2, <1>3, <1>6, <1>8, <1>10 DEF Byte
<1>13. fed' \in Nat /\ frame' \in Nat /\ dictByte' \in Nat /\ dictByte' > 0
  BY <1>1, <1>2, <1>3
<1>14. CASE end - ip <= HASH_READ_SIZE
  <2>1. win' = w /\ ms' = s /\ call' = call
    BY <1>4, <1>14
  <2>2. TypeInv' /\ call'.safe
    BY <1>1, <1>11, <1>13, <2>1 DEF TypeInv
  <2>3. NextInv' /\ ChunkInv'
    BY <1>2, <1>8, <2>1 DEF NextInv, ChunkInv
  <2>4. DictInv'
    BY <1>1, <1>2, <1>3, <1>8, <1>6, <1>10, <1>11, <1>13, <2>1 DEF DictInv, ByteOf
  <2> QED
    BY <1>9, <1>11, <2>1, <2>2, <2>3, <2>4 DEF IndInv
<1>15. CASE ~(end - ip <= HASH_READ_SIZE)
  <2>u. PICK u : u = Entered(o.w, o.s, end, mem')
    OBVIOUS
  <2>1. /\ win' = o.w /\ call' = [call EXCEPT !.safe = o.safe]
        /\ ms' = [u EXCEPT !.next = Index(o.w, end)]
    BY <1>4, <1>15, <2>u
  <2>2. \/ Index(w, end) <= ZSTD_CURRENT_MAX
        \/ end - ip < ZSTD_CURRENT_MAX - MaxOf(MaxDist, Cycle) - MaxOf(Cycle, 2)
    <3>1. /\ size <= ZSTD_CURRENT_MAX - 2
          /\ size > ZSTD_CHUNKSIZE_MAX \/ size < ZSTD_CURRENT_MAX - MaxOf(MaxDist, Cycle) - MaxOf(Cycle, 2)
      BY LimitsAssumption
    <3>2. /\ ZSTD_CURRENT_MAX \in Int /\ MaxOf(MaxDist, Cycle) \in Int /\ MaxOf(Cycle, 2) \in Int
          /\ end - ip <= size
      BY <1>2, <1>10, <1>e, WindowAssumption, FrameWindowAssumption DEF MaxOf
    <3> QED
      BY <1>2, <1>6, <1>8, <1>10, <3>1, <3>2
  <2>3. CorrectionRight(w, s, ip, mem', fed', o)
    BY <1>8, <1>9, <1>10, <1>11, <1>o, <2>2, CorrectionKeeps
  <2>4. /\ Good(o.w, o.s.table, mem', fed') /\ o.s \in MatchStates /\ o.safe = TRUE
        /\ o.w.nextSrc = end /\ o.w.dictLimit <= Index(o.w, ip)
        /\ Byte(o.w, fed', o.w.lowLimit) >= Byte(w, fed', w.lowLimit)
        /\ o.s.next = Index(o.w, ip)
        /\ (o.w = w /\ o.s = s) \/ (o.s.loadedDictEnd = 0 /\ o.s.dms = 0)
    BY <1>8, <1>11, <2>3 DEF CorrectionRight
  <2>5. /\ o.w \in Windows /\ o.w.base \in Int /\ EndIndex(o.w) = Index(o.w, end) /\ EndIndex(o.w) \in Int
        /\ o.w.dictLimit \in Int /\ o.w.lowLimit \in Int /\ o.w.dictLimit <= EndIndex(o.w)
        /\ o.s.next \in Int
    BY <2>4, WindowInts DEF Good, EndIndex, Index, Ordered, MatchStates
  <2>6. /\ Good(o.w, u.table, mem', fed') /\ u \in MatchStates
        /\ u.loadedDictEnd = o.s.loadedDictEnd /\ u.dms = o.s.dms
    <3>1. o.s.next >= o.w.dictLimit /\ end <= o.w.nextSrc
      BY <1>10, <2>4, <2>5
    <3>2. EnteredRight(o.w, o.s, mem', fed', u)
      BY <1>10, <2>4, <2>u, <3>1, GoodEntered
    <3> QED
      BY <3>2 DEF EnteredRight
  <2>7. /\ ms' \in MatchStates /\ ms'.table = u.table /\ ms'.next = EndIndex(o.w)
        /\ ms'.loadedDictEnd = o.s.loadedDictEnd /\ ms'.dms = o.s.dms
    BY <2>1, <2>5, <2>6 DEF MatchStates
  <2>8. /\ call' \in [pc : {"idle", "chunk", "block"}, ip : Int, left : Nat, size : Nat, safe : BOOLEAN]
        /\ call'.safe /\ call'.pc = "idle"
    BY <1>1, <1>2, <2>1, <2>4
  <2>9. TypeInv'
    BY <1>13, <2>7, <2>8 DEF TypeInv
  <2>10. NextInv' /\ ChunkInv'
    BY <2>1, <2>5, <2>7, <2>8 DEF NextInv, ChunkInv
  <2>11. DictInv'
    <3>1. ByteOf(win.lowLimit)' >= frame'
      BY <1>3, <1>12, <2>1, <2>4 DEF ByteOf, Byte
    <3>2. ms'.loadedDictEnd = 0 \/ (win' = w /\ ms'.loadedDictEnd = l)
      BY <1>11, <2>1, <2>4, <2>7
    <3>3. ms'.dms = 0
      BY <1>11, <2>4, <2>7
    <3>4. ms'.loadedDictEnd # 0 => ByteOf(ms.loadedDictEnd)' = dictByte' + 1
      BY <1>3, <1>10, <1>12, <3>2 DEF ByteOf, Byte
    <3> QED
      BY <1>13, <3>1, <3>3, <3>4 DEF DictInv
  <2> QED
    BY <2>1, <2>6, <2>7, <2>8, <2>9, <2>10, <2>11 DEF IndInv
<1> QED
  BY <1>14, <1>15

LEMMA FrameChunkOK ==
    ASSUME IndInv, NEW size \in 1 .. BlockMax, ZSTD_compress_frameChunk(size)
    PROVE  IndInv'
<1>e. PICK end : end = call.ip + size
  OBVIOUS
<1>o. PICK o : o = ZSTD_overflowCorrectIfNeeded(win, ms, call.ip, end)
  OBVIOUS
<1>v. PICK valid : valid = ZSTD_checkDictValidity(o.w, Index(o.w, end), MaxDist, o.s.loadedDictEnd)
  OBVIOUS
<1>d. PICK dict : dict = IF valid THEN o.s.loadedDictEnd ELSE 0
  OBVIOUS
<1>w. PICK w : w = ZSTD_window_enforceMaxDist(o.w, Index(o.w, call.ip), MaxDist, dict)
  OBVIOUS
<1>r. PICK dropped \in BOOLEAN : dropped = (~valid \/ OutOfReach(Index(o.w, call.ip), MaxDist, dict))
  BY Zenon
<1>1. /\ Good(win, ms.table, mem, fed) /\ ms \in MatchStates /\ fed \in Nat /\ win \in Windows
      /\ call \in [pc : {"idle", "chunk", "block"}, ip : Int, left : Nat, size : Nat, safe : BOOLEAN]
      /\ frame \in Nat /\ dictByte \in Nat /\ call.ip \in Int /\ call.left \in Nat
  BY DEF IndInv, TypeInv, Good
<1>2. /\ win' = w
      /\ ms' = [o.s EXCEPT !.loadedDictEnd = IF dropped THEN 0 ELSE @, !.dms = IF dropped THEN 0 ELSE @,
                           !.next = MaxOf(@, w.lowLimit)]
      /\ call' = [call EXCEPT !.pc = "block", !.size = size, !.safe = o.safe]
      /\ mem' = mem /\ fed' = fed /\ frame' = frame /\ dictByte' = dictByte
      /\ call.pc = "chunk" /\ size <= call.left
  BY <1>e, <1>o, <1>v, <1>d, <1>w, <1>r, Zenon DEF ZSTD_compress_frameChunk
<1>3. /\ BlockMax \in Nat /\ MaxDist \in Nat /\ size \in Nat \ {0}
      /\ size < ZSTD_CURRENT_MAX - MaxOf(MaxDist, Cycle) - MaxOf(Cycle, 2)
  <2>1. BlockMax \in Nat /\ MaxDist \in Nat /\ ZSTD_CURRENT_MAX \in Int
    BY FrameWindowAssumption, WindowAssumption
  <2>2. MaxOf(MaxDist, Cycle) \in Int /\ MaxOf(Cycle, 2) \in Int
    BY FrameWindowAssumption DEF MaxOf
  <2>3. BlockMax < ZSTD_CURRENT_MAX - MaxOf(MaxDist, Cycle) - MaxOf(Cycle, 2)
    BY LimitsAssumption
  <2> QED
    BY <2>1, <2>2, <2>3
<1>4. /\ win.dictLimit <= Index(win, call.ip) /\ call.ip + call.left = win.nextSrc /\ call.left > 0
      /\ ms.next >= win.dictLimit \/ win.lowLimit = win.dictLimit
  BY <1>2 DEF IndInv, ChunkInv, NextInv
<1>5. end \in Int /\ call.ip <= end /\ end <= win.nextSrc /\ end - call.ip = size
  BY <1>1, <1>2, <1>3, <1>4, <1>e
<1>6. CorrectionRight(win, ms, call.ip, mem, fed, o)
  BY <1>1, <1>3, <1>4, <1>5, <1>o, CorrectionKeeps
<1>7. /\ Good(o.w, o.s.table, mem, fed) /\ o.s \in MatchStates /\ o.safe = TRUE
      /\ o.w.nextSrc = win.nextSrc /\ o.w.dictLimit <= Index(o.w, call.ip)
      /\ Byte(o.w, fed, o.w.lowLimit) >= Byte(win, fed, win.lowLimit)
      /\ o.s.next >= o.w.dictLimit \/ o.w.lowLimit = o.w.dictLimit
      /\ (o.w = win /\ o.s = ms) \/ (o.s.loadedDictEnd = 0 /\ o.s.dms = 0)
  BY <1>4, <1>6 DEF CorrectionRight
<1>8. /\ o.w \in Windows /\ Ordered(o.w) /\ o.w.base \in Int /\ o.w.lowLimit \in Int /\ o.w.dictLimit \in Int
      /\ EndIndex(o.w) \in Int /\ Index(o.w, call.ip) \in Int /\ Index(o.w, call.ip) <= EndIndex(o.w)
      /\ Index(o.w, end) = Index(o.w, call.ip) + size /\ 2 <= o.w.dictLimit
      /\ o.s.next \in Int /\ o.s.loadedDictEnd \in Int /\ o.s.dms \in Nat /\ dict \in Int
      /\ Index(o.w, call.ip) - MaxDist <= EndIndex(o.w)
  <2>1. /\ o.w \in Windows /\ Ordered(o.w) /\ o.w.base \in Int /\ o.w.lowLimit \in Int
        /\ o.w.dictLimit \in Int /\ EndIndex(o.w) \in Int /\ EndIndex(o.w) = win.nextSrc - o.w.base
    BY <1>7, WindowInts DEF Good
  <2>2. o.s.next \in Int /\ o.s.loadedDictEnd \in Int /\ o.s.dms \in Nat
    BY <1>7 DEF MatchStates
  <2>3. 2 <= o.w.dictLimit
    BY <2>1 DEF Ordered
  <2>4. dict \in Int
    BY <1>d, <2>2
  <2>5. Index(o.w, call.ip) = call.ip - o.w.base /\ Index(o.w, end) = end - o.w.base /\ win.nextSrc \in Int
    BY <1>1, WindowInts DEF Index
  <2>6. /\ Index(o.w, call.ip) \in Int /\ Index(o.w, call.ip) <= EndIndex(o.w)
        /\ Index(o.w, end) = Index(o.w, call.ip) + size
        /\ Index(o.w, call.ip) - MaxDist <= EndIndex(o.w)
    BY <1>1, <1>3, <1>5, <2>1, <2>5
  <2> QED
    BY <2>1, <2>2, <2>3, <2>4, <2>6
<1>9. /\ w \in Windows /\ Ordered(w)
      /\ w.nextSrc = o.w.nextSrc /\ w.base = o.w.base /\ EndIndex(w) = EndIndex(o.w)
      /\ w.lowLimit >= o.w.lowLimit
      /\ w.dictLimit = o.w.dictLimit \/ (w.dictLimit = w.lowLimit /\ w.dictLimit = Index(o.w, call.ip) - MaxDist)
      /\ o.w.lowLimit = o.w.dictLimit => w.lowLimit = w.dictLimit
      /\ ~OutOfReach(Index(o.w, call.ip), MaxDist, dict) => w = o.w
      /\ \A i \in w.lowLimit .. EndIndex(w) - 1 : Addr(w, i) = Addr(o.w, i)
  <2>1. PICK e \in Int : e = Index(o.w, call.ip)
    BY <1>8
  <2>2. PICK x : x = o.w
    OBVIOUS
  <2>3. /\ x \in Windows /\ Ordered(x) /\ e - MaxDist <= EndIndex(x) /\ dict \in Int
        /\ w = ZSTD_window_enforceMaxDist(x, e, MaxDist, dict)
    BY <1>8, <1>w, <2>1, <2>2
  <2>4. /\ w \in Windows /\ Ordered(w)
        /\ w.nextSrc = x.nextSrc /\ w.base = x.base /\ EndIndex(w) = EndIndex(x)
        /\ w.lowLimit >= x.lowLimit
        /\ w.dictLimit = x.dictLimit \/ (w.dictLimit = w.lowLimit /\ w.dictLimit = e - MaxDist)
        /\ x.lowLimit = x.dictLimit => w.lowLimit = w.dictLimit
        /\ ~OutOfReach(e, MaxDist, dict) => w = x
        /\ \A i \in w.lowLimit .. EndIndex(w) - 1 : Addr(w, i) = Addr(x, i)
    <3>1. EnforceRight(x, e, MaxDist, dict, w)
      BY <1>3, <2>3, EnforceKeeps
    <3> QED
      BY <3>1 DEF EnforceRight
  <2> QED
    BY <2>1, <2>2, <2>4
<1>10. Good(w, o.s.table, mem, fed)
  BY <1>7, <1>9, GoodShorter
<1>11. w.lowLimit \in Int /\ w.dictLimit \in Int /\ w.lowLimit <= w.dictLimit /\ Index(w, call.ip) = Index(o.w, call.ip)
  BY <1>9, WindowInts DEF Ordered, Index
<1>12. /\ ms' \in MatchStates /\ ms'.table = o.s.table /\ ms'.next = MaxOf(o.s.next, w.lowLimit)
       /\ ms'.loadedDictEnd = IF dropped THEN 0 ELSE o.s.loadedDictEnd
       /\ ms'.dms = IF dropped THEN 0 ELSE o.s.dms
  <2>n. PICK n \in Int : n = MaxOf(o.s.next, w.lowLimit)
    BY <1>8, <1>11 DEF MaxOf
  <2>l. PICK l \in Int : l = IF dropped THEN 0 ELSE o.s.loadedDictEnd
    BY <1>8
  <2>d. PICK d \in Nat : d = IF dropped THEN 0 ELSE o.s.dms
    BY <1>8
  <2>2. ms' = [o.s EXCEPT !.loadedDictEnd = l, !.dms = d, !.next = n]
    BY <1>2, <2>n, <2>l, <2>d
  <2>3. /\ ms' \in MatchStates /\ ms'.table = o.s.table /\ ms'.next = n
        /\ ms'.loadedDictEnd = l /\ ms'.dms = d
    BY <1>7, <2>2 DEF MatchStates
  <2> QED
    BY <2>3, <2>n, <2>l, <2>d
<1>13. /\ call' \in [pc : {"idle", "chunk", "block"}, ip : Int, left : Nat, size : Nat, safe : BOOLEAN]
       /\ call'.safe /\ call'.pc = "block" /\ call'.ip = call.ip /\ call'.left = call.left /\ call'.size = size
  <2>1. call' = [pc |-> "block", ip |-> call.ip, left |-> call.left, size |-> size, safe |-> TRUE]
    BY <1>1, <1>2, <1>7
  <2> QED
    BY <1>1, <1>3, <2>1
<1>14. ms'.next >= w.dictLimit
  <2>1. w.lowLimit = w.dictLimit \/ (w.dictLimit = o.w.dictLimit /\ o.s.next >= o.w.dictLimit)
    BY <1>7, <1>9
  <2> QED
    BY <1>8, <1>11, <1>12, <2>1 DEF MaxOf
\* A dictionary that is not dropped is the whole of what is before the prefix.
<1>15. ASSUME ~dropped
       PROVE  /\ w = o.w /\ o.s.loadedDictEnd = w.dictLimit
              /\ Index(w, call.ip) + size <= MaxDist + w.dictLimit
  <2>1. valid /\ ~OutOfReach(Index(o.w, call.ip), MaxDist, dict)
    BY <1>15, <1>r
  <2>2. w = o.w
    BY <1>9, <2>1
  <2>3. /\ ~OutOfReach(Index(o.w, end), MaxDist, o.s.loadedDictEnd)
        /\ o.s.loadedDictEnd = o.w.dictLimit
    BY <1>v, <2>1 DEF ZSTD_checkDictValidity
  <2> QED
    BY <1>3, <1>8, <2>2, <2>3 DEF OutOfReach
<1>16. TypeInv'
  BY <1>1, <1>2, <1>12, <1>13 DEF TypeInv
<1>17. NextInv'
  BY <1>2, <1>14 DEF NextInv
<1>18. ChunkInv'
  <2>1. w.dictLimit <= Index(w, call.ip)
    BY <1>3, <1>7, <1>8, <1>9, <1>11
  <2>2. call.ip + call.left = w.nextSrc /\ call.left > 0 /\ size \in 1 .. call.left
    BY <1>1, <1>2, <1>3, <1>4, <1>7, <1>9
  <2>3. ms'.loadedDictEnd # 0 => /\ ms'.loadedDictEnd = w.dictLimit
                                 /\ Index(w, call.ip) + size <= MaxDist + w.dictLimit
    BY <1>12, <1>15
  <2> QED
    BY <1>2, <1>13, <1>14, <2>1, <2>2, <2>3 DEF ChunkInv
<1>19. DictInv'
  <2>1. ByteOf(win.lowLimit)' >= frame'
    <3>1. Byte(win, fed, win.lowLimit) >= frame
      BY DEF IndInv, DictInv, ByteOf, Byte
    <3>2. Byte(w, fed, w.lowLimit) >= Byte(o.w, fed, o.w.lowLimit)
      BY <1>1, <1>8, <1>9, <1>11 DEF Byte
    <3>3. Byte(w, fed, w.lowLimit) \in Int /\ Byte(o.w, fed, o.w.lowLimit) \in Int
          /\ Byte(win, fed, win.lowLimit) \in Int
      BY <1>1, <1>8, <1>9, <1>11, WindowInts DEF Byte
    <3>4. Byte(w, fed, w.lowLimit) >= frame
      BY <1>1, <1>7, <3>1, <3>2, <3>3
    <3> QED
      BY <1>2, <3>4 DEF ByteOf, Byte
  <2>2. ms'.loadedDictEnd # 0 \/ ms'.dms > 0 =>
           /\ win' = win /\ ms'.loadedDictEnd = ms.loadedDictEnd /\ ms'.dms = ms.dms
    BY <1>2, <1>7, <1>8, <1>12, <1>15
  <2>3. ms'.dms \in Nat
    BY <1>12 DEF MatchStates
  <2> QED
    BY <1>2, <2>1, <2>2, <2>3 DEF IndInv, DictInv, ByteOf
<1> QED
  BY <1>2, <1>10, <1>12, <1>13, <1>16, <1>17, <1>18, <1>19 DEF IndInv

LEMMA CompressOK == IndInv /\ Compress => IndInv'
<1> SUFFICES ASSUME IndInv, Compress PROVE IndInv'
  OBVIOUS
<1>1. /\ Good(win, ms.table, mem, fed) /\ ms \in MatchStates /\ fed \in Nat /\ win \in Windows
      /\ call \in [pc : {"idle", "chunk", "block"}, ip : Int, left : Nat, size : Nat, safe : BOOLEAN]
      /\ frame \in Nat /\ dictByte \in Nat /\ call.ip \in Int /\ call.left \in Nat /\ call.size \in Nat
      /\ ms.next \in Int /\ call.safe
  BY DEF IndInv, TypeInv, Good, MatchStates
<1>2. /\ win' = win /\ mem' = mem /\ fed' = fed /\ frame' = frame /\ dictByte' = dictByte
      /\ ms' = ms \/ ms' = Entered(win, ms, call.ip + call.size, mem)
      /\ call' = [call EXCEPT !.pc = IF call.left = call.size THEN "idle" ELSE "chunk",
                              !.ip = @ + call.size, !.left = @ - call.size]
      /\ call.pc = "block"
  BY DEF Compress
<1>3. /\ win.dictLimit <= Index(win, call.ip) /\ call.ip + call.left = win.nextSrc
      /\ call.size \in 1 .. call.left /\ ms.next >= win.dictLimit
  BY <1>2 DEF IndInv, ChunkInv
<1>4. /\ win.dictLimit \in Int /\ win.base \in Int /\ win.nextSrc \in Int
  BY <1>1, WindowInts
<1>5. /\ Good(win, ms'.table, mem, fed) /\ ms' \in MatchStates /\ ms'.next >= win.dictLimit
      /\ ms'.loadedDictEnd = ms.loadedDictEnd /\ ms'.dms = ms.dms
  <2>1. CASE ms' = ms
    BY <1>1, <1>3, <2>1
  <2>2. CASE ms' = Entered(win, ms, call.ip + call.size, mem)
    <3>1. PICK end \in Int : end = call.ip + call.size /\ end <= win.nextSrc
      BY <1>1, <1>3
    <3>u. PICK u : u = ms'
      OBVIOUS
    <3>4. u = Entered(win, ms, end, mem)
      BY <2>2, <3>1, <3>u
    <3>5. /\ Good(win, u.table, mem, fed) /\ u \in MatchStates /\ u.next >= ms.next
          /\ u.loadedDictEnd = ms.loadedDictEnd /\ u.dms = ms.dms
      <4>1. EnteredRight(win, ms, mem, fed, u)
        BY <1>1, <1>3, <3>1, <3>4, GoodEntered
      <4> QED
        BY <4>1 DEF EnteredRight
    <3>2. /\ Good(win, ms'.table, mem, fed) /\ ms' \in MatchStates /\ ms'.next >= ms.next
          /\ ms'.loadedDictEnd = ms.loadedDictEnd /\ ms'.dms = ms.dms
      BY <3>5, <3>u
    <3>3. ms'.next \in Int
      BY <3>2 DEF MatchStates
    <3> QED
      BY <1>1, <1>3, <1>4, <3>2, <3>3
  <2> QED
    BY <1>2, <2>1, <2>2
<1>6. /\ call' \in [pc : {"idle", "chunk", "block"}, ip : Int, left : Nat, size : Nat, safe : BOOLEAN]
      /\ call'.safe /\ call'.pc \in {"idle", "chunk"} /\ call'.ip = call.ip + call.size
      /\ call'.left = call.left - call.size /\ call'.pc = "chunk" => call.left # call.size
  <2>1. call' = [pc |-> IF call.left = call.size THEN "idle" ELSE "chunk", ip |-> call.ip + call.size,
                 left |-> call.left - call.size, size |-> call.size, safe |-> call.safe]
    BY <1>1, <1>2
  <2>2. call.left - call.size \in Nat
    BY <1>1, <1>3
  <2> QED
    BY <1>1, <2>1, <2>2
<1>7. TypeInv'
  BY <1>1, <1>2, <1>5, <1>6 DEF TypeInv
<1>8. NextInv'
  BY <1>2, <1>5 DEF NextInv
<1>9. ChunkInv'
  BY <1>1, <1>2, <1>3, <1>4, <1>6 DEF ChunkInv, Index
<1>10. DictInv'
  BY <1>2, <1>5 DEF IndInv, DictInv, ByteOf
<1> QED
  BY <1>2, <1>5, <1>6, <1>7, <1>8, <1>9, <1>10 DEF IndInv

-----------------------------------------------------------------------------
(***************************************************************************)
(* Every step keeps the invariant                                          *)
(***************************************************************************)
LEMMA StepOK == IndInv /\ [Next]_vars => IndInv'
<1> SUFFICES ASSUME IndInv, [Next]_vars PROVE IndInv'
  OBVIOUS
<1>1. CASE NewFrame
  BY <1>1, NewFrameOK
<1>2. ASSUME NEW size \in DictSizes, ZSTD_resetCCtx_byAttachingCDict(size) PROVE IndInv'
  BY <1>2, AttachOK
<1>3. ASSUME NEW size \in DictSizes, NEW refPrefix \in BOOLEAN, NEW forceWindow \in BOOLEAN,
             ZSTD_loadDictionaryContent(size, refPrefix, forceWindow)
      PROVE  IndInv'
  BY <1>3, LoadOK
<1>4. ASSUME NEW src \in Input, NEW size \in Sizes, ZSTD_compressContinue_internal(src, size) PROVE IndInv'
  BY <1>4, ContinueOK
<1>5. ASSUME NEW size \in 1 .. BlockMax, ZSTD_compress_frameChunk(size) PROVE IndInv'
  BY <1>5, FrameChunkOK
<1>6. CASE Compress
  BY <1>6, CompressOK
<1>7. CASE UNCHANGED vars
  BY <1>7 DEF vars, IndInv, TypeInv, NextInv, ChunkInv, DictInv, ByteOf
<1> QED
  BY <1>1, <1>2, <1>3, <1>4, <1>5, <1>6, <1>7 DEF Next

LEMMA Invariant == Spec => []IndInv
  BY InitOK, StepOK, PTL DEF Spec

\* Whatever memory the caller reads its input into, and however often the indexes are
\* reduced, every index between ZSTD_window_t's limits names the byte it was given for.
THEOREM HistoryKept == Spec => []WindowIsTheHistory
<1>1. IndInv => WindowIsTheHistory
  BY DEF IndInv, Good, History, Byte, WindowIsTheHistory, ByteOf
<1> QED
  BY <1>1, Invariant, PTL

\* No index that ZSTD_reduceTable(), a new frame or the match finder leaves in the tables
\* makes the window give another byte than the one it was stored for.
THEOREM TableKept == Spec => []TableEntriesAreRight
<1>1. IndInv => TableEntriesAreRight
  <2> SUFFICES ASSUME IndInv PROVE TableEntriesAreRight
    OBVIOUS
  <2>1. DOMAIN ms.table = Slots /\ Entries(win, ms.table, fed)
    BY DEF IndInv, Good, Tables
  <2> QED
    BY <2>1 DEF Entries, Byte, TableEntriesAreRight, ByteOf
<1> QED
  BY <1>1, Invariant, PTL

\* Every correction of the indexes keeps each entry in its slot, and the assertions of
\* ZSTD_window_correctOverflow() hold.
THEOREM SlotsKept == Spec => []SlotsKeepTheirCycle
<1>1. IndInv => SlotsKeepTheirCycle
  <2> SUFFICES ASSUME IndInv PROVE SlotsKeepTheirCycle
    OBVIOUS
  <2>1. DOMAIN ms.table = Slots /\ Entries(win, ms.table, fed) /\ call.safe
    BY DEF IndInv, Good, Tables
  <2> QED
    BY <2>1 DEF Entries, SlotsKeepTheirCycle
<1> QED
  BY <1>1, Invariant, PTL

\* A block is compressed with no index the decoder cannot follow: ZSTD_window_enforceMaxDist()
\* and ZSTD_checkDictValidity() drop the dictionary in time.
THEOREM Reachable == Spec => []DecoderReaches
<1>1. IndInv => DecoderReaches
  <2> SUFFICES ASSUME IndInv, call.pc = "block" PROVE DecoderReaches
    BY DEF DecoderReaches
  <2>s. PICK start : start = Index(win, call.ip)
    OBVIOUS
  <2>e. PICK end : end = start + call.size
    OBVIOUS
  <2>1. /\ win \in Windows /\ Ordered(win) /\ fed \in Nat /\ frame \in Nat /\ dictByte \in Nat
        /\ call.ip \in Int /\ call.size \in Nat /\ ms.loadedDictEnd \in Int /\ ms.dms \in Nat
        /\ MaxDist \in Nat /\ call.left \in Nat
    BY FrameWindowAssumption DEF IndInv, Good, TypeInv, MatchStates
  <2>2. /\ win.lowLimit \in Int /\ win.dictLimit \in Int /\ EndIndex(win) \in Int /\ win.base \in Int
        /\ win.lowLimit <= win.dictLimit /\ win.nextSrc \in Int /\ EndIndex(win) = win.nextSrc - win.base
        /\ start \in Int /\ end \in Int /\ start = call.ip - win.base /\ 2 <= win.lowLimit
    BY <2>1, <2>s, <2>e, WindowInts DEF Index, Ordered
  <2>3. /\ win.dictLimit <= start /\ call.ip + call.left = win.nextSrc /\ call.size \in 1 .. call.left
        /\ ms.loadedDictEnd # 0 => ms.loadedDictEnd = win.dictLimit /\ end <= MaxDist + win.dictLimit
    BY <2>s, <2>e DEF IndInv, ChunkInv
  <2>4. /\ ByteOf(win.lowLimit) >= frame
        /\ ms.loadedDictEnd # 0 /\ ms.dms = 0 => dictByte > 0 /\ ByteOf(ms.loadedDictEnd) = dictByte + 1
        /\ ms.dms > 0 => /\ ms.loadedDictEnd >= 2 + ms.dms
                         /\ ByteOf(ms.loadedDictEnd) = frame /\ win.lowLimit >= ms.loadedDictEnd
    BY DEF IndInv, DictInv
  <2>5. \A i \in Int : ByteOf(i) = fed + 1 - (EndIndex(win) - i)
    BY DEF ByteOf
  <2>l. PICK Low : Low = [curr \in Int |-> IF ms.loadedDictEnd = 0 THEN MaxOf(win.lowLimit, curr - MaxDist)
                                           ELSE win.lowLimit]
    OBVIOUS
  <2>6. ASSUME NEW curr \in start .. end - 1, curr > Low[curr]
        PROVE  /\ ByteOf(Low[curr]) >= frame
               /\ \/ curr - Low[curr] <= MaxDist
                  \/ dictByte > 0 /\ ByteOf(end) - 1 - dictByte <= MaxDist
    <3>0. curr \in Int
      BY <2>2, <2>6
    <3>1. CASE ms.loadedDictEnd = 0
      <4>1. Low[curr] = MaxOf(win.lowLimit, curr - MaxDist)
        BY <3>0, <3>1, <2>l
      <4>2. Low[curr] \in Int /\ Low[curr] >= win.lowLimit /\ curr - Low[curr] <= MaxDist
        BY <2>1, <2>2, <3>0, <4>1 DEF MaxOf
      <4>3. ByteOf(Low[curr]) >= ByteOf(win.lowLimit) /\ ByteOf(Low[curr]) \in Int /\ ByteOf(win.lowLimit) \in Int
        <5>1. PICK j \in Int : j = Low[curr]
          BY <4>2
        <5>2. ByteOf(j) >= ByteOf(win.lowLimit) /\ ByteOf(j) \in Int /\ ByteOf(win.lowLimit) \in Int
          <6>1. j >= win.lowLimit
            BY <4>2, <5>1
          <6> QED
            BY <2>1, <2>2, <6>1 DEF ByteOf
        <5> QED
          BY <5>1, <5>2
      <4> QED
        BY <2>1, <2>4, <4>2, <4>3
    <3>2. CASE ms.loadedDictEnd # 0 /\ ms.dms = 0
      <4>1. Low[curr] = win.lowLimit
        BY <3>0, <3>2, <2>l
      <4>2. dictByte > 0 /\ ByteOf(win.dictLimit) = dictByte + 1 /\ end <= MaxDist + win.dictLimit
        BY <2>3, <2>4, <3>2
      <4>3. ByteOf(end) - 1 - dictByte <= MaxDist
        BY <2>1, <2>2, <2>5, <4>2
      <4> QED
        BY <2>4, <4>1, <4>2, <4>3
    <3>3. CASE ms.loadedDictEnd # 0 /\ ms.dms # 0
      <4>1. Low[curr] = win.lowLimit
        BY <3>0, <3>3, <2>l
      <4>2. win.lowLimit >= win.dictLimit /\ end <= MaxDist + win.dictLimit
        <5>1. ms.dms > 0
          BY <2>1, <3>3
        <5> QED
          BY <2>3, <2>4, <3>3, <5>1
      <4>3. curr - win.lowLimit <= MaxDist
        <5>1. curr < end
          BY <2>2, <2>6, <3>0
        <5> QED
          BY <2>1, <2>2, <3>0, <4>2, <5>1
      <4> QED
        BY <2>4, <4>1, <4>3
    <3> QED
      BY <3>1, <3>2, <3>3
  <2>7. ms.dms > 0 => /\ win.dictLimit >= 2 + ms.dms
                      /\ ByteOf(win.dictLimit) = frame /\ end - win.dictLimit <= MaxDist
    BY <2>1, <2>2, <2>3, <2>4
  <2>8. \A curr \in start .. end - 1 :
          Low[curr] = IF ms.loadedDictEnd = 0 THEN MaxOf(win.lowLimit, curr - MaxDist) ELSE win.lowLimit
    BY <2>2, <2>l
  <2> QED
    BY <2>6, <2>7, <2>8, <2>s, <2>e DEF DecoderReaches
<1> QED
  BY <1>1, Invariant, PTL
=============================================================================
