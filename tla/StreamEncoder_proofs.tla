------------------------ MODULE StreamEncoder_proofs ------------------------
(***************************************************************************)
(* Facts about sequences of units, for the proofs about the two streams    *)
(* that use the encoder: what joining and cutting them does to the bytes   *)
(* they hold.                                                              *)
(***************************************************************************)
EXTENDS StreamEncoder, SequenceTheorems, FiniteSetTheorems, TLAPS

USE DEF Header, End

\* Joining sequences of units.
LEMMA CatType ==
    ASSUME NEW a \in Seq(Units), NEW b \in Seq(Units)
    PROVE  a \o b \in Seq(Units) /\ Len(a \o b) = Len(a) + Len(b)
  OBVIOUS

LEMMA CatAt ==
    ASSUME NEW a \in Seq(Units), NEW b \in Seq(Units), NEW i \in 1..Len(a) + Len(b)
    PROVE  (a \o b)[i] = IF i <= Len(a) THEN a[i] ELSE b[i - Len(a)]
  OBVIOUS

Assoc(a, b, c) == (a \o b) \o c = a \o (b \o c)

LEMMA CatAssoc ==
    ASSUME NEW a \in Seq(Units), NEW b \in Seq(Units), NEW c \in Seq(Units)
    PROVE  Assoc(a, b, c)
  BY ConcatAssociative DEF Assoc

LEMMA CatEmpty ==
    ASSUME NEW a \in Seq(Units)
    PROVE  a \o <<>> = a /\ <<>> \o a = a
  BY ConcatEmptySeq

\* A sequence cut in two.
LEMMA Cut ==
    ASSUME NEW S, NEW a \in Seq(S), NEW n \in 0..Len(a)
    PROVE  /\ SubSeq(a, 1, n) \in Seq(S) /\ Len(SubSeq(a, 1, n)) = n
           /\ SubSeq(a, n + 1, Len(a)) \in Seq(S) /\ Len(SubSeq(a, n + 1, Len(a))) = Len(a) - n
           /\ \A i \in 1..n : SubSeq(a, 1, n)[i] = a[i]
           /\ \A i \in 1..Len(a) - n : SubSeq(a, n + 1, Len(a))[i] = a[n + i]
           /\ SubSeq(a, 1, n) \o SubSeq(a, n + 1, Len(a)) = a
<1>1. SubSeq(a, 1, n) \in Seq(S) /\ Len(SubSeq(a, 1, n)) = n
  OBVIOUS
<1>2. SubSeq(a, n + 1, Len(a)) \in Seq(S) /\ Len(SubSeq(a, n + 1, Len(a))) = Len(a) - n
  OBVIOUS
<1>3. \A i \in 1..n : SubSeq(a, 1, n)[i] = a[i]
  OBVIOUS
<1>4. \A i \in 1..Len(a) - n : SubSeq(a, n + 1, Len(a))[i] = a[n + i]
  OBVIOUS
<1>5. SubSeq(a, 1, n) \o SubSeq(a, n + 1, Len(a)) = a
  <2>1. PICK b \in Seq(S) : b = SubSeq(a, 1, n)
    BY <1>1
  <2>2. PICK c \in Seq(S) : c = SubSeq(a, n + 1, Len(a))
    BY <1>2
  <2>3. Len(b) = n /\ Len(c) = Len(a) - n
    BY <1>1, <1>2, <2>1, <2>2
  <2>4. \A i \in 1..n : b[i] = a[i]
    BY <1>3, <2>1
  <2>5. \A i \in n + 1..Len(a) : c[i - n] = a[i]
    BY <1>4, <2>2
  <2>6. b \o c \in Seq(S) /\ Len(b \o c) = Len(a)
    BY <2>3
  <2>7. \A i \in 1..Len(a) : (b \o c)[i] = a[i]
    BY <2>3, <2>4, <2>5
  <2> QED
    BY <2>1, <2>2, <2>6, <2>7, SeqEqual
<1> QED
  BY <1>1, <1>2, <1>3, <1>4, <1>5

\* The bytes of a joined sequence.
LEMMA BytesCat ==
    ASSUME NEW a \in Seq(Units), NEW b \in Seq(Units)
    PROVE  BytesIn(a \o b) = BytesIn(a) \cup BytesIn(b)
<1>1. ASSUME NEW x \in BytesIn(a \o b) PROVE x \in BytesIn(a) \cup BytesIn(b)
  <2>1. PICK i \in 1..Len(a) + Len(b) : x = (a \o b)[i]
    BY <1>1, CatType DEF BytesIn
  <2> QED
    BY <1>1, <2>1, CatAt DEF BytesIn
<1>2. ASSUME NEW x \in BytesIn(a) PROVE x \in BytesIn(a \o b)
  <2>1. PICK i \in 1..Len(a) : x = a[i]
    BY <1>2 DEF BytesIn
  <2>2. (a \o b)[i] = x /\ i \in 1..Len(a \o b)
    BY <2>1, CatAt, CatType
  <2> QED
    BY <1>2, <2>2 DEF BytesIn
<1>3. ASSUME NEW x \in BytesIn(b) PROVE x \in BytesIn(a \o b)
  <2>1. PICK i \in 1..Len(b) : x = b[i]
    BY <1>3 DEF BytesIn
  <2>2. (a \o b)[Len(a) + i] = x /\ Len(a) + i \in 1..Len(a \o b)
    BY <2>1, CatAt, CatType
  <2> QED
    BY <1>3, <2>2 DEF BytesIn
<1> QED
  BY <1>1, <1>2, <1>3

\* A joined sequence is in order when its parts are, one below the other.
LEMMA OrderCat ==
    ASSUME NEW a \in Seq(Units), NEW b \in Seq(Units)
    PROVE  InOrder(a \o b) <=> /\ InOrder(a) /\ InOrder(b)
                               /\ \A x \in BytesIn(a), y \in BytesIn(b) : x < y
<1>1. ASSUME InOrder(a \o b) PROVE InOrder(a)
  BY <1>1, CatAt, CatType DEF InOrder
<1>2. ASSUME InOrder(a \o b) PROVE InOrder(b)
  <2> SUFFICES ASSUME NEW i \in 1..Len(b), NEW j \in 1..Len(b), i < j, b[i] > 0, b[j] > 0
               PROVE  b[i] < b[j]
    BY DEF InOrder
  <2>1. (a \o b)[Len(a) + i] = b[i] /\ (a \o b)[Len(a) + j] = b[j]
    BY CatAt
  <2>2. PICK k \in 1..Len(a \o b) : k = Len(a) + i
    BY CatType
  <2>3. PICK l \in 1..Len(a \o b) : l = Len(a) + j
    BY CatType
  <2> QED
    BY <1>2, <2>1, <2>2, <2>3, SMTT(30) DEF InOrder
<1>3. ASSUME InOrder(a \o b), NEW x \in BytesIn(a), NEW y \in BytesIn(b) PROVE x < y
  <2>1. PICK i \in 1..Len(a) : x = a[i] /\ x > 0
    BY DEF BytesIn, Units
  <2>2. PICK j \in 1..Len(b) : y = b[j] /\ y > 0
    BY DEF BytesIn, Units
  <2>3. (a \o b)[i] = x /\ (a \o b)[Len(a) + j] = y
    BY <2>1, <2>2, CatAt
  <2> QED
    BY <1>3, <2>1, <2>2, <2>3, CatType DEF InOrder
<1>4. ASSUME InOrder(a), InOrder(b), \A x \in BytesIn(a), y \in BytesIn(b) : x < y
      PROVE  InOrder(a \o b)
  <2> SUFFICES ASSUME NEW i \in 1..Len(a) + Len(b), NEW j \in 1..Len(a) + Len(b), i < j,
                      (a \o b)[i] > 0, (a \o b)[j] > 0
               PROVE  (a \o b)[i] < (a \o b)[j]
    BY CatType DEF InOrder
  <2>1. CASE j <= Len(a)
    BY <1>4, <2>1, CatAt DEF InOrder
  <2>2. CASE i > Len(a)
    BY <1>4, <2>2, CatAt DEF InOrder
  <2>3. CASE i <= Len(a) /\ j > Len(a)
    <3>1. (a \o b)[i] = a[i] /\ a[i] \in BytesIn(a)
      BY <2>3, CatAt DEF BytesIn
    <3>2. (a \o b)[j] = b[j - Len(a)] /\ b[j - Len(a)] \in BytesIn(b)
      BY <2>3, CatAt DEF BytesIn
    <3> QED
      BY <1>4, <3>1, <3>2
  <2> QED
    BY <2>1, <2>2, <2>3
<1> QED
  BY <1>1, <1>2, <1>3, <1>4

\* Sequences without a byte.
LEMMA NoBytes ==
    ASSUME NEW a \in Seq({Header, End})
    PROVE  a \in Seq(Units) /\ BytesIn(a) = {} /\ InOrder(a)
  BY DEF BytesIn, InOrder, Units

\* Bytes are positive numbers.
LEMMA BytesPositive ==
    ASSUME NEW a \in Seq(Units), NEW x \in BytesIn(a)
    PROVE  x \in Nat \ {0}
  BY DEF BytesIn, Units

\* Numbers are units.
LEMMA NatSeq ==
    ASSUME NEW a \in Seq(Nat)
    PROVE  a \in Seq(Units)
  BY SeqMonotonic DEF Units

\* The three facts in one.
LEMMA Joined ==
    ASSUME NEW a \in Seq(Units), NEW b \in Seq(Units)
    PROVE  /\ a \o b \in Seq(Units) /\ BytesIn(a \o b) = BytesIn(a) \cup BytesIn(b)
           /\ InOrder(a \o b) <=> InOrder(a) /\ InOrder(b) /\ \A x \in BytesIn(a), y \in BytesIn(b) : x < y
  BY CatType, BytesCat, OrderCat

\* Two strings of units carry the same bytes, both in order or neither.
SameData(s, r) == BytesIn(s) = BytesIn(r) /\ (InOrder(s) <=> InOrder(r))

\* What stands between the bytes does not matter to them.
LEMMA Coding ==
    ASSUME NEW u \in Seq(Units), NEW b \in Seq(Units), NEW t \in Seq(Units),
           NEW h \in Seq({Header, End}), NEW e \in Seq({Header, End})
    PROVE  SameData((u \o (h \o b \o e)) \o t, u \o (b \o t))
<1>1. /\ h \in Seq(Units) /\ BytesIn(h) = {} /\ InOrder(h)
      /\ e \in Seq(Units) /\ BytesIn(e) = {} /\ InOrder(e)
  BY NoBytes
<1>2. /\ h \o b \in Seq(Units) /\ BytesIn(h \o b) = BytesIn(h) \cup BytesIn(b)
      /\ InOrder(h \o b) <=> InOrder(h) /\ InOrder(b) /\ \A x \in BytesIn(h), y \in BytesIn(b) : x < y
  BY <1>1, Joined
<1>3. PICK g \in Seq(Units) : g = h \o b /\ BytesIn(g) = BytesIn(b) /\ (InOrder(g) <=> InOrder(b))
  BY <1>1, <1>2
<1>4. /\ g \o e \in Seq(Units) /\ BytesIn(g \o e) = BytesIn(g) \cup BytesIn(e)
      /\ InOrder(g \o e) <=> InOrder(g) /\ InOrder(e) /\ \A x \in BytesIn(g), y \in BytesIn(e) : x < y
  BY <1>1, Joined
<1>5. PICK c \in Seq(Units) : c = g \o e /\ BytesIn(c) = BytesIn(b) /\ (InOrder(c) <=> InOrder(b))
  BY <1>1, <1>3, <1>4
<1>6. /\ u \o c \in Seq(Units) /\ BytesIn(u \o c) = BytesIn(u) \cup BytesIn(c)
      /\ InOrder(u \o c) <=> InOrder(u) /\ InOrder(c) /\ \A x \in BytesIn(u), y \in BytesIn(c) : x < y
  BY Joined
<1>7. PICK v \in Seq(Units) : /\ v = u \o c /\ BytesIn(v) = BytesIn(u) \cup BytesIn(b)
                              /\ InOrder(v) <=> InOrder(u) /\ InOrder(b) /\ \A x \in BytesIn(u), y \in BytesIn(b) : x < y
  BY <1>5, <1>6
<1>8. /\ v \o t \in Seq(Units) /\ BytesIn(v \o t) = BytesIn(v) \cup BytesIn(t)
      /\ InOrder(v \o t) <=> InOrder(v) /\ InOrder(t) /\ \A x \in BytesIn(v), y \in BytesIn(t) : x < y
  BY Joined
<1>9. /\ b \o t \in Seq(Units) /\ BytesIn(b \o t) = BytesIn(b) \cup BytesIn(t)
      /\ InOrder(b \o t) <=> InOrder(b) /\ InOrder(t) /\ \A x \in BytesIn(b), y \in BytesIn(t) : x < y
  BY Joined
<1>10. PICK r \in Seq(Units) : /\ r = b \o t /\ BytesIn(r) = BytesIn(b) \cup BytesIn(t)
                               /\ InOrder(r) <=> InOrder(b) /\ InOrder(t) /\ \A x \in BytesIn(b), y \in BytesIn(t) : x < y
  BY <1>9
<1>11. /\ u \o r \in Seq(Units) /\ BytesIn(u \o r) = BytesIn(u) \cup BytesIn(r)
       /\ InOrder(u \o r) <=> InOrder(u) /\ InOrder(r) /\ \A x \in BytesIn(u), y \in BytesIn(r) : x < y
  BY Joined
<1>12. BytesIn(v \o t) = BytesIn(u \o r)
  <2>1. /\ BytesIn(v \o t) = (BytesIn(u) \cup BytesIn(b)) \cup BytesIn(t)
        /\ BytesIn(u \o r) = BytesIn(u) \cup (BytesIn(b) \cup BytesIn(t))
    BY <1>7, <1>8, <1>10, <1>11, Zenon
  <2> QED
    BY <2>1
<1>13. InOrder(v \o t) <=> InOrder(u \o r)
  <2> DEFINE A == BytesIn(u)
             B == BytesIn(b)
             C == BytesIn(t)
  <2>1. InOrder(v \o t) <=> /\ InOrder(u) /\ InOrder(b) /\ InOrder(t)
                            /\ \A x \in A, y \in B : x < y
                            /\ \A x \in A \cup B, y \in C : x < y
    BY <1>7, <1>8, Zenon
  <2>2. InOrder(u \o r) <=> /\ InOrder(u) /\ InOrder(b) /\ InOrder(t)
                            /\ \A x \in B, y \in C : x < y
                            /\ \A x \in A, y \in B \cup C : x < y
    BY <1>10, <1>11, Zenon
  <2> HIDE DEF A, B, C
  <2> QED
    BY <2>1, <2>2, Zenon
<1>14. SameData(v \o t, u \o r)
  BY <1>12, <1>13 DEF SameData
<1> QED
  BY <1>3, <1>5, <1>7, <1>10, <1>14

\* Bytes with the next numbers are appended, or taken off again.
LEMMA Numbered ==
    ASSUME NEW t \in Seq(Units), NEW m \in Nat, \A i \in 1..Len(t) : t[i] = m + i
    PROVE  InOrder(t) /\ BytesIn(t) = m + 1..m + Len(t)
<1>1. Len(t) \in Nat
  OBVIOUS
<1>2. InOrder(t)
  BY <1>1 DEF InOrder
<1>3. ASSUME NEW x \in m + 1..m + Len(t) PROVE x \in BytesIn(t)
  <2>1. x - m \in 1..Len(t) /\ t[x - m] = x
    BY <1>1
  <2> QED
    BY <2>1 DEF BytesIn
<1>4. ASSUME NEW x \in BytesIn(t) PROVE x \in m + 1..m + Len(t)
  <2>1. PICK i \in 1..Len(t) : x = t[i]
    BY DEF BytesIn
  <2> QED
    BY <1>1, <2>1
<1> QED
  BY <1>2, <1>3, <1>4

LEMMA Added ==
    ASSUME NEW a \in Seq(Units), NEW t \in Seq(Units), NEW m \in Nat, Decodes(a, m),
           \A i \in 1..Len(t) : t[i] = m + i
    PROVE  Decodes(a \o t, m + Len(t))
<1>1. InOrder(t) /\ BytesIn(t) = m + 1..m + Len(t) /\ Len(t) \in Nat
  BY Numbered
<1>2. InOrder(a) /\ BytesIn(a) = 1..m
  BY DEF Decodes
<1>3. InOrder(a \o t) /\ BytesIn(a \o t) = BytesIn(a) \cup BytesIn(t)
  BY <1>1, <1>2, Joined
<1>4. 1..m \cup (m + 1..m + Len(t)) = 1..m + Len(t)
  BY <1>1
<1> QED
  BY <1>1, <1>2, <1>3, <1>4 DEF Decodes

LEMMA Dropped ==
    ASSUME NEW a \in Seq(Units), NEW t \in Seq(Units), NEW n \in Nat, Len(t) <= n,
           \A i \in 1..Len(t) : t[i] = n - Len(t) + i, Decodes(a \o t, n)
    PROVE  Decodes(a, n - Len(t))
<1>1. PICK m \in Nat : m = n - Len(t) /\ n = m + Len(t)
  OBVIOUS
<1>2. InOrder(t) /\ BytesIn(t) = m + 1..n
  BY <1>1, Numbered
<1>3. /\ InOrder(a \o t) /\ BytesIn(a) \cup BytesIn(t) = 1..n /\ InOrder(a)
      /\ \A x \in BytesIn(a), y \in BytesIn(t) : x < y
  BY Joined DEF Decodes
<1>4. ASSUME NEW x \in BytesIn(a) PROVE x \in 1..m
  <2>1. x \in 1..n
    BY <1>3
  <2>2. ASSUME x \in BytesIn(t) PROVE FALSE
    <3>1. x < x
      BY <1>3, <2>2
    <3> QED
      BY <2>1, <3>1
  <2> QED
    BY <1>1, <1>2, <2>1, <2>2
<1>5. ASSUME NEW x \in 1..m PROVE x \in BytesIn(a)
  <2>1. x \in 1..n /\ x \notin m + 1..n
    BY <1>1
  <2> QED
    BY <1>2, <1>3, <2>1
<1> QED
  BY <1>1, <1>3, <1>4, <1>5 DEF Decodes

\* What is left when units are dropped is still in order.
Part(r, s) == BytesIn(r) \subseteq BytesIn(s) /\ (InOrder(s) => InOrder(r))

LEMMA Drop ==
    ASSUME NEW a \in Seq(Units), NEW b \in Seq(Units), NEW c \in Seq(Units)
    PROVE  Part(a \o c, a \o (b \o c))
<1>1. /\ BytesIn(a \o c) = BytesIn(a) \cup BytesIn(c)
      /\ InOrder(a \o c) <=> InOrder(a) /\ InOrder(c) /\ \A x \in BytesIn(a), y \in BytesIn(c) : x < y
  BY Joined
<1>2. /\ b \o c \in Seq(Units) /\ BytesIn(b \o c) = BytesIn(b) \cup BytesIn(c)
      /\ InOrder(b \o c) <=> InOrder(b) /\ InOrder(c) /\ \A x \in BytesIn(b), y \in BytesIn(c) : x < y
  BY Joined
<1>3. PICK d \in Seq(Units) : /\ d = b \o c /\ BytesIn(d) = BytesIn(b) \cup BytesIn(c)
                              /\ InOrder(d) => InOrder(c)
  BY <1>2
<1>4. /\ BytesIn(a \o d) = BytesIn(a) \cup BytesIn(d)
      /\ InOrder(a \o d) <=> InOrder(a) /\ InOrder(d) /\ \A x \in BytesIn(a), y \in BytesIn(d) : x < y
  BY Joined
<1>5. Part(a \o c, a \o d)
  BY <1>1, <1>3, <1>4, Zenon DEF Part
<1> QED
  BY <1>3, <1>5

LEMMA PartOfJoined ==
    ASSUME NEW a \in Seq(Units), NEW b \in Seq(Units)
    PROVE  Part(a, a \o b) /\ Part(b, a \o b)
<1>1. /\ BytesIn(a \o b) = BytesIn(a) \cup BytesIn(b)
      /\ InOrder(a \o b) <=> InOrder(a) /\ InOrder(b) /\ \A x \in BytesIn(a), y \in BytesIn(b) : x < y
  BY Joined
<1> QED
  BY <1>1, Zenon DEF Part

LEMMA PartsJoined ==
    ASSUME NEW a \in Seq(Units), NEW b \in Seq(Units), NEW c \in Seq(Units), NEW d \in Seq(Units),
           Part(a, c), Part(b, d)
    PROVE  Part(a \o b, c \o d)
<1>1. /\ BytesIn(a \o b) = BytesIn(a) \cup BytesIn(b)
      /\ InOrder(a \o b) <=> InOrder(a) /\ InOrder(b) /\ \A x \in BytesIn(a), y \in BytesIn(b) : x < y
  BY Joined
<1>2. /\ BytesIn(c \o d) = BytesIn(c) \cup BytesIn(d)
      /\ InOrder(c \o d) <=> InOrder(c) /\ InOrder(d) /\ \A x \in BytesIn(c), y \in BytesIn(d) : x < y
  BY Joined
<1>3. BytesIn(a) \subseteq BytesIn(c) /\ BytesIn(b) \subseteq BytesIn(d)
  BY DEF Part
<1> QED
  BY <1>1, <1>2, <1>3, Zenon DEF Part

\* Units behind units: headers stand where they should when each of the new ones does.
LEMMA WellFormedCat ==
    ASSUME NEW a \in Seq(Units), NEW b \in Seq(Units), WellFormed(a),
           \A i \in 1..Len(b) : b[i] = Header <=> IF i = 1 THEN Ended(a) ELSE b[i - 1] = End
    PROVE  WellFormed(a \o b)
<1> SUFFICES ASSUME NEW i \in 1..Len(a) + Len(b)
             PROVE  (a \o b)[i] = Header <=> (i = 1 \/ (a \o b)[i - 1] = End)
  BY CatType DEF WellFormed
<1>1. CASE i <= Len(a)
  <2>1. (a \o b)[i] = a[i] /\ (i > 1 => (a \o b)[i - 1] = a[i - 1])
    BY <1>1, CatAt
  <2>2. a[i] = Header <=> (i = 1 \/ a[i - 1] = End)
    BY <1>1 DEF WellFormed
  <2> QED
    BY <2>1, <2>2
<1>2. CASE i = Len(a) + 1
  <2>1. (a \o b)[i] = b[1] /\ 1 \in 1..Len(b) /\ (i > 1 => (a \o b)[i - 1] = a[Len(a)])
    BY <1>2, CatAt
  <2>2. b[1] = Header <=> Ended(a)
    BY <2>1
  <2>3. Ended(a) <=> (i = 1 \/ a[Len(a)] = End)
    BY <1>2, EmptySeq DEF Ended
  <2>4. Len(a) \in Nat
    OBVIOUS
  <2> QED
    BY <1>2, <2>1, <2>2, <2>3, <2>4
<1>3. CASE i > Len(a) + 1
  <2>1. /\ (a \o b)[i] = b[i - Len(a)] /\ (a \o b)[i - 1] = b[i - 1 - Len(a)]
        /\ i - Len(a) \in 1..Len(b) /\ i - Len(a) # 1 /\ (i - Len(a)) - 1 = i - 1 - Len(a) /\ i # 1
    BY <1>3, CatAt
  <2> QED
    BY <2>1
<1> QED
  BY <1>1, <1>2, <1>3

\* The ends of frames in a joined sequence.
LEMMA CountCat ==
    ASSUME NEW a \in Seq(Units), NEW b \in Seq(Units), NEW k \in Nat,
           k = 0 => \A i \in 1..Len(b) : b[i] # End,
           k # 0 => k = 1 /\ Len(b) > 0 /\ \A i \in 1..Len(b) : b[i] = End <=> i = Len(b)
    PROVE  FrameCount(a \o b) = FrameCount(a) + k
<1> DEFINE E(s) == {i \in 1..Len(s) : s[i] = End}
<1>1. IsFiniteSet(E(a)) /\ Cardinality(E(a)) \in Nat
  <2>1. IsFiniteSet(1..Len(a)) /\ E(a) \subseteq 1..Len(a)
    BY FS_Interval
  <2> QED
    BY <2>1, FS_Subset, FS_CardinalityType
<1>2. E(a \o b) = {i \in 1..Len(a) + Len(b) : (a \o b)[i] = End}
  BY CatType
<1>3. CASE k = 0
  <2>1. ASSUME NEW i \in 1..Len(a) + Len(b), i > Len(a) PROVE (a \o b)[i] # End
    <3>1. i - Len(a) \in 1..Len(b) /\ (a \o b)[i] = b[i - Len(a)]
      BY <2>1, CatAt
    <3> QED
      BY <1>3, <3>1
  <2>2. \A i \in 1..Len(a) : (a \o b)[i] = a[i]
    BY CatAt
  <2>3. E(a \o b) = E(a)
    BY <1>2, <2>1, <2>2
  <2>4. FrameCount(a \o b) = Cardinality(E(a)) /\ FrameCount(a) = Cardinality(E(a))
    BY <2>3 DEF FrameCount
  <2> QED
    BY <1>1, <1>3, <2>4
<1>4. CASE k # 0
  <2>1. ASSUME NEW i \in 1..Len(a) + Len(b), i > Len(a)
        PROVE  (a \o b)[i] = End <=> i = Len(a) + Len(b)
    <3>1. i - Len(a) \in 1..Len(b) /\ (a \o b)[i] = b[i - Len(a)]
      BY <2>1, CatAt
    <3>2. b[i - Len(a)] = End <=> i - Len(a) = Len(b)
      BY <1>4, <3>1
    <3> QED
      BY <3>1, <3>2
  <2>2. \A i \in 1..Len(a) : (a \o b)[i] = a[i]
    BY CatAt
  <2>3. E(a \o b) = E(a) \cup {Len(a) + Len(b)}
    BY <1>2, <1>4, <2>1, <2>2
  <2>4. Len(a) + Len(b) \notin E(a)
    BY <1>4
  <2>5. FrameCount(a \o b) = Cardinality(E(a) \cup {Len(a) + Len(b)}) /\ FrameCount(a) = Cardinality(E(a))
    BY <2>3 DEF FrameCount
  <2> HIDE DEF E
  <2>6. Cardinality(E(a) \cup {Len(a) + Len(b)}) = Cardinality(E(a)) + 1
    BY <1>1, <2>4, FS_AddElement
  <2> QED
    BY <1>4, <2>5, <2>6
<1> QED
  BY <1>3, <1>4

\* v is u and more of the same frame, to its end if q = 1.
Continues(v, u, q) ==
    WellFormed(v) /\ (Ended(v) <=> q = 1) /\ FrameCount(v) = FrameCount(u) + q

\* The units of a block behind those of the frames so far: a header if the frame has none
\* (p = 1), the bytes, and the end if the block is the last (q = 1).
LEMMA BlockUnits ==
    ASSUME NEW u \in Seq(Units), NEW b \in Seq(Nat \ {0}), NEW h \in Seq(Units), NEW e \in Seq(Units),
           NEW p \in Nat, NEW q \in Nat,
           (h = <<>> /\ p = 0 /\ ~Ended(u)) \/ (h = <<Header>> /\ p = 1 /\ Ended(u)),
           (e = <<>> /\ q = 0) \/ (e = <<End>> /\ q = 1),
           WellFormed(u)
    PROVE  Continues(u \o (h \o b \o e), u, q)
<1>1. /\ Len(h) = p /\ Len(e) = q /\ (p = 1 => h[1] = Header) /\ (q = 1 => e[1] = End)
      /\ p \in {0, 1} /\ q \in {0, 1} /\ (p = 1 <=> Ended(u))
  <2>1. Len(h) = p /\ p \in {0, 1} /\ (p = 1 => h[1] = Header)
    <3>1. CASE h = <<>> /\ p = 0
      BY <3>1
    <3>2. CASE h = <<Header>> /\ p = 1
      <4>1. Len(<<Header>>) = 1 /\ <<Header>>[1] = Header
        OBVIOUS
      <4> QED
        BY <3>2, <4>1
    <3> QED
      BY <3>1, <3>2
  <2>2. Len(e) = q /\ q \in {0, 1} /\ (q = 1 => e[1] = End)
    <3>1. CASE e = <<>> /\ q = 0
      BY <3>1
    <3>2. CASE e = <<End>> /\ q = 1
      <4>1. Len(<<End>>) = 1 /\ <<End>>[1] = End
        OBVIOUS
      <4> QED
        BY <3>2, <4>1
    <3> QED
      BY <3>1, <3>2
  <2>3. p = 1 <=> Ended(u)
    OBVIOUS
  <2> QED
    BY <2>1, <2>2, <2>3
<1>2. b \in Seq(Units) /\ Len(b) \in Nat /\ \A i \in 1..Len(b) : b[i] \in Nat \ {0}
  <2>1. b \in Seq(Units)
    BY SeqMonotonic DEF Units
  <2> QED
    BY <2>1
<1>3. PICK m \in Nat : m = p + Len(b) + q
  BY <1>2
<1>4. PICK d \in Seq(Units) : /\ d = h \o b /\ Len(d) = p + Len(b) /\ (p = 1 => d[1] = Header)
                              /\ \A i \in 1..Len(b) : d[p + i] = b[i]
  <2>1. h \o b \in Seq(Units) /\ Len(h \o b) = p + Len(b)
    BY <1>1, <1>2, CatType
  <2>2. p = 1 => (h \o b)[1] = Header
    BY <1>1, <1>2, CatAt
  <2>3. ASSUME NEW i \in 1..Len(b) PROVE (h \o b)[p + i] = b[i]
    <3>1. p + i \in 1..Len(h) + Len(b) /\ ~(p + i <= Len(h)) /\ (p + i) - Len(h) = i
      BY <1>1, <1>2
    <3> QED
      BY <1>2, <3>1, CatAt
  <2> QED
    BY <2>1, <2>2, <2>3
<1>5. PICK c \in Seq(Units) : /\ c = d \o e /\ Len(c) = m
                              /\ p = 1 => c[1] = Header
                              /\ \A i \in 1..Len(b) : c[p + i] = b[i]
                              /\ q = 1 => c[m] = End
  <2>1. d \o e \in Seq(Units) /\ Len(d \o e) = m
    BY <1>1, <1>2, <1>3, <1>4, CatType
  <2>2. p = 1 => (d \o e)[1] = Header
    BY <1>1, <1>2, <1>4, CatAt
  <2>3. ASSUME NEW i \in 1..Len(b) PROVE (d \o e)[p + i] = b[i]
    <3>1. p + i \in 1..Len(d) + Len(e) /\ p + i <= Len(d)
      BY <1>1, <1>2, <1>4
    <3> QED
      BY <1>4, <3>1, CatAt
  <2>4. q = 1 => (d \o e)[m] = End
    <3>1. SUFFICES ASSUME q = 1 PROVE (d \o e)[m] = End
      OBVIOUS
    <3>2. m \in 1..Len(d) + Len(e) /\ ~(m <= Len(d)) /\ m - Len(d) = 1
      BY <1>1, <1>2, <1>3, <1>4, <3>1, SMTT(30)
    <3>3. (d \o e)[m] = e[m - Len(d)]
      BY <3>2, CatAt
    <3> QED
      BY <1>1, <3>1, <3>2, <3>3
  <2> QED
    BY <2>1, <2>2, <2>3, <2>4
<1>6. \A i \in 1..m : /\ c[i] = Header <=> p = 1 /\ i = 1
                      /\ c[i] = End <=> q = 1 /\ i = m
  <2> SUFFICES ASSUME NEW i \in 1..m
               PROVE  (c[i] = Header <=> p = 1 /\ i = 1) /\ (c[i] = End <=> q = 1 /\ i = m)
    OBVIOUS
  <2>1. CASE i <= p
    <3>1. p = 1 /\ i = 1 /\ (q = 1 => m # 1)
      BY <1>1, <1>2, <1>3, <2>1
    <3> QED
      BY <1>5, <3>1
  <2>2. CASE i > p /\ i <= p + Len(b)
    <3>1. i - p \in 1..Len(b) /\ p + (i - p) = i
      BY <1>2, <2>2
    <3>2. c[i] = b[i - p] /\ b[i - p] \in Nat \ {0}
      BY <1>2, <1>5, <3>1
    <3>3. (p = 1 => i # 1) /\ (q = 1 => i # m)
      BY <1>2, <1>3, <2>2
    <3>4. c[i] # Header /\ c[i] # End
      BY <3>2
    <3> QED
      BY <3>3, <3>4
  <2>3. CASE i > p + Len(b)
    <3>1. q = 1 /\ i = m /\ (p = 1 => i # 1)
      BY <1>1, <1>2, <1>3, <2>3
    <3> QED
      BY <1>5, <3>1
  <2> QED
    BY <1>2, <2>1, <2>2, <2>3
<1>7. WellFormed(u \o c)
  <2>1. ASSUME NEW i \in 1..Len(c) PROVE c[i] = Header <=> IF i = 1 THEN Ended(u) ELSE c[i - 1] = End
    <3>1. i \in 1..m /\ (i # 1 => i - 1 \in 1..m /\ i - 1 # m)
      BY <1>3, <1>5
    <3> QED
      BY <1>1, <1>6, <3>1
  <2> QED
    BY <2>1, WellFormedCat
<1>8. Ended(u \o c) <=> q = 1
  <2>1. CASE m = 0
    <3>1. c = <<>> /\ p = 0 /\ q = 0
      BY <1>1, <1>2, <1>3, <1>5, <2>1, EmptySeq
    <3>2. u \o c = u
      BY <3>1, CatEmpty
    <3> QED
      BY <1>1, <3>1, <3>2
  <2>2. CASE m > 0
    <3>1. Len(u \o c) = Len(u) + m /\ (u \o c)[Len(u) + m] = c[m]
      <4>1. Len(u) + m \in 1..Len(u) + Len(c) /\ ~(Len(u) + m <= Len(u)) /\ (Len(u) + m) - Len(u) = m
        BY <1>5, <2>2
      <4>2. (u \o c)[Len(u) + m] = c[(Len(u) + m) - Len(u)]
        BY <1>5, <4>1, CatAt
      <4>3. Len(u \o c) = Len(u) + m
        BY <1>5, CatType
      <4> QED
        BY <4>1, <4>2, <4>3
    <3>2. u \o c # <<>> /\ m \in 1..m
      BY <2>2, <3>1
    <3> QED
      BY <1>6, <3>1, <3>2 DEF Ended
  <2> QED
    BY <2>1, <2>2
<1>9. FrameCount(u \o c) = FrameCount(u) + q
  <2>1. q = 0 => \A i \in 1..Len(c) : c[i] # End
    BY <1>5, <1>6
  <2>2. q # 0 => q = 1 /\ Len(c) > 0 /\ \A i \in 1..Len(c) : c[i] = End <=> i = Len(c)
    BY <1>1, <1>2, <1>3, <1>5, <1>6
  <2> QED
    BY <2>1, <2>2, CountCat
<1> QED
  BY <1>4, <1>5, <1>7, <1>8, <1>9 DEF Continues

-----------------------------------------------------------------------------
(***************************************************************************)
(* The steps of ZSTD_compressStream2()                                     *)
(***************************************************************************)
\* Units that were produced and are still with the stream; bytes that were not.
Made == dst \o outBuff
Rest == inBuff \o todo

LEMMA Types ==
    ASSUME EncoderTypeOK
    PROVE  /\ inBuff \in Seq(Units) /\ todo \in Seq(Units)
           /\ Made \in Seq(Units) /\ Rest \in Seq(Units) /\ Rest \in Seq(Nat)
<1>1. inBuff \in Seq(Units) /\ todo \in Seq(Units)
  BY NatSeq DEF EncoderTypeOK
<1>2. Made \in Seq(Units) /\ Rest \in Seq(Units)
  BY <1>1, CatType DEF EncoderTypeOK, Made, Rest
<1>3. Rest \in Seq(Nat)
  BY DEF EncoderTypeOK, Rest
<1> QED
  BY <1>1, <1>2, <1>3

\* Flushing moves units and changes none.
LEMMA FlushStep ==
    ASSUME EncoderTypeOK, NativeFlush, DstSize \in Nat
    PROVE  /\ EncoderTypeOK' /\ Made' = Made /\ Rest' = Rest /\ todo' = todo
           /\ UNCHANGED <<op, size, headerDone, inBuff, frameEnded>>
           /\ pc = "native" /\ stage = "flush" /\ pc' \in {"native", "result"}
           /\ pc' = "native" => stage' = "load" /\ outBuff' = <<>> /\ ~frameEnded
           /\ stage' \in {"load", "init"} => outBuff' = <<>>
           /\ stage' = "init" => frameEnded
           /\ pc' = "result" => outBuff' # <<>> \/ frameEnded
           /\ outBuff' # <<>> => stage' = "flush"
           /\ stage' = "load" => ~frameEnded
           /\ stage' = "flush" => outBuff' # <<>>
<1> DEFINE room == DstSize - Len(dst)
           n == IF Len(outBuff) <= room THEN Len(outBuff) ELSE room
<1>1. n \in 0..Len(outBuff) /\ n <= DstSize - Len(dst)
  BY DEF EncoderTypeOK
<1>2. dst' = dst \o SubSeq(outBuff, 1, n) /\ outBuff' = SubSeq(outBuff, n + 1, Len(outBuff))
  BY DEF NativeFlush
<1>3. /\ UNCHANGED <<op, size, todo, headerDone, inBuff, frameEnded>>
      /\ stage' = IF n # Len(outBuff) THEN "flush" ELSE IF frameEnded THEN "init" ELSE "load"
      /\ pc' = IF n = Len(outBuff) /\ ~frameEnded THEN "native" ELSE "result"
      /\ pc = "native" /\ stage = "flush"
  BY DEF NativeFlush, Goto
<1> HIDE DEF n, room
<1>4. PICK a \in Seq(Units) : a = SubSeq(outBuff, 1, n) /\ Len(a) = n
  <2>1. outBuff \in Seq(Units)
    BY DEF EncoderTypeOK
  <2>2. SubSeq(outBuff, 1, n) \in Seq(Units) /\ Len(SubSeq(outBuff, 1, n)) = n
    BY <1>1, <2>1, Cut
  <2> QED
    BY <2>2
<1>5. PICK b \in Seq(Units) : b = SubSeq(outBuff, n + 1, Len(outBuff)) /\ Len(b) = Len(outBuff) - n
  BY <1>1, Cut DEF EncoderTypeOK
<1>6. a \o b = outBuff
  BY <1>1, <1>4, <1>5, Cut DEF EncoderTypeOK
<1>7. Made' = Made
  <2>1. (dst \o a) \o b = dst \o (a \o b)
    <3>1. Assoc(dst, a, b)
      BY CatAssoc DEF EncoderTypeOK
    <3> QED
      BY <3>1 DEF Assoc
  <2> QED
    BY <1>2, <1>4, <1>5, <1>6, <2>1 DEF Made
<1>8. dst' \in Seq(Units) /\ Len(dst') = Len(dst) + n
  BY <1>2, <1>4, CatType DEF EncoderTypeOK
<1>9. EncoderTypeOK'
  BY <1>1, <1>2, <1>3, <1>5, <1>8 DEF EncoderTypeOK
<1>10. n = Len(outBuff) <=> outBuff' = <<>>
  <2>1. outBuff' = b /\ Len(b) = Len(outBuff) - n /\ Len(outBuff) \in Nat /\ n \in Nat
    BY <1>1, <1>2, <1>5 DEF EncoderTypeOK
  <2>2. b = <<>> <=> Len(b) = 0
    BY <1>5, EmptySeq
  <2> QED
    BY <2>1, <2>2
<1>11. Rest' = Rest
  BY <1>3 DEF Rest
<1> QED
  BY <1>3, <1>7, <1>9, <1>10, <1>11 DEF EncoderTypeOK

\* Loading takes bytes of the input behind those that were loaded, and either leaves them
\* there or makes a block of them.
Taken(n, block) ==
    /\ n \in 0..Len(todo) /\ todo' = SubSeq(todo, n + 1, Len(todo)) /\ (op # "write" => n = 0)
    /\ block = inBuff \o SubSeq(todo, 1, n) /\ Len(block) <= BlockSize
Kept(block) ==
    /\ pc' = "result" /\ inBuff' = block /\ op \in {"write", "flush"} /\ (op = "flush" => block = <<>>)
    /\ UNCHANGED <<stage, headerDone, outBuff, frameEnded>>
Coded(block) ==
    /\ pc' = "native" /\ inBuff' = <<>> /\ stage' = "flush" /\ headerDone' = TRUE
    /\ outBuff' = (IF headerDone THEN <<>> ELSE <<Header>>) \o block \o (IF Ending THEN <<End>> ELSE <<>>)
    /\ frameEnded' = Ending

LEMMA LoadStep ==
    ASSUME EncoderTypeOK, Len(inBuff) <= BlockSize, NativeLoad, BlockSize \in Nat,
           op \in {"write", "flush", "endFrame", "close"}
    PROVE  \E n \in Nat, block \in Seq(Nat) :
              /\ Taken(n, block) /\ (Kept(block) \/ Coded(block))
              /\ block \o todo' = Rest /\ todo' \in Seq(Nat)
<1> DEFINE input == IF op = "write" THEN todo ELSE <<>>
           room == BlockSize - Len(inBuff)
           n == IF Len(input) <= room THEN Len(input) ELSE room
           block == inBuff \o SubSeq(input, 1, n)
           stop == \/ op = "write" /\ Len(block) < BlockSize
                   \/ op = "flush" /\ block = <<>>
<1>1. input \in Seq(Nat) /\ (op # "write" => input = <<>>) /\ (op = "write" => input = todo)
  BY DEF EncoderTypeOK
<1>2. /\ todo' = IF op = "write" THEN SubSeq(todo, n + 1, Len(todo)) ELSE todo
      /\ pc' = IF stop THEN "result" ELSE "native"
      /\ stop => inBuff' = block /\ UNCHANGED <<stage, headerDone, outBuff, frameEnded>>
      /\ ~stop => /\ outBuff' = (IF headerDone THEN <<>> ELSE <<Header>>) \o block
                                \o (IF Ending THEN <<End>> ELSE <<>>)
                  /\ frameEnded' = Ending
                  /\ headerDone' = TRUE /\ inBuff' = <<>> /\ stage' = "flush"
  BY DEF NativeLoad
<1>3. stop => op \in {"write", "flush"} /\ (op = "flush" => block = <<>>)
  OBVIOUS
<1>4. n \in 0..Len(input) /\ n <= BlockSize - Len(inBuff) /\ Len(inBuff) \in Nat
  BY <1>1 DEF EncoderTypeOK
<1> HIDE DEF stop
<1>5. op # "write" => n = 0
  BY <1>1, <1>4
<1>6. PICK front \in Seq(Nat) : front = SubSeq(input, 1, n) /\ Len(front) = n
  <2>1. SubSeq(input, 1, n) \in Seq(Nat) /\ Len(SubSeq(input, 1, n)) = n
    BY <1>1, <1>4, Cut, SMTT(30)
  <2> QED
    BY <2>1
<1>7. block \in Seq(Nat) /\ Len(block) <= BlockSize
  BY <1>4, <1>6 DEF EncoderTypeOK
<1> HIDE DEF input, n
<1>8. n \in 0..Len(todo) /\ front = SubSeq(todo, 1, n) /\ todo' = SubSeq(todo, n + 1, Len(todo))
  <2>1. CASE op = "write"
    BY <2>1, <1>1, <1>2, <1>4, <1>6
  <2>2. CASE op # "write"
    <3>1. n = 0 /\ front = <<>> /\ todo' = todo /\ todo \in Seq(Nat)
      BY <2>2, <1>2, <1>5, <1>6, EmptySeq DEF EncoderTypeOK
    <3>2. SubSeq(todo, 1, 0) = <<>>
      BY <3>1, SubSeqEmpty
    <3>3. SubSeq(todo, 0 + 1, Len(todo)) = todo
      BY <3>1, SubSeqFull
    <3> QED
      BY <3>1, <3>2, <3>3
  <2> QED
    BY <2>1, <2>2
<1>9. Taken(n, block)
  BY <1>5, <1>6, <1>7, <1>8 DEF Taken
<1>10. block \o todo' = Rest /\ todo' \in Seq(Nat)
  <2>1. todo' \in Seq(Nat) /\ front \o todo' = todo
    BY <1>8, Cut DEF EncoderTypeOK
  <2>2. inBuff \in Seq(Units) /\ front \in Seq(Units) /\ todo' \in Seq(Units)
    BY <2>1, NatSeq DEF EncoderTypeOK
  <2>3. (inBuff \o front) \o todo' = inBuff \o (front \o todo')
    <3>1. Assoc(inBuff, front, todo')
      BY <2>2, CatAssoc
    <3> QED
      BY <3>1 DEF Assoc
  <2> QED
    BY <1>6, <2>1, <2>3 DEF Rest
<1>11. Kept(block) \/ Coded(block)
  BY <1>2, <1>3 DEF Kept, Coded
<1> HIDE DEF block
<1>12. n \in Nat
  BY <1>8 DEF EncoderTypeOK
<1> QED
  BY <1>7, <1>9, <1>10, <1>11, <1>12
=============================================================================
