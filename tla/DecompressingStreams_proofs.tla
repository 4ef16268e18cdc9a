---------------------- MODULE DecompressingStreams_proofs ----------------------
(***************************************************************************)
(* Proofs about the decompressing streams, for every compressed stream,    *)
(* every way it arrives, and every size of the buffers: InputStream,       *)
(* BufferDecompressingStream, and ZSTD_decompressStream() inside both.     *)
(***************************************************************************)
EXTENDS InputStream, BufferDecompressingStream, WellFoundedInduction, TLAPS

(***************************************************************************)
(* What the units of a stream decode to: SizeOf, a recursive function, by  *)
(* the least counterexample.                                               *)
(***************************************************************************)
\* A set of numbers has a least one.
LEMMA Least ==
    ASSUME NEW T, T \subseteq Nat, T # {}
    PROVE  \E x \in T : \A y \in T : x <= y
<1> DEFINE R == OpToRel(<, Nat)
<1>1. IsWellFoundedOn(R, Nat)
  BY NatLessThanWellFounded
<1>2. \A x, y \in Nat : x < y => <<x, y>> \in R
  BY DEF OpToRel
<1> HIDE DEF R
<1>3. \E x \in T : \A y \in T : ~ (<<y, x>> \in R)
  BY <1>1, WFMin
<1>4. PICK x \in T : \A y \in T : ~ (<<y, x>> \in R)
  BY <1>3
<1>5. \A y \in T : ~ (y < x)
  BY <1>2, <1>4
<1> QED
  BY <1>5

LEMMA NatInd ==
    ASSUME NEW S, 0 \in S, \A n \in Nat : n \in S => n + 1 \in S
    PROVE  Nat \subseteq S
<1> SUFFICES ASSUME Nat \ S # {} PROVE FALSE
  OBVIOUS
<1>1. PICK x \in Nat \ S : \A y \in Nat \ S : x <= y
  BY Least
<1>2. x # 0 /\ x - 1 \in Nat
  BY <1>1
<1>3. x - 1 \in S
  BY <1>1, <1>2
<1> QED
  BY <1>1, <1>2, <1>3

\* f sums up the sizes of the first n units.
Sums(f, s, n) == f = [i \in 0..n |-> IF i = 0 THEN 0 ELSE f[i - 1] + s[i].size]

Sized(s, n) == \A i \in 1..n : s[i].size \in Nat

LEMMA SumsType ==
    ASSUME NEW s, NEW n \in Nat, Sized(s, n), NEW f, Sums(f, s, n)
    PROVE  /\ f[0] = 0
           /\ \A i \in 1..n : f[i] = f[i - 1] + s[i].size
           /\ \A i \in 0..n : f[i] \in Nat
           /\ f = [i \in 0..n |-> f[i]]
<1>1. f[0] = 0 /\ \A i \in 1..n : f[i] = f[i - 1] + s[i].size
  <2>1. \A i \in 0..n : f[i] = IF i = 0 THEN 0 ELSE f[i - 1] + s[i].size
    BY DEF Sums
  <2>2. 0 \in 0..n /\ \A i \in 1..n : i \in 0..n /\ i # 0
    OBVIOUS
  <2> QED
    BY <2>1, <2>2
<1>2. f = [i \in 0..n |-> f[i]]
  BY DEF Sums
<1> DEFINE S == {i \in Nat : i <= n => f[i] \in Nat}
<1>3. 0 \in S
  BY <1>1
<1>4. ASSUME NEW i \in Nat, i \in S PROVE i + 1 \in S
  <2> SUFFICES ASSUME i + 1 <= n PROVE f[i + 1] \in Nat
    OBVIOUS
  <2>1. i + 1 \in 1..n /\ (i + 1) - 1 = i /\ f[i] \in Nat
    BY <1>4
  <2>2. f[i + 1] = f[i] + s[i + 1].size /\ s[i + 1].size \in Nat
    BY <1>1, <2>1 DEF Sized
  <2> QED
    BY <2>1, <2>2
<1> HIDE DEF S
<1>5. Nat \subseteq S
  BY <1>3, <1>4, NatInd
<1>6. \A i \in 0..n : f[i] \in Nat
  BY <1>5 DEF S
<1> QED
  BY <1>1, <1>2, <1>6

\* There is such a function,
LEMMA SumsExist ==
    ASSUME NEW s, NEW m \in Nat, Sized(s, m)
    PROVE  \E f : Sums(f, s, m)
<1> DEFINE S == {n \in Nat : n <= m => \E f : Sums(f, s, n)}
<1>1. 0 \in S
  <2> DEFINE f == [i \in 0..0 |-> 0]
  <2>1. Sums(f, s, 0)
    BY DEF Sums
  <2> QED
    BY <2>1
<1>2. ASSUME NEW n \in Nat, n \in S PROVE n + 1 \in S
  <2> SUFFICES ASSUME n + 1 <= m PROVE \E g : Sums(g, s, n + 1)
    OBVIOUS
  <2>1. PICK f : Sums(f, s, n)
    BY <1>2
  <2>2. Sized(s, n)
    BY DEF Sized
  <2>3. /\ f[0] = 0
        /\ \A i \in 1..n : f[i] = f[i - 1] + s[i].size
    BY <2>1, <2>2, SumsType
  <2> DEFINE g == [i \in 0..(n + 1) |-> IF i <= n THEN f[i] ELSE f[n] + s[n + 1].size]
  <2>4. \A i \in 0..(n + 1) : g[i] = IF i = 0 THEN 0 ELSE g[i - 1] + s[i].size
    BY <2>3
  <2>5. g = [i \in 0..(n + 1) |-> g[i]]
    OBVIOUS
  <2> HIDE DEF g
  <2>6. Sums(g, s, n + 1)
    BY <2>4, <2>5 DEF Sums
  <2> QED
    BY <2>6
<1> HIDE DEF S
<1>3. Nat \subseteq S
  BY <1>1, <1>2, NatInd
<1> QED
  BY <1>3 DEF S

\* and its values are the only ones.
LEMMA SumsAgree ==
    ASSUME NEW s, NEW n \in Nat, NEW m \in Nat, Sized(s, n), Sized(s, m), NEW f, Sums(f, s, n), NEW g, Sums(g, s, m)
    PROVE  \A i \in 0..n : i <= m => f[i] = g[i]
<1>1. /\ f[0] = 0 /\ \A i \in 1..n : f[i] = f[i - 1] + s[i].size
      /\ g[0] = 0 /\ \A i \in 1..m : g[i] = g[i - 1] + s[i].size
  <2>1. f[0] = 0 /\ \A i \in 1..n : f[i] = f[i - 1] + s[i].size
    BY SumsType
  <2>2. g[0] = 0 /\ \A i \in 1..m : g[i] = g[i - 1] + s[i].size
    BY SumsType
  <2> QED
    BY <2>1, <2>2
<1> DEFINE S == {i \in Nat : i <= n /\ i <= m => f[i] = g[i]}
<1>2. 0 \in S
  BY <1>1
<1>3. ASSUME NEW i \in Nat, i \in S PROVE i + 1 \in S
  <2> SUFFICES ASSUME i + 1 <= n, i + 1 <= m PROVE f[i + 1] = g[i + 1]
    OBVIOUS
  <2>1. i + 1 \in 1..n /\ i + 1 \in 1..m /\ (i + 1) - 1 = i /\ f[i] = g[i]
    BY <1>3
  <2> QED
    BY <1>1, <2>1
<1> HIDE DEF S
<1>4. Nat \subseteq S
  BY <1>2, <1>3, NatInd
<1> QED
  BY <1>4 DEF S

LEMMA SizeOfSums ==
    ASSUME NEW s, NEW n \in Nat, Sized(s, n)
    PROVE  \E f : Sums(f, s, n) /\ SizeOf(s, n) = f[n]
<1> DEFINE F == CHOOSE f : f = [i \in 0..n |-> IF i = 0 THEN 0 ELSE f[i - 1] + s[i].size]
<1>1. Sums(F, s, n)
  BY SumsExist DEF Sums
<1>2. SizeOf(s, n) = F[n]
  BY DEF SizeOf
<1> QED
  BY <1>1, <1>2

\* SizeOf adds up unit by unit.
LEMMA SizeOfStep ==
    ASSUME NEW s, NEW n \in Nat, Sized(s, n + 1)
    PROVE  /\ SizeOf(s, 0) = 0 /\ SizeOf(s, n) \in Nat
           /\ SizeOf(s, n + 1) = SizeOf(s, n) + s[n + 1].size
<1>1. Sized(s, n) /\ Sized(s, 0)
  BY DEF Sized
<1>2. PICK z : Sums(z, s, 0) /\ SizeOf(s, 0) = z[0]
  BY <1>1, SizeOfSums
<1>3. PICK f : Sums(f, s, n) /\ SizeOf(s, n) = f[n]
  BY <1>1, SizeOfSums
<1>4. PICK g : Sums(g, s, n + 1) /\ SizeOf(s, n + 1) = g[n + 1]
  BY SizeOfSums
<1>5. SizeOf(s, 0) = 0
  BY <1>1, <1>2, SumsType
<1>6. SizeOf(s, n) \in Nat
  BY <1>1, <1>3, SumsType
<1>7. f[n] = g[n]
  <2>1. \A i \in 0..n : i <= n + 1 => f[i] = g[i]
    BY <1>1, <1>3, <1>4, SumsAgree
  <2> QED
    BY <2>1
<1>8. g[n + 1] = g[n] + s[n + 1].size
  <2>1. \A i \in 1..(n + 1) : g[i] = g[i - 1] + s[i].size
    BY <1>4, SumsType
  <2>2. n + 1 \in 1..(n + 1) /\ (n + 1) - 1 = n
    OBVIOUS
  <2> QED
    BY <2>1, <2>2
<1> QED
  BY <1>3, <1>4, <1>5, <1>6, <1>7, <1>8

\* The units r that follow the first a of s.
LEMMA SizeOfShift ==
    ASSUME NEW s, NEW r, NEW a \in Nat, NEW k \in Nat, Sized(s, a + k),
           \A i \in 1..k : r[i] = s[a + i]
    PROVE  SizeOf(s, a + k) = SizeOf(s, a) + SizeOf(r, k) /\ SizeOf(r, k) \in Nat
<1> DEFINE S == {n \in Nat : n <= k => SizeOf(s, a + n) = SizeOf(s, a) + SizeOf(r, n) /\ SizeOf(r, n) \in Nat}
<1>1. Sized(r, k)
  BY DEF Sized
<1>2. 0 \in S
  <2>1. Sized(r, 0 + 0) /\ Sized(s, a)
    BY DEF Sized
  <2>2. PICK z : Sums(z, r, 0) /\ SizeOf(r, 0) = z[0]
    BY <2>1, SizeOfSums
  <2>3. SizeOf(r, 0) = 0
    BY <2>1, <2>2, SumsType
  <2>4. PICK f : Sums(f, s, a) /\ SizeOf(s, a) = f[a]
    BY <2>1, SizeOfSums
  <2>5. SizeOf(s, a) \in Nat
    BY <2>1, <2>4, SumsType
  <2> QED
    BY <2>3, <2>5
<1>3. ASSUME NEW n \in Nat, n \in S PROVE n + 1 \in S
  <2> SUFFICES ASSUME n + 1 <= k
               PROVE  SizeOf(s, a + (n + 1)) = SizeOf(s, a) + SizeOf(r, n + 1) /\ SizeOf(r, n + 1) \in Nat
    OBVIOUS
  <2>1. PICK b \in Nat : b = a + n
    OBVIOUS
  <2>2. Sized(s, b + 1) /\ Sized(r, n + 1) /\ Sized(s, a + 1)
    BY <1>1, <2>1 DEF Sized
  <2>3. SizeOf(s, b + 1) = SizeOf(s, b) + s[b + 1].size
    BY <2>2, SizeOfStep
  <2>4. SizeOf(r, n + 1) = SizeOf(r, n) + r[n + 1].size
    BY <2>2, SizeOfStep
  <2>5. SizeOf(s, a) \in Nat
    BY <2>2, SizeOfStep
  <2>6. r[n + 1] = s[b + 1] /\ r[n + 1].size \in Nat
    <3>1. n + 1 \in 1..k /\ a + (n + 1) = b + 1
      BY <2>1
    <3> QED
      BY <1>1, <3>1 DEF Sized
  <2>7. SizeOf(s, b) = SizeOf(s, a) + SizeOf(r, n) /\ SizeOf(r, n) \in Nat
    BY <1>3, <2>1
  <2>8. a + (n + 1) = b + 1
    BY <2>1
  <2> QED
    BY <2>3, <2>4, <2>5, <2>6, <2>7, <2>8
<1> HIDE DEF S
<1>4. Nat \subseteq S
  BY <1>2, <1>3, NatInd
<1> QED
  BY <1>4 DEF S

-----------------------------------------------------------------------------
(***************************************************************************)
(* The decoder.  Held: the byte held back is in src.  at: how many units   *)
(* of the stream it has consumed.                                          *)
(***************************************************************************)
Held == hostage /\ (stage \in {"flush", "read"} \/ (stage = "init" /\ pc \in {"result", "hint"}))
h == IF Held THEN 1 ELSE 0
at == taken - Len(src) + h

\* Java has control.
Outside == pc \notin {"native", "result", "hint", "after", "error"}

NativeTypes ==
    /\ src \in Seq(Units) /\ len \in Nat /\ out \in Nat /\ out <= len /\ size \in 0..1
    /\ stage \in {"init", "loadHeader", "inHeader", "badHeader", "read", "flush"}
    /\ pending \in Nat /\ noProgress \in Nat /\ produced \in Nat
    /\ frameDone \in BOOLEAN /\ hostage \in BOOLEAN /\ moved \in BOOLEAN

\* Where the decoder can be, and what it left behind when it returned.
BufferInv ==
    /\ pending > 0 <=> stage = "flush"
    /\ stage \in {"loadHeader", "inHeader", "badHeader"} => ~frameDone /\ ~hostage
    /\ hostage => frameDone
    /\ Held => src # <<>> /\ src[1] = HostageByte
    /\ frameDone /\ stage = "flush" /\ (Outside \/ pc = "after") => hostage

ReturnInv ==
    /\ pc = "native" => out < len \/ moved
    /\ pc = "native" /\ stage = "read" /\ frameDone => moved
    /\ pc \in {"result", "hint"} => \/ stage = "init" /\ frameDone /\ moved
                                    \/ stage = "read" /\ ~frameDone /\ src = <<>>
                                    \/ stage = "flush" /\ out = len /\ moved
    /\ pc = "after" => \/ stage = "init" /\ size = 0
                       \/ stage \in {"loadHeader", "inHeader"} /\ size = 1 /\ src = <<>>
                       \/ stage = "read" /\ size = 1 /\ src = <<>> /\ ~frameDone
                       \/ stage = "flush" /\ size = 1 /\ out = len
    /\ pc = "error" => stage = "badHeader"
    /\ Outside /\ stage = "read" => ~frameDone

\* A call without progress follows one with progress.
ProgressInv ==
    /\ noProgress <= 1
    /\ pc \in {"native", "result"} /\ stage = "read" /\ src = <<>> /\ ~moved => noProgress = 0
    /\ pc \in {"hint", "after"} /\ stage = "init" => noProgress = 0

DecoderInv == NativeTypes /\ BufferInv /\ ReturnInv /\ ProgressInv

\* The place in a stream of whole frames that the decoder has come to.
PlaceInv ==
    /\ at \in 0..taken
    /\ \A i \in 1..(taken - at) : src[h + i] = input[at + i]
    /\ produced + pending = SizeOf(input, at)
    /\ stage # "badHeader"
    /\ stage \in {"init", "loadHeader"} => at = 0 \/ input[at].last
    /\ stage = "inHeader" => at > 0 /\ input[at].kind = "part"
    /\ stage \in {"read", "flush"} => at > 0 /\ input[at].kind # "part" /\ (frameDone <=> input[at].last)

StreamTypes == input \in Seq(Units) /\ taken \in 0..Len(input)

-----------------------------------------------------------------------------
LEMMA EmptyUnits == <<>> \in Seq(Units) /\ Len(<<>>) = 0
  OBVIOUS

LEMMA TailSeq ==
    ASSUME NEW s \in Seq(Units), s # <<>>
    PROVE  /\ Tail(s) \in Seq(Units) /\ Len(s) \in Nat /\ Len(s) > 0 /\ Len(Tail(s)) = Len(s) - 1
           /\ Head(s) = s[1] /\ s[1] \in Units
           /\ \A i \in 1..(Len(s) - 1) : Tail(s)[i] = s[i + 1]
  OBVIOUS

LEMMA UnitType ==
    ASSUME NEW u \in Units
    PROVE  u.kind \in {"header", "part", "block", "hostage"} /\ u.size \in Nat /\ u.last \in BOOLEAN
  BY DEF Units

\* Joining a unit in front.
Cons(x, s) == <<x>> \o s

LEMMA ConsSeq ==
    ASSUME NEW x \in Units, NEW s \in Seq(Units)
    PROVE  /\ Cons(x, s) \in Seq(Units) /\ Len(Cons(x, s)) = Len(s) + 1 /\ Cons(x, s)[1] = x
           /\ Cons(x, s) # <<>> /\ Len(s) \in Nat
           /\ \A i \in 1..Len(s) : Cons(x, s)[i + 1] = s[i]
  BY DEF Cons

LEMMA HostageUnit == HostageByte \in Units
  BY DEF HostageByte, Unit, Units

\* The units of a well-typed sequence have sizes.
LEMMA SeqSized ==
    ASSUME NEW s \in Seq(Units), NEW n \in 0..Len(s)
    PROVE  Sized(s, n)
<1>1. \A i \in 1..n : s[i] \in Units
  OBVIOUS
<1> QED
  BY <1>1, UnitType DEF Sized

LEMMA SizeOfNat ==
    ASSUME NEW s \in Seq(Units), NEW n \in 0..Len(s)
    PROVE  SizeOf(s, n) \in Nat
<1>1. Sized(s, n) /\ n \in Nat
  BY SeqSized
<1>2. PICK f : Sums(f, s, n) /\ SizeOf(s, n) = f[n]
  BY <1>1, SizeOfSums
<1> QED
  BY <1>1, <1>2, SumsType

LEMMA SizeOfNothing == ASSUME NEW s PROVE SizeOf(s, 0) = 0
<1>1. Sized(s, 0)
  BY DEF Sized
<1>2. PICK z : Sums(z, s, 0) /\ SizeOf(s, 0) = z[0]
  BY <1>1, SizeOfSums
<1> QED
  BY <1>1, <1>2, SumsType

-----------------------------------------------------------------------------
\* One lemma per step of the call.
LEMMA InitKeeps ==
    ASSUME DecoderInv, NativeInit PROVE DecoderInv'
<1> USE DEF DecoderInv, NativeInit, call
<1>1. NativeTypes'
  BY DEF NativeTypes
<1>2. BufferInv'
  BY DEF BufferInv, Held, Outside
<1>3. ReturnInv'
  BY DEF ReturnInv, Outside
<1>4. ProgressInv'
  BY DEF ProgressInv
<1> QED
  BY <1>1, <1>2, <1>3, <1>4

LEMMA HeaderKeeps ==
    ASSUME DecoderInv, NativeHeader PROVE DecoderInv'
<1> USE DEF DecoderInv, NativeHeader, call
<1>1. NativeTypes'
  BY TailSeq DEF NativeTypes
<1>2. BufferInv'
  BY DEF BufferInv, Held, Outside
<1>3. ReturnInv'
  BY DEF ReturnInv, Outside
<1>4. ProgressInv'
  BY DEF ProgressInv
<1> QED
  BY <1>1, <1>2, <1>3, <1>4

LEMMA BadHeaderKeeps ==
    ASSUME DecoderInv, NativeBadHeader PROVE DecoderInv'
<1> USE DEF DecoderInv, NativeBadHeader, NativeGoto
<1>1. NativeTypes'
  BY EmptyUnits DEF NativeTypes
<1>2. BufferInv'
  BY DEF BufferInv, Held, Outside
<1>3. ReturnInv'
  BY DEF ReturnInv, Outside
<1>4. ProgressInv'
  BY DEF ProgressInv
<1> QED
  BY <1>1, <1>2, <1>3, <1>4

LEMMA StillBadKeeps ==
    ASSUME DecoderInv, NativeStillBad PROVE DecoderInv'
<1> USE DEF DecoderInv, NativeStillBad, NativeGoto, native
<1>1. NativeTypes'
  BY DEF NativeTypes
<1>2. BufferInv'
  BY DEF BufferInv, Held, Outside
<1>3. ReturnInv'
  BY DEF ReturnInv, Outside
<1>4. ProgressInv'
  BY DEF ProgressInv
<1> QED
  BY <1>1, <1>2, <1>3, <1>4

LEMMA SinglePassKeeps ==
    ASSUME DecoderInv, NativeSinglePass PROVE DecoderInv'
<1> USE DEF DecoderInv
<1>1. PICK k \in 2..Len(src) :
          /\ SizeOf(src, k) <= len - out
          /\ out' = out + SizeOf(src, k)
          /\ produced' = produced + SizeOf(src, k)
          /\ src' = SubSeq(src, k + 1, Len(src))
  BY DEF NativeSinglePass
<1>2. /\ pc = "native" /\ stage = "loadHeader" /\ stage' = "init" /\ frameDone' = TRUE /\ moved' = TRUE
      /\ pc' = "result" /\ UNCHANGED <<len, size, pending, hostage, noProgress>>
  BY DEF NativeSinglePass
<1>4. SizeOf(src, k) \in Nat
  <2>1. src \in Seq(Units) /\ k \in 0..Len(src)
    BY DEF NativeTypes
  <2> QED
    BY <2>1, SizeOfNat
<1>5. src' \in Seq(Units)
  BY <1>1 DEF NativeTypes
<1>6. NativeTypes'
  BY <1>1, <1>2, <1>4, <1>5 DEF NativeTypes
<1>7. BufferInv'
  BY <1>2 DEF BufferInv, Held, Outside
<1>8. ReturnInv'
  BY <1>2 DEF ReturnInv, Outside
<1>9. ProgressInv'
  BY <1>2 DEF ProgressInv
<1> QED
  BY <1>6, <1>7, <1>8, <1>9

LEMMA NoHeaderKeeps ==
    ASSUME DecoderInv, NativeNoHeader PROVE DecoderInv'
<1> USE DEF DecoderInv, NativeNoHeader, native
<1>1. NativeTypes'
  BY DEF NativeTypes
<1>2. BufferInv'
  BY DEF BufferInv, Held, Outside
<1>3. ReturnInv'
  BY DEF ReturnInv, Outside
<1>4. ProgressInv'
  BY DEF ProgressInv
<1> QED
  BY <1>1, <1>2, <1>3, <1>4

LEMMA BlockKeeps ==
    ASSUME DecoderInv, NativeBlock PROVE DecoderInv'
<1> USE DEF DecoderInv, call
<1>1. /\ Head(src) \in Units /\ src' \in Seq(Units)
  BY TailSeq DEF NativeBlock, NativeTypes
<1>2. Head(src).size \in Nat /\ Head(src).last \in BOOLEAN
  BY <1>1, UnitType
<1>3. NativeTypes'
  BY <1>1, <1>2 DEF NativeTypes, NativeBlock
<1>4. BufferInv'
  BY <1>2 DEF BufferInv, Held, Outside, NativeBlock
<1>5. ReturnInv'
  BY DEF ReturnInv, Outside, NativeBlock
<1>6. ProgressInv'
  BY DEF ProgressInv, NativeBlock
<1> QED
  BY <1>3, <1>4, <1>5, <1>6

LEMMA FlushKeeps ==
    ASSUME DecoderInv, NativeFlush PROVE DecoderInv'
<1> USE DEF DecoderInv
<1> DEFINE m == IF pending <= len - out THEN pending ELSE len - out
<1>m. m \in Nat
  BY DEF NativeTypes
<1>1. PICK n \in Nat : n = m
  BY <1>m
<1>2. /\ pc = "native" /\ stage = "flush"
      /\ out' = out + n /\ produced' = produced + n /\ pending' = pending - n
      /\ moved' = (moved \/ n > 0)
      /\ stage' = IF n = pending THEN "read" ELSE "flush"
      /\ pc' = IF n = pending THEN "native" ELSE "result"
      /\ UNCHANGED <<src, len, size, frameDone, hostage, noProgress>>
  BY <1>1 DEF NativeFlush
<1>3. NativeTypes'
  BY <1>1, <1>2 DEF NativeTypes
<1>4. BufferInv'
  BY <1>1, <1>2 DEF BufferInv, Held, Outside, NativeTypes
<1>5. ReturnInv'
  <2>1. out < len \/ moved
    BY <1>2 DEF ReturnInv
  <2>2. /\ n = pending => n > 0
        /\ n # pending => n = len - out
    BY <1>1, <1>2 DEF BufferInv
  <2>3. CASE n = pending
    <3>1. moved' /\ pc' = "native"
      BY <1>2, <2>2, <2>3
    <3> QED
      BY <3>1 DEF ReturnInv, Outside
  <2>4. CASE n # pending
    <3>1. out + n = len /\ (out < len => n > 0)
      BY <2>2, <2>4 DEF NativeTypes
    <3>2. out' = len' /\ pc' = "result" /\ stage' = "flush"
      BY <1>2, <2>4, <3>1
    <3>3. moved'
      BY <1>2, <2>1, <3>1
    <3> QED
      BY <3>2, <3>3 DEF ReturnInv, Outside
  <2> QED
    BY <2>3, <2>4
<1>6. ProgressInv'
  BY <1>1, <1>2 DEF ProgressInv, BufferInv, NativeTypes
<1> QED
  BY <1>3, <1>4, <1>5, <1>6

LEMMA StopKeeps ==
    ASSUME DecoderInv, NativeStop PROVE DecoderInv'
<1> USE DEF DecoderInv, NativeStop, NativeGoto
<1>1. NativeTypes'
  BY DEF NativeTypes
<1>2. BufferInv'
  BY DEF BufferInv, Held, Outside
<1>3. ReturnInv'
  BY DEF ReturnInv, Outside
<1>4. ProgressInv'
  BY DEF ProgressInv
<1> QED
  BY <1>1, <1>2, <1>3, <1>4

LEMMA NoProgressKeeps ==
    ASSUME DecoderInv, NativeNoProgress PROVE DecoderInv' /\ pc' = "hint"
<1> USE DEF DecoderInv, NativeNoProgress, NativeGoto
<1>1. stage = "read" /\ src = <<>> /\ noProgress = 0 /\ noProgress' = 1
  BY DEF ReturnInv, ProgressInv
<1>2. pc' = "hint"
  BY <1>1, StreamAssumption
<1>3. NativeTypes'
  BY <1>1 DEF NativeTypes
<1>4. BufferInv'
  BY <1>1, <1>2 DEF BufferInv, Held, Outside
<1>5. ReturnInv'
  BY <1>1, <1>2 DEF ReturnInv, Outside
<1>6. ProgressInv'
  BY <1>1, <1>2 DEF ProgressInv
<1> QED
  BY <1>2, <1>3, <1>4, <1>5, <1>6

LEMMA ProgressKeeps ==
    ASSUME DecoderInv, NativeProgress PROVE DecoderInv'
<1> USE DEF DecoderInv, NativeProgress, NativeGoto
<1>1. NativeTypes'
  BY DEF NativeTypes
<1>2. BufferInv'
  BY DEF BufferInv, Held, Outside
<1>3. ReturnInv'
  BY DEF ReturnInv, Outside
<1>4. ProgressInv'
  BY DEF ProgressInv
<1> QED
  BY <1>1, <1>2, <1>3, <1>4

LEMMA ResultKeeps ==
    ASSUME DecoderInv, NativeResult PROVE DecoderInv'
<1> USE DEF DecoderInv
<1>1. CASE frameDone /\ pending = 0
  <2>1. stage = "init" /\ (hostage => Held /\ src # <<>>)
    BY <1>1 DEF NativeResult, BufferInv, ReturnInv, Held
  <2>2. /\ pc = "hint" /\ pc' = "after" /\ size' = 0 /\ stage' = "init" /\ hostage' = hostage
        /\ src' = IF hostage THEN Tail(src) ELSE src
        /\ UNCHANGED <<len, out, pending, frameDone, noProgress, moved, produced>>
    BY <1>1, <2>1 DEF NativeResult, NativeTypes
  <2>3. NativeTypes'
    BY <2>1, <2>2, TailSeq DEF NativeTypes
  <2>4. BufferInv'
    BY <1>1, <2>1, <2>2 DEF BufferInv, Held, Outside
  <2>5. ReturnInv'
    BY <2>2 DEF ReturnInv, Outside
  <2>6. ProgressInv'
    BY <2>1, <2>2 DEF ProgressInv
  <2> QED
    BY <2>3, <2>4, <2>5, <2>6
<1>2. CASE ~(frameDone /\ pending = 0)
  <2>1. /\ pc = "hint" /\ pc' = "after" /\ size' = 1 /\ stage' = stage
        /\ hostage' = (hostage \/ frameDone)
        /\ src' = IF frameDone /\ ~hostage THEN Cons(HostageByte, src) ELSE src
        /\ UNCHANGED <<len, out, pending, frameDone, noProgress, moved, produced>>
    BY <1>2 DEF NativeResult, NativeTypes, Cons
  <2>2. (stage = "read" /\ ~frameDone /\ src = <<>>) \/ (stage = "flush" /\ out = len)
    BY <1>2, <2>1 DEF BufferInv, ReturnInv, NativeTypes
  <2>3. NativeTypes'
    BY <2>1, ConsSeq, HostageUnit DEF NativeTypes
  <2>4. BufferInv'
    BY <1>2, <2>1, <2>2, ConsSeq, HostageUnit DEF BufferInv, Held, Outside, NativeTypes
  <2>5. ReturnInv'
    BY <2>1, <2>2 DEF ReturnInv, BufferInv, Outside
  <2>6. ProgressInv'
    BY <2>1, <2>2 DEF ProgressInv
  <2> QED
    BY <2>3, <2>4, <2>5, <2>6
<1> QED
  BY <1>1, <1>2

-----------------------------------------------------------------------------
Placed == DecoderInv /\ StreamTypes /\ PlaceInv /\ WholeFrames(input) /\ input' = input /\ taken' = taken

\* A step that consumes nothing keeps the place.
LEMMA SamePlace ==
    ASSUME Placed, src' = src, Held' <=> Held
    PROVE  at' = at /\ at' \in 0..taken' /\ \A i \in 1..(taken' - at') : src'[h' + i] = input'[at' + i]
<1>1. h' = h /\ at' = at
  BY DEF Placed, h, at
<1> QED
  BY <1>1 DEF Placed, PlaceInv

\* A step that consumes the next unit, while no byte is held back.
LEMMA NextPlace ==
    ASSUME Placed, src # <<>>, src' = Tail(src), ~Held, ~Held'
    PROVE  /\ at \in 0..(Len(input) - 1) /\ at' = at + 1 /\ at' \in 0..taken'
           /\ \A i \in 1..(taken' - at') : src'[h' + i] = input'[at' + i]
           /\ Head(src) = input[at + 1] /\ input[at + 1] \in Units
           /\ SizeOf(input, at + 1) = SizeOf(input, at) + Head(src).size
           /\ SizeOf(input, at) \in Nat /\ Head(src).size \in Nat
<1>1. /\ src \in Seq(Units) /\ input \in Seq(Units) /\ taken \in Nat /\ taken <= Len(input) /\ Len(input) \in Nat
      /\ at \in Nat /\ at <= taken /\ \A i \in 1..(taken - at) : src[h + i] = input[at + i]
  BY DEF Placed, DecoderInv, NativeTypes, StreamTypes, PlaceInv
<1>2. /\ Len(src) \in Nat /\ Len(src) > 0 /\ Len(src') = Len(src) - 1 /\ Head(src) = src[1] /\ src[1] \in Units
      /\ \A i \in 1..(Len(src) - 1) : src'[i] = src[i + 1]
  BY <1>1, TailSeq
<1>3. h = 0 /\ h' = 0
  BY DEF h
<1>4. Len(src) = taken - at /\ at' = at + 1
  BY <1>1, <1>2, <1>3 DEF at, Placed
<1>5. at + 1 <= taken /\ at + 1 \in 1..Len(input) /\ 1 \in 1..(taken - at)
  BY <1>1, <1>2, <1>4
<1>6. Head(src) = input[at + 1] /\ input[at + 1] \in Units
  BY <1>1, <1>2, <1>3, <1>5
<1>7. ASSUME NEW i \in 1..(taken' - at') PROVE src'[h' + i] = input'[at' + i]
  <2>1. i \in 1..(Len(src) - 1) /\ i + 1 \in 1..(taken - at) /\ h' + i = i /\ h + (i + 1) = i + 1 /\ at + (i + 1) = at' + i
    BY <1>1, <1>3, <1>4, <1>7 DEF Placed
  <2> QED
    BY <1>1, <1>2, <2>1 DEF Placed
<1>8. Sized(input, at + 1)
  BY <1>1, <1>5, SeqSized
<1>9. SizeOf(input, at + 1) = SizeOf(input, at) + input[at + 1].size /\ SizeOf(input, at) \in Nat
  BY <1>1, <1>8, SizeOfStep
<1>10. Head(src).size \in Nat
  BY <1>6, UnitType
<1>11. at \in 0..(Len(input) - 1) /\ at' \in 0..taken'
  BY <1>1, <1>4, <1>5 DEF Placed
<1> QED
  BY <1>4, <1>6, <1>7, <1>9, <1>10, <1>11

\* What may stand behind the first n units of a stream of whole frames.
LEMMA NextUnit ==
    ASSUME WholeFrames(input), input \in Seq(Units), NEW n \in 0..(Len(input) - 1)
    PROVE  /\ n = 0 \/ input[n].last \/ input[n].kind = "part" => input[n + 1].kind \in {"header", "part"}
           /\ n > 0 /\ ~input[n].last /\ input[n].kind # "part" => input[n + 1].kind = "block"
           /\ input[n + 1].kind # "block" => input[n + 1].size = 0 /\ ~input[n + 1].last
<1>1. n + 1 \in 1..Len(input) /\ (n + 1) - 1 = n /\ (n + 1 = 1 <=> n = 0)
  OBVIOUS
<1> QED
  BY <1>1 DEF WholeFrames

LEMMA InitPlace ==
    ASSUME Placed, NativeInit PROVE PlaceInv'
<1>1. src' = src /\ ~Held /\ ~Held'
  BY DEF NativeInit, Held
<1>2. at' = at /\ at' \in 0..taken' /\ \A i \in 1..(taken' - at') : src'[h' + i] = input'[at' + i]
  BY <1>1, SamePlace
<1>3. pending = 0
  BY DEF NativeInit, Placed, DecoderInv, BufferInv, NativeTypes
<1> QED
  BY <1>2, <1>3 DEF NativeInit, Placed, PlaceInv

LEMMA HeaderPlace ==
    ASSUME Placed, NativeHeader PROVE PlaceInv'
<1>1. ~Held /\ ~Held' /\ pending = 0
  BY DEF NativeHeader, Held, Placed, DecoderInv, BufferInv, NativeTypes
<1>2. /\ at \in 0..(Len(input) - 1) /\ at' = at + 1 /\ at' \in 0..taken'
      /\ \A i \in 1..(taken' - at') : src'[h' + i] = input'[at' + i]
      /\ Head(src) = input[at + 1]
      /\ SizeOf(input, at + 1) = SizeOf(input, at) + Head(src).size
      /\ SizeOf(input, at) \in Nat
  BY <1>1, NextPlace DEF NativeHeader
<1>3. Head(src).size = 0 /\ ~Head(src).last
  BY <1>2, NextUnit DEF NativeHeader, Placed, StreamTypes
<1>4. ~frameDone /\ frameDone' = frameDone /\ produced' = produced /\ pending' = pending
  BY DEF NativeHeader, Placed, DecoderInv, BufferInv
<1>5. stage' = IF Head(src).kind = "header" THEN "read" ELSE "inHeader"
  BY DEF NativeHeader
<1>6. Head(src).kind \in {"header", "part"} /\ input' = input
  BY DEF NativeHeader, Placed
<1>7. produced' + pending' = SizeOf(input', at')
  BY <1>1, <1>2, <1>3, <1>4 DEF Placed, PlaceInv
<1> QED
  BY <1>2, <1>3, <1>4, <1>5, <1>6, <1>7 DEF PlaceInv

\* No frame of such a stream begins with anything else than a header.
LEMMA BadHeaderPlace == ASSUME Placed, NativeBadHeader PROVE FALSE
<1>1. /\ src \in Seq(Units) /\ src # <<>> /\ Head(src).kind \notin {"header", "part"} /\ ~Held
      /\ stage \in {"loadHeader", "inHeader"} /\ input \in Seq(Units) /\ taken \in Nat /\ taken <= Len(input)
      /\ at \in Nat /\ \A i \in 1..(taken - at) : src[h + i] = input[at + i]
  BY DEF NativeBadHeader, Placed, DecoderInv, NativeTypes, StreamTypes, PlaceInv, Held
<1>2. Len(src) \in Nat /\ Len(src) > 0 /\ Head(src) = src[1]
  BY <1>1, TailSeq
<1>3. h = 0 /\ Len(src) = taken - at
  BY <1>1, <1>2 DEF h, at
<1>4. at \in 0..(Len(input) - 1) /\ 1 \in 1..(taken - at) /\ h + 1 = 1
  BY <1>1, <1>2, <1>3
<1>5. Head(src) = input[at + 1]
  BY <1>1, <1>2, <1>4
<1>6. at = 0 \/ input[at].last \/ input[at].kind = "part"
  BY <1>1 DEF Placed, PlaceInv
<1> QED
  BY <1>1, <1>4, <1>5, <1>6, NextUnit DEF Placed

LEMMA StillBadPlace == ASSUME Placed, NativeStillBad PROVE FALSE
  BY DEF Placed, PlaceInv, NativeStillBad

LEMMA SinglePassPlace ==
    ASSUME Placed, NativeSinglePass PROVE PlaceInv'
<1>1. PICK k \in 2..Len(src) :
          /\ src[k].last
          /\ produced' = produced + SizeOf(src, k)
          /\ src' = SubSeq(src, k + 1, Len(src))
  BY DEF NativeSinglePass
<1>2. /\ stage = "loadHeader" /\ stage' = "init" /\ pc' = "result" /\ UNCHANGED <<pending, hostage>>
      /\ ~hostage /\ ~Held /\ ~Held' /\ pending = 0 /\ h = 0 /\ h' = 0
  BY DEF NativeSinglePass, Held, h, Placed, DecoderInv, BufferInv, NativeTypes
<1>3. /\ src \in Seq(Units) /\ input \in Seq(Units) /\ taken \in Nat /\ taken <= Len(input) /\ Len(input) \in Nat
      /\ Len(src) \in Nat
      /\ at \in Nat /\ at <= taken /\ \A i \in 1..(taken - at) : src[h + i] = input[at + i]
  BY DEF Placed, DecoderInv, NativeTypes, StreamTypes, PlaceInv
<1>4. Len(src) = taken - at
  BY <1>2, <1>3 DEF at
<1>5. /\ Len(src') = Len(src) - k
      /\ \A i \in 1..(Len(src) - k) : src'[i] = src[k + i]
  BY <1>1, <1>3
<1>6. at' = at + k /\ at' \in 0..taken' /\ k \in Nat /\ at + k <= Len(input)
  <2>1. at' = taken - (Len(src) - k) + 0 /\ taken' = taken
    BY <1>2, <1>5 DEF at, Placed
  <2> QED
    BY <1>1, <1>3, <1>4, <2>1
<1>7. ASSUME NEW i \in 1..(taken' - at') PROVE src'[h' + i] = input'[at' + i]
  <2>1. i \in 1..(Len(src) - k) /\ k + i \in 1..(taken - at) /\ h' + i = i /\ h + (k + i) = k + i /\ at + (k + i) = at' + i
    BY <1>1, <1>2, <1>3, <1>4, <1>6, <1>7 DEF Placed
  <2> QED
    BY <1>3, <1>5, <2>1 DEF Placed
<1>8. \A i \in 1..k : src[i] = input[at + i]
  <2> SUFFICES ASSUME NEW i \in 1..k PROVE src[i] = input[at + i]
    OBVIOUS
  <2>1. i \in 1..(taken - at) /\ h + i = i
    BY <1>1, <1>2, <1>3, <1>4
  <2> QED
    BY <1>3, <2>1
<1>9. Sized(input, at + k)
  BY <1>3, <1>6, SeqSized
<1>10. SizeOf(input, at + k) = SizeOf(input, at) + SizeOf(src, k) /\ SizeOf(src, k) \in Nat
  BY <1>3, <1>6, <1>8, <1>9, SizeOfShift
<1>11. input[at + k].last
  BY <1>1, <1>8
<1>12. produced' + pending' = SizeOf(input', at')
  BY <1>1, <1>2, <1>6, <1>10 DEF Placed, PlaceInv, DecoderInv, NativeTypes
<1> QED
  BY <1>2, <1>6, <1>7, <1>11, <1>12 DEF PlaceInv, Placed

LEMMA NoHeaderPlace ==
    ASSUME Placed, NativeNoHeader PROVE PlaceInv'
<1>1. src' = src /\ ~Held /\ ~Held'
  BY DEF NativeNoHeader, Held, native
<1>2. at' = at /\ at' \in 0..taken' /\ \A i \in 1..(taken' - at') : src'[h' + i] = input'[at' + i]
  BY <1>1, SamePlace
<1> QED
  BY <1>2 DEF NativeNoHeader, Placed, PlaceInv, native

LEMMA BlockPlace ==
    ASSUME Placed, NativeBlock PROVE PlaceInv'
<1>1. ~hostage /\ ~Held /\ ~Held' /\ pending = 0
  BY DEF NativeBlock, Held, Placed, DecoderInv, BufferInv, NativeTypes
<1>2. /\ at \in 0..(Len(input) - 1) /\ at' = at + 1 /\ at' \in 0..taken'
      /\ \A i \in 1..(taken' - at') : src'[h' + i] = input'[at' + i]
      /\ Head(src) = input[at + 1] /\ input[at + 1] \in Units
      /\ SizeOf(input, at + 1) = SizeOf(input, at) + Head(src).size
      /\ SizeOf(input, at) \in Nat /\ Head(src).size \in Nat
  BY <1>1, NextPlace DEF NativeBlock
<1>3. at > 0 /\ ~input[at].last /\ input[at].kind # "part"
  BY DEF NativeBlock, Placed, PlaceInv
<1>4. Head(src).kind = "block"
  BY <1>2, <1>3, NextUnit DEF Placed, StreamTypes
<1>5. produced' = produced /\ pending' = Head(src).size /\ frameDone' = Head(src).last
  BY DEF NativeBlock
<1>6. stage' \in {"read", "flush"} /\ input' = input
  BY DEF NativeBlock, Placed
<1>7. produced' + pending' = SizeOf(input', at')
  BY <1>1, <1>2, <1>5, <1>6 DEF Placed, PlaceInv, DecoderInv, NativeTypes
<1>8. at' > 0 /\ input'[at'] = Head(src)
  BY <1>2, <1>6
<1> QED
  BY <1>2, <1>4, <1>5, <1>6, <1>7, <1>8 DEF PlaceInv

LEMMA FlushPlace ==
    ASSUME Placed, NativeFlush PROVE PlaceInv'
<1>1. src' = src /\ stage = "flush" /\ stage' \in {"read", "flush"} /\ hostage' = hostage /\ frameDone' = frameDone
  BY DEF NativeFlush
<1>2. Held' <=> Held
  BY <1>1 DEF Held
<1>3. at' = at /\ at' \in 0..taken' /\ \A i \in 1..(taken' - at') : src'[h' + i] = input'[at' + i]
  BY <1>1, <1>2, SamePlace
<1>4. produced' + pending' = produced + pending
  <2> DEFINE m == IF pending <= len - out THEN pending ELSE len - out
  <2>1. m \in Int
    BY DEF Placed, DecoderInv, NativeTypes
  <2>2. produced' = produced + m /\ pending' = pending - m
    BY DEF NativeFlush
  <2> HIDE DEF m
  <2> QED
    BY <2>1, <2>2 DEF Placed, DecoderInv, NativeTypes
<1> QED
  BY <1>1, <1>3, <1>4 DEF Placed, PlaceInv

LEMMA StopPlace ==
    ASSUME Placed, NativeStop PROVE PlaceInv'
<1>1. /\ src' = src /\ stage = "read" /\ stage' = (IF frameDone THEN "init" ELSE "read") /\ pc' = "result"
      /\ UNCHANGED <<hostage, frameDone, pending, produced>>
  BY DEF NativeStop, NativeGoto
<1>2. Held' <=> Held
  BY <1>1 DEF Held
<1>3. at' = at /\ at' \in 0..taken' /\ \A i \in 1..(taken' - at') : src'[h' + i] = input'[at' + i]
  BY <1>1, <1>2, SamePlace
<1> QED
  BY <1>1, <1>3 DEF Placed, PlaceInv

LEMMA ProgressPlace ==
    ASSUME Placed, NativeProgress \/ NativeNoProgress PROVE PlaceInv'
<1>1. /\ src' = src /\ pc = "result" /\ pc' = "hint"
      /\ UNCHANGED <<stage, hostage, frameDone, pending, produced>>
  BY NoProgressKeeps DEF NativeProgress, NativeNoProgress, NativeGoto, Placed
<1>2. Held' <=> Held
  BY <1>1 DEF Held
<1>3. at' = at /\ at' \in 0..taken' /\ \A i \in 1..(taken' - at') : src'[h' + i] = input'[at' + i]
  BY <1>1, <1>2, SamePlace
<1> QED
  BY <1>1, <1>3 DEF Placed, PlaceInv

LEMMA ResultPlace ==
    ASSUME Placed, NativeResult PROVE PlaceInv'
<1>1. /\ src \in Seq(Units) /\ input \in Seq(Units) /\ taken \in Nat /\ taken <= Len(input) /\ Len(input) \in Nat
      /\ Len(src) \in Nat /\ pc = "hint" /\ pc' = "after" /\ input' = input /\ taken' = taken
      /\ at \in Nat /\ at <= taken /\ \A i \in 1..(taken - at) : src[h + i] = input[at + i]
  <2>1. pc = "hint" /\ pc' = "after"
    BY DEF NativeResult
  <2> QED
    BY <2>1 DEF Placed, DecoderInv, NativeTypes, StreamTypes, PlaceInv
<1>2. CASE frameDone /\ pending = 0
  <2>1. stage = "init" /\ (hostage => Held /\ src # <<>>)
    BY <1>2 DEF NativeResult, Placed, DecoderInv, BufferInv, ReturnInv, Held
  <2>2. /\ stage' = "init" /\ hostage' = hostage
        /\ src' = IF hostage THEN Tail(src) ELSE src
        /\ UNCHANGED <<pending, frameDone, produced>>
    BY <1>2, <2>1 DEF NativeResult, Placed, DecoderInv, NativeTypes
  <2>3. h' = 0
    BY <1>1, <2>2 DEF h, Held
  <2>4. at' = at /\ \A i \in 1..(taken - at) : src'[h' + i] = input[at + i]
    <3>1. CASE hostage
      <4>1. /\ Len(src) > 0 /\ Len(src') = Len(src) - 1 /\ h = 1
            /\ \A i \in 1..(Len(src) - 1) : src'[i] = src[i + 1]
        BY <1>1, <2>1, <2>2, <3>1, TailSeq DEF h
      <4>2. at' = at /\ taken - at = Len(src) - 1
        BY <1>1, <2>3, <4>1 DEF at
      <4>3. ASSUME NEW i \in 1..(taken - at) PROVE src'[h' + i] = input[at + i]
        <5>1. i \in 1..(Len(src) - 1) /\ h' + i = i /\ h + i = i + 1
          BY <1>1, <2>3, <4>1, <4>2
        <5> QED
          BY <1>1, <4>1, <5>1
      <4> QED
        BY <4>2, <4>3
    <3>2. CASE ~hostage
      <4>1. h = 0 /\ src' = src
        BY <2>2, <3>2 DEF h, Held
      <4> QED
        BY <1>1, <2>3, <4>1 DEF at
    <3> QED
      BY <3>1, <3>2
  <2> QED
    BY <1>1, <2>1, <2>2, <2>4 DEF Placed, PlaceInv
<1>3. CASE ~(frameDone /\ pending = 0)
  <2>1. /\ stage' = stage /\ hostage' = (hostage \/ frameDone)
        /\ src' = IF frameDone /\ ~hostage THEN Cons(HostageByte, src) ELSE src
        /\ UNCHANGED <<pending, frameDone, produced>>
    BY <1>3 DEF NativeResult, Placed, DecoderInv, NativeTypes, Cons
  <2>2. (stage = "read" /\ ~frameDone /\ ~hostage) \/ stage = "flush"
    BY <1>1, <1>3 DEF Placed, DecoderInv, BufferInv, ReturnInv, NativeTypes
  <2>3. at' = at /\ \A i \in 1..(taken - at) : src'[h' + i] = input[at + i]
    <3>1. CASE frameDone /\ ~hostage
      <4>4. src' = Cons(HostageByte, src) /\ stage' = "flush" /\ hostage' /\ ~hostage
        BY <2>1, <2>2, <3>1
      <4>5. h = 0 /\ h' = 1
        BY <4>4 DEF h, Held
      <4>1. /\ Len(src') = Len(src) + 1 /\ h = 0 /\ h' = 1
            /\ \A i \in 1..Len(src) : src'[i + 1] = src[i]
        <5>1. /\ Len(Cons(HostageByte, src)) = Len(src) + 1
              /\ \A i \in 1..Len(src) : Cons(HostageByte, src)[i + 1] = src[i]
          BY <1>1, ConsSeq, HostageUnit
        <5> QED
          BY <4>4, <4>5, <5>1
      <4>2. at' = at /\ taken - at = Len(src)
        BY <1>1, <4>1 DEF at
      <4>3. ASSUME NEW i \in 1..(taken - at) PROVE src'[h' + i] = input[at + i]
        <5>1. i \in 1..Len(src) /\ h' + i = i + 1 /\ h + i = i
          BY <1>1, <4>1, <4>2
        <5> QED
          BY <1>1, <4>1, <5>1
      <4> QED
        BY <4>2, <4>3
    <3>2. CASE ~(frameDone /\ ~hostage)
      <4>1. src' = src /\ hostage' = hostage
        BY <2>1, <3>2 DEF Placed, DecoderInv, NativeTypes, BufferInv
      <4>2. h' = h
        BY <1>1, <2>1, <2>2, <4>1 DEF h, Held
      <4> QED
        BY <1>1, <4>1, <4>2 DEF at
    <3> QED
      BY <3>1, <3>2
  <2> QED
    BY <1>1, <2>1, <2>3 DEF Placed, PlaceInv
<1> QED
  BY <1>2, <1>3

-----------------------------------------------------------------------------
(***************************************************************************)
(* InputStream                                                             *)
(***************************************************************************)
TypeInv ==
    /\ input \in Inputs /\ input \in Seq(Units) /\ Len(input) \in Nat
    /\ written \in Nat /\ written <= Len(input) /\ taken \in Nat /\ taken <= written
    /\ needRead \in BOOLEAN /\ frameFinished \in BOOLEAN /\ isClosed \in BOOLEAN /\ isContinuous \in BOOLEAN
    /\ pc \in {"idle", "loop", "fill", "native", "result", "hint", "after", "error"}
    /\ last \in Int /\ -1 <= last /\ last <= MaxLen /\ len <= MaxLen
    /\ delivered \in Nat /\ outcome \in Outcomes

\* Where read() can be, and what is in src then.
CallInv ==
    /\ pc = "idle" => out = 0 /\ len = 0
    /\ pc # "idle" => len > 0 /\ outcome = "none"
    /\ pc = "fill" => needRead /\ out < len /\ (out > 0 => taken < written \/ ~isContinuous)
    /\ ~Outside => 0 <= last /\ last < len
    /\ ~isContinuous => written = Len(input)
    /\ outcome = "end" => needRead /\ (stage = "badHeader" \/ src = <<>>)

\* Between frames a call has put nothing into dst, and src is empty when it is filled.
FrameInv ==
    /\ stage \in {"loadHeader", "inHeader", "badHeader"} => out = 0
    /\ pc \in {"loop", "fill", "native"} /\ stage = "init" => out = 0
    /\ stage = "loadHeader" => pc = "native"
    /\ pc = "native" /\ stage \in {"init", "loadHeader"} => src # <<>>
    /\ Outside /\ needRead /\ stage # "badHeader" => src = <<>> /\ stage # "flush"
    /\ Outside /\ ~needRead /\ stage # "badHeader" =>
          /\ stage = "init" => src # <<>>
          /\ stage # "inHeader"

\* The decoder is called without input only after a call that made progress.
RetryInv ==
    /\ Outside /\ ~needRead /\ stage # "badHeader" => noProgress = 0
    /\ pc \in {"loop", "fill"} /\ 0 < out /\ last < out => noProgress = 0
    /\ pc \in {"native", "result"} /\ last < out => moved
    /\ pc \in {"hint", "after"} /\ last < out => noProgress = 0

CountInv == Complete \/ isContinuous => delivered + out = produced

CompleteInv ==
    Complete =>
        /\ PlaceInv
        /\ Outside /\ stage = "init" => frameFinished
        /\ outcome \notin {"truncated", "error"}

JavaInv == TypeInv /\ CallInv /\ FrameInv /\ RetryInv

IndInv == DecoderInv /\ JavaInv /\ CountInv /\ CompleteInv

-----------------------------------------------------------------------------
LEMMA Constants ==
    /\ MaxChunk \in Nat /\ MaxChunk > 0 /\ MaxLen \in Nat /\ MaxLen > 0
    /\ NO_FORWARD_PROGRESS_MAX \in Nat /\ NO_FORWARD_PROGRESS_MAX > 1
    /\ \A s \in Inputs : s \in Seq(Units)
  BY StreamAssumption

LEMMA PlaceTypes == ASSUME IndInv PROVE StreamTypes
  BY DEF IndInv, JavaInv, TypeInv, StreamTypes

LEMMA InitInd == Init => IndInv
<1> SUFFICES ASSUME Init PROVE IndInv
  OBVIOUS
<1>1. DecoderInv
  <2>1. NativeTypes
    <3>1. src \in Seq(Units) /\ len \in Nat /\ out \in Nat /\ out <= len /\ size \in 0..1
      BY EmptyUnits DEF Init
    <3>2. pending \in Nat /\ noProgress \in Nat /\ produced \in Nat
      BY DEF Init, NativeStart
    <3>3. /\ stage \in {"init", "loadHeader", "inHeader", "badHeader", "read", "flush"}
          /\ frameDone \in BOOLEAN /\ hostage \in BOOLEAN /\ moved \in BOOLEAN
      BY DEF Init, NativeStart
    <3> QED
      BY <3>1, <3>2, <3>3 DEF NativeTypes
  <2>2. BufferInv
    BY DEF Init, NativeStart, BufferInv, Held, Outside
  <2>3. ReturnInv
    BY DEF Init, NativeStart, ReturnInv, Outside
  <2>4. ProgressInv
    BY DEF Init, NativeStart, ProgressInv
  <2> QED
    BY <2>1, <2>2, <2>3, <2>4 DEF DecoderInv
<1>2. JavaInv
  <2>1. input \in Seq(Units) /\ Len(input) \in Nat
    BY Constants DEF Init
  <2>2. written \in Nat /\ written <= Len(input) /\ taken \in Nat /\ taken <= written
    BY <2>1 DEF Init
  <2>3. TypeInv
    <3>1. last \in Int /\ -1 <= last /\ last <= MaxLen /\ len <= MaxLen
      BY Constants DEF Init
    <3>2. isContinuous \in BOOLEAN /\ outcome \in Outcomes /\ delivered \in Nat
      BY DEF Init, Outcomes
    <3> QED
      BY <2>1, <2>2, <3>1, <3>2 DEF Init, TypeInv
  <2>4. CallInv /\ FrameInv /\ RetryInv
    BY <2>1 DEF Init, NativeStart, CallInv, FrameInv, RetryInv, Outside
  <2> QED
    BY <2>3, <2>4 DEF JavaInv
<1>3. CountInv
  BY DEF Init, NativeStart, CountInv
<1>4. CompleteInv
  <2>1. at = 0 /\ h = 0
    BY EmptyUnits DEF at, h, Held, Init, NativeStart
  <2>2. SizeOf(input, 0) = 0
    BY SizeOfNothing
  <2> QED
    BY <2>1, <2>2 DEF Init, NativeStart, CompleteInv, PlaceInv
<1> QED
  BY <1>1, <1>2, <1>3, <1>4 DEF IndInv

\* A step of Java that leaves the decoder and src alone keeps the place.
LEMMA JavaPlace ==
    ASSUME IndInv, UNCHANGED <<src, input, taken, stage, pending, frameDone, hostage, produced>>,
           pc \notin {"result", "hint"}, pc' \notin {"result", "hint"}
    PROVE  Complete => PlaceInv'
<1>1. Held' <=> Held
  BY DEF Held
<1>2. h' = h /\ at' = at
  BY <1>1 DEF h, at
<1> QED
  BY <1>2 DEF IndInv, CompleteInv, PlaceInv

-----------------------------------------------------------------------------
LEMMA AppendUnitKeeps == ASSUME IndInv, AppendUnit PROVE IndInv'
<1> USE DEF AppendUnit, flags, call, native, app
<1>1. DecoderInv'
  BY DEF IndInv, DecoderInv, NativeTypes, BufferInv, ReturnInv, ProgressInv, Held, Outside
<1>2. TypeInv'
  BY DEF IndInv, JavaInv, TypeInv
<1>3. CallInv'
  BY DEF IndInv, JavaInv, TypeInv, CallInv, Outside
<1>4. FrameInv' /\ RetryInv'
  BY DEF IndInv, JavaInv, FrameInv, RetryInv, Outside
<1>5. CountInv'
  BY DEF IndInv, CountInv, Complete
<1>6. CompleteInv'
  <2>1. Held' <=> Held
    BY DEF Held
  <2>2. h' = h /\ at' = at
    BY <2>1 DEF h, at
  <2> QED
    BY <2>2 DEF IndInv, CompleteInv, PlaceInv, Complete, Outside
<1> QED
  BY <1>1, <1>2, <1>3, <1>4, <1>5, <1>6 DEF IndInv, JavaInv

LEMMA CloseKeeps == ASSUME IndInv, Close PROVE IndInv'
<1> USE DEF Close, up, call, native, app
<1>1. DecoderInv'
  BY DEF IndInv, DecoderInv, NativeTypes, BufferInv, ReturnInv, ProgressInv, Held, Outside
<1>2. TypeInv'
  BY DEF IndInv, JavaInv, TypeInv
<1>3. CallInv' /\ FrameInv' /\ RetryInv'
  BY DEF IndInv, JavaInv, CallInv, FrameInv, RetryInv, Outside
<1>4. CountInv'
  BY DEF IndInv, CountInv, Complete
<1>5. CompleteInv'
  BY JavaPlace DEF IndInv, CompleteInv, Complete, Outside
<1> QED
  BY <1>1, <1>2, <1>3, <1>4, <1>5 DEF IndInv, JavaInv

LEMMA ReadKeeps == ASSUME IndInv, NEW n \in 1..MaxLen, Read(n) PROVE IndInv'
<1> USE DEF Read, up, flags, native
<1>1. DecoderInv'
  BY Constants DEF IndInv, DecoderInv, NativeTypes, BufferInv, ReturnInv, ProgressInv, Held, Outside
<1>2. TypeInv'
  BY Constants DEF IndInv, JavaInv, TypeInv, Outcomes
<1>3. CallInv' /\ FrameInv' /\ RetryInv'
  BY DEF IndInv, JavaInv, CallInv, FrameInv, RetryInv, Outside
<1>4. CountInv'
  BY DEF IndInv, JavaInv, CallInv, CountInv, Complete
<1>5. CompleteInv'
  BY JavaPlace DEF IndInv, CompleteInv, Complete, Outside
<1> QED
  BY <1>1, <1>2, <1>3, <1>4, <1>5 DEF IndInv, JavaInv

LEMMA LoopReadKeeps == ASSUME IndInv, LoopRead PROVE IndInv'
<1> USE DEF LoopRead, Goto, up, flags, native, app
<1>1. DecoderInv'
  BY DEF IndInv, DecoderInv, NativeTypes, BufferInv, ReturnInv, ProgressInv, Held, Outside
<1>2. TypeInv'
  BY DEF IndInv, JavaInv, TypeInv
<1>3. CallInv' /\ FrameInv' /\ RetryInv'
  BY DEF IndInv, JavaInv, TypeInv, CallInv, FrameInv, RetryInv, Outside, MayBeAvailable
<1>4. CountInv'
  BY DEF IndInv, CountInv, Complete
<1>5. CompleteInv'
  BY JavaPlace DEF IndInv, CompleteInv, Complete, Outside
<1> QED
  BY <1>1, <1>2, <1>3, <1>4, <1>5 DEF IndInv, JavaInv

LEMMA LoopDecodeKeeps == ASSUME IndInv, LoopDecode PROVE IndInv'
<1> USE DEF LoopDecode, NativeCall, up, flags, app
<1>1. DecoderInv'
  <2>1. NativeTypes' /\ BufferInv'
    BY DEF IndInv, DecoderInv, NativeTypes, BufferInv, Held, Outside
  <2>2. ReturnInv'
    BY DEF IndInv, DecoderInv, ReturnInv, Outside
  <2>3. ProgressInv'
    BY DEF IndInv, DecoderInv, NativeTypes, ProgressInv, JavaInv, RetryInv, Outside
  <2> QED
    BY <2>1, <2>2, <2>3 DEF DecoderInv
<1>2. TypeInv'
  <2>1. out \in Nat /\ len \in Nat /\ out < len /\ len <= MaxLen
    BY DEF IndInv, JavaInv, TypeInv, DecoderInv, NativeTypes
  <2>2. out \in Int /\ -1 <= out /\ out <= MaxLen
    BY <2>1, Constants
  <2> QED
    BY <2>2 DEF IndInv, JavaInv, TypeInv
<1>3. CallInv'
  BY DEF IndInv, JavaInv, CallInv, Outside, DecoderInv, NativeTypes
<1>4. FrameInv'
  BY DEF IndInv, JavaInv, FrameInv, Outside, DecoderInv, NativeTypes
<1>5. RetryInv'
  BY DEF IndInv, JavaInv, RetryInv, Outside, DecoderInv, NativeTypes
<1>6. CountInv'
  BY DEF IndInv, CountInv, Complete
<1>7. CompleteInv'
  BY JavaPlace DEF IndInv, CompleteInv, Complete, Outside
<1> QED
  BY <1>1, <1>2, <1>3, <1>4, <1>5, <1>6, <1>7 DEF IndInv, JavaInv

LEMMA LoopExitKeeps == ASSUME IndInv, LoopExit PROVE IndInv'
<1> USE DEF LoopExit, Return, up, flags, native, app
<1>1. DecoderInv'
  BY DEF IndInv, DecoderInv, NativeTypes, BufferInv, ReturnInv, ProgressInv, Held, Outside
<1>2. TypeInv'
  BY Constants DEF IndInv, JavaInv, TypeInv, DecoderInv, NativeTypes, Outcomes
<1>3. CallInv'
  BY DEF IndInv, JavaInv, CallInv, Outside
<1>4. FrameInv' /\ RetryInv'
  BY DEF IndInv, JavaInv, FrameInv, RetryInv, Outside
<1>5. CountInv'
  BY DEF IndInv, CountInv, Complete, DecoderInv, NativeTypes, JavaInv, TypeInv
<1>6. CompleteInv'
  BY JavaPlace DEF IndInv, CompleteInv, Complete, Outside
<1> QED
  BY <1>1, <1>2, <1>3, <1>4, <1>5, <1>6 DEF IndInv, JavaInv

\* When src is filled nothing is held back in it.
LEMMA FillsEmpty ==
    ASSUME IndInv, pc = "fill", stage # "badHeader"
    PROVE  /\ src = <<>> /\ ~Held /\ h = 0 /\ pending = 0 /\ at = taken /\ noProgress \in Nat
           /\ stage \in {"init", "inHeader", "read"}
           /\ stage \in {"init", "inHeader"} => out = 0
           /\ needRead /\ out < len
<1>1. src = <<>> /\ needRead /\ out < len /\ stage # "flush"
  BY DEF IndInv, JavaInv, CallInv, FrameInv, Outside
<1>2. ~Held /\ pending = 0
  BY <1>1 DEF IndInv, DecoderInv, NativeTypes, BufferInv
<1>3. h = 0 /\ at = taken
  BY <1>1, <1>2, EmptyUnits DEF h, at, IndInv, JavaInv, TypeInv
<1>4. stage \in {"init", "inHeader", "read"} /\ (stage \in {"init", "inHeader"} => out = 0)
  BY <1>1 DEF IndInv, JavaInv, FrameInv, DecoderInv, NativeTypes
<1> QED
  BY <1>1, <1>2, <1>3, <1>4 DEF IndInv, DecoderInv, NativeTypes

LEMMA FillZeroKeeps == ASSUME IndInv, FillZero PROVE IndInv'
<1> USE DEF FillZero, Goto, up, native, app
<1>1. DecoderInv'
  <2>1. NativeTypes'
    BY EmptyUnits DEF IndInv, DecoderInv, NativeTypes
  <2>2. BufferInv'
    <3>1. CASE stage = "badHeader"
      BY <3>1 DEF IndInv, DecoderInv, NativeTypes, BufferInv, Held, Outside
    <3>2. CASE stage # "badHeader"
      BY <3>2, FillsEmpty DEF IndInv, DecoderInv, NativeTypes, BufferInv, Held, Outside
    <3> QED
      BY <3>1, <3>2
  <2>3. ReturnInv' /\ ProgressInv'
    BY DEF IndInv, DecoderInv, ReturnInv, ProgressInv, Outside
  <2> QED
    BY <2>1, <2>2, <2>3 DEF DecoderInv
<1>2. TypeInv'
  BY DEF IndInv, JavaInv, TypeInv
<1>3. CallInv' /\ FrameInv'
  BY FillsEmpty DEF IndInv, JavaInv, CallInv, FrameInv, Outside
<1>4. RetryInv'
  BY DEF IndInv, JavaInv, CallInv, RetryInv, Outside
<1>5. CountInv'
  BY DEF IndInv, CountInv, Complete
<1>6. CompleteInv'
  BY JavaPlace, FillsEmpty DEF IndInv, CompleteInv, PlaceInv, Complete, Outside
<1> QED
  BY <1>1, <1>2, <1>3, <1>4, <1>5, <1>6 DEF IndInv, JavaInv

\* What in.read() returns is the next part of the stream.
LEMMA NextPart ==
    ASSUME NEW s \in Seq(Units), NEW a \in Nat, NEW n \in Nat, a + n <= Len(s)
    PROVE  LET t == SubSeq(s, a + 1, a + n)
           IN  t \in Seq(Units) /\ Len(t) = n /\ \A i \in 1..n : t[i] = s[a + i]
  OBVIOUS

LEMMA FillSomeKeeps == ASSUME IndInv, FillSome PROVE IndInv'
<1> USE DEF FillSome, NativeCall
<1>1. PICK n \in 1..MaxChunk :
          taken + n <= written /\ src' = SubSeq(input, taken + 1, taken + n) /\ taken' = taken + n
  OBVIOUS
<1>2. /\ input \in Seq(Units) /\ taken \in Nat /\ written \in Nat /\ Len(input) \in Nat
      /\ written <= Len(input) /\ n \in Nat /\ n > 0 /\ taken + n <= Len(input)
  BY <1>1, Constants DEF IndInv, JavaInv, TypeInv
<1>3. src' \in Seq(Units) /\ Len(src') = n /\ \A i \in 1..n : src'[i] = input[taken + i]
  BY <1>1, <1>2, NextPart
<1>4. src' # <<>>
  BY <1>2, <1>3, EmptyUnits
<1>5. DecoderInv'
  <2>1. NativeTypes'
    BY <1>3 DEF IndInv, DecoderInv, NativeTypes
  <2>2. BufferInv'
    <3>1. CASE stage = "badHeader"
      BY <3>1 DEF IndInv, DecoderInv, NativeTypes, BufferInv, Held, Outside
    <3>2. CASE stage # "badHeader"
      BY <3>2, FillsEmpty DEF IndInv, DecoderInv, NativeTypes, BufferInv, Held, Outside
    <3> QED
      BY <3>1, <3>2
  <2>3. ReturnInv'
    BY DEF IndInv, DecoderInv, ReturnInv, Outside, JavaInv, CallInv
  <2>4. ProgressInv'
    BY <1>4 DEF IndInv, DecoderInv, ProgressInv
  <2> QED
    BY <2>1, <2>2, <2>3, <2>4 DEF DecoderInv
<1>6. TypeInv'
  <2>1. out \in Nat /\ len \in Nat /\ out < len /\ len <= MaxLen
    BY DEF IndInv, JavaInv, TypeInv, CallInv, DecoderInv, NativeTypes
  <2>2. out \in Int /\ -1 <= out /\ out <= MaxLen
    BY <2>1, Constants
  <2>3. taken' \in Nat /\ taken' <= written
    BY <1>1, <1>2
  <2> QED
    BY <2>2, <2>3 DEF IndInv, JavaInv, TypeInv, app
<1>7. CallInv'
  BY DEF IndInv, JavaInv, CallInv, Outside, DecoderInv, NativeTypes, app
<1>8. FrameInv'
  BY <1>4 DEF IndInv, JavaInv, FrameInv, Outside
<1>9. RetryInv'
  BY DEF IndInv, JavaInv, RetryInv, DecoderInv, NativeTypes, Outside
<1>10. CountInv'
  BY DEF IndInv, CountInv, Complete, app
<1>11. CompleteInv'
  <2> SUFFICES ASSUME Complete PROVE CompleteInv'
    BY DEF CompleteInv, Complete
  <2>1. PlaceInv
    BY DEF IndInv, CompleteInv
  <2>2. stage # "badHeader"
    BY <2>1 DEF PlaceInv
  <2>3. src = <<>> /\ h = 0 /\ at = taken /\ stage \in {"init", "inHeader", "read"}
    BY <2>2, FillsEmpty
  <2>4. ~Held'
    BY <2>2, FillsEmpty DEF Held
  <2>5. h' = 0 /\ at' = at
    BY <1>1, <1>2, <1>3, <2>3, <2>4 DEF h, at
  <2>6. at' \in 0..taken' /\ taken' - at' = n /\ at = taken /\ at' = taken
    BY <1>1, <1>2, <2>3, <2>5
  <2>7. \A i \in 1..(taken' - at') : src'[h' + i] = input'[at' + i]
    <3>1. input' = input /\ 1..(taken' - at') = 1..n
      BY <2>6
    <3>2. \A i \in 1..n : h' + i = i
      BY <2>5
    <3> QED
      BY <1>3, <2>6, <3>1, <3>2
  <2>8. PlaceInv'
    BY <2>1, <2>5, <2>6, <2>7 DEF PlaceInv
  <2> QED
    BY <2>8 DEF IndInv, CompleteInv, Outside, app
<1> QED
  BY <1>5, <1>6, <1>7, <1>8, <1>9, <1>10, <1>11 DEF IndInv, JavaInv

\* At the end of a stream of whole frames the decoder is between two frames.
LEMMA EndsBetweenFrames ==
    ASSUME Placed, ~frameDone, at = Len(input)
    PROVE  stage \in {"init", "loadHeader"}
<1>1. input \in Seq(Units) /\ Len(input) \in Nat /\ WholeFrames(input)
  BY DEF Placed, StreamTypes
<1>2. CASE at = 0
  BY <1>2 DEF Placed, PlaceInv, DecoderInv, NativeTypes
<1>3. CASE at # 0
  <2>1. input # <<>> /\ Len(input) \in 1..Len(input)
    BY <1>1, <1>3
  <2>2. input[Len(input)].last /\ (input[Len(input)].kind # "block" => ~input[Len(input)].last)
    BY <1>1, <2>1 DEF WholeFrames
  <2> QED
    BY <2>2 DEF Placed, PlaceInv, DecoderInv, NativeTypes
<1> QED
  BY <1>2, <1>3

\* The end of the upstream, of all there is of a stream of whole frames or of what
\* has been written so far: dst is empty or its bytes are returned.
LEMMA FillEndKeeps == ASSUME IndInv, FillEnd PROVE IndInv'
<1> USE DEF FillEnd, Return, up, native
<1>1. DecoderInv'
  <2>1. NativeTypes'
    BY EmptyUnits DEF IndInv, DecoderInv, NativeTypes
  <2>2. BufferInv'
    <3>1. CASE stage = "badHeader"
      BY <3>1 DEF IndInv, DecoderInv, NativeTypes, BufferInv, Held, Outside
    <3>2. CASE stage # "badHeader"
      BY <3>2, FillsEmpty DEF IndInv, DecoderInv, NativeTypes, BufferInv, Held, Outside
    <3> QED
      BY <3>1, <3>2
  <2>3. ReturnInv' /\ ProgressInv'
    BY DEF IndInv, DecoderInv, ReturnInv, ProgressInv, Outside
  <2> QED
    BY <2>1, <2>2, <2>3 DEF DecoderInv
<1>2. outcome' \in {"end", "bytes", "truncated"}
  OBVIOUS
<1>3. TypeInv'
  <2>1. delivered' \in Nat
    BY DEF IndInv, JavaInv, TypeInv, DecoderInv, NativeTypes
  <2>2. last' \in Int /\ -1 <= last' /\ last' <= MaxLen /\ len' <= MaxLen
    BY Constants
  <2> QED
    BY <1>2, <2>1, <2>2 DEF IndInv, JavaInv, TypeInv, Outcomes
<1>4. CallInv' /\ FrameInv'
  BY FillsEmpty DEF IndInv, JavaInv, CallInv, FrameInv, Outside
<1>5. RetryInv'
  BY DEF IndInv, JavaInv, CallInv, RetryInv, Outside
<1>6. Complete => PlaceInv'
  BY JavaPlace, FillsEmpty DEF IndInv, CompleteInv, PlaceInv, Complete
<1>7. ASSUME Complete, ~isContinuous PROVE stage = "init"
  <2>1. taken = Len(input)
    BY <1>7 DEF IndInv, JavaInv, CallInv
  <2>2. PlaceInv /\ stage # "badHeader"
    BY <1>7 DEF IndInv, CompleteInv, PlaceInv
  <2>3. at = Len(input) /\ stage \in {"init", "inHeader", "read"}
    BY <2>1, <2>2, FillsEmpty
  <2>4. ~frameDone \/ stage = "init"
    BY <2>3 DEF IndInv, DecoderInv, NativeTypes, BufferInv, ReturnInv, Outside
  <2>5. Placed
    BY <1>7, <2>2, PlaceTypes DEF Placed, IndInv, Complete
  <2> QED
    BY <2>3, <2>4, <2>5, EndsBetweenFrames
<1>8. Complete \/ isContinuous => out = 0 \/ outcome' = "bytes"
  <2>1. ASSUME Complete, ~isContinuous PROVE out = 0
    BY <1>7, <2>1, FillsEmpty
  <2>2. ASSUME isContinuous PROVE out = 0
    BY <2>2 DEF IndInv, JavaInv, TypeInv, CallInv, DecoderInv, NativeTypes
  <2> QED
    BY <2>1, <2>2 DEF IndInv, JavaInv, TypeInv
<1>9. Complete => outcome' # "truncated"
  BY <1>7 DEF IndInv, CompleteInv, Outside
<1>10. CountInv'
  BY <1>8 DEF IndInv, CountInv, Complete, DecoderInv, NativeTypes, JavaInv, TypeInv
<1>11. CompleteInv'
  BY <1>2, <1>6, <1>9 DEF IndInv, CompleteInv, Complete, Outside
<1> QED
  BY <1>1, <1>3, <1>4, <1>5, <1>10, <1>11 DEF IndInv, JavaInv

LEMMA AfterErrorKeeps == ASSUME IndInv, AfterError PROVE IndInv'
<1> USE DEF AfterError, Return, up, flags, native
<1>1. stage = "badHeader" /\ out = 0
  BY DEF IndInv, DecoderInv, ReturnInv, JavaInv, FrameInv
<1>2. DecoderInv'
  <2>1. NativeTypes'
    BY DEF IndInv, DecoderInv, NativeTypes
  <2>2. BufferInv'
    BY <1>1 DEF IndInv, DecoderInv, NativeTypes, BufferInv, Held, Outside
  <2>3. ReturnInv' /\ ProgressInv'
    BY <1>1 DEF IndInv, DecoderInv, ReturnInv, ProgressInv, Outside
  <2> QED
    BY <2>1, <2>2, <2>3 DEF DecoderInv
<1>3. TypeInv'
  <2>1. last' \in Int /\ -1 <= last' /\ last' <= MaxLen /\ len' <= MaxLen
    BY Constants
  <2> QED
    BY <2>1 DEF IndInv, JavaInv, TypeInv, Outcomes
<1>4. CallInv' /\ FrameInv' /\ RetryInv'
  BY <1>1 DEF IndInv, JavaInv, CallInv, FrameInv, RetryInv, Outside
<1>5. CountInv'
  BY <1>1 DEF IndInv, CountInv, Complete
<1>6. CompleteInv'
  BY <1>1 DEF IndInv, CompleteInv, Complete, PlaceInv
<1> QED
  BY <1>2, <1>3, <1>4, <1>5, <1>6 DEF IndInv, JavaInv

LEMMA AfterFrameKeeps == ASSUME IndInv, AfterFrame PROVE IndInv'
<1> USE DEF AfterFrame, Return, up, native, app
<1>1. stage = "init" /\ noProgress = 0 /\ pc' \in {"idle", "loop"}
  BY DEF IndInv, DecoderInv, ReturnInv, ProgressInv
<1>2. DecoderInv'
  <2>1. NativeTypes'
    BY DEF IndInv, DecoderInv, NativeTypes
  <2>2. BufferInv'
    BY <1>1 DEF IndInv, DecoderInv, NativeTypes, BufferInv, Held, Outside
  <2>3. ReturnInv' /\ ProgressInv'
    BY <1>1 DEF IndInv, DecoderInv, ReturnInv, ProgressInv, Outside
  <2> QED
    BY <2>1, <2>2, <2>3 DEF DecoderInv
<1>3. TypeInv'
  <2>1. last' \in Int /\ -1 <= last' /\ last' <= MaxLen /\ len' <= MaxLen
    BY Constants DEF IndInv, JavaInv, TypeInv
  <2>2. delivered' \in Nat
    BY DEF IndInv, JavaInv, TypeInv, DecoderInv, NativeTypes
  <2>3. needRead' \in BOOLEAN /\ frameFinished' \in BOOLEAN /\ outcome' \in Outcomes
    BY DEF IndInv, JavaInv, TypeInv, Outcomes
  <2> QED
    BY <1>1, <2>1, <2>2, <2>3 DEF IndInv, JavaInv, TypeInv
<1>4. CallInv'
  BY DEF IndInv, JavaInv, CallInv, Outside
<1>5. FrameInv'
  <2>1. pc' = "loop" => out' = 0
    BY DEF IndInv, DecoderInv, NativeTypes
  <2>2. pc' = "idle" => out' = 0
    OBVIOUS
  <2>3. needRead' <=> src' = <<>>
    OBVIOUS
  <2> QED
    BY <1>1, <2>1, <2>2, <2>3 DEF FrameInv, Outside
<1>6. RetryInv'
  BY <1>1 DEF RetryInv, Outside
<1>7. CountInv'
  BY DEF IndInv, CountInv, Complete, DecoderInv, NativeTypes, JavaInv, TypeInv
<1>8. CompleteInv'
  BY <1>1, JavaPlace DEF IndInv, CompleteInv, Complete, JavaInv, CallInv
<1> QED
  BY <1>2, <1>3, <1>4, <1>5, <1>6, <1>7, <1>8 DEF IndInv, JavaInv

LEMMA AfterPartKeeps == ASSUME IndInv, AfterPart PROVE IndInv'
<1> USE DEF AfterPart, Goto, up, native, app
<1>1. \/ stage = "inHeader" /\ src = <<>> /\ out = 0
      \/ stage = "read" /\ src = <<>> /\ ~frameDone
      \/ stage = "flush" /\ out = len
  BY DEF IndInv, DecoderInv, ReturnInv, JavaInv, FrameInv
<1>2. DecoderInv'
  <2>1. NativeTypes'
    BY DEF IndInv, DecoderInv, NativeTypes
  <2>2. BufferInv'
    BY <1>1 DEF IndInv, DecoderInv, NativeTypes, BufferInv, Held, Outside
  <2>3. ReturnInv' /\ ProgressInv'
    BY <1>1 DEF IndInv, DecoderInv, ReturnInv, ProgressInv, Outside
  <2> QED
    BY <2>1, <2>2, <2>3 DEF DecoderInv
<1>3. TypeInv'
  BY DEF IndInv, JavaInv, TypeInv
<1>4. CallInv'
  BY DEF IndInv, JavaInv, CallInv, Outside
<1>5. pc' = "loop" /\ (needRead' <=> out < len) /\ out \in Nat /\ len \in Nat /\ out <= len /\ len > 0
  BY DEF IndInv, JavaInv, CallInv, DecoderInv, NativeTypes
<1>6. FrameInv'
  BY <1>1, <1>5 DEF FrameInv, Outside
<1>9. RetryInv'
  <2>1. last \in Int /\ last < len /\ (last < out => noProgress = 0)
    BY DEF IndInv, JavaInv, TypeInv, CallInv, RetryInv, Outside
  <2> QED
    BY <1>5, <2>1 DEF RetryInv, Outside
<1>7. CountInv'
  BY DEF IndInv, CountInv, Complete
<1>8. CompleteInv'
  BY <1>1, JavaPlace DEF IndInv, CompleteInv, Complete
<1> QED
  BY <1>2, <1>3, <1>4, <1>6, <1>7, <1>8, <1>9 DEF IndInv, JavaInv

\* What every step of the native call has in common.
LEMMA NativeMoves ==
    ASSUME DecoderInv, ZSTD_decompressStream
    PROVE  /\ pc \in {"native", "result", "hint"}
           /\ pc' \in {"native", "result", "hint", "after", "error"}
           /\ len' = len
           /\ \E n \in Nat : out' = out + n /\ produced' = produced + n
<1> USE DEF DecoderInv, NativeTypes
<1>0. 0 \in Nat /\ out + 0 = out /\ produced + 0 = produced
  OBVIOUS
<1>1. CASE \/ NativeInit \/ NativeHeader \/ NativeBadHeader \/ NativeStillBad \/ NativeNoHeader
           \/ NativeBlock \/ NativeStop \/ NativeNoProgress \/ NativeProgress \/ NativeResult
  <2>1. out' = out /\ produced' = produced /\ len' = len
    BY <1>1 DEF NativeInit, NativeHeader, NativeBadHeader, NativeStillBad, NativeNoHeader, NativeBlock,
                NativeStop, NativeNoProgress, NativeProgress, NativeResult, NativeGoto, call, native
  <2>2. pc \in {"native", "result", "hint"} /\ pc' \in {"native", "result", "hint", "after", "error"}
    BY <1>1 DEF NativeInit, NativeHeader, NativeBadHeader, NativeStillBad, NativeNoHeader, NativeBlock,
                NativeStop, NativeNoProgress, NativeProgress, NativeResult, NativeGoto, call
  <2> QED
    BY <1>0, <2>1, <2>2
<1>2. CASE NativeSinglePass
  <2>1. PICK k \in 2..Len(src) :
            LET n == SizeOf(src, k) IN n <= len - out /\ out' = out + n /\ produced' = produced + n
    BY <1>2 DEF NativeSinglePass
  <2>2. SizeOf(src, k) \in Nat
    <3>1. src \in Seq(Units) /\ Len(src) \in Nat /\ k \in 0..Len(src)
      OBVIOUS
    <3> QED
      BY <3>1, SizeOfNat
  <2> QED
    BY <1>2, <2>1, <2>2 DEF NativeSinglePass
<1>3. CASE NativeFlush
  <2> DEFINE m == IF pending <= len - out THEN pending ELSE len - out
  <2>m. m \in Nat
    OBVIOUS
  <2>1. PICK n \in Nat : n = m
    BY <2>m
  <2>2. out' = out + n /\ produced' = produced + n /\ len' = len
    BY <1>3, <2>1 DEF NativeFlush
  <2>3. pc = "native" /\ pc' \in {"native", "result"}
    BY <1>3 DEF NativeFlush
  <2> QED
    BY <2>2, <2>3
<1> QED
  BY <1>1, <1>2, <1>3 DEF ZSTD_decompressStream

LEMMA NativeTypeInv == ASSUME IndInv, DecompressStream PROVE TypeInv' /\ CallInv' /\ CountInv'
<1> USE DEF DecompressStream
<1>1. /\ pc \in {"native", "result", "hint"}
      /\ pc' \in {"native", "result", "hint", "after", "error"}
      /\ len' = len
      /\ \E n \in Nat : out' = out + n /\ produced' = produced + n
  BY NativeMoves DEF IndInv
<1>2. TypeInv'
  BY <1>1 DEF IndInv, JavaInv, TypeInv, up, flags, app
<1>3. CallInv'
  BY <1>1 DEF IndInv, JavaInv, CallInv, Outside, up, flags, app
<1>4. CountInv'
  BY <1>1 DEF IndInv, JavaInv, TypeInv, DecoderInv, NativeTypes, CountInv, Complete, up, flags, app
<1> QED
  BY <1>2, <1>3, <1>4

LEMMA NativeFrameInv == ASSUME IndInv, DecompressStream PROVE FrameInv'
<1> USE DEF DecompressStream
<1>0. FrameInv /\ pc' \in {"native", "result", "hint", "after", "error"}
  BY NativeMoves DEF IndInv, JavaInv
<1>1. CASE NativeInit \/ NativeHeader \/ NativeBadHeader \/ NativeStillBad \/ NativeNoHeader
  BY <1>0, <1>1 DEF FrameInv, Outside, NativeInit, NativeHeader, NativeBadHeader, NativeStillBad,
                    NativeNoHeader, NativeGoto, call, native
<1>2. CASE NativeSinglePass
  BY <1>0, <1>2 DEF FrameInv, Outside, NativeSinglePass
<1>3. CASE NativeBlock \/ NativeFlush \/ NativeStop
  BY <1>0, <1>3 DEF FrameInv, Outside, NativeBlock, NativeFlush, NativeStop, NativeGoto, call
<1>4. CASE NativeNoProgress \/ NativeProgress \/ NativeResult
  <2>1. stage \in {"init", "read", "flush"} /\ stage' \in {stage, "read"} /\ pc' # "native"
    BY <1>4 DEF IndInv, DecoderInv, ReturnInv, NativeNoProgress, NativeProgress, NativeResult, NativeGoto
  <2> QED
    BY <1>0, <2>1 DEF FrameInv, Outside
<1> QED
  BY <1>1, <1>2, <1>3, <1>4 DEF ZSTD_decompressStream

LEMMA NativeRetryInv == ASSUME IndInv, DecompressStream PROVE RetryInv'
<1> USE DEF DecompressStream
<1>0. /\ RetryInv /\ pc' \in {"native", "result", "hint", "after", "error"}
      /\ last' = last /\ last \in Int /\ 0 <= last /\ out \in Nat /\ moved \in BOOLEAN
  BY NativeMoves DEF IndInv, JavaInv, TypeInv, CallInv, Outside, DecoderInv, NativeTypes
<1>1. CASE NativeInit
  BY <1>0, <1>1 DEF RetryInv, Outside, NativeInit, call
<1>2. CASE NativeHeader \/ NativeSinglePass \/ NativeBlock
  BY <1>0, <1>2 DEF RetryInv, Outside, NativeHeader, NativeSinglePass, NativeBlock, call
<1>3. CASE NativeBadHeader \/ NativeStillBad
  BY <1>0, <1>3 DEF RetryInv, Outside, NativeBadHeader, NativeStillBad, NativeGoto
<1>4. CASE NativeNoHeader
  BY <1>0, <1>4 DEF RetryInv, Outside, NativeNoHeader, IndInv, JavaInv, FrameInv
<1>5. CASE NativeFlush
  <2> DEFINE m == IF pending <= len - out THEN pending ELSE len - out
  <2>m. m \in Nat
    BY DEF IndInv, DecoderInv, NativeTypes
  <2>1. PICK n \in Nat : n = m
    BY <2>m
  <2>2. out' = out + n /\ (moved' <=> (moved \/ n > 0)) /\ pc = "native" /\ pc' \in {"native", "result"}
    BY <1>5, <2>1 DEF NativeFlush
  <2>3. last < out' => moved'
    BY <1>0, <2>1, <2>2 DEF RetryInv
  <2> QED
    BY <1>0, <2>2, <2>3 DEF RetryInv, Outside
<1>6. CASE NativeStop
  BY <1>0, <1>6 DEF RetryInv, Outside, NativeStop, NativeGoto
<1>7. CASE NativeNoProgress
  BY <1>0, <1>7 DEF RetryInv, Outside, NativeNoProgress, NativeGoto
<1>8. CASE NativeProgress
  BY <1>0, <1>8 DEF RetryInv, Outside, NativeProgress, NativeGoto
<1>9. CASE NativeResult
  BY <1>0, <1>9 DEF RetryInv, Outside, NativeResult
<1> QED
  BY <1>1, <1>2, <1>3, <1>4, <1>5, <1>6, <1>7, <1>8, <1>9 DEF ZSTD_decompressStream

\* The native call keeps its own invariant ...
LEMMA DecoderKeeps == ASSUME DecoderInv, ZSTD_decompressStream PROVE DecoderInv'
  BY InitKeeps, HeaderKeeps, BadHeaderKeeps, StillBadKeeps, SinglePassKeeps, NoHeaderKeeps, BlockKeeps,
     FlushKeeps, StopKeeps, NoProgressKeeps, ProgressKeeps, ResultKeeps DEF ZSTD_decompressStream

\* ... and, in a stream of whole frames, its place.
LEMMA DecoderPlace == ASSUME Placed, ZSTD_decompressStream PROVE PlaceInv'
  BY InitPlace, HeaderPlace, BadHeaderPlace, StillBadPlace, SinglePassPlace, NoHeaderPlace, BlockPlace,
     FlushPlace, StopPlace, ProgressPlace, ResultPlace DEF ZSTD_decompressStream

LEMMA DecompressStreamKeeps == ASSUME IndInv, DecompressStream PROVE IndInv'
<1>1. DecoderInv'
  BY DecoderKeeps DEF IndInv, DecompressStream
<1>2. TypeInv' /\ CallInv' /\ CountInv' /\ FrameInv' /\ RetryInv'
  BY NativeTypeInv, NativeFrameInv, NativeRetryInv
<1>3. CompleteInv'
  <2> SUFFICES ASSUME Complete' PROVE CompleteInv'
    BY DEF CompleteInv
  <2>1. Complete /\ input' = input /\ taken' = taken /\ outcome' = outcome
    BY DEF Complete, DecompressStream, up, app
  <2>2. Placed
    BY <2>1, PlaceTypes DEF Placed, IndInv, CompleteInv, Complete
  <2>3. PlaceInv'
    BY <2>2, DecoderPlace DEF DecompressStream
  <2>4. ~Outside'
    BY NativeMoves DEF Outside, IndInv, DecompressStream
  <2> QED
    BY <2>1, <2>3, <2>4 DEF CompleteInv, IndInv
<1> QED
  BY <1>1, <1>2, <1>3 DEF IndInv, JavaInv

LEMMA StutterKeeps == ASSUME IndInv, UNCHANGED vars PROVE IndInv'
<1> USE DEF vars, up, flags, call, native, app
<1>1. DecoderInv'
  BY DEF IndInv, DecoderInv, NativeTypes, BufferInv, ReturnInv, ProgressInv, Held, Outside
<1>2. TypeInv' /\ CallInv'
  BY DEF IndInv, JavaInv, TypeInv, CallInv, Outside
<1>3. FrameInv' /\ RetryInv'
  BY DEF IndInv, JavaInv, FrameInv, RetryInv, Outside
<1>4. CountInv'
  BY DEF IndInv, CountInv, Complete
<1>5. CompleteInv'
  <2>1. h' = h /\ at' = at
    BY DEF h, at, Held
  <2> QED
    BY <2>1 DEF IndInv, CompleteInv, PlaceInv, Complete, Outside
<1> QED
  BY <1>1, <1>2, <1>3, <1>4, <1>5 DEF IndInv, JavaInv

LEMMA InputInvariance == Spec => []IndInv
<1>1. ASSUME IndInv, [Next]_vars PROVE IndInv'
  <2>1. CASE AppendUnit \/ Close \/ FillZero \/ \E n \in 1..MaxLen : Read(n)
    BY <1>1, <2>1, AppendUnitKeeps, CloseKeeps, FillZeroKeeps, ReadKeeps
  <2>2. CASE ReadStep
    BY <1>1, <2>2, LoopReadKeeps, LoopDecodeKeeps, LoopExitKeeps, FillSomeKeeps, FillEndKeeps,
       AfterErrorKeeps, AfterFrameKeeps, AfterPartKeeps, DecompressStreamKeeps DEF ReadStep
  <2>3. CASE UNCHANGED vars
    BY <1>1, <2>3, StutterKeeps
  <2> QED
    BY <1>1, <2>1, <2>2, <2>3 DEF Next
<1> QED
  BY <1>1, InitInd, PTL DEF Spec

\* Every variable of ZstdInputStream has its type and no call writes past its len,
\* whatever the stream contains.
THEOREM InputTypeCorrect == Spec => []TypeOK
<1>1. IndInv => TypeOK
  <2> SUFFICES ASSUME IndInv PROVE TypeOK
    OBVIOUS
  <2>1. DecoderTypeOK
    BY DEF IndInv, DecoderInv, NativeTypes, DecoderTypeOK
  <2>2. written \in 0..Len(input) /\ taken \in 0..written /\ last \in -1..MaxLen
    BY Constants DEF IndInv, JavaInv, TypeInv
  <2> QED
    BY <2>1, <2>2 DEF IndInv, JavaInv, TypeInv, TypeOK
<1> QED
  BY <1>1, InputInvariance, PTL

\* Between calls of read() every byte the decoder made has been returned, if the stream
\* is whole or read in continuous mode.
THEOREM InputNothingLost == Spec => []NothingLost
<1>1. IndInv => NothingLost
  BY DEF IndInv, CountInv, NothingLost, JavaInv, CallInv, TypeInv
<1> QED
  BY <1>1, InputInvariance, PTL

\* A stream of whole frames is read without exception: never "Truncated source", and the
\* decoder never counts two calls without progress in a row.
THEOREM InputNoSpuriousError == Spec => []NoSpuriousError
<1>1. IndInv => NoSpuriousError
  BY DEF IndInv, CompleteInv, NoSpuriousError
<1> QED
  BY <1>1, InputInvariance, PTL

\* read() returns -1 at the end of a stream of whole frames only when the application has
\* every byte the frames decode to.
THEOREM InputEndComplete == Spec => []EndMeansComplete
<1>1. IndInv => EndMeansComplete
  <2> SUFFICES ASSUME IndInv, Complete, outcome = "end", taken = Len(input)
               PROVE  delivered = SizeOf(input, Len(input))
    BY DEF EndMeansComplete
  <2>1. PlaceInv /\ stage # "badHeader"
    BY DEF IndInv, CompleteInv, PlaceInv
  <2>2. pc = "idle" /\ out = 0 /\ needRead /\ src = <<>>
    BY <2>1 DEF IndInv, JavaInv, CallInv
  <2>3. stage # "flush" /\ pending = 0 /\ ~Held
    BY <2>1, <2>2 DEF IndInv, JavaInv, FrameInv, DecoderInv, BufferInv, NativeTypes, Outside
  <2>4. at = Len(input)
    BY <2>2, <2>3, EmptyUnits DEF at, h, IndInv, JavaInv, TypeInv
  <2> QED
    BY <2>1, <2>2, <2>3, <2>4 DEF PlaceInv, IndInv, CountInv, JavaInv, TypeInv, DecoderInv, NativeTypes
<1> QED
  BY <1>1, InputInvariance, PTL

-----------------------------------------------------------------------------
(***************************************************************************)
(* BufferDecompressingStream, over the same invariants of the decoder.     *)
(***************************************************************************)
BufferTypes ==
    /\ input \in Inputs /\ input \in Seq(Units) /\ Len(input) \in Nat
    /\ taken \in Nat /\ taken <= Len(input) /\ delivered \in Nat
    /\ finishedFrame \in BOOLEAN /\ streamEnd \in BOOLEAN

\* An open stream of whole frames.  refill() leaves no source empty before the end, so
\* the decoder is never called in vain.
OpenInv ==
    /\ DecoderInv /\ PlaceInv
    /\ pc \in {"idle", "native", "result", "hint", "after"}
    /\ pc # "idle" => len > 0 /\ ~streamEnd
    /\ pc = "idle" => out = 0
    /\ delivered + out = produced
    /\ pc = "idle" /\ src = <<>> => stage \in {"init", "loadHeader"}
    /\ pc = "idle" /\ src = <<>> /\ finishedFrame => streamEnd
    /\ streamEnd => src = <<>> /\ taken = Len(input) /\ stage = "init"

BufferIndInv == WholeFrames(input) /\ ~closed => BufferTypes /\ OpenInv

LEMMA BufferStarts == BufferInit => BufferIndInv
<1> SUFFICES ASSUME BufferInit PROVE BufferIndInv
  OBVIOUS
<1> USE DEF BufferInit, NativeStart
<1>1. input \in Inputs /\ input \in Seq(Units) /\ Len(input) \in Nat /\ taken \in Nat /\ taken <= Len(input)
  BY Constants
<1>2. BufferTypes
  BY <1>1 DEF BufferTypes
<1>3. 0 + taken <= Len(input) /\ src = SubSeq(input, 0 + 1, 0 + taken)
  BY <1>1
<1>4. src \in Seq(Units) /\ Len(src) = taken /\ \A i \in 1..taken : src[i] = input[0 + i]
  BY <1>1, <1>3, NextPart
<1>5. DecoderInv
  <2>1. NativeTypes
    <3>1. len \in Nat /\ out \in Nat /\ out <= len /\ size \in 0..1
      OBVIOUS
    <3>2. pending \in Nat /\ noProgress \in Nat /\ produced \in Nat
      OBVIOUS
    <3>3. /\ stage \in {"init", "loadHeader", "inHeader", "badHeader", "read", "flush"}
          /\ frameDone \in BOOLEAN /\ hostage \in BOOLEAN /\ moved \in BOOLEAN
      OBVIOUS
    <3> QED
      BY <1>4, <3>1, <3>2, <3>3 DEF NativeTypes
  <2>2. BufferInv
    BY DEF BufferInv, Held, Outside
  <2>3. ReturnInv
    BY DEF ReturnInv, Outside
  <2>4. ProgressInv
    BY DEF ProgressInv
  <2> QED
    BY <2>1, <2>2, <2>3, <2>4 DEF DecoderInv
<1>6. PlaceInv
  <2>1. h = 0 /\ at = 0
    BY <1>1, <1>4 DEF h, at, Held
  <2>2. SizeOf(input, 0) = 0
    BY SizeOfNothing
  <2>3. at \in 0..taken /\ taken - at = taken /\ \A i \in 1..taken : h + i = i /\ at + i = 0 + i
    BY <1>1, <2>1
  <2>4. \A i \in 1..(taken - at) : src[h + i] = input[at + i]
    BY <1>4, <2>3
  <2>5. produced + pending = SizeOf(input, at)
    BY <2>1, <2>2
  <2> QED
    BY <2>1, <2>3, <2>4, <2>5 DEF PlaceInv
<1>7. OpenInv
  BY <1>5, <1>6 DEF OpenInv
<1> QED
  BY <1>2, <1>7 DEF BufferIndInv

LEMMA BufferRead ==
    ASSUME BufferIndInv, NEW n \in 1..MaxLen, readInternal(n)
    PROVE  BufferIndInv'
<1> USE DEF readInternal, origin, bufferFlags, native
<1>0. n \in Nat /\ n > 0
  BY Constants
<1>2. ASSUME WholeFrames(input), ~closed PROVE BufferTypes' /\ OpenInv'
  <2>1. OpenInv /\ pc = "idle" /\ out = 0
    BY <1>2 DEF BufferIndInv, OpenInv
  <2>0. BufferTypes'
    BY <1>2 DEF BufferIndInv, BufferTypes
  <2>2. /\ UNCHANGED <<src, input, taken, stage, pending, frameDone, hostage, noProgress, produced, delivered>>
        /\ UNCHANGED <<finishedFrame, streamEnd>>
    BY DEF NativeCall
  <2>3. pc' \in {"idle", "native"}
    BY DEF NativeCall, ReadEnds
  <2>4. Held' <=> Held
    BY <2>1, <2>2, <2>3 DEF Held
  <2>5. h' = h /\ at' = at
    BY <2>2, <2>4 DEF h, at
  <2>6. PlaceInv'
    BY <2>1, <2>2, <2>5 DEF OpenInv, PlaceInv
  <2>7. CASE streamEnd
    <3>1. pc' = "idle" /\ len' = 0 /\ out' = 0 /\ size' = 0 /\ moved' = moved
      BY <2>7 DEF ReadEnds
    <3>2. DecoderInv'
      BY <2>1, <2>2, <3>1 DEF OpenInv, DecoderInv, NativeTypes, BufferInv, ReturnInv, ProgressInv, Held, Outside
    <3>3. delivered' + out' = produced'
      BY <2>1, <2>2, <3>1 DEF OpenInv
    <3> QED
      BY <2>0, <2>1, <2>2, <2>6, <3>1, <3>2, <3>3 DEF OpenInv
  <2>8. CASE ~streamEnd
    <3>1. pc' = "native" /\ len' = n /\ out' = 0 /\ size' = 0 /\ moved' = FALSE
      BY <2>8 DEF NativeCall
    <3>5. NativeTypes'
      <4>1. len' \in Nat /\ out' \in Nat /\ out' <= len' /\ size' \in 0..1
        BY <1>0, <3>1
      <4>2. moved' \in BOOLEAN
        BY <3>1
      <4> QED
        BY <2>1, <2>2, <4>1, <4>2 DEF OpenInv, DecoderInv, NativeTypes
    <3>2. BufferInv'
      BY <2>1, <2>2, <3>1 DEF OpenInv, DecoderInv, BufferInv, Held, Outside
    <3>3. ReturnInv'
      BY <1>0, <2>1, <2>2, <3>1 DEF OpenInv, DecoderInv, ReturnInv, Outside
    <3>4. ProgressInv'
      BY <2>1, <2>2, <3>1 DEF OpenInv, DecoderInv, ProgressInv
    <3>6. DecoderInv'
      BY <3>2, <3>3, <3>4, <3>5 DEF DecoderInv
    <3>7. delivered' + out' = produced'
      BY <2>1, <2>2, <3>1 DEF OpenInv
    <3> QED
      BY <1>0, <2>0, <2>1, <2>2, <2>6, <2>8, <3>1, <3>6, <3>7 DEF OpenInv
  <2> QED
    BY <2>7, <2>8
<1> QED
  BY <1>2 DEF BufferIndInv

LEMMA BufferDecodes ==
    ASSUME BufferIndInv, decompressStream
    PROVE  BufferIndInv'
<1> USE DEF decompressStream, origin, bufferFlags, app
<1>0. ZSTD_decompressStream /\ pc # "idle"
  BY DEF ZSTD_decompressStream, NativeInit, NativeHeader, NativeBadHeader, NativeStillBad, NativeSinglePass, NativeNoHeader, NativeBlock, NativeFlush, NativeStop, NativeNoProgress, NativeProgress, NativeResult
<1>2. ASSUME WholeFrames(input), ~closed PROVE BufferTypes' /\ OpenInv'
  <2>1. OpenInv
    BY <1>2 DEF BufferIndInv
  <2>0. BufferTypes'
    BY <1>2 DEF BufferIndInv, BufferTypes
  <2>2. Placed
    BY <1>2, <2>1 DEF Placed, OpenInv, StreamTypes, BufferIndInv, BufferTypes
  <2>3. DecoderInv' /\ PlaceInv'
    BY <1>0, <2>1, <2>2, DecoderKeeps, DecoderPlace DEF OpenInv
  <2>4. /\ pc' \in {"native", "result", "hint", "after", "error"} /\ len' = len
        /\ \E n \in Nat : out' = out + n /\ produced' = produced + n
    BY <1>0, <2>1, NativeMoves DEF OpenInv
  <2>5. pc' # "error"
    BY <2>3 DEF DecoderInv, ReturnInv, PlaceInv
  <2>6. delivered' + out' = produced'
    BY <1>2, <2>1, <2>4 DEF OpenInv, DecoderInv, NativeTypes, BufferIndInv, BufferTypes
  <2> QED
    BY <1>0, <2>0, <2>1, <2>3, <2>4, <2>5, <2>6 DEF OpenInv
<1> QED
  BY <1>2 DEF BufferIndInv

\* Whatever refill() does, the source holds the next part of the stream, and is empty
\* only at its end.
LEMMA Refill ==
    ASSUME BufferTypes, DecoderInv, PlaceInv, pc = "after", pc' = "idle", Refilled(src), input' = input,
           UNCHANGED <<stage, pending, frameDone, hostage, produced>>
    PROVE  /\ src' \in Seq(Units) /\ taken' \in Nat /\ taken' <= Len(input)
           /\ src' = src \/ src = <<>>
           /\ src' = <<>> => src = <<>> /\ taken' = taken /\ taken = Len(input)
           /\ PlaceInv'
<1>1. /\ input \in Seq(Units) /\ Len(input) \in Nat /\ taken \in Nat /\ taken <= Len(input)
      /\ src \in Seq(Units)
  BY DEF BufferTypes, DecoderInv, NativeTypes
<1>2. CASE src # <<>> \/ taken = Len(input)
  <2>1. src' = src /\ taken' = taken
    BY <1>2 DEF Refilled
  <2>2. Held' <=> Held
    BY <2>1 DEF Held
  <2>3. h' = h /\ at' = at
    BY <2>1, <2>2 DEF h, at
  <2> QED
    BY <1>1, <1>2, <2>1, <2>3 DEF PlaceInv
<1>3. CASE ~(src # <<>> \/ taken = Len(input))
  <2>1. PICK n \in 1..MaxChunk :
            taken + n <= Len(input) /\ src' = SubSeq(input, taken + 1, taken + n) /\ taken' = taken + n
    BY <1>3 DEF Refilled
  <2>2. n \in Nat /\ n > 0
    BY Constants
  <2>3. src' \in Seq(Units) /\ Len(src') = n /\ \A i \in 1..n : src'[i] = input[taken + i]
    BY <1>1, <2>1, <2>2, NextPart
  <2>4. src' # <<>>
    BY <2>2, <2>3, EmptyUnits
  <2>5. ~Held /\ ~Held'
    BY <1>3 DEF Held, DecoderInv, BufferInv
  <2>6. h' = 0 /\ at = taken /\ at' = taken
    BY <1>1, <1>3, <2>1, <2>2, <2>3, <2>5, EmptyUnits DEF h, at
  <2>7. at' \in 0..taken' /\ taken' - at' = n /\ \A i \in 1..n : h' + i = i
    BY <1>1, <2>1, <2>2, <2>6
  <2>8. \A i \in 1..(taken' - at') : src'[h' + i] = input'[at' + i]
    BY <2>3, <2>6, <2>7
  <2>9. PlaceInv'
    BY <2>6, <2>7, <2>8 DEF PlaceInv
  <2>10. taken' \in Nat /\ taken' <= Len(input)
    BY <1>1, <2>1, <2>2
  <2> QED
    BY <1>3, <2>3, <2>4, <2>9, <2>10
<1> QED
  BY <1>2, <1>3

LEMMA BufferReturns ==
    ASSUME BufferIndInv, ReadReturns
    PROVE  BufferIndInv'
<1> USE DEF ReadReturns, ReadEnds, native
<1>1. ASSUME WholeFrames(input), ~closed PROVE OpenInv' /\ BufferTypes'
  <2>1. OpenInv /\ BufferTypes
    BY <1>1 DEF BufferIndInv
  <2>2. /\ src' \in Seq(Units) /\ taken' \in Nat /\ taken' <= Len(input)
        /\ src' = src \/ src = <<>>
        /\ src' = <<>> => src = <<>> /\ taken' = taken /\ taken = Len(input)
        /\ PlaceInv'
    BY <2>1, Refill DEF OpenInv
  <2>3. delivered \in Nat /\ out \in Nat /\ delivered' = delivered + out /\ delivered + out = produced
        /\ produced' = produced /\ produced \in Nat /\ out' = 0
    BY <2>1 DEF OpenInv, DecoderInv, NativeTypes, BufferTypes
  <2>4. BufferTypes'
    BY <2>1, <2>2, <2>3 DEF BufferTypes
  <2>5. DecoderInv'
    <3>1. NativeTypes'
      BY <2>1, <2>2 DEF OpenInv, DecoderInv, NativeTypes
    <3>2. BufferInv'
      BY <2>1, <2>2 DEF OpenInv, DecoderInv, BufferInv, NativeTypes, Held, Outside
    <3>3. ReturnInv' /\ ProgressInv'
      BY <2>1 DEF OpenInv, DecoderInv, ReturnInv, ProgressInv, Outside
    <3> QED
      BY <3>1, <3>2, <3>3 DEF DecoderInv
  <2>6. src' = <<>> => stage \in {"init", "loadHeader"}
    <3> SUFFICES ASSUME src' = <<>> PROVE stage \in {"init", "loadHeader"}
      OBVIOUS
    <3>1. src = <<>> /\ taken' = taken /\ taken = Len(input)
      BY <2>2
    <3>2. ~Held
      BY <2>1, <3>1 DEF OpenInv, DecoderInv, BufferInv
    <3>3. at = Len(input)
      BY <2>1, <3>1, <3>2, EmptyUnits DEF at, h, BufferTypes
    <3>4. Placed
      BY <1>1, <2>1, <3>1 DEF Placed, OpenInv, StreamTypes, BufferTypes
    <3>5. CASE frameDone
      BY <2>1, <3>1, <3>2, <3>5 DEF OpenInv, DecoderInv, BufferInv, ReturnInv, Held
    <3>6. CASE ~frameDone
      BY <3>3, <3>4, <3>6, EndsBetweenFrames
    <3> QED
      BY <2>1, <3>5, <3>6 DEF OpenInv, DecoderInv, NativeTypes
  <2>7. size = 0 => stage = "init"
    BY <2>1 DEF OpenInv, DecoderInv, ReturnInv
  <2>8. streamEnd = FALSE
    BY <2>1 DEF OpenInv, BufferTypes
  <2>9. (finishedFrame' <=> size = 0) /\ (streamEnd' <=> size = 0 /\ src' = <<>>)
    BY <2>8
  <2>10. streamEnd' => src' = <<>> /\ taken' = Len(input') /\ stage' = "init"
    BY <2>2, <2>7, <2>9
  <2>11. delivered' + out' = produced'
    BY <2>3
  <2> QED
    BY <2>2, <2>4, <2>5, <2>6, <2>9, <2>10, <2>11 DEF OpenInv
<1> QED
  BY <1>1 DEF BufferIndInv

\* A stream of whole frames raises no error.
LEMMA BufferThrows ==
    ASSUME BufferIndInv, ReadThrows
    PROVE  BufferIndInv'
<1>1. ~(WholeFrames(input) /\ ~closed)
  BY DEF BufferIndInv, OpenInv, ReadThrows
<1> QED
  BY <1>1 DEF BufferIndInv, ReadThrows, origin, bufferFlags

LEMMA BufferStutters ==
    ASSUME BufferIndInv, UNCHANGED bufferVars
    PROVE  BufferIndInv'
<1> USE DEF bufferVars, origin, bufferFlags, call, native, app
<1>1. DecoderInv <=> DecoderInv'
  BY DEF DecoderInv, NativeTypes, BufferInv, ReturnInv, ProgressInv, Held, Outside
<1>2. h' = h /\ at' = at
  BY DEF h, at, Held
<1>3. PlaceInv <=> PlaceInv'
  BY <1>2 DEF PlaceInv
<1> QED
  BY <1>1, <1>3 DEF BufferIndInv, OpenInv, BufferTypes

LEMMA BufferInvariance == BufferSpec => []BufferIndInv
<1>1. ASSUME BufferIndInv, [BufferNext]_bufferVars PROVE BufferIndInv'
  <2>1. CASE close
    BY <2>1 DEF BufferIndInv, close
  <2> QED
    BY <1>1, <2>1, BufferRead, BufferDecodes, BufferThrows, BufferReturns, BufferStutters
       DEF BufferNext, BufferStep, ApplicationReads
<1> QED
  BY <1>1, BufferStarts, PTL DEF BufferSpec

\* A loop that reads while hasRemaining() has got every byte of a stream of whole frames
\* when it stops, for every stream, every way refill() cuts it, and every target size.
THEOREM BufferDoneMeansComplete == BufferSpec => []DoneMeansComplete
<1>1. BufferIndInv => DoneMeansComplete
  <2> SUFFICES ASSUME BufferIndInv, WholeFrames(input), pc = "idle", ~closed, ~hasRemaining
               PROVE  delivered = SizeOf(input, Len(input))
    BY DEF DoneMeansComplete, Complete
  <2>1. BufferTypes /\ OpenInv
    BY DEF BufferIndInv
  <2>2. streamEnd /\ src = <<>> /\ taken = Len(input) /\ stage = "init" /\ out = 0
    BY <2>1 DEF OpenInv, BufferTypes, hasRemaining
  <2>3. pending = 0 /\ ~Held
    BY <2>1, <2>2 DEF OpenInv, DecoderInv, NativeTypes, BufferInv
  <2>4. at = Len(input)
    BY <2>1, <2>2, <2>3, EmptyUnits DEF at, h, BufferTypes
  <2> QED
    BY <2>1, <2>2, <2>3, <2>4 DEF OpenInv, PlaceInv, DecoderInv, NativeTypes, BufferTypes
<1> QED
  BY <1>1, BufferInvariance, PTL
=============================================================================
