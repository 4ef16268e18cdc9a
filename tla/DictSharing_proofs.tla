-------------------------- MODULE DictSharing_proofs --------------------------
(***************************************************************************)
(* Proofs about DictSharing, for any number of dictionaries and of objects *)
(* that use them.                                                          *)
(***************************************************************************)
EXTENDS DictSharing, FiniteSetTheorems, TLAPS

(***************************************************************************)
(* The inductive invariant                                                 *)
(***************************************************************************)
LoadPCs == {"ctxLoad", "ctxSwap", "load", "swap"}

\* The lock counts its holders at least: a lock that an error leaked has none, but
\* a dictionary with a holder is never closed, and never loses a lock it needs.
LockCoversHolders ==
    \A d \in Dicts : /\ dictLock[d] = -1 => HoldersOf(d) = {}
                     /\ dictLock[d] # -1 => dictLock[d] >= Cardinality(HoldersOf(d))

\* Each class of objects has its own methods, and a closed object is in none but
\* the release of its dictionary, and in setDict() of the direct streams.
MethodsInv ==
    /\ \A c \in Ctxs : pc[c] \in {"idle", "ctxAcquire", "ctxLoad", "ctxSwap", "release"}
    /\ \A c \in InStreams \cup OutStreams : pc[c] \in {"idle", "load", "swap", "free"}
    /\ \A c \in BufStreams : pc[c] \in {"idle", "load", "swap", "release"}
    /\ \A c \in DirectStreams : pc[c] \in {"idle", "swap", "release"}
    /\ \A c \in Consumers : pc[c] = "release" => ~open[c]
    /\ \A c \in Consumers \ DirectStreams : pc[c] \notin {"idle", "release"} => open[c]
    /\ \A c \in Consumers : pc[c] \in {"ctxAcquire", "load"} => arg[c] \in Dicts
    /\ \A c \in Ctxs : pc[c] \in {"ctxAcquire", "ctxLoad", "ctxSwap"} => ownLock[c] > 0

\* The native pointer agrees with the dictionary Java has locked: with the argument
\* once the native call has stored it, with the field before and after.
PointerInv ==
    /\ \A c \in Consumers \ MultiStreams : ~multiple[c]
    /\ \A c \in DirectStreams : /\ stage[c] = "init" => ref[c] = NoDict
                                /\ stage[c] = "busy" => pc[c] = "idle"
    /\ \A c \in Consumers \ MultiStreams : ~open[c] => ref[c] = NoDict
    /\ \A c \in Consumers \ MultiStreams : ref[c] # NoDict =>
          CASE pc[c] \in {"ctxSwap", "swap"} -> ref[c] = arg[c]
            [] pc[c] \in {"idle", "ctxAcquire", "ctxLoad", "load"} -> ref[c] = field[c]
            [] OTHER -> TRUE

\* While a multi-threaded frame is in progress, its workers read the dictionary that
\* the context points at, or none any more: zstd changes the pointer only between
\* frames.
WorkersInv ==
    \A c \in Consumers \ MultiStreams : stage[c] = "jobs" => worker[c] \in {NoDict, ref[c]}

IndInv == TypeOK /\ MethodsInv /\ PointerInv /\ LockCoversHolders

\* The locks of d that c alone accounts for.
Share(c, d) == (IF field[c] = d THEN 1 ELSE 0) + (IF pc[c] \in LoadPCs /\ arg[c] = d THEN 1 ELSE 0)

-----------------------------------------------------------------------------
(***************************************************************************)
(* Counting the holders of a dictionary                                    *)
(***************************************************************************)
\* A finite set, counted without two of its possible elements.
LEMMA CountApart ==
    ASSUME NEW S, IsFiniteSet(S), NEW x, NEW y, x # y
    PROVE  /\ Cardinality(S \ {x, y}) \in Nat
           /\ Cardinality(S) = Cardinality(S \ {x, y}) + (IF x \in S THEN 1 ELSE 0)
                                                       + (IF y \in S THEN 1 ELSE 0)
<1> DEFINE R == S \ {x}
<1>1. IsFiniteSet(R) /\ Cardinality(S) = Cardinality(R) + (IF x \in S THEN 1 ELSE 0)
  <2>1. CASE x \in S
    <3>1. IsFiniteSet(R) /\ Cardinality(R) = Cardinality(S) - 1
      BY <2>1, FS_RemoveElement
    <3>2. Cardinality(S) \in Nat
      BY FS_CardinalityType
    <3> QED
      BY <2>1, <3>1, <3>2
  <2>2. CASE x \notin S
    <3>1. R = S
      BY <2>2
    <3>2. Cardinality(S) \in Nat
      BY FS_CardinalityType
    <3> QED
      BY <2>2, <3>1, <3>2
  <2> QED
    BY <2>1, <2>2
<1>2. Cardinality(R) \in Nat
  BY <1>1, FS_CardinalityType
<1>3. S \ {x, y} = R \ {y} /\ (y \in S <=> y \in R)
  OBVIOUS
<1> HIDE DEF R
<1>4. IsFiniteSet(R \ {y}) /\ Cardinality(R) = Cardinality(R \ {y}) + (IF y \in R THEN 1 ELSE 0)
  <2>1. CASE y \in R
    <3>1. IsFiniteSet(R \ {y}) /\ Cardinality(R \ {y}) = Cardinality(R) - 1
      BY <1>1, <2>1, FS_RemoveElement
    <3> QED
      BY <1>2, <2>1, <3>1
  <2>2. CASE y \notin R
    <3>1. R \ {y} = R
      BY <2>2
    <3> QED
      BY <1>1, <1>2, <2>2, <3>1
  <2> QED
    BY <2>1, <2>2
<1>5. Cardinality(R \ {y}) \in Nat
  BY <1>4, FS_CardinalityType
<1> QED
  BY <1>1, <1>2, <1>3, <1>4, <1>5

\* Whatever the state, the holders of a dictionary are finitely many.
LEMMA HoldersBound ==
    ASSUME NEW S, S \subseteq Consumers \X {"field", "arg"}
    PROVE  IsFiniteSet(S)
<1>1. IsFiniteSet({"field", "arg"})
  <2>1. {"field", "arg"} = {"field"} \cup {"arg"}
    OBVIOUS
  <2>2. IsFiniteSet({"field"})
    BY FS_Singleton
  <2> QED
    BY <2>1, <2>2, FS_AddElement
<1>2. IsFiniteSet(Consumers \X {"field", "arg"})
  BY <1>1, ConsumersAssumption, FS_Product
<1> QED
  BY <1>2, FS_Subset

\* The count of the holders is the share of one consumer and the rest.
LEMMA HoldersCount ==
    ASSUME NEW c \in Consumers, NEW d \in Dicts
    PROVE  /\ Cardinality(HoldersOf(d) \ {<<c, "field">>, <<c, "arg">>}) \in Nat
           /\ Cardinality(HoldersOf(d)) =
                Cardinality(HoldersOf(d) \ {<<c, "field">>, <<c, "arg">>}) + Share(c, d)
           /\ Share(c, d) \in 0..2
           /\ HoldersOf(d) = {} => Share(c, d) = 0
<1>1. /\ <<c, "field">> \in HoldersOf(d) <=> field[c] = d
      /\ <<c, "arg">> \in HoldersOf(d) <=> pc[c] \in LoadPCs /\ arg[c] = d
  BY DEF HoldersOf, LoadPCs
<1>2. IsFiniteSet(HoldersOf(d))
  <2>1. HoldersOf(d) \subseteq Consumers \X {"field", "arg"}
    BY DEF HoldersOf
  <2> QED
    BY <2>1, HoldersBound
<1>3. <<c, "field">> # <<c, "arg">>
  OBVIOUS
<1>4. /\ Cardinality(HoldersOf(d) \ {<<c, "field">>, <<c, "arg">>}) \in Nat
      /\ Cardinality(HoldersOf(d)) =
           Cardinality(HoldersOf(d) \ {<<c, "field">>, <<c, "arg">>})
              + (IF <<c, "field">> \in HoldersOf(d) THEN 1 ELSE 0)
              + (IF <<c, "arg">> \in HoldersOf(d) THEN 1 ELSE 0)
  BY <1>2, <1>3, CountApart
<1> QED
  BY <1>1, <1>4 DEF Share

\* What one consumer does changes its own share of the count only.
LEMMA HoldersMove ==
    ASSUME NEW c \in Consumers, NEW d \in Dicts,
           \A e \in Consumers \ {c} : field'[e] = field[e] /\ pc'[e] = pc[e] /\ arg'[e] = arg[e]
    PROVE  /\ Cardinality(HoldersOf(d)) \in Nat /\ Cardinality(HoldersOf(d)') \in Nat
           /\ Share(c, d) \in 0..2 /\ Share(c, d)' \in 0..2
           /\ Cardinality(HoldersOf(d)') - Cardinality(HoldersOf(d)) = Share(c, d)' - Share(c, d)
<1> DEFINE H == {<<c, "field">>, <<c, "arg">>}
<1>1. HoldersOf(d)' \ H = HoldersOf(d) \ H
  BY DEF HoldersOf
<1>2. /\ <<c, "field">> \in HoldersOf(d)' <=> field'[c] = d
      /\ <<c, "arg">> \in HoldersOf(d)' <=> pc'[c] \in LoadPCs /\ arg'[c] = d
  BY DEF HoldersOf, LoadPCs
<1>3. IsFiniteSet(HoldersOf(d)')
  <2>1. HoldersOf(d)' \subseteq Consumers \X {"field", "arg"}
    BY DEF HoldersOf
  <2> QED
    BY <2>1, HoldersBound
<1>4. <<c, "field">> # <<c, "arg">>
  OBVIOUS
<1> DEFINE F == IF <<c, "field">> \in HoldersOf(d)' THEN 1 ELSE 0
           A == IF <<c, "arg">> \in HoldersOf(d)' THEN 1 ELSE 0
<1>5. /\ Cardinality(HoldersOf(d)' \ H) \in Nat
      /\ Cardinality(HoldersOf(d)') = Cardinality(HoldersOf(d)' \ H) + F + A
  BY <1>3, <1>4, CountApart
<1>6. Share(c, d)' = F + A /\ F \in 0..1 /\ A \in 0..1
  BY <1>2 DEF Share
<1>7. /\ Cardinality(HoldersOf(d) \ H) \in Nat
      /\ Cardinality(HoldersOf(d)) = Cardinality(HoldersOf(d) \ H) + Share(c, d)
      /\ Share(c, d) \in 0..2
  BY HoldersCount
<1> HIDE DEF H, F, A
<1>8. Cardinality(HoldersOf(d)' \ H) = Cardinality(HoldersOf(d) \ H)
  BY <1>1
<1> QED
  BY <1>5, <1>6, <1>7, <1>8

\* A lock is at least the share of each consumer; a closed dictionary has no holder.
LEMMA LockAtLeastShare ==
    ASSUME IndInv, NEW c \in Consumers, NEW d \in Dicts
    PROVE  /\ dictLock[d] \in -1..MaxLock
           /\ dictLock[d] = -1 => Share(c, d) = 0
           /\ dictLock[d] # -1 => dictLock[d] >= Share(c, d)
<1>1. dictLock[d] \in -1..MaxLock
  BY DEF IndInv, TypeOK
<1>2. /\ Cardinality(HoldersOf(d) \ {<<c, "field">>, <<c, "arg">>}) \in Nat
      /\ Cardinality(HoldersOf(d)) =
           Cardinality(HoldersOf(d) \ {<<c, "field">>, <<c, "arg">>}) + Share(c, d)
      /\ Share(c, d) \in 0..2
      /\ HoldersOf(d) = {} => Share(c, d) = 0
  BY HoldersCount
<1>3. Cardinality(HoldersOf(d)) \in Nat /\ Cardinality(HoldersOf(d)) >= Share(c, d)
  BY <1>2
<1>4. dictLock[d] = -1 => HoldersOf(d) = {}
  BY DEF IndInv, LockCoversHolders
<1>5. dictLock[d] # -1 => dictLock[d] >= Cardinality(HoldersOf(d))
  BY DEF IndInv, LockCoversHolders
<1>6. dictLock[d] # -1 => dictLock[d] >= Share(c, d)
  BY <1>1, <1>2, <1>3, <1>5, DictAssumption
<1> QED
  BY <1>1, <1>2, <1>4, <1>6

\* A set of holders with no element counted is empty.
LEMMA EmptyHolders ==
    ASSUME NEW S, S \subseteq Consumers \X {"field", "arg"}, Cardinality(S) = 0
    PROVE  S = {}
  BY HoldersBound, FS_EmptySet

\* A consumer whose lock moves at least as much as its share keeps the locks right.
LEMMA LockMove ==
    ASSUME IndInv, NEW c \in Consumers,
           \A e \in Consumers \ {c} : field'[e] = field[e] /\ pc'[e] = pc[e] /\ arg'[e] = arg[e],
           \A d \in Dicts :
              /\ dictLock[d] = -1 => dictLock'[d] = -1 /\ Share(c, d)' = 0
              /\ dictLock[d] # -1 => /\ dictLock'[d] \in 0..MaxLock
                                     /\ dictLock'[d] - dictLock[d] >= Share(c, d)' - Share(c, d)
    PROVE  LockCoversHolders'
<1> SUFFICES ASSUME NEW d \in Dicts
             PROVE  /\ dictLock'[d] = -1 => HoldersOf(d)' = {}
                    /\ dictLock'[d] # -1 => dictLock'[d] >= Cardinality(HoldersOf(d)')
  BY DEF LockCoversHolders
<1>1. /\ Cardinality(HoldersOf(d)) \in Nat /\ Cardinality(HoldersOf(d)') \in Nat
      /\ Share(c, d) \in 0..2 /\ Share(c, d)' \in 0..2
      /\ Cardinality(HoldersOf(d)') - Cardinality(HoldersOf(d)) = Share(c, d)' - Share(c, d)
  BY HoldersMove
<1>2. dictLock[d] \in -1..MaxLock
  BY DEF IndInv, TypeOK
<1>3. CASE dictLock[d] = -1
  <2>1. Cardinality(HoldersOf(d)) = 0
    BY <1>3, FS_EmptySet DEF IndInv, LockCoversHolders
  <2>2. Share(c, d) = 0
    BY <1>3, LockAtLeastShare
  <2>3. Cardinality(HoldersOf(d)') = 0
    BY <1>1, <1>3, <2>1, <2>2
  <2>4. HoldersOf(d)' \subseteq Consumers \X {"field", "arg"}
    BY DEF HoldersOf
  <2> QED
    BY <1>3, <2>3, <2>4, EmptyHolders
<1>4. CASE dictLock[d] # -1
  <2>1. dictLock[d] >= Cardinality(HoldersOf(d))
    BY <1>4 DEF IndInv, LockCoversHolders
  <2> QED
    BY <1>1, <1>2, <1>4, <2>1, DictAssumption
<1> QED
  BY <1>3, <1>4
\* releaseSharedLock() of a dictionary the caller has a share in, which it gives up.
\* Releasing null is no release.
LEMMA LockReleased ==
    ASSUME IndInv, NEW c \in Consumers, NEW x \in Dicts \cup {NoDict},
           x \in Dicts => Share(c, x) >= 1,
           dictLock' = Released(dictLock, x),
           \A e \in Consumers \ {c} : field'[e] = field[e] /\ pc'[e] = pc[e] /\ arg'[e] = arg[e],
           \A d \in Dicts : Share(c, d)' = IF d = x THEN Share(c, d) - 1 ELSE Share(c, d)
    PROVE  dictLock' \in [Dicts -> -1..MaxLock] /\ LockCoversHolders'
<1>1. ASSUME NEW d \in Dicts
      PROVE  /\ dictLock'[d] \in -1..MaxLock
             /\ dictLock[d] = -1 => dictLock'[d] = -1 /\ Share(c, d)' = 0
             /\ dictLock[d] # -1 => /\ dictLock'[d] \in 0..MaxLock
                                    /\ dictLock'[d] - dictLock[d] >= Share(c, d)' - Share(c, d)
  <2>1. /\ dictLock[d] \in -1..MaxLock
        /\ dictLock[d] = -1 => Share(c, d) = 0
        /\ dictLock[d] # -1 => dictLock[d] >= Share(c, d)
    BY LockAtLeastShare
  <2>2. dictLock'[d] = IF d = x THEN dictLock[d] - 1 ELSE dictLock[d]
    BY DEF Released
  <2>3. Share(c, d) \in 0..2
    BY DEF Share
  <2>4. Share(c, d)' = IF d = x THEN Share(c, d) - 1 ELSE Share(c, d)
    OBVIOUS
  <2> QED
    BY <2>1, <2>2, <2>3, <2>4, DictAssumption
<1>2. dictLock' = [d \in Dicts |-> dictLock'[d]]
  BY DEF Released
<1>3. LockCoversHolders'
  BY <1>1, LockMove
<1> QED
  BY <1>1, <1>2, <1>3

\* A successful acquireSharedLock(): the caller has one share more.
LEMMA LockAcquired ==
    ASSUME IndInv, NEW c \in Consumers, NEW x \in Dicts, CanAcquire(x), dictLock' = Acquired(x),
           \A e \in Consumers \ {c} : field'[e] = field[e] /\ pc'[e] = pc[e] /\ arg'[e] = arg[e],
           \A d \in Dicts : Share(c, d)' = IF d = x THEN Share(c, d) + 1 ELSE Share(c, d)
    PROVE  dictLock' \in [Dicts -> -1..MaxLock] /\ LockCoversHolders'
<1>1. dictLock' \in [Dicts -> -1..MaxLock]
  BY DictAssumption DEF IndInv, TypeOK, CanAcquire, Acquired
<1>2. ASSUME NEW d \in Dicts
      PROVE  /\ dictLock[d] = -1 => dictLock'[d] = -1 /\ Share(c, d)' = 0
             /\ dictLock[d] # -1 => /\ dictLock'[d] \in 0..MaxLock
                                    /\ dictLock'[d] - dictLock[d] >= Share(c, d)' - Share(c, d)
  <2>1. dictLock[d] \in -1..MaxLock /\ (dictLock[d] = -1 => Share(c, d) = 0)
    BY LockAtLeastShare
  <2>2. /\ dictLock'[d] = IF d = x THEN dictLock[d] + 1 ELSE dictLock[d]
        /\ d = x => dictLock[d] \in 0..MaxLock - 1
    BY DEF IndInv, TypeOK, Acquired, CanAcquire
  <2>3. Share(c, d) \in 0..2
    BY DEF Share
  <2>4. Share(c, d)' = IF d = x THEN Share(c, d) + 1 ELSE Share(c, d)
    OBVIOUS
  <2> QED
    BY <2>1, <2>2, <2>3, <2>4, DictAssumption
<1> QED
  BY <1>1, <1>2, LockMove

\* A consumer that leaves the locks alone and gains no share.
LEMMA LockKept ==
    ASSUME IndInv, NEW c \in Consumers, UNCHANGED dictLock,
           \A e \in Consumers \ {c} : field'[e] = field[e] /\ pc'[e] = pc[e] /\ arg'[e] = arg[e],
           \A d \in Dicts : Share(c, d)' <= Share(c, d)
    PROVE  LockCoversHolders'
<1>1. \A d \in Dicts : /\ Share(c, d) \in 0..2 /\ Share(c, d)' \in 0..2
                       /\ dictLock[d] \in -1..MaxLock
  BY DEF Share, IndInv, TypeOK
<1>2. \A d \in Dicts : dictLock[d] = -1 => Share(c, d) = 0
  BY LockAtLeastShare
<1>3. \A d \in Dicts :
         /\ dictLock[d] = -1 => dictLock'[d] = -1 /\ Share(c, d)' = 0
         /\ dictLock[d] # -1 => /\ dictLock'[d] \in 0..MaxLock
                                /\ dictLock'[d] - dictLock[d] >= Share(c, d)' - Share(c, d)
  BY <1>1, <1>2, DictAssumption
<1> QED
  BY <1>3, LockMove

\* Which shares c has: one for its field, one for the argument of a method that
\* has acquired it.
LEMMA Shares ==
    ASSUME NEW c \in Consumers, NEW d \in Dicts
    PROVE  /\ Share(c, d) \in 0..2
           /\ field[c] = d => Share(c, d) >= 1
           /\ pc[c] \in LoadPCs /\ arg[c] = d => Share(c, d) >= 1
<1>1. Share(c, d) \in 0..2
  BY DEF Share
<1>2. CASE field[c] = d
  BY <1>2 DEF Share
<1>3. CASE pc[c] \in LoadPCs /\ arg[c] = d
  BY <1>3 DEF Share
<1> QED
  BY <1>1, <1>2, <1>3

-----------------------------------------------------------------------------
(***************************************************************************)
(* Every step preserves the inductive invariant.  Contexts first.          *)
(***************************************************************************)
USE DEF Goto, Return, Call, Consumers, Streams

\* loadDict(dict) locks the context and no dictionary yet.
LEMMA CtxLoadDictStep ==
    ASSUME IndInv, NEW c \in Ctxs, NEW d \in Dicts \cup {NoDict}, CtxLoadDict(c, d)
    PROVE  IndInv'
<1> USE DictAssumption, ConsumersAssumption DEF IndInv, TypeOK, CtxLoadDict, CtxMayEnter
<1>1. \A e \in Consumers \ {c} : field'[e] = field[e] /\ pc'[e] = pc[e] /\ arg'[e] = arg[e]
  OBVIOUS
<1>2. \A x \in Dicts : Share(c, x)' <= Share(c, x)
  BY DEF Share, LoadPCs
<1>3. LockCoversHolders'
  BY <1>1, <1>2, LockKept
<1>4. TypeOK'
  OBVIOUS
<1>5. MethodsInv'
  BY DEF MethodsInv
<1>6. PointerInv'
  BY DEF MethodsInv, PointerInv
<1> QED
  BY <1>3, <1>4, <1>5, <1>6

\* acquireSharedLock() of the dictionary succeeds: c has a share in it from now on.
LEMMA CtxAcquireDictStep ==
    ASSUME IndInv, NEW c \in Ctxs, CtxAcquireDict(c), CanAcquire(arg[c])
    PROVE  IndInv'
<1> USE DictAssumption, ConsumersAssumption DEF IndInv, TypeOK, CtxAcquireDict
<1>1. \A e \in Consumers \ {c} : field'[e] = field[e] /\ pc'[e] = pc[e] /\ arg'[e] = arg[e]
  OBVIOUS
<1>2. \A e \in Dicts : Share(c, e)' = IF e = arg[c] THEN Share(c, e) + 1 ELSE Share(c, e)
  BY DEF MethodsInv, Share, LoadPCs
<1>3. arg[c] \in Dicts
  BY DEF MethodsInv
<1>4. dictLock' \in [Dicts -> -1..MaxLock] /\ LockCoversHolders'
  BY <1>1, <1>2, <1>3, LockAcquired
<1>5. TypeOK'
  BY <1>4 DEF MethodsInv
<1>6. MethodsInv'
  BY DEF MethodsInv
<1>7. PointerInv'
  BY DEF MethodsInv, PointerInv
<1> QED
  BY <1>4, <1>5, <1>6, <1>7

\* It throws: c had none, and still has none.
LEMMA CtxAcquireThrowsStep ==
    ASSUME IndInv, NEW c \in Ctxs, CtxAcquireDict(c), ~CanAcquire(arg[c])
    PROVE  IndInv'
<1> USE DictAssumption, ConsumersAssumption DEF IndInv, TypeOK, CtxAcquireDict
<1>1. \A e \in Consumers \ {c} : field'[e] = field[e] /\ pc'[e] = pc[e] /\ arg'[e] = arg[e]
  OBVIOUS
<1>2. \A x \in Dicts : Share(c, x)' <= Share(c, x)
  BY DEF Share, LoadPCs
<1>3. LockCoversHolders'
  BY <1>1, <1>2, LockKept
<1>4. TypeOK'
  OBVIOUS
<1>5. MethodsInv'
  BY DEF MethodsInv
<1>6. PointerInv'
  BY DEF MethodsInv, PointerInv
<1> QED
  BY <1>3, <1>4, <1>5, <1>6

\* From here on the native pointer is the argument, which is locked.
LEMMA CtxLoadNativeStep ==
    ASSUME IndInv, NEW c \in Ctxs, CtxLoadNative(c)
    PROVE  IndInv'
<1> USE DictAssumption, ConsumersAssumption DEF IndInv, TypeOK, CtxLoadNative, NativeRef
<1>1. \A e \in Consumers \ {c} : field'[e] = field[e] /\ pc'[e] = pc[e] /\ arg'[e] = arg[e]
  OBVIOUS
<1>2. \A x \in Dicts : Share(c, x)' <= Share(c, x)
  BY DEF Share, LoadPCs
<1>3. LockCoversHolders'
  BY <1>1, <1>2, LockKept
<1>4. TypeOK'
  OBVIOUS
<1>5. MethodsInv'
  BY DEF MethodsInv
<1>6. PointerInv'
  <2>1. ref' = [ref EXCEPT ![c] = arg[c]] /\ pc' = [pc EXCEPT ![c] = "ctxSwap"]
    OBVIOUS
  <2>2. UNCHANGED <<open, arg, field, multiple, stage>> /\ open[c] /\ c \notin DirectStreams
    BY DEF MethodsInv, PointerInv
  <2> QED
    BY <2>1, <2>2 DEF PointerInv
<1> QED
  BY <1>3, <1>4, <1>5, <1>6

\* An error gives up the share and leaves the lock: the lock is larger than needed.
LEMMA CtxLoadErrorStep ==
    ASSUME IndInv, NEW c \in Ctxs, CtxLoadError(c)
    PROVE  IndInv'
<1> USE DictAssumption, ConsumersAssumption DEF IndInv, TypeOK, CtxLoadError, NativeRefFails
<1>1. \A e \in Consumers \ {c} : field'[e] = field[e] /\ pc'[e] = pc[e] /\ arg'[e] = arg[e]
  OBVIOUS
<1>2. \A x \in Dicts : Share(c, x)' <= Share(c, x)
  BY DEF Share, LoadPCs
<1>3. LockCoversHolders'
  BY <1>1, <1>2, LockKept
<1>4. TypeOK'
  BY DEF MethodsInv
<1>5. MethodsInv'
  BY DEF MethodsInv
<1>6. PointerInv'
  BY DEF MethodsInv, PointerInv
<1> QED
  BY <1>3, <1>4, <1>5, <1>6

\* The old dictionary loses its lock and its holder, the new one keeps both.
LEMMA CtxSwapStep ==
    ASSUME IndInv, NEW c \in Ctxs, CtxSwap(c)
    PROVE  IndInv'
<1> USE DictAssumption, ConsumersAssumption DEF IndInv, TypeOK, CtxSwap
<1>1. \A e \in Consumers \ {c} : field'[e] = field[e] /\ pc'[e] = pc[e] /\ arg'[e] = arg[e]
  OBVIOUS
<1>2. \A d \in Dicts : Share(c, d)' = IF d = field[c] THEN Share(c, d) - 1 ELSE Share(c, d)
  BY DEF MethodsInv, Share, LoadPCs
<1>3. field[c] \in Dicts \cup {NoDict} /\ (field[c] \in Dicts => Share(c, field[c]) >= 1)
  BY Shares DEF LoadPCs
<1>4. dictLock' \in [Dicts -> -1..MaxLock] /\ LockCoversHolders'
  BY <1>1, <1>2, <1>3, LockReleased
<1>5. TypeOK'
  BY <1>4 DEF MethodsInv
<1>6. MethodsInv'
  BY DEF MethodsInv
<1>7. PointerInv'
  BY DEF MethodsInv, PointerInv
<1> QED
  BY <1>4, <1>5, <1>6, <1>7

\* loadDict(byte[]) and reset() drop the pointer before the lock is released.
LEMMA CtxLoadBytesStep ==
    ASSUME IndInv, NEW c \in Ctxs, CtxLoadBytes(c)
    PROVE  IndInv'
<1> USE DictAssumption, ConsumersAssumption DEF IndInv, TypeOK, CtxLoadBytes, CtxMayEnter, NativeLoadBytes
<1>1. \A e \in Consumers \ {c} : field'[e] = field[e] /\ pc'[e] = pc[e] /\ arg'[e] = arg[e]
  OBVIOUS
<1>2. \A x \in Dicts : Share(c, x)' <= Share(c, x)
  BY DEF Share, LoadPCs
<1>3. LockCoversHolders'
  BY <1>1, <1>2, LockKept
<1>4. TypeOK'
  OBVIOUS
<1>5. MethodsInv'
  BY DEF MethodsInv
<1>6. PointerInv'
  BY DEF MethodsInv, PointerInv
<1> QED
  BY <1>3, <1>4, <1>5, <1>6

LEMMA CtxResetStep ==
    ASSUME IndInv, NEW c \in Ctxs, CtxReset(c)
    PROVE  IndInv'
<1> USE DictAssumption, ConsumersAssumption DEF IndInv, TypeOK, CtxReset, CtxMayEnter
<1>1. \A e \in Consumers \ {c} : field'[e] = field[e] /\ pc'[e] = pc[e] /\ arg'[e] = arg[e]
  OBVIOUS
<1>2. \A x \in Dicts : Share(c, x)' <= Share(c, x)
  BY DEF Share, LoadPCs
<1>3. LockCoversHolders'
  BY <1>1, <1>2, LockKept
<1>4. TypeOK'
  OBVIOUS
<1>5. MethodsInv'
  BY DEF MethodsInv
<1>6. PointerInv'
  BY DEF MethodsInv, PointerInv
<1> QED
  BY <1>3, <1>4, <1>5, <1>6

\* close() frees the native context, and its pointer, before the dictionary is released.
LEMMA CtxCloseStep ==
    ASSUME IndInv, NEW c \in Ctxs, CtxClose(c)
    PROVE  IndInv'
<1> USE DictAssumption, ConsumersAssumption DEF IndInv, TypeOK, CtxClose
<1>1. \A e \in Consumers \ {c} : field'[e] = field[e] /\ pc'[e] = pc[e] /\ arg'[e] = arg[e]
  OBVIOUS
<1>2. \A x \in Dicts : Share(c, x)' <= Share(c, x)
  BY DEF Share, LoadPCs
<1>3. LockCoversHolders'
  BY <1>1, <1>2, LockKept
<1>4. TypeOK'
  OBVIOUS
<1>5. MethodsInv'
  BY DEF MethodsInv
<1>6. PointerInv'
  BY DEF MethodsInv, PointerInv
<1> QED
  BY <1>3, <1>4, <1>5, <1>6

(***************************************************************************)
(* The streams, and what they share with the contexts.                     *)
(***************************************************************************)
LEMMA ReleaseFieldStep ==
    ASSUME IndInv, NEW c \in Consumers, ReleaseField(c)
    PROVE  IndInv'
<1> USE DictAssumption, ConsumersAssumption DEF IndInv, TypeOK, ReleaseField
<1>1. \A e \in Consumers \ {c} : field'[e] = field[e] /\ pc'[e] = pc[e] /\ arg'[e] = arg[e]
  OBVIOUS
<1>2. \A d \in Dicts : Share(c, d)' = IF d = field[c] THEN Share(c, d) - 1 ELSE Share(c, d)
  BY DEF MethodsInv, Share, LoadPCs
<1>3. field[c] \in Dicts \cup {NoDict} /\ (field[c] \in Dicts => Share(c, field[c]) >= 1)
  BY Shares DEF LoadPCs
<1>4. dictLock' \in [Dicts -> -1..MaxLock] /\ LockCoversHolders'
  BY <1>1, <1>2, <1>3, LockReleased
<1>5. TypeOK'
  BY <1>4 DEF MethodsInv
<1>6. MethodsInv'
  BY DEF MethodsInv
<1>7. PointerInv'
  BY DEF MethodsInv, PointerInv
<1> QED
  BY <1>4, <1>5, <1>6, <1>7

LEMMA StreamSetDictStep ==
    ASSUME IndInv, NEW c \in Streams, NEW d \in Dicts, StreamSetDict(c, d)
    PROVE  IndInv'
<1> USE DictAssumption, ConsumersAssumption DEF IndInv, TypeOK, StreamSetDict
<1>1. \A e \in Consumers \ {c} : field'[e] = field[e] /\ pc'[e] = pc[e] /\ arg'[e] = arg[e]
  OBVIOUS
<1>2. \A e \in Dicts : Share(c, e)' = IF e = d THEN Share(c, e) + 1 ELSE Share(c, e)
  BY DEF MethodsInv, Share, LoadPCs
<1>3. d \in Dicts
  BY DEF MethodsInv
<1>4. dictLock' \in [Dicts -> -1..MaxLock] /\ LockCoversHolders'
  BY <1>1, <1>2, <1>3, LockAcquired
<1>5. TypeOK'
  BY <1>4 DEF MethodsInv
<1>6. MethodsInv'
  BY DEF MethodsInv
<1>7. PointerInv'
  BY DEF MethodsInv, PointerInv
<1> QED
  BY <1>4, <1>5, <1>6, <1>7

LEMMA StreamLoadNativeStep ==
    ASSUME IndInv, NEW c \in Streams, StreamLoadNative(c)
    PROVE  IndInv'
<1> USE DictAssumption, ConsumersAssumption DEF IndInv, TypeOK, StreamLoadNative, NativeRef
<1>1. \A e \in Consumers \ {c} : field'[e] = field[e] /\ pc'[e] = pc[e] /\ arg'[e] = arg[e]
  OBVIOUS
<1>2. \A x \in Dicts : Share(c, x)' <= Share(c, x)
  BY DEF Share, LoadPCs
<1>3. LockCoversHolders'
  BY <1>1, <1>2, LockKept
<1>4. TypeOK'
  OBVIOUS
<1>5. MethodsInv'
  BY DEF MethodsInv
<1>6. PointerInv'
  <2>1. ref' = [ref EXCEPT ![c] = arg[c]] /\ pc' = [pc EXCEPT ![c] = "swap"]
    OBVIOUS
  <2>2. UNCHANGED <<open, arg, field, multiple, stage>> /\ open[c] /\ c \notin DirectStreams
    BY DEF MethodsInv, PointerInv
  <2> QED
    BY <2>1, <2>2 DEF PointerInv
<1> QED
  BY <1>3, <1>4, <1>5, <1>6

\* The error path of setDict() releases what the method acquired.
LEMMA StreamLoadErrorStep ==
    ASSUME IndInv, NEW c \in Streams, StreamLoadError(c)
    PROVE  IndInv'
<1> USE DictAssumption, ConsumersAssumption DEF IndInv, TypeOK, StreamLoadError, NativeRefFails
<1>1. \A e \in Consumers \ {c} : field'[e] = field[e] /\ pc'[e] = pc[e] /\ arg'[e] = arg[e]
  OBVIOUS
<1>2. \A d \in Dicts : Share(c, d)' = IF d = arg[c] THEN Share(c, d) - 1 ELSE Share(c, d)
  BY DEF MethodsInv, Share, LoadPCs
<1>3. arg[c] \in Dicts \cup {NoDict} /\ (arg[c] \in Dicts => Share(c, arg[c]) >= 1)
  BY Shares DEF LoadPCs
<1>4. dictLock' \in [Dicts -> -1..MaxLock] /\ LockCoversHolders'
  BY <1>1, <1>2, <1>3, LockReleased
<1>5. TypeOK'
  BY <1>4 DEF MethodsInv
<1>6. MethodsInv'
  BY DEF MethodsInv
<1>7. PointerInv'
  BY DEF MethodsInv, PointerInv
<1> QED
  BY <1>4, <1>5, <1>6, <1>7

LEMMA StreamSwapStep ==
    ASSUME IndInv, NEW c \in Streams \cup DirectStreams, StreamSwap(c)
    PROVE  IndInv'
<1> USE DictAssumption, ConsumersAssumption DEF IndInv, TypeOK, StreamSwap
<1>1. \A e \in Consumers \ {c} : field'[e] = field[e] /\ pc'[e] = pc[e] /\ arg'[e] = arg[e]
  OBVIOUS
<1>2. \A d \in Dicts : Share(c, d)' = IF d = field[c] THEN Share(c, d) - 1 ELSE Share(c, d)
  BY DEF MethodsInv, Share, LoadPCs
<1>3. field[c] \in Dicts \cup {NoDict} /\ (field[c] \in Dicts => Share(c, field[c]) >= 1)
  BY Shares DEF LoadPCs
<1>4. dictLock' \in [Dicts -> -1..MaxLock] /\ LockCoversHolders'
  BY <1>1, <1>2, <1>3, LockReleased
<1>5. TypeOK'
  BY <1>4 DEF MethodsInv
<1>6. MethodsInv'
  BY DEF MethodsInv
<1>7. PointerInv'
  BY DEF MethodsInv, PointerInv
<1> QED
  BY <1>4, <1>5, <1>6, <1>7

LEMMA StreamSetDictBytesStep ==
    ASSUME IndInv, NEW c \in Streams, StreamSetDictBytes(c)
    PROVE  IndInv'
<1> USE DictAssumption, ConsumersAssumption DEF IndInv, TypeOK, StreamSetDictBytes, NativeLoadBytes
<1>1. \A e \in Consumers \ {c} : field'[e] = field[e] /\ pc'[e] = pc[e] /\ arg'[e] = arg[e]
  OBVIOUS
<1>2. \A x \in Dicts : Share(c, x)' <= Share(c, x)
  BY DEF Share, LoadPCs
<1>3. LockCoversHolders'
  BY <1>1, <1>2, LockKept
<1>4. TypeOK'
  OBVIOUS
<1>5. MethodsInv'
  BY DEF MethodsInv
<1>6. PointerInv'
  BY DEF MethodsInv, PointerInv
<1> QED
  BY <1>3, <1>4, <1>5, <1>6

LEMMA SetRefMultipleDDictsStep ==
    ASSUME IndInv, NEW c \in MultiStreams, SetRefMultipleDDicts(c)
    PROVE  IndInv'
<1> USE DictAssumption, ConsumersAssumption DEF IndInv, TypeOK, SetRefMultipleDDicts
<1>1. \A e \in Consumers \ {c} : field'[e] = field[e] /\ pc'[e] = pc[e] /\ arg'[e] = arg[e]
  OBVIOUS
<1>2. \A x \in Dicts : Share(c, x)' <= Share(c, x)
  BY DEF Share, LoadPCs
<1>3. LockCoversHolders'
  BY <1>1, <1>2, LockKept
<1>4. TypeOK'
  OBVIOUS
<1>5. MethodsInv'
  BY DEF MethodsInv
<1>6. PointerInv'
  BY DEF MethodsInv, PointerInv
<1> QED
  BY <1>3, <1>4, <1>5, <1>6

\* close() releases the dictionary, and the stream accepts no work from here on.
LEMMA StreamCloseReleaseStep ==
    ASSUME IndInv, NEW c \in InStreams \cup OutStreams, StreamCloseRelease(c)
    PROVE  IndInv'
<1> USE DictAssumption, ConsumersAssumption DEF IndInv, TypeOK, StreamCloseRelease
<1>1. \A e \in Consumers \ {c} : field'[e] = field[e] /\ pc'[e] = pc[e] /\ arg'[e] = arg[e]
  OBVIOUS
<1>2. \A d \in Dicts : Share(c, d)' = IF d = field[c] THEN Share(c, d) - 1 ELSE Share(c, d)
  BY DEF MethodsInv, Share, LoadPCs
<1>3. field[c] \in Dicts \cup {NoDict} /\ (field[c] \in Dicts => Share(c, field[c]) >= 1)
  BY Shares DEF LoadPCs
<1>4. dictLock' \in [Dicts -> -1..MaxLock] /\ LockCoversHolders'
  BY <1>1, <1>2, <1>3, LockReleased
<1>5. TypeOK'
  BY <1>4 DEF MethodsInv
<1>6. MethodsInv'
  BY DEF MethodsInv
<1>7. PointerInv'
  BY DEF MethodsInv, PointerInv
<1> QED
  BY <1>4, <1>5, <1>6, <1>7

LEMMA StreamCloseFreeStep ==
    ASSUME IndInv, NEW c \in InStreams \cup OutStreams, StreamCloseFree(c)
    PROVE  IndInv'
<1> USE DictAssumption, ConsumersAssumption DEF IndInv, TypeOK, StreamCloseFree
<1>1. \A e \in Consumers \ {c} : field'[e] = field[e] /\ pc'[e] = pc[e] /\ arg'[e] = arg[e]
  OBVIOUS
<1>2. \A x \in Dicts : Share(c, x)' <= Share(c, x)
  BY DEF Share, LoadPCs
<1>3. LockCoversHolders'
  BY <1>1, <1>2, LockKept
<1>4. TypeOK'
  OBVIOUS
<1>5. MethodsInv'
  BY DEF MethodsInv
<1>6. PointerInv'
  BY DEF MethodsInv, PointerInv
<1> QED
  BY <1>3, <1>4, <1>5, <1>6

LEMMA BufCloseStep ==
    ASSUME IndInv, NEW c \in BufStreams \cup DirectStreams, BufClose(c)
    PROVE  IndInv'
<1> USE DictAssumption, ConsumersAssumption DEF IndInv, TypeOK, BufClose
<1>1. \A e \in Consumers \ {c} : field'[e] = field[e] /\ pc'[e] = pc[e] /\ arg'[e] = arg[e]
  OBVIOUS
<1>2. \A x \in Dicts : Share(c, x)' <= Share(c, x)
  BY DEF Share, LoadPCs
<1>3. LockCoversHolders'
  BY <1>1, <1>2, LockKept
<1>4. TypeOK'
  OBVIOUS
<1>5. MethodsInv'
  BY DEF MethodsInv
<1>6. PointerInv'
  BY DEF MethodsInv, PointerInv
<1> QED
  BY <1>3, <1>4, <1>5, <1>6

\* The direct streams: setDict() only where no pointer has been handed over.
LEMMA DirectSetDictStep ==
    ASSUME IndInv, NEW c \in DirectStreams, NEW d \in Dicts, DirectSetDict(c, d)
    PROVE  IndInv'
<1> USE DictAssumption, ConsumersAssumption DEF IndInv, TypeOK, DirectSetDict
<1>1. \A e \in Consumers \ {c} : field'[e] = field[e] /\ pc'[e] = pc[e] /\ arg'[e] = arg[e]
  OBVIOUS
<1>2. \A e \in Dicts : Share(c, e)' = IF e = d THEN Share(c, e) + 1 ELSE Share(c, e)
  BY DEF MethodsInv, Share, LoadPCs
<1>3. d \in Dicts
  BY DEF MethodsInv
<1>4. dictLock' \in [Dicts -> -1..MaxLock] /\ LockCoversHolders'
  BY <1>1, <1>2, <1>3, LockAcquired
<1>5. TypeOK'
  BY <1>4 DEF MethodsInv
<1>6. MethodsInv'
  BY DEF MethodsInv
<1>7. PointerInv'
  BY DEF MethodsInv, PointerInv
<1> QED
  BY <1>4, <1>5, <1>6, <1>7

LEMMA DirectSetDictBytesStep ==
    ASSUME IndInv, NEW c \in DirectStreams, DirectSetDictBytes(c)
    PROVE  IndInv'
<1> USE DictAssumption, ConsumersAssumption DEF IndInv, TypeOK, DirectSetDictBytes
<1>1. \A e \in Consumers \ {c} : field'[e] = field[e] /\ pc'[e] = pc[e] /\ arg'[e] = arg[e]
  OBVIOUS
<1>2. \A x \in Dicts : Share(c, x)' <= Share(c, x)
  BY DEF Share, LoadPCs
<1>3. LockCoversHolders'
  BY <1>1, <1>2, LockKept
<1>4. TypeOK'
  OBVIOUS
<1>5. MethodsInv'
  BY DEF MethodsInv
<1>6. PointerInv'
  BY DEF MethodsInv, PointerInv
<1> QED
  BY <1>3, <1>4, <1>5, <1>6

LEMMA DirectInitializeStep ==
    ASSUME IndInv, NEW c \in DirectStreams, DirectInitialize(c)
    PROVE  IndInv'
<1> USE DictAssumption, ConsumersAssumption DEF IndInv, TypeOK, DirectInitialize
<1>1. \A e \in Consumers \ {c} : field'[e] = field[e] /\ pc'[e] = pc[e] /\ arg'[e] = arg[e]
  OBVIOUS
<1>2. \A x \in Dicts : Share(c, x)' <= Share(c, x)
  BY DEF Share, LoadPCs
<1>3. LockCoversHolders'
  BY <1>1, <1>2, LockKept
<1>4. TypeOK'
  OBVIOUS
<1>5. MethodsInv'
  BY DEF MethodsInv
<1>6. PointerInv'
  BY DEF MethodsInv, PointerInv
<1> QED
  BY <1>3, <1>4, <1>5, <1>6

\* A native call without a set of dictionaries keeps the pointer it has.
LEMMA NativeWorkStep ==
    ASSUME IndInv, NEW c \in Ctxs \cup Streams, NativeWork(c)
    PROVE  IndInv'
<1> USE DictAssumption, ConsumersAssumption DEF IndInv, TypeOK, NativeWork
<1>1. \A e \in Consumers \ {c} : field'[e] = field[e] /\ pc'[e] = pc[e] /\ arg'[e] = arg[e]
  OBVIOUS
<1>2. \A x \in Dicts : Share(c, x)' <= Share(c, x)
  BY DEF Share, LoadPCs
<1>3. LockCoversHolders'
  BY <1>1, <1>2, LockKept
<1>4. TypeOK'
  OBVIOUS
<1>5. MethodsInv'
  BY DEF MethodsInv
<1>6. PointerInv'
  BY DEF MethodsInv, PointerInv
<1> QED
  BY <1>3, <1>4, <1>5, <1>6

\* The workers of a compressor touch neither locks nor pointers.
LEMMA WorkersStep ==
    ASSUME IndInv, NEW c \in MTConsumers, PostFirstJob(c) \/ WorkerDone(c) \/ AbandonFrame(c)
    PROVE  IndInv'
<1> USE DictAssumption, ConsumersAssumption DEF IndInv, TypeOK, PostFirstJob, WorkerDone, AbandonFrame
<1>1. UNCHANGED <<dictLock, ownLock, open, pc, arg, field, ref, refSet, multiple>>
  OBVIOUS
<1>2. \A d \in Dicts : HoldersOf(d)' = HoldersOf(d)
  BY <1>1 DEF HoldersOf
<1>3. LockCoversHolders'
  BY <1>1, <1>2 DEF LockCoversHolders
<1>4. TypeOK'
  OBVIOUS
<1>5. MethodsInv'
  BY <1>1 DEF MethodsInv
<1>6. \A e \in DirectStreams : stage'[e] = stage[e]
  OBVIOUS
<1>7. PointerInv'
  BY <1>1, <1>6 DEF PointerInv
<1> QED
  BY <1>3, <1>4, <1>5, <1>7

\* close() of a dictionary: with a lock of zero it has no holder.
LEMMA DictCloseStep ==
    ASSUME IndInv, NEW d \in Dicts, DictClose(d)
    PROVE  IndInv'
<1>1. TypeOK' /\ MethodsInv' /\ PointerInv'
  BY DictAssumption DEF IndInv, TypeOK, MethodsInv, PointerInv, DictClose
<1>2. \A e \in Dicts : HoldersOf(e)' = HoldersOf(e)
  BY DEF HoldersOf, DictClose
<1>3. HoldersOf(d) = {}
  <2>1. HoldersOf(d) \subseteq Consumers \X {"field", "arg"}
    BY DEF HoldersOf
  <2>2. Cardinality(HoldersOf(d)) \in Nat
    BY <2>1, HoldersBound, FS_CardinalityType
  <2>3. 0 >= Cardinality(HoldersOf(d))
    BY DEF IndInv, LockCoversHolders, DictClose
  <2>4. Cardinality(HoldersOf(d)) = 0
    BY <2>2, <2>3
  <2> QED
    BY <2>1, <2>4, EmptyHolders
<1>4. LockCoversHolders'
  BY <1>2, <1>3 DEF IndInv, TypeOK, LockCoversHolders, DictClose
<1> QED
  BY <1>1, <1>4 DEF IndInv

\* Init establishes the inductive invariant.
LEMMA InitInd == Init => IndInv
<1> SUFFICES ASSUME Init PROVE IndInv
  OBVIOUS
<1>1. TypeOK
  BY DictAssumption DEF Init, TypeOK
<1>2. MethodsInv /\ PointerInv
  BY DEF Init, MethodsInv, PointerInv
<1>3. ASSUME NEW d \in Dicts
      PROVE  HoldersOf(d) = {}
  BY DictAssumption DEF Init, HoldersOf
<1>4. LockCoversHolders
  <2>1. Cardinality({}) = 0
    BY FS_EmptySet
  <2> QED
    BY <1>3, <2>1 DEF Init, LockCoversHolders
<1> QED
  BY <1>1, <1>2, <1>4 DEF IndInv

\* Every step preserves it.
LEMMA NextInd == IndInv /\ [Next]_vars => IndInv'
<1> SUFFICES ASSUME IndInv, [Next]_vars PROVE IndInv'
  OBVIOUS
<1>1. ASSUME NEW c \in Ctxs, CtxNext(c)
      PROVE  IndInv'
  BY <1>1, CtxLoadDictStep, CtxAcquireDictStep, CtxAcquireThrowsStep, CtxLoadNativeStep,
     CtxLoadErrorStep, CtxSwapStep, CtxLoadBytesStep, CtxResetStep, CtxCloseStep,
     ReleaseFieldStep, NativeWorkStep DEF CtxNext
<1>2. ASSUME NEW c \in Streams, StreamNext(c)
      PROVE  IndInv'
  BY <1>2, StreamSetDictStep, StreamLoadNativeStep, StreamLoadErrorStep, StreamSwapStep,
     StreamSetDictBytesStep, NativeWorkStep DEF StreamNext
<1>3. ASSUME NEW c \in InStreams \cup OutStreams, StreamCloseRelease(c) \/ StreamCloseFree(c)
      PROVE  IndInv'
  BY <1>3, StreamCloseReleaseStep, StreamCloseFreeStep
<1>4. ASSUME NEW c \in BufStreams \cup DirectStreams, BufClose(c) \/ ReleaseField(c)
      PROVE  IndInv'
  BY <1>4, BufCloseStep, ReleaseFieldStep
<1>5. ASSUME NEW c \in DirectStreams,
             \/ \E d \in Dicts : DirectSetDict(c, d)
             \/ StreamSwap(c) \/ DirectSetDictBytes(c) \/ DirectInitialize(c)
      PROVE  IndInv'
  BY <1>5, DirectSetDictStep, StreamSwapStep, DirectSetDictBytesStep, DirectInitializeStep
<1>6. CASE UNCHANGED vars
  <2>1. \A d \in Dicts : HoldersOf(d)' = HoldersOf(d)
    BY <1>6 DEF vars, HoldersOf
  <2>2. LockCoversHolders'
    BY <1>6, <2>1 DEF vars, IndInv, LockCoversHolders
  <2>3. TypeOK' /\ MethodsInv' /\ PointerInv'
    BY <1>6 DEF vars, IndInv, TypeOK, MethodsInv, PointerInv
  <2> QED
    BY <2>2, <2>3 DEF IndInv
<1> QED
  BY <1>1, <1>2, <1>3, <1>4, <1>5, <1>6, DictCloseStep, SetRefMultipleDDictsStep, WorkersStep DEF Next

\* What the workers of a frame in progress read stays what the context points at:
\* a native call that would change the pointer is refused in the middle of a frame,
\* and a call that ends the frame, or the object, ends their claim.
LEMMA WorkersNext ==
    ASSUME IndInv, WorkersInv, [Next]_vars
    PROVE  WorkersInv'
<1> USE DictAssumption, ConsumersAssumption DEF TypeOK, WorkersInv
<1>0. TypeOK /\ \A c \in Consumers \ MultiStreams : ~multiple[c]
  BY DEF IndInv, PointerInv
<1>1. ASSUME NEW c \in Ctxs, CtxNext(c)
      PROVE  WorkersInv'
  <2>1. ASSUME NEW d \in Dicts \cup {NoDict}, CtxLoadDict(c, d)
        PROVE  WorkersInv'
    BY <2>1 DEF CtxLoadDict
  <2>2. CASE CtxAcquireDict(c) \/ CtxSwap(c) \/ ReleaseField(c)
    BY <2>2 DEF CtxAcquireDict, CtxSwap, ReleaseField
  <2>3. CASE CtxLoadNative(c)
    BY <1>0, <2>3 DEF CtxLoadNative, NativeRef
  <2>4. CASE CtxLoadError(c)
    BY <1>0, <2>4 DEF CtxLoadError, NativeRefFails
  <2>5. CASE CtxLoadBytes(c)
    BY <1>0, <2>5 DEF CtxLoadBytes, NativeLoadBytes
  <2>6. CASE CtxReset(c)
    BY <1>0, <2>6 DEF CtxReset
  <2>7. CASE CtxClose(c)
    BY <1>0, <2>7 DEF CtxClose
  <2>8. CASE NativeWork(c)
    BY <1>0, <2>8 DEF NativeWork
  <2> QED
    BY <1>1, <2>1, <2>2, <2>3, <2>4, <2>5, <2>6, <2>7, <2>8 DEF CtxNext
<1>2. ASSUME NEW c \in Streams, StreamNext(c)
      PROVE  WorkersInv'
  <2>1. ASSUME NEW d \in Dicts, StreamSetDict(c, d)
        PROVE  WorkersInv'
    BY <2>1 DEF StreamSetDict
  <2>2. CASE StreamLoadNative(c)
    BY <1>0, <2>2 DEF StreamLoadNative, NativeRef
  <2>3. CASE StreamLoadError(c)
    BY <1>0, <2>3 DEF StreamLoadError, NativeRefFails
  <2>4. CASE StreamSwap(c)
    BY <2>4 DEF StreamSwap
  <2>5. CASE StreamSetDictBytes(c)
    BY <1>0, <2>5 DEF StreamSetDictBytes, NativeLoadBytes
  <2>6. CASE NativeWork(c)
    BY <1>0, <2>6 DEF NativeWork
  <2> QED
    BY <1>2, <2>1, <2>2, <2>3, <2>4, <2>5, <2>6 DEF StreamNext
<1>3. ASSUME NEW c \in InStreams \cup OutStreams, StreamCloseRelease(c) \/ StreamCloseFree(c)
      PROVE  WorkersInv'
  BY <1>0, <1>3 DEF StreamCloseRelease, StreamCloseFree
<1>4. ASSUME NEW c \in BufStreams \cup DirectStreams, BufClose(c) \/ ReleaseField(c)
      PROVE  WorkersInv'
  BY <1>0, <1>4 DEF BufClose, ReleaseField
<1>5. ASSUME NEW c \in DirectStreams,
             \/ \E d \in Dicts : DirectSetDict(c, d)
             \/ StreamSwap(c) \/ DirectSetDictBytes(c) \/ DirectInitialize(c)
      PROVE  WorkersInv'
  BY <1>0, <1>5 DEF DirectSetDict, StreamSwap, DirectSetDictBytes, DirectInitialize
<1>6. ASSUME NEW c \in MTConsumers, PostFirstJob(c) \/ WorkerDone(c) \/ AbandonFrame(c)
      PROVE  WorkersInv'
  BY <1>0, <1>6 DEF PostFirstJob, WorkerDone, AbandonFrame
<1>7. ASSUME NEW d \in Dicts, DictClose(d)
      PROVE  WorkersInv'
  BY <1>7 DEF DictClose
<1>8. ASSUME NEW c \in MultiStreams, SetRefMultipleDDicts(c)
      PROVE  WorkersInv'
  BY <1>8 DEF SetRefMultipleDDicts
<1>9. CASE UNCHANGED vars
  BY <1>9 DEF vars
<1> QED
  BY <1>1, <1>2, <1>3, <1>4, <1>5, <1>6, <1>7, <1>8, <1>9 DEF Next

-----------------------------------------------------------------------------
(***************************************************************************)
(* The theorems                                                            *)
(***************************************************************************)
\* A dictionary with a holder is not closed.
LEMMA HeldIsOpen ==
    ASSUME IndInv, NEW c \in Consumers, NEW d \in Dicts,
           field[c] = d \/ (pc[c] \in LoadPCs /\ arg[c] = d)
    PROVE  dictLock[d] # -1
<1>1. HoldersOf(d) # {}
  BY DEF HoldersOf, LoadPCs
<1> QED
  BY <1>1 DEF IndInv, LockCoversHolders

\* The invariants imply that neither a native call nor a worker of the frame in
\* progress reads a freed dictionary.
LEMMA PointersAlive == IndInv /\ WorkersInv => NativeDictsAlive
<1> SUFFICES ASSUME IndInv, WorkersInv, NEW c \in Consumers, open[c], pc[c] # "free", c \notin MultiStreams,
                    NEW d \in Reachable(c)
             PROVE  dictLock[d] # -1
  BY DEF NativeDictsAlive
<1>1. d = ref[c] /\ d # NoDict /\ d \in Dicts
  BY DEF Reachable, IndInv, TypeOK, PointerInv, WorkersInv
<1>2. field[c] = d \/ (pc[c] \in LoadPCs /\ arg[c] = d)
  BY <1>1 DEF IndInv, TypeOK, MethodsInv, PointerInv, LoadPCs
<1> QED
  BY <1>1, <1>2, HeldIsOpen

\* Every variable has its type: no lock count ever leaves its range, however the
\* errors leak locks.
THEOREM DictTypeCorrect == Spec => []TypeOK
<1>1. IndInv => TypeOK
  BY DEF IndInv
<1> QED
  BY <1>1, InitInd, NextInd, PTL DEF Spec

\* No native call reads a freed dictionary, whoever closes the dictionary and
\* whenever: a consumer's pointer never outlives the lock that its Java object
\* holds, through loadDict, setDict, reset, close and their error paths.  The same
\* goes for the workers of a frame, as long as the frame is in progress; once it is
\* given up with workers running, nothing is claimed for them (the code then does
\* not wait: WorkerDictsAlive).
THEOREM DictsAlive == Spec => []NativeDictsAlive
<1>1. Init => WorkersInv
  BY DEF Init, WorkersInv
<1>2. IndInv /\ WorkersInv /\ [Next]_vars => IndInv' /\ WorkersInv'
  BY NextInd, WorkersNext
<1> QED
  BY <1>1, <1>2, InitInd, PointersAlive, PTL DEF Spec

-----------------------------------------------------------------------------
\* A step of c in which its locks and its share move alike pairs them.
LEMMA PairMove ==
    ASSUME NEW c \in Consumers, NEW d \in Dicts,
           \A e \in Consumers \ {c} : field'[e] = field[e] /\ pc'[e] = pc[e] /\ arg'[e] = arg[e],
           dictLock'[d] - dictLock[d] = Share(c, d)' - Share(c, d)
    PROVE  dictLock'[d] - dictLock[d] = Cardinality(HoldersOf(d)') - Cardinality(HoldersOf(d))
  BY HoldersMove

\* A step that moves no consumer and no lock.
LEMMA PairSame ==
    ASSUME TypeOK, UNCHANGED <<dictLock, field, pc, arg>>, NEW d \in Dicts
    PROVE  dictLock'[d] - dictLock[d] = Cardinality(HoldersOf(d)') - Cardinality(HoldersOf(d))
<1>1. HoldersOf(d)' = HoldersOf(d)
  BY DEF HoldersOf
<1>2. HoldersOf(d) \subseteq Consumers \X {"field", "arg"}
  BY DEF HoldersOf
<1>3. Cardinality(HoldersOf(d)) \in Nat
  BY <1>2, HoldersBound, FS_CardinalityType
<1>4. dictLock[d] \in Int /\ dictLock'[d] = dictLock[d]
  BY DictAssumption DEF TypeOK
<1> QED
  BY <1>1, <1>3, <1>4

\* In every step of a stream, the locks and its share move alike.
LEMMA StreamPairs ==
    ASSUME IndInv, NEW c \in Streams,
           StreamNext(c) \/ StreamCloseRelease(c) \/ StreamCloseFree(c) \/ BufClose(c) \/ ReleaseField(c)
                \/ SetRefMultipleDDicts(c),
           NEW d \in Dicts
    PROVE  dictLock'[d] - dictLock[d] = Cardinality(HoldersOf(d)') - Cardinality(HoldersOf(d))
<1> USE DictAssumption, ConsumersAssumption DEF IndInv, TypeOK
<1>1. dictLock[d] \in Int
  OBVIOUS
<1>2. Share(c, d) \in 0..2 /\ Share(c, d)' \in 0..2
  BY DEF Share
<1>3. ASSUME NEW x \in Dicts, StreamSetDict(c, x)
      PROVE  /\ \A e \in Consumers \ {c} : field'[e] = field[e] /\ pc'[e] = pc[e] /\ arg'[e] = arg[e]
             /\ dictLock'[d] - dictLock[d] = Share(c, d)' - Share(c, d)
  <2>1. Share(c, d)' = IF d = x THEN Share(c, d) + 1 ELSE Share(c, d)
    BY <1>3 DEF StreamSetDict, Share, LoadPCs
  <2>2. dictLock'[d] = IF d = x THEN dictLock[d] + 1 ELSE dictLock[d]
    BY <1>3 DEF StreamSetDict, Acquired
  <2> QED
    BY <1>1, <1>2, <1>3, <2>1, <2>2 DEF StreamSetDict
<1>4. CASE StreamLoadNative(c) \/ StreamSetDictBytes(c) \/ NativeWork(c) \/ StreamCloseFree(c)
              \/ BufClose(c) \/ SetRefMultipleDDicts(c)
  <2>1. /\ Share(c, d)' = Share(c, d) /\ dictLock'[d] = dictLock[d]
        /\ \A e \in Consumers \ {c} : field'[e] = field[e] /\ pc'[e] = pc[e] /\ arg'[e] = arg[e]
    BY <1>4 DEF StreamLoadNative, StreamSetDictBytes, NativeWork, StreamCloseFree, BufClose,
                SetRefMultipleDDicts, Share, LoadPCs
  <2> QED
    BY <1>1, <1>2, <2>1, PairMove
<1>5. CASE StreamLoadError(c)
  <2>1. Share(c, d)' = IF d = arg[c] THEN Share(c, d) - 1 ELSE Share(c, d)
    BY <1>5 DEF StreamLoadError, Share, LoadPCs
  <2>2. dictLock'[d] = IF d = arg[c] THEN dictLock[d] - 1 ELSE dictLock[d]
    BY <1>5 DEF StreamLoadError, Released
  <2>3. dictLock'[d] - dictLock[d] = Share(c, d)' - Share(c, d)
    BY <1>1, <1>2, <2>1, <2>2
  <2>4. \A e \in Consumers \ {c} : field'[e] = field[e] /\ pc'[e] = pc[e] /\ arg'[e] = arg[e]
    BY <1>5 DEF StreamLoadError
  <2> QED
    BY <2>3, <2>4, PairMove
<1>6. CASE StreamSwap(c) \/ StreamCloseRelease(c) \/ ReleaseField(c)
  <2>1. Share(c, d)' = IF d = field[c] THEN Share(c, d) - 1 ELSE Share(c, d)
    <3>1. CASE StreamSwap(c)
      BY <3>1 DEF StreamSwap, Share, LoadPCs
    <3>2. CASE StreamCloseRelease(c) \/ ReleaseField(c)
      BY <3>2 DEF StreamCloseRelease, ReleaseField, Share, LoadPCs
    <3> QED
      BY <1>6, <3>1, <3>2
  <2>2. dictLock'[d] = IF d = field[c] THEN dictLock[d] - 1 ELSE dictLock[d]
    BY <1>6 DEF StreamSwap, StreamCloseRelease, ReleaseField, Released
  <2>3. dictLock'[d] - dictLock[d] = Share(c, d)' - Share(c, d)
    BY <1>1, <1>2, <2>1, <2>2
  <2>4. \A e \in Consumers \ {c} : field'[e] = field[e] /\ pc'[e] = pc[e] /\ arg'[e] = arg[e]
    BY <1>6 DEF StreamSwap, StreamCloseRelease, ReleaseField
  <2> QED
    BY <2>3, <2>4, PairMove
<1> QED
  BY <1>3, <1>4, <1>5, <1>6, PairMove DEF StreamNext

\* A step of a context or of a direct stream that leaves its field and its place
\* alone moves no lock.
LEMMA OthersPair ==
    ASSUME IndInv, NEW c \in Ctxs \cup DirectStreams, field'[c] = field[c], pc'[c] = pc[c],
           \/ c \in Ctxs /\ CtxNext(c)
           \/ \E d \in Dicts : DirectSetDict(c, d)
           \/ StreamSwap(c) \/ DirectSetDictBytes(c) \/ DirectInitialize(c)
           \/ BufClose(c) \/ ReleaseField(c)
    PROVE  UNCHANGED <<dictLock, field, pc, arg>>
<1> USE DictAssumption DEF IndInv, TypeOK
<1>1. CASE DirectSetDictBytes(c) \/ DirectInitialize(c) \/ NativeWork(c)
  BY <1>1 DEF DirectSetDictBytes, DirectInitialize, NativeWork
<1>2. CASE CtxLoadBytes(c)
  BY <1>2 DEF CtxLoadBytes, CtxMayEnter
<1>3. ASSUME NEW d \in Dicts \cup {NoDict}, CtxLoadDict(c, d) \/ (d \in Dicts /\ DirectSetDict(c, d))
      PROVE  FALSE
  BY <1>3 DEF CtxLoadDict, CtxMayEnter, DirectSetDict
<1>4. CASE CtxAcquireDict(c) \/ CtxLoadNative(c) \/ CtxLoadError(c) \/ CtxSwap(c) \/ CtxReset(c)
              \/ CtxClose(c) \/ ReleaseField(c) \/ StreamSwap(c) \/ BufClose(c)
  BY <1>4 DEF CtxAcquireDict, CtxLoadNative, CtxLoadError, CtxSwap, CtxReset, CtxMayEnter, CtxClose,
              ReleaseField, StreamSwap, BufClose
<1> QED
  BY <1>1, <1>2, <1>3, <1>4 DEF CtxNext

\* "This call must be paired with a try block with releaseSharedLock() in the
\* finally block": in every step of a stream, the errors included, a lock comes and
\* goes with its holder.
THEOREM StreamsPair == Spec => StreamsPairLocks
<1> DEFINE Pair == \A d \in Dicts :
         (\A c \in Ctxs \cup DirectStreams : field'[c] = field[c] /\ pc'[c] = pc[c]) /\ dictLock'[d] # -1 =>
             dictLock'[d] - dictLock[d] = Cardinality(HoldersOf(d)') - Cardinality(HoldersOf(d))
<1>1. IndInv /\ [Next]_vars => [Pair]_vars
  <2> SUFFICES ASSUME IndInv, Next, NEW d \in Dicts,
                      \A c \in Ctxs \cup DirectStreams : field'[c] = field[c] /\ pc'[c] = pc[c],
                      dictLock'[d] # -1
               PROVE  dictLock'[d] - dictLock[d] = Cardinality(HoldersOf(d)') - Cardinality(HoldersOf(d))
    OBVIOUS
  <2>1. ASSUME NEW e \in Dicts, DictClose(e)
        PROVE  dictLock'[d] - dictLock[d] = Cardinality(HoldersOf(d)') - Cardinality(HoldersOf(d))
    <3>1. HoldersOf(d)' = HoldersOf(d) /\ dictLock'[d] = dictLock[d]
      BY <2>1 DEF DictClose, HoldersOf, IndInv, TypeOK
    <3>2. HoldersOf(d) \subseteq Consumers \X {"field", "arg"}
      BY DEF HoldersOf
    <3>3. Cardinality(HoldersOf(d)) \in Nat
      BY <3>2, HoldersBound, FS_CardinalityType
    <3>4. dictLock[d] \in Int
      BY DictAssumption DEF IndInv, TypeOK
    <3> QED
      BY <3>1, <3>3, <3>4
  <2>2. ASSUME NEW c \in Ctxs \cup DirectStreams,
               \/ c \in Ctxs /\ CtxNext(c)
               \/ \E x \in Dicts : DirectSetDict(c, x)
               \/ StreamSwap(c) \/ DirectSetDictBytes(c) \/ DirectInitialize(c)
               \/ BufClose(c) \/ ReleaseField(c)
        PROVE  dictLock'[d] - dictLock[d] = Cardinality(HoldersOf(d)') - Cardinality(HoldersOf(d))
    <3>1. UNCHANGED <<dictLock, field, pc, arg>>
      BY <2>2, OthersPair
    <3> QED
      BY <3>1, PairSame DEF IndInv
  <2>3. ASSUME NEW c \in Streams,
               StreamNext(c) \/ StreamCloseRelease(c) \/ StreamCloseFree(c) \/ BufClose(c)
                  \/ ReleaseField(c) \/ SetRefMultipleDDicts(c)
        PROVE  dictLock'[d] - dictLock[d] = Cardinality(HoldersOf(d)') - Cardinality(HoldersOf(d))
    BY <2>3, StreamPairs
  <2>4. ASSUME NEW c \in MTConsumers, PostFirstJob(c) \/ WorkerDone(c) \/ AbandonFrame(c)
        PROVE  dictLock'[d] - dictLock[d] = Cardinality(HoldersOf(d)') - Cardinality(HoldersOf(d))
    <3>1. UNCHANGED <<dictLock, field, pc, arg>>
      BY <2>4 DEF PostFirstJob, WorkerDone, AbandonFrame
    <3> QED
      BY <3>1, PairSame DEF IndInv
  <2> QED
    BY <2>1, <2>2, <2>3, <2>4, DictAssumption DEF Next
<1>2. IndInv /\ [Next]_vars => IndInv'
  BY NextInd
<1> QED
  BY <1>1, <1>2, InitInd, PTL DEF Spec, StreamsPairLocks
=============================================================================
