------------------------- MODULE SharedObjects_proofs -------------------------
(***************************************************************************)
(* Proofs about the Java objects that threads share: AutoCloseBase, for    *)
(* any finite set of threads and any limit of the counter, and             *)
(* RecyclingBufferPool, for any sets of threads, streams and buffers.      *)
(***************************************************************************)
EXTENDS AutoCloseBase, RecyclingBufferPool, SequenceTheorems, FiniteSetTheorems, TLAPS

IndInv == TypeOK /\ LifetimeInv

\* The definitions of places and of one thread's move between them.
USE DEF Goto, SHARED_LOCK_CLOSED

\* Init establishes the inductive invariant.
LEMMA InitInd == Init => IndInv
<1> SUFFICES ASSUME Init PROVE IndInv
  OBVIOUS
<1>1. Holders = {}
  BY DEF Init, Holders, ReleasePCs
<1>2. Cardinality(Holders) = 0
  BY <1>1, FS_EmptySet
<1>3. TypeOK
  BY MaxLockAssumption DEF Init, TypeOK, PCs
<1>4. LifetimeInv
  BY <1>1, <1>2, ThreadsAssumption
  DEF Init, LifetimeInv, CounterInv, SeenInv, MonitorInv, NativeInv, CtorInv,
      ReleaseNeverThrows, MonitorPCs, AcquirePCs, ReleasePCs
<1> QED
  BY <1>3, <1>4 DEF IndInv

\* Holders is finite, so its cardinality is a number.
LEMMA HoldersFinite == IsFiniteSet(Holders) /\ Cardinality(Holders) \in Nat
<1>1. IsFiniteSet(Holders)
  BY ThreadsAssumption, FS_Subset DEF Holders
<1> QED
  BY <1>1, FS_CardinalityType

\* The types are preserved by every step.
LEMMA TypeStep == IndInv /\ [Next]_vars => TypeOK'
<1> SUFFICES ASSUME IndInv, [Next]_vars PROVE TypeOK'
  OBVIOUS
<1> USE MaxLockAssumption DEF IndInv, TypeOK
<1>1. CASE ConstructorInit
  BY <1>1 DEF ConstructorInit
<1>2. CASE storeFence
  BY <1>2 DEF storeFence
<1>3. ASSUME NEW t \in Threads, StartUse(t) \/ StartRelease(t) \/ StartClose(t) \/ Resume(t)
      PROVE  TypeOK'
  BY <1>3 DEF StartUse, StartRelease, StartClose, Resume, PCs, AcquirePCs, ReleasePCs
<1>4. ASSUME NEW t \in Threads, AcquireStep(t)
      PROVE  TypeOK'
  BY <1>4 DEF AcquireStep, AcquireRead, AcquireCAS, AcquireRetry, PCs, AcquirePCs, ThrewPCs,
              LifetimeInv, SeenInv
<1>5. ASSUME NEW t \in Threads, ReleaseStep(t)
      PROVE  TypeOK'
  BY <1>5 DEF ReleaseStep, ReleaseRead, ReleaseCAS, ReleaseRetry, PCs, ReleasePCs, ThrewPCs,
              LifetimeInv, SeenInv
<1>6. ASSUME NEW t \in Threads, CloseStep(t)
      PROVE  TypeOK'
  BY <1>6 DEF CloseStep, CloseEnter, CloseRead, CloseCAS, DoClose, CloseExit, PCs, MonitorPCs,
              ThrewPCs
<1>7. CASE UNCHANGED vars
  BY <1>7 DEF vars
<1> QED
  BY <1>1, <1>2, <1>3, <1>4, <1>5, <1>6, <1>7 DEF Next, MethodStep

\* A compare-and-set of acquireSharedLock() adds its thread to the holders.
LEMMA HoldersEnter ==
    ASSUME TypeOK, NEW t \in Threads, AcquireCAS(t)
    PROVE  /\ t \notin Holders
           /\ Holders' = Holders \cup {t}
           /\ Cardinality(Holders') = Cardinality(Holders) + 1
<1>1. t \notin Holders
  BY DEF AcquireCAS, Holders, ReleasePCs
<1>2. Holders' = Holders \cup {t}
  BY DEF TypeOK, AcquireCAS, Holders, ReleasePCs
<1>3. Cardinality(Holders \cup {t}) = Cardinality(Holders) + 1
  BY <1>1, HoldersFinite, FS_AddElement
<1> QED
  BY <1>1, <1>2, <1>3

\* A compare-and-set of releaseSharedLock() removes its thread from them.
LEMMA HoldersLeave ==
    ASSUME TypeOK, NEW t \in Threads, ReleaseCAS(t)
    PROVE  /\ t \in Holders
           /\ Holders' = Holders \ {t}
           /\ Cardinality(Holders') = Cardinality(Holders) - 1
<1>1. t \in Holders
  BY DEF ReleaseCAS, Holders, ReleasePCs
<1>2. Holders' = Holders \ {t}
  BY DEF TypeOK, ReleaseCAS, Holders, ReleasePCs
<1>3. Cardinality(Holders \ {t}) = Cardinality(Holders) - 1
  BY <1>1, HoldersFinite, FS_RemoveElement
<1> QED
  BY <1>1, <1>2, <1>3

\* An object with a holder is open and its counter is positive, so a thread on
\* its way out passes both tests of releaseSharedLock().
LEMMA HolderMeansPositive ==
    ASSUME IndInv, NEW t \in Holders
    PROVE  sharedLock > 0
<1>1. Cardinality(Holders) # 0
  BY HoldersFinite, FS_EmptySet
<1>2. sharedLock = Cardinality(Holders)
  BY DEF IndInv, LifetimeInv, CounterInv
<1> QED
  BY <1>1, <1>2, HoldersFinite

\* No step but the two compare-and-sets changes the set of holders.
LEMMA HoldersSame ==
    ASSUME IndInv, [Next]_vars,
           ~ \E t \in Threads : AcquireCAS(t) \/ ReleaseCAS(t)
    PROVE  Holders' = Holders
<1> USE DEF IndInv, TypeOK, Holders, ReleasePCs
<1>1. CASE ConstructorInit \/ storeFence
  BY <1>1 DEF ConstructorInit, storeFence
<1>2. ASSUME NEW t \in Threads, StartUse(t) \/ StartRelease(t) \/ StartClose(t) \/ Resume(t)
      PROVE  Holders' = Holders
  BY <1>2 DEF StartUse, StartRelease, StartClose, Resume, ThrewPCs
<1>3. ASSUME NEW t \in Threads, AcquireRead(t) \/ AcquireRetry(t)
      PROVE  Holders' = Holders
  BY <1>3 DEF AcquireRead, AcquireRetry
<1>4. ASSUME NEW t \in Threads, ReleaseRead(t)
      PROVE  Holders' = Holders
  <2>1. sharedLock > 0
    BY <1>4, HolderMeansPositive DEF ReleaseRead
  <2> QED
    BY <1>4, <2>1 DEF ReleaseRead
<1>5. ASSUME NEW t \in Threads, ReleaseRetry(t)
      PROVE  Holders' = Holders
  BY <1>5 DEF ReleaseRetry
<1>6. ASSUME NEW t \in Threads, CloseStep(t)
      PROVE  Holders' = Holders
  BY <1>6 DEF CloseStep, CloseEnter, CloseRead, CloseCAS, DoClose, CloseExit
<1>7. CASE UNCHANGED vars
  BY <1>7 DEF vars
<1> QED
  BY <1>1, <1>2, <1>3, <1>4, <1>5, <1>6, <1>7
  DEF Next, MethodStep, AcquireStep, ReleaseStep

\* The counter keeps agreeing with the set of holders.
LEMMA CounterStep == IndInv /\ [Next]_vars => CounterInv'
<1> SUFFICES ASSUME IndInv, [Next]_vars PROVE CounterInv'
  OBVIOUS
<1>1. TypeOK /\ CounterInv /\ SeenInv /\ CtorInv
  BY DEF IndInv, LifetimeInv
<1>2. ASSUME NEW t \in Threads, AcquireCAS(t)
      PROVE  CounterInv'
  <2>1. sharedLock = Cardinality(Holders) /\ sharedLock' = sharedLock + 1
    BY <1>1, <1>2, MaxLockAssumption DEF AcquireCAS, SeenInv, CounterInv
  <2> QED
    BY <2>1, <1>1, <1>2, HoldersEnter, HoldersFinite DEF CounterInv
<1>3. ASSUME NEW t \in Threads, ReleaseCAS(t)
      PROVE  CounterInv'
  <2>1. sharedLock = Cardinality(Holders) /\ sharedLock' = sharedLock - 1 /\ sharedLock \in 1..MaxLock
    BY <1>1, <1>3, MaxLockAssumption DEF ReleaseCAS, SeenInv, CounterInv
  <2> QED
    BY <2>1, <1>1, <1>3, HoldersLeave, MaxLockAssumption DEF CounterInv
<1>4. ASSUME ~ \E t \in Threads : AcquireCAS(t) \/ ReleaseCAS(t)
      PROVE  CounterInv'
  <2>1. Holders' = Holders
    BY <1>4, HoldersSame
  <2>2. ASSUME NEW t \in Threads, CloseCAS(t)
        PROVE  CounterInv'
    <3>1. CASE sharedLock = 0
      <4>1. Holders = {}
        BY <3>1, <1>1, HoldersFinite, FS_EmptySet DEF CounterInv
      <4> QED
        BY <4>1, <3>1, <2>1, <2>2 DEF CloseCAS, CounterInv
    <3>2. CASE sharedLock # 0
      BY <3>2, <1>1, <2>1, <2>2 DEF CloseCAS, CounterInv
    <3> QED
      BY <3>1, <3>2
  <2>3. CASE storeFence
    BY <2>1, <2>3, <1>1 DEF storeFence, CounterInv, CtorInv
  <2>4. ASSUME ~ storeFence, ~ \E t \in Threads : CloseCAS(t)
        PROVE  sharedLock' = sharedLock
    BY <1>4, <2>4
    DEF Next, vars, MethodStep, AcquireStep, ReleaseStep, CloseStep, ConstructorInit, StartUse,
        StartRelease, StartClose, Resume, AcquireRead, AcquireRetry, ReleaseRead, ReleaseRetry,
        CloseEnter, CloseRead, DoClose, CloseExit
  <2> QED
    BY <1>1, <2>1, <2>2, <2>3, <2>4 DEF CounterInv
<1> QED
  BY <1>2, <1>3, <1>4

\* A thread past the tests of a loop keeps the value it tested.
LEMMA SeenStep == IndInv /\ [Next]_vars => SeenInv'
<1> SUFFICES ASSUME IndInv, [Next]_vars PROVE SeenInv'
  OBVIOUS
<1> USE MaxLockAssumption DEF IndInv, TypeOK, LifetimeInv, SeenInv
<1>1. CASE ConstructorInit \/ storeFence
  BY <1>1 DEF ConstructorInit, storeFence
<1>2. ASSUME NEW t \in Threads, StartUse(t) \/ StartRelease(t) \/ StartClose(t) \/ Resume(t)
      PROVE  SeenInv'
  BY <1>2 DEF StartUse, StartRelease, StartClose, Resume
<1>3. ASSUME NEW t \in Threads, AcquireStep(t)
      PROVE  SeenInv'
  BY <1>3 DEF AcquireStep, AcquireRead, AcquireCAS, AcquireRetry
<1>4. ASSUME NEW t \in Threads, ReleaseStep(t)
      PROVE  SeenInv'
  BY <1>4 DEF ReleaseStep, ReleaseRead, ReleaseCAS, ReleaseRetry
<1>5. ASSUME NEW t \in Threads, CloseStep(t)
      PROVE  SeenInv'
  BY <1>5 DEF CloseStep, CloseEnter, CloseRead, CloseCAS, DoClose, CloseExit
<1>6. CASE UNCHANGED vars
  BY <1>6 DEF vars
<1> QED
  BY <1>1, <1>2, <1>3, <1>4, <1>5, <1>6 DEF Next, MethodStep

\* Mutual exclusion of the synchronized block.
LEMMA MonitorStep == IndInv /\ [Next]_vars => MonitorInv'
<1> SUFFICES ASSUME IndInv, [Next]_vars PROVE MonitorInv'
  OBVIOUS
<1> USE ThreadsAssumption DEF IndInv, TypeOK, LifetimeInv, MonitorInv, MonitorPCs
<1>1. CASE ConstructorInit \/ storeFence
  BY <1>1 DEF ConstructorInit, storeFence
<1>2. ASSUME NEW t \in Threads, StartUse(t) \/ StartRelease(t) \/ StartClose(t) \/ Resume(t)
      PROVE  MonitorInv'
  BY <1>2 DEF StartUse, StartRelease, StartClose, Resume, ThrewPCs
<1>3. ASSUME NEW t \in Threads, AcquireStep(t)
      PROVE  MonitorInv'
  BY <1>3 DEF AcquireStep, AcquireRead, AcquireCAS, AcquireRetry
<1>4. ASSUME NEW t \in Threads, ReleaseStep(t)
      PROVE  MonitorInv'
  BY <1>4 DEF ReleaseStep, ReleaseRead, ReleaseCAS, ReleaseRetry
<1>5. ASSUME NEW t \in Threads, CloseStep(t)
      PROVE  MonitorInv'
  BY <1>5 DEF CloseStep, CloseEnter, CloseRead, CloseCAS, DoClose, CloseExit
<1>6. CASE UNCHANGED vars
  BY <1>6 DEF vars
<1> QED
  BY <1>1, <1>2, <1>3, <1>4, <1>5, <1>6 DEF Next, MethodStep

\* The native object is released only behind a successful close.
LEMMA NativeStep == IndInv /\ [Next]_vars => NativeInv'
<1> SUFFICES ASSUME IndInv, [Next]_vars PROVE NativeInv'
  OBVIOUS
<1> USE DEF IndInv, TypeOK, LifetimeInv, NativeInv
<1>1. CASE ConstructorInit \/ storeFence
  BY <1>1 DEF ConstructorInit, storeFence, CtorInv
<1>2. ASSUME NEW t \in Threads, StartUse(t) \/ StartRelease(t) \/ StartClose(t) \/ Resume(t)
      PROVE  NativeInv'
  BY <1>2 DEF StartUse, StartRelease, StartClose, Resume, ThrewPCs
<1>3. ASSUME NEW t \in Threads, AcquireStep(t)
      PROVE  NativeInv'
  BY <1>3, MaxLockAssumption DEF AcquireStep, AcquireRead, AcquireCAS, AcquireRetry, SeenInv
<1>4. ASSUME NEW t \in Threads, ReleaseStep(t)
      PROVE  NativeInv'
  BY <1>4, MaxLockAssumption DEF ReleaseStep, ReleaseRead, ReleaseCAS, ReleaseRetry, SeenInv
<1>5. ASSUME NEW t \in Threads, CloseStep(t)
      PROVE  NativeInv'
  <2>1. \A u \in Threads : pc[u] \in MonitorPCs /\ pc[t] \in MonitorPCs => u = t
    BY DEF MonitorInv
  <2>2. CASE CloseEnter(t)
    BY <2>2 DEF CloseEnter
  <2>3. CASE CloseRead(t)
    BY <2>1, <2>3 DEF CloseRead, MonitorPCs
  <2>4. CASE CloseCAS(t)
    BY <2>1, <2>4 DEF CloseCAS, MonitorPCs
  <2>5. CASE DoClose(t)
    BY <2>1, <2>5 DEF DoClose, MonitorPCs
  <2>6. CASE CloseExit(t)
    BY <2>6 DEF CloseExit
  <2> QED
    BY <1>5, <2>2, <2>3, <2>4, <2>5, <2>6 DEF CloseStep
<1>6. CASE UNCHANGED vars
  BY <1>6 DEF vars
<1> QED
  BY <1>1, <1>2, <1>3, <1>4, <1>5, <1>6 DEF Next, MethodStep

\* The constructor ends before anyone else reaches the object.
LEMMA CtorStep == IndInv /\ [Next]_vars => CtorInv'
<1> SUFFICES ASSUME IndInv, [Next]_vars PROVE CtorInv'
  OBVIOUS
<1> USE DEF IndInv, TypeOK, LifetimeInv, CtorInv, AcquirePCs, ReleasePCs
<1>1. CASE ConstructorInit \/ storeFence
  BY <1>1 DEF ConstructorInit, storeFence
<1>2. ASSUME NEW t \in Threads, StartUse(t) \/ StartRelease(t) \/ StartClose(t) \/ Resume(t)
      PROVE  CtorInv'
  BY <1>2 DEF StartUse, StartRelease, StartClose, Resume, ThrewPCs
<1>3. ASSUME NEW t \in Threads, AcquireStep(t)
      PROVE  CtorInv'
  BY <1>3 DEF AcquireStep, AcquireRead, AcquireCAS, AcquireRetry
<1>4. ASSUME NEW t \in Threads, ReleaseStep(t)
      PROVE  CtorInv'
  BY <1>4 DEF ReleaseStep, ReleaseRead, ReleaseCAS, ReleaseRetry
<1>5. ASSUME NEW t \in Threads, CloseStep(t)
      PROVE  CtorInv'
  BY <1>5 DEF CloseStep, CloseEnter, CloseRead, CloseCAS, DoClose, CloseExit, MonitorPCs
<1>6. CASE UNCHANGED vars
  BY <1>6 DEF vars
<1> QED
  BY <1>1, <1>2, <1>3, <1>4, <1>5, <1>6 DEF Next, MethodStep

\* The exceptions of releaseSharedLock() stay out of reach.
LEMMA ReleaseStepSafe == IndInv /\ [Next]_vars => ReleaseNeverThrows'
<1> SUFFICES ASSUME IndInv, [Next]_vars PROVE ReleaseNeverThrows'
  OBVIOUS
<1>1. ASSUME NEW t \in Threads, ReleaseRead(t)
      PROVE  ReleaseNeverThrows'
  <2>1. sharedLock > 0
    BY <1>1, HolderMeansPositive DEF ReleaseRead, Holders, ReleasePCs
  <2> QED
    BY <1>1, <2>1 DEF ReleaseRead, ReleaseNeverThrows, IndInv, TypeOK, LifetimeInv
<1>2. ASSUME ~ \E t \in Threads : ReleaseRead(t)
      PROVE  ReleaseNeverThrows'
  BY <1>2
  DEF IndInv, TypeOK, LifetimeInv, ReleaseNeverThrows, Next, vars, MethodStep, AcquireStep,
      ReleaseStep, CloseStep, ConstructorInit, storeFence, StartUse, StartRelease, StartClose,
      Resume, AcquireRead, AcquireCAS, AcquireRetry, ReleaseCAS, ReleaseRetry, CloseEnter,
      CloseRead, CloseCAS, DoClose, CloseExit
<1> QED
  BY <1>1, <1>2

\* LifetimeInv is inductive with the types.
LEMMA IndStep == IndInv /\ [Next]_vars => IndInv'
  BY TypeStep, CounterStep, SeenStep, MonitorStep, NativeStep, CtorStep, ReleaseStepSafe
  DEF IndInv, LifetimeInv

\* Every variable of the shared-lock protocol keeps its type, in particular the
\* counter never passes Integer.MAX_VALUE and never falls below -1.
THEOREM TypeCorrect == Spec => []TypeOK
<1>1. IndInv => TypeOK
  BY DEF IndInv
<1> QED
  BY <1>1, InitInd, IndStep, PTL DEF Spec

\* Counter, holders, monitor, constructor and native object agree in every state
\* of acquireSharedLock(), releaseSharedLock() and close().
THEOREM Lifetime == Spec => []LifetimeInv
<1>1. IndInv => LifetimeInv
  BY DEF IndInv
<1> QED
  BY <1>1, InitInd, IndStep, PTL DEF Spec

\* For any number of threads, no thread between acquireSharedLock() and
\* releaseSharedLock() finds its native object freed by a racing close().
THEOREM UseAfterFreeImpossible == Spec => []NoUseAfterFree
<1>1. IndInv => NoUseAfterFree
  <2> SUFFICES ASSUME IndInv, Holders # {} PROVE native = "live"
    BY DEF NoUseAfterFree
  <2>1. PICK t \in Threads : t \in Holders
    BY DEF Holders
  <2>2. sharedLock # SHARED_LOCK_CLOSED
    BY <2>1, HolderMeansPositive
  <2>3. ctor = "done"
    BY <2>1 DEF IndInv, LifetimeInv, CtorInv, Holders
  <2> QED
    BY <2>2, <2>3 DEF IndInv, TypeOK, LifetimeInv, CtorInv, NativeInv
<1> QED
  BY <1>1, InitInd, IndStep, PTL DEF Spec

\* For any number of racing closers, finalizer included, a close() that returns
\* normally leaves no native object allocated.
THEOREM RacyCloseSafe == Spec => []CloseReturnedMeansFreed
<1>1. IndInv => CloseReturnedMeansFreed
  BY DEF IndInv, LifetimeInv, NativeInv, CloseReturnedMeansFreed
<1> QED
  BY <1>1, InitInd, IndStep, PTL DEF Spec

\* A close() that throws "Attempt to close while in use" tells the truth.
THEOREM RefusalIsHonest == Spec => CloseRefusedOnlyInUse
<1>1. IndInv /\ [Next]_vars
        => [\A t \in Threads : CloseCAS(t) /\ pc'[t] = "closeExitThrow" => Holders # {}]_vars
  <2> SUFFICES ASSUME IndInv, NEW t \in Threads, CloseCAS(t), pc'[t] = "closeExitThrow"
               PROVE  Holders # {}
    OBVIOUS
  <2>1. sharedLock # 0
    BY DEF CloseCAS, IndInv, TypeOK
  <2>2. sharedLock # SHARED_LOCK_CLOSED
    BY DEF CloseCAS, IndInv, LifetimeInv, MonitorInv, NativeInv
  <2> QED
    BY <2>1, <2>2, FS_EmptySet DEF IndInv, LifetimeInv, CounterInv
<1> QED
  BY <1>1, InitInd, IndStep, PTL DEF Spec, CloseRefusedOnlyInUse

\* A closed object stays closed and unused: the counter never leaves -1, and
\* acquireSharedLock() can only throw.
THEOREM ClosedForever == Spec => ClosedIsFinal
<1>1. IndInv /\ IndInv' /\ [Next]_vars
        => [sharedLock = SHARED_LOCK_CLOSED => sharedLock' = sharedLock /\ Holders' = {}]_vars
  <2> SUFFICES ASSUME IndInv, IndInv', [Next]_vars, sharedLock = SHARED_LOCK_CLOSED
               PROVE  sharedLock' = sharedLock /\ Holders' = {}
    OBVIOUS
  <2>1. sharedLock' = sharedLock
    BY MaxLockAssumption
    DEF IndInv, LifetimeInv, SeenInv, CtorInv, Next, vars, MethodStep, AcquireStep, ReleaseStep,
        CloseStep, ConstructorInit, storeFence, StartUse, StartRelease, StartClose, Resume,
        AcquireRead, AcquireCAS, AcquireRetry, ReleaseRead, ReleaseCAS, ReleaseRetry, CloseEnter,
        CloseRead, CloseCAS, DoClose, CloseExit
  <2> QED
    BY <2>1 DEF IndInv, LifetimeInv, CounterInv
<1> QED
  BY <1>1, InitInd, IndStep, PTL DEF Spec, ClosedIsFinal

(***************************************************************************)
(* AutoCloseBase implements SharedUse.                                     *)
(***************************************************************************)

\* Initial states map to initial states of SharedUse.
LEMMA RefinementInit == Init => Abstract!UInit
  BY DEF Init, Abstract!UInit, Holders, ReleasePCs

\* Every step maps to a step of SharedUse or to a stutter.
LEMMA RefinementStep == IndInv /\ [Next]_vars => [Abstract!UNext]_(Abstract!uvars)
<1> SUFFICES ASSUME IndInv, [Next]_vars
             PROVE  Abstract!UNext \/ UNCHANGED Abstract!uvars
  OBVIOUS
<1> USE DEF Abstract!UNext, Abstract!uvars
<1>1. TypeOK /\ CounterInv /\ SeenInv /\ NativeInv /\ CtorInv
  BY DEF IndInv, LifetimeInv
<1>2. ASSUME NEW t \in Threads, AcquireCAS(t)
      PROVE  Abstract!UNext
  <2>1. sharedLock = Cardinality(Holders) /\ sharedLock < MaxLock /\ sharedLock' # SHARED_LOCK_CLOSED
    BY <1>1, <1>2, MaxLockAssumption DEF AcquireCAS, SeenInv, CounterInv
  <2>2. sharedLock # SHARED_LOCK_CLOSED /\ Cardinality(Holders) < MaxLock
    BY <2>1, HoldersFinite
  <2>3. t \notin Holders /\ Holders' = Holders \cup {t}
    BY <1>1, <1>2, HoldersEnter
  \* The instance has its own copy of FiniteSets.
  <2>4. Cardinality(Holders) = Abstract!Cardinality(Holders)
    BY Zenon DEF Cardinality, Abstract!Cardinality, IsFiniteSet, Abstract!IsFiniteSet
  <2>5. Abstract!Enter(t)
    BY <2>1, <2>2, <2>3, <1>2, <2>4 DEF Abstract!Enter, AcquireCAS
  <2> QED
    BY <2>5
<1>3. ASSUME NEW t \in Threads, ReleaseCAS(t)
      PROVE  Abstract!UNext
  <2>1. sharedLock # SHARED_LOCK_CLOSED /\ sharedLock' # SHARED_LOCK_CLOSED
    BY <1>1, <1>3, MaxLockAssumption DEF ReleaseCAS, SeenInv
  <2>2. Abstract!Leave(t)
    BY <2>1, <1>1, <1>3, HoldersLeave DEF Abstract!Leave, ReleaseCAS
  <2> QED
    BY <2>2
<1>4. ASSUME ~ \E t \in Threads : AcquireCAS(t) \/ ReleaseCAS(t)
      PROVE  Abstract!UNext \/ UNCHANGED Abstract!uvars
  <2>1. Holders' = Holders
    BY <1>4, HoldersSame
  <2>2. ASSUME NEW t \in Threads, CloseCAS(t)
        PROVE  Abstract!UNext \/ UNCHANGED Abstract!uvars
    <3>1. CASE sharedLock = 0
      <4>1. Holders = {}
        BY <3>1, <1>1, HoldersFinite, FS_EmptySet DEF CounterInv
      <4>2. Abstract!CloseIdle
        BY <4>1, <3>1, <2>1, <2>2 DEF CloseCAS, Abstract!CloseIdle
      <4> QED
        BY <4>2
    <3>2. CASE sharedLock # 0
      BY <3>2, <2>1, <2>2 DEF CloseCAS
    <3> QED
      BY <3>1, <3>2
  <2>3. ASSUME NEW t \in Threads, DoClose(t)
        PROVE  Abstract!UNext \/ UNCHANGED Abstract!uvars
    <3>1. sharedLock = SHARED_LOCK_CLOSED /\ native # "freed" /\ sharedLock' = sharedLock
      BY <1>1, <2>3 DEF DoClose, NativeInv
    <3>2. CASE native = "none"
      BY <3>1, <3>2, <2>1, <2>3 DEF DoClose
    <3>3. CASE native # "none"
      <4>1. Abstract!FreeNative
        BY <3>1, <3>3, <2>1, <2>3 DEF DoClose, Abstract!FreeNative
      <4> QED
        BY <4>1
    <3> QED
      BY <3>2, <3>3
  <2>4. CASE ConstructorInit \/ storeFence
    BY <1>1, <2>1, <2>4 DEF ConstructorInit, storeFence, CtorInv
  <2>5. ASSUME ~ (ConstructorInit \/ storeFence),
               ~ \E t \in Threads : CloseCAS(t) \/ DoClose(t)
        PROVE  UNCHANGED <<sharedLock, native>>
    BY <1>4, <2>5
    DEF Next, vars, MethodStep, AcquireStep, ReleaseStep, CloseStep, StartUse, StartRelease,
        StartClose, Resume, AcquireRead, AcquireRetry, ReleaseRead, ReleaseRetry, CloseEnter,
        CloseRead, CloseExit
  <2> QED
    BY <2>1, <2>2, <2>3, <2>4, <2>5
<1> QED
  BY <1>2, <1>3, <1>4

\* The compare-and-set protocol of AutoCloseBase.java implements the abstract
\* user set: entering and leaving are atomic, closing happens only without
\* users, and the native object is freed once, after that.
THEOREM Refinement == Spec => RefinesSharedUse
  BY RefinementInit, RefinementStep, InitInd, IndStep, PTL
  DEF Spec, RefinesSharedUse, Abstract!USpec

-----------------------------------------------------------------------------
(***************************************************************************)
(* RecyclingBufferPool: no buffer is ever in two places.                   *)
(***************************************************************************)
USE DEF Go, Keeps

(***************************************************************************)
(* The inductive invariant                                                 *)
(***************************************************************************)
\* The monitors exclude: a thread inside a method of a stream is the only one, and
\* a constructor works on a stream nobody else has.
Exclusion ==
    /\ \A t \in Clients : at[t] = "idle" => on[t] = None
    /\ \A t \in Clients : at[t] \in {"getSrc", "construct"} => on[t] \in Streams /\ state[on[t]] = "new"
    /\ \A t, u \in Clients : on[t] # None /\ on[t] = on[u] => t = u

\* The open streams, the running methods and the queue share no buffer, neither
\* among themselves nor with each other.
StreamsApart == \A s, r \in Streams : state[s] = "open" /\ state[r] = "open" /\ src[s] = src[r] => s = r
MethodsApart == \A t, u \in Clients : tmp[t] # None /\ tmp[t] = tmp[u] => t = u
QueueApart == \A i, j \in 1..Len(pool) : pool[i] # None /\ pool[i] = pool[j] => i = j
StreamsMethods == \A s \in Streams, t \in Clients : state[s] = "open" => src[s] # tmp[t]
StreamsQueue == \A s \in Streams : \A i \in 1..Len(pool) : state[s] = "open" => src[s] # pool[i]
MethodsQueue == \A t \in Clients : \A i \in 1..Len(pool) : tmp[t] # None => tmp[t] # pool[i]

Apart == StreamsApart /\ MethodsApart /\ QueueApart /\ StreamsMethods /\ StreamsQueue /\ MethodsQueue

PoolInv == PoolTypeOK /\ Exclusion /\ Apart

-----------------------------------------------------------------------------
\* Init establishes the inductive invariant.
LEMMA PoolInvInit == PoolInit => PoolInv
<1> SUFFICES ASSUME PoolInit PROVE PoolInv
  OBVIOUS
<1>1. PoolTypeOK
  BY PoolAssumption DEF PoolInit, PoolTypeOK
<1>2. Exclusion /\ Apart
  BY DEF PoolInit, Exclusion, Apart, StreamsApart, MethodsApart, QueueApart, StreamsMethods,
         StreamsQueue, MethodsQueue
<1> QED
  BY <1>1, <1>2 DEF PoolInv

\* What is left of the queue after poll(): one reference less at its head.
LEMMA Polled ==
    ASSUME NEW S, NEW q \in Seq(S), q # <<>>
    PROVE  /\ Head(q) = q[1] /\ Head(q) \in S
           /\ 1 \in 1..Len(q)
           /\ Tail(q) \in Seq(S)
           /\ Len(Tail(q)) = Len(q) - 1
           /\ \A i \in 1..Len(Tail(q)) : i + 1 \in 1..Len(q) /\ Tail(q)[i] = q[i + 1]
  OBVIOUS

\* The queue after add().
LEMMA Added ==
    ASSUME NEW S, NEW q \in Seq(S), NEW x \in S
    PROVE  /\ Append(q, x) \in Seq(S)
           /\ Len(Append(q, x)) = Len(q) + 1
           /\ \A i \in 1..Len(q) + 1 : Append(q, x)[i] = IF i = Len(q) + 1 THEN x ELSE q[i]
  OBVIOUS

\* A queue with one of its references cleared.
LEMMA Cleared ==
    ASSUME NEW S, NEW q \in Seq(S), NEW k \in 1..Len(q), NEW x \in S
    PROVE  /\ [q EXCEPT ![k] = x] \in Seq(S)
           /\ Len([q EXCEPT ![k] = x]) = Len(q)
           /\ \A i \in 1..Len(q) : [q EXCEPT ![k] = x][i] = IF i = k THEN x ELSE q[i]
  BY ExceptSeq

\* A buffer get() allocates is in no place.
LEMMA UnusedIsNowhere ==
    ASSUME NEW b \in Unused
    PROVE  /\ b \in Buffers /\ b # None
           /\ \A s \in Streams : state[s] = "open" => src[s] # b
           /\ \A t \in Clients : tmp[t] # b
           /\ \A i \in 1..Len(pool) : pool[i] # b
  BY PoolAssumption DEF Unused, Held, InPool

\* A step that leaves the buffers where they are, and only moves a thread.
LEMMA ApartSame ==
    ASSUME Apart, UNCHANGED <<pool, src, state, tmp>>
    PROVE  Apart'
  BY DEF Apart, StreamsApart, MethodsApart, QueueApart, StreamsMethods, StreamsQueue, MethodsQueue

\* get() on an empty queue takes a buffer that is in no place.
LEMMA PoolPollEmptyStep ==
    ASSUME PoolInv, NEW t \in Clients, PollEmpty(t)
    PROVE  PoolInv'
<1>1. PICK b \in Unused \ Small : tmp' = [tmp EXCEPT ![t] = b]
  BY DEF PollEmpty
<1>2. /\ b \in Buffers /\ b # None
      /\ \A s \in Streams : state[s] = "open" => src[s] # b
      /\ \A u \in Clients : tmp[u] # b
      /\ \A i \in 1..Len(pool) : pool[i] # b
  BY <1>1, UnusedIsNowhere DEF PoolInv
<1>3. PoolTypeOK'
  BY <1>1, <1>2 DEF PoolInv, PoolTypeOK, PollEmpty
<1>4. Exclusion'
  BY DEF PoolInv, PoolTypeOK, Exclusion, PollEmpty
<1>5. Apart'
  BY <1>1, <1>2 DEF PoolInv, PoolTypeOK, PollEmpty, Apart, StreamsApart, MethodsApart, QueueApart,
                    StreamsMethods, StreamsQueue, MethodsQueue
<1> QED
  BY <1>3, <1>4, <1>5 DEF PoolInv

\* get() drops a cleared reference.
LEMMA PoolPollClearedStep ==
    ASSUME PoolInv, NEW t \in Clients, PollCleared(t)
    PROVE  PoolInv'
<1>1. /\ pool' = Tail(pool)
      /\ pool' \in Seq((Buffers \ Small) \cup {None})
      /\ \A i \in 1..Len(pool') : i + 1 \in 1..Len(pool) /\ pool'[i] = pool[i + 1]
  BY Polled DEF PoolInv, PoolTypeOK, PollCleared
<1>2. PoolTypeOK' /\ Exclusion'
  BY <1>1 DEF PoolInv, PoolTypeOK, Exclusion, PollCleared
<1>3. QueueApart'
  BY <1>1 DEF PoolInv, Apart, QueueApart
<1>4. Apart'
  BY <1>1, <1>3 DEF PoolInv, PollCleared, Apart, StreamsApart, MethodsApart, StreamsMethods,
                    StreamsQueue, MethodsQueue
<1> QED
  BY <1>2, <1>4 DEF PoolInv

\* get() moves the buffer at the head of the queue into a method.
LEMMA PoolPollBufferStep ==
    ASSUME PoolInv, NEW t \in Clients, PollBuffer(t)
    PROVE  PoolInv'
<1> DEFINE b == pool[1]
<1>1. /\ pool' = Tail(pool) /\ 1 \in 1..Len(pool)
      /\ b \in Buffers \ Small /\ b # None
      /\ tmp' = [tmp EXCEPT ![t] = b]
      /\ pool' \in Seq((Buffers \ Small) \cup {None})
      /\ \A i \in 1..Len(pool') : i + 1 \in 1..Len(pool) /\ pool'[i] = pool[i + 1]
  BY Polled DEF PoolInv, PoolTypeOK, PollBuffer
<1>2. /\ \A s \in Streams : state[s] = "open" => src[s] # b
      /\ \A u \in Clients : tmp[u] # b
      /\ \A i \in 1..Len(pool') : pool'[i] # b
  BY <1>1 DEF PoolInv, Apart, QueueApart, StreamsQueue, MethodsQueue
<1> HIDE DEF b
<1>3. PoolTypeOK'
  BY <1>1 DEF PoolInv, PoolTypeOK, PollBuffer
<1>4. Exclusion'
  BY DEF PoolInv, PoolTypeOK, Exclusion, PollBuffer
<1>5. QueueApart'
  BY <1>1 DEF PoolInv, Apart, QueueApart
<1>6. StreamsApart' /\ StreamsMethods' /\ MethodsApart'
  BY <1>1, <1>2 DEF PoolInv, PoolTypeOK, PollBuffer, Apart, StreamsApart, StreamsMethods, MethodsApart
<1>7. StreamsQueue' /\ MethodsQueue'
  BY <1>1, <1>2 DEF PoolInv, PoolTypeOK, PollBuffer, Apart, StreamsQueue, MethodsQueue
<1> QED
  BY <1>3, <1>4, <1>5, <1>6, <1>7 DEF PoolInv, Apart

\* release() moves a buffer from a method into the queue, or forgets a small one.
LEMMA PoolReleaseStep ==
    ASSUME PoolInv, NEW t \in Clients, Release(t)
    PROVE  PoolInv'
<1> DEFINE b == tmp[t]
<1>1. b \in Buffers /\ b # None /\ tmp' = [tmp EXCEPT ![t] = None]
  BY DEF PoolInv, PoolTypeOK, Release
<1>2. /\ \A s \in Streams : state[s] = "open" => src[s] # b
      /\ \A u \in Clients : u # t => tmp[u] # b
      /\ \A i \in 1..Len(pool) : pool[i] # b
  BY <1>1 DEF PoolInv, Apart, StreamsMethods, MethodsApart, MethodsQueue
<1>3. /\ pool' \in Seq((Buffers \ Small) \cup {None})
      /\ \A i \in 1..Len(pool') : \/ i \in 1..Len(pool) /\ pool'[i] = pool[i]
                                  \/ i = Len(pool) + 1 /\ pool'[i] = b
  <2>1. CASE b \in Small
    BY <2>1 DEF PoolInv, PoolTypeOK, Release
  <2>2. CASE b \notin Small
    <3>1. pool' = Append(pool, b) /\ b \in (Buffers \ Small) \cup {None}
      BY <1>1, <2>2 DEF Release
    <3> HIDE DEF b
    <3>2. pool \in Seq((Buffers \ Small) \cup {None})
      BY DEF PoolInv, PoolTypeOK
    <3> QED
      BY <3>1, <3>2, Added
  <2> QED
    BY <2>1, <2>2
<1> HIDE DEF b
<1>4. PoolTypeOK'
  BY <1>1, <1>3 DEF PoolInv, PoolTypeOK, Release
<1>5. Exclusion'
  BY DEF PoolInv, PoolTypeOK, Exclusion, Release
<1>6. QueueApart'
  BY <1>1, <1>2, <1>3 DEF PoolInv, Apart, QueueApart
<1>7. StreamsApart' /\ MethodsApart' /\ StreamsMethods'
  BY <1>1, PoolAssumption DEF PoolInv, PoolTypeOK, Release, Apart, StreamsApart, MethodsApart,
                              StreamsMethods
<1>8. StreamsQueue' /\ MethodsQueue'
  BY <1>1, <1>2, <1>3 DEF PoolInv, PoolTypeOK, Release, Apart, StreamsQueue, MethodsQueue
<1> QED
  BY <1>4, <1>5, <1>6, <1>7, <1>8 DEF PoolInv, Apart

\* The collector only removes buffers from the queue.
LEMMA PoolClearStep ==
    ASSUME PoolInv, ClearReference
    PROVE  PoolInv'
<1>1. PICK k \in InPool : pool' = [pool EXCEPT ![k] = None]
  BY DEF ClearReference
<1>2. pool \in Seq((Buffers \ Small) \cup {None}) /\ k \in 1..Len(pool)
  BY DEF PoolInv, PoolTypeOK, InPool
<1>3. /\ pool' \in Seq((Buffers \ Small) \cup {None})
      /\ Len(pool') = Len(pool)
      /\ \A i \in 1..Len(pool) : pool'[i] = IF i = k THEN None ELSE pool[i]
  BY <1>1, <1>2, Cleared
<1>4. PoolTypeOK' /\ Exclusion'
  BY <1>3 DEF PoolInv, PoolTypeOK, Exclusion, ClearReference
<1>5. Apart'
  BY <1>3, PoolAssumption DEF PoolInv, PoolTypeOK, ClearReference, Apart, StreamsApart, MethodsApart,
                              QueueApart, StreamsMethods, StreamsQueue, MethodsQueue
<1> QED
  BY <1>4, <1>5 DEF PoolInv

\* A constructor or a skip() enters the monitor of its stream: no buffer moves.
LEMMA PoolConstructStep ==
    ASSUME PoolInv, NEW t \in Clients, NEW s \in Streams, Construct(t, s)
    PROVE  PoolInv'
<1>1. PoolTypeOK'
  BY DEF PoolInv, PoolTypeOK, Construct
<1>2. Exclusion'
  BY PoolAssumption DEF PoolInv, PoolTypeOK, Exclusion, Construct, Free
<1> QED
  BY <1>1, <1>2, ApartSame DEF PoolInv, Construct

LEMMA PoolSkipStep ==
    ASSUME PoolInv, NEW t \in Clients, NEW s \in Streams, Skip(t, s)
    PROVE  PoolInv'
<1>1. skips' \in [Streams -> 0..MaxSkips]
  BY PoolAssumption DEF PoolInv, PoolTypeOK, Skip
<1>2. PoolTypeOK'
  BY <1>1 DEF PoolInv, PoolTypeOK, Skip
<1>3. Exclusion'
  BY PoolAssumption DEF PoolInv, PoolTypeOK, Exclusion, Skip, Free
<1> QED
  BY <1>2, <1>3, ApartSame DEF PoolInv, Skip

\* A constructor stores its buffer in the stream; it was in no other place.
LEMMA PoolConstructedStep ==
    ASSUME PoolInv, NEW t \in Clients, Constructed(t)
    PROVE  PoolInv'
<1>1. on[t] \in Streams /\ state[on[t]] = "new"
  BY DEF PoolInv, Exclusion, Constructed
<1>2. PoolTypeOK'
  BY <1>1 DEF PoolInv, PoolTypeOK, Constructed
<1>3. Exclusion'
  BY <1>1, PoolAssumption DEF PoolInv, PoolTypeOK, Exclusion, Constructed
<1>4. tmp[t] # None
  BY DEF PoolInv, PoolTypeOK, Constructed
<1>5. Apart'
  BY <1>1, <1>4 DEF PoolInv, PoolTypeOK, Constructed, Apart, StreamsApart, MethodsApart, QueueApart,
                    StreamsMethods, StreamsQueue, MethodsQueue
<1> QED
  BY <1>2, <1>3, <1>5 DEF PoolInv

\* The read() of skip() returns.
LEMMA PoolSkippedStep ==
    ASSUME PoolInv, NEW t \in Clients, Skipped(t)
    PROVE  PoolInv'
<1>1. PoolTypeOK' /\ Exclusion'
  BY DEF PoolInv, PoolTypeOK, Exclusion, Skipped
<1> QED
  BY <1>1, ApartSame DEF PoolInv, Skipped

\* close() takes the buffer out of the stream it closes.
LEMMA PoolCloseStep ==
    ASSUME PoolInv, NEW t \in Clients, NEW s \in Streams, Close(t, s)
    PROVE  PoolInv'
<1>1. PoolTypeOK'
  BY DEF PoolInv, PoolTypeOK, Close
<1>2. Exclusion'
  BY DEF PoolInv, PoolTypeOK, Exclusion, Close, Free
<1>3. Apart'
  BY DEF PoolInv, PoolTypeOK, Close, Apart, StreamsApart, MethodsApart, QueueApart,
         StreamsMethods, StreamsQueue, MethodsQueue
<1> QED
  BY <1>1, <1>2, <1>3 DEF PoolInv

\* A donated buffer was in no place.
LEMMA PoolDonateStep ==
    ASSUME PoolInv, NEW t \in Clients, Donate(t)
    PROVE  PoolInv'
<1>1. PICK b \in Unused \cap Small : tmp' = [tmp EXCEPT ![t] = b]
  BY DEF Donate
<1>2. /\ b \in Buffers /\ b # None
      /\ \A s \in Streams : state[s] = "open" => src[s] # b
      /\ \A u \in Clients : tmp[u] # b
      /\ \A i \in 1..Len(pool) : pool[i] # b
  BY <1>1, UnusedIsNowhere DEF PoolInv
<1>3. PoolTypeOK' /\ Exclusion'
  BY <1>1, <1>2 DEF PoolInv, PoolTypeOK, Exclusion, Donate
<1>4. Apart'
  BY <1>1, <1>2 DEF PoolInv, PoolTypeOK, Donate, Apart, StreamsApart, MethodsApart, QueueApart,
                    StreamsMethods, StreamsQueue, MethodsQueue
<1> QED
  BY <1>3, <1>4 DEF PoolInv

\* Every step preserves the inductive invariant.
LEMMA PoolInvNext == PoolInv /\ [PoolNext]_poolVars => PoolInv'
<1> SUFFICES ASSUME PoolInv, [PoolNext]_poolVars PROVE PoolInv'
  OBVIOUS
<1>1. ASSUME NEW t \in Clients, Run(t) \/ Donate(t)
      PROVE  PoolInv'
  BY <1>1, PoolPollEmptyStep, PoolPollClearedStep, PoolPollBufferStep, PoolReleaseStep, PoolConstructedStep,
     PoolSkippedStep, PoolDonateStep DEF Run, Get
<1>2. ASSUME NEW t \in Clients, NEW s \in Streams, Construct(t, s) \/ Skip(t, s) \/ Close(t, s)
      PROVE  PoolInv'
  BY <1>2, PoolConstructStep, PoolSkipStep, PoolCloseStep
<1>3. CASE UNCHANGED poolVars
  BY <1>3, ApartSame DEF poolVars, PoolInv, PoolTypeOK, Exclusion
<1> QED
  BY <1>1, <1>2, <1>3, PoolClearStep DEF PoolNext

-----------------------------------------------------------------------------
\* A set in which any two elements are equal has at most one.
LEMMA AtMostOne ==
    ASSUME NEW S, \A x, y \in S : x = y
    PROVE  IsFiniteSet(S) /\ Cardinality(S) <= 1
<1>1. CASE S = {}
  BY <1>1, FS_EmptySet
<1>2. CASE S # {}
  <2>1. PICK x : x \in S
    BY <1>2
  <2>2. S = {x}
    BY <2>1
  <2>3. IsFiniteSet({x}) /\ Cardinality({x}) = 1
    BY FS_Singleton
  <2> QED
    BY <2>2, <2>3
<1> QED
  BY <1>1, <1>2

\* Buffers that are apart are in one place each.
LEMMA ApartMeansOneOwner == PoolInv => OneOwner
<1> SUFFICES ASSUME PoolInv, NEW b \in Buffers
             PROVE  Cardinality(Places(b)) <= 1
  BY DEF OneOwner
<1>1. b # None
  BY PoolAssumption DEF PoolInv
<1>2. ASSUME NEW x \in Places(b), NEW y \in Places(b)
      PROVE  x = y
  BY <1>1, <1>2 DEF PoolInv, Apart, StreamsApart, MethodsApart, QueueApart, StreamsMethods,
                    StreamsQueue, MethodsQueue, Places
<1> QED
  BY <1>2, AtMostOne

\* Every variable has its type, no small buffer gets into the pool or a stream, and a
\* thread holds a buffer exactly where its method has one.
THEOREM PoolTypeCorrect == PoolSpec => []PoolTypeOK
<1>1. PoolSpec => []PoolInv
  BY PoolInvInit, PoolInvNext, PTL DEF PoolSpec
<1>2. PoolInv => PoolTypeOK
  BY DEF PoolInv
<1> QED
  BY <1>1, <1>2, PTL

\* No buffer is in two places: the streams that share a pool, however many, and
\* whatever their close(), skip() and finalize() do concurrently, never work in the
\* same array.
THEOREM PoolOneOwner == PoolSpec => []OneOwner
<1>1. PoolSpec => []PoolInv
  BY PoolInvInit, PoolInvNext, PTL DEF PoolSpec
<1> QED
  BY <1>1, ApartMeansOneOwner, PTL
=============================================================================
