---------------------------- MODULE AutoCloseBase ----------------------------
(***************************************************************************)
(* The lifetime protocol of every native-backed object of the library      *)
(* (AutoCloseBase.java): a counter of shared users in one volatile int     *)
(* that doubles as the closed flag, changed only by compare-and-set, and a *)
(* close() that runs inside the object's monitor.                          *)
(*                                                                         *)
(* A step is one volatile access, one compare-and-set, one monitor         *)
(* operation or one native call.  Threads are the application's threads    *)
(* and the JVM's finalizer thread: all of them run the same methods.  A    *)
(* thread that holds the shared lock stands for a library method between   *)
(* acquireSharedLock() and releaseSharedLock(), or for a context that has  *)
(* loaded this object as its dictionary.                                   *)
(***************************************************************************)
EXTENDS Integers, FiniteSets

CONSTANTS Threads,  \* application threads and the finalizer
          MaxLock,  \* Integer.MAX_VALUE
          NoThread  \* the monitor is free

ASSUME MaxLockAssumption == MaxLock \in Nat \ {0}
ASSUME ThreadsAssumption == IsFiniteSet(Threads) /\ NoThread \notin Threads

VARIABLES sharedLock,  \* the volatile counter; SHARED_LOCK_CLOSED once closed
          monitor,     \* owner of synchronized (this)
          native,      \* what nativePtr refers to
          ctor,        \* the constructor's progress
          pc,          \* where each thread is
          seen         \* each thread's local variable sharedLock

vars == <<sharedLock, monitor, native, ctor, pc, seen>>

SHARED_LOCK_CLOSED == -1

\* Where a thread is inside the three methods.  The "...Threw" places are the
\* IllegalStateExceptions, as the caller receives them.
AcquirePCs == {"acquireRead", "acquireCAS"}
ReleasePCs == {"releaseRead", "releaseCAS"}
MonitorPCs == {"closeRead", "closeCAS", "doClose", "closeExit", "closeExitThrow"}
ThrewPCs   == {"acquireClosed", "acquireOverflow", "releaseClosed",
               "releaseUnderflow", "closeInUse"}
PCs == {"idle", "using", "closeEnter", "closeReturned"}
         \cup AcquirePCs \cup ReleasePCs \cup MonitorPCs \cup ThrewPCs

\* The threads the counter accounts for.
Holders == {t \in Threads : pc[t] \in {"using"} \cup ReleasePCs}

Goto(t, place) == pc' = [pc EXCEPT ![t] = place]

(***************************************************************************)
(* Plausible mistakes in AutoCloseBase.java, each the body of one action   *)
(* below with one thing wrong; they show what the properties rule out and  *)
(* are not part of the specification.                                      *)
(***************************************************************************)

AcquirePlainWrite(t) ==
    /\ pc[t] = "acquireCAS"
    /\ sharedLock' = seen[t] + 1
    /\ Goto(t, "using")
    /\ UNCHANGED <<monitor, native, ctor, seen>>

ReleaseWithoutDecrement(t) ==
    /\ pc[t] = "releaseCAS"
    /\ Goto(t, "idle")
    /\ UNCHANGED <<sharedLock, monitor, native, ctor, seen>>

CloseEnterUnsynchronized(t) ==
    /\ pc[t] = "closeEnter"
    /\ monitor' = t
    /\ Goto(t, "closeRead")
    /\ UNCHANGED <<sharedLock, native, ctor, seen>>

CloseWithoutUserCheck(t) ==
    /\ pc[t] = "closeCAS"
    /\ sharedLock' = SHARED_LOCK_CLOSED
    /\ Goto(t, "doClose")
    /\ UNCHANGED <<monitor, native, ctor, seen>>

DoCloseInvertedTest(t) ==
    /\ pc[t] = "doClose"
    /\ native' = IF native = "none" THEN "freed" ELSE native
    /\ Goto(t, "closeExit")
    /\ UNCHANGED <<sharedLock, monitor, ctor, seen>>

Init ==
    /\ sharedLock = 0
    /\ monitor = NoThread
    /\ native = "none"
    /\ ctor = "running"
    /\ pc = [t \in Threads |-> "idle"]
    /\ seen = [t \in Threads |-> 0]

(***************************************************************************)
(* The constructor: init() sets nativePtr, a zero pointer makes it throw,  *)
(* and storeFence() writes the counter before the reference is returned.   *)
(* A thrown constructor leaves an object that only the finalizer reaches.  *)
(***************************************************************************)
ConstructorInit ==
    /\ ctor = "running" /\ native = "none"
    /\ \/ native' = "live" /\ ctor' = ctor
       \/ native' = native /\ ctor' = "threw"
    /\ UNCHANGED <<sharedLock, monitor, pc, seen>>

storeFence ==
    /\ ctor = "running" /\ native = "live"
    /\ sharedLock' = 0
    /\ ctor' = "done"
    /\ UNCHANGED <<monitor, native, pc, seen>>

(***************************************************************************)
(* acquireSharedLock()                                                     *)
(***************************************************************************)
StartUse(t) ==
    /\ ctor = "done"
    /\ pc[t] = "idle"
    /\ Goto(t, "acquireRead")
    /\ UNCHANGED <<sharedLock, monitor, native, ctor, seen>>

AcquireRead(t) ==
    /\ pc[t] = "acquireRead"
    /\ seen' = [seen EXCEPT ![t] = sharedLock]
    /\ Goto(t, IF sharedLock < 0 THEN "acquireClosed"
               ELSE IF sharedLock = MaxLock THEN "acquireOverflow"
               ELSE "acquireCAS")
    /\ UNCHANGED <<sharedLock, monitor, native, ctor>>

AcquireCAS(t) ==
    /\ pc[t] = "acquireCAS"
    /\ sharedLock = seen[t]
    /\ sharedLock' = seen[t] + 1
    /\ Goto(t, "using")
    /\ UNCHANGED <<monitor, native, ctor, seen>>

AcquireRetry(t) ==
    /\ pc[t] = "acquireCAS"
    /\ sharedLock # seen[t]
    /\ Goto(t, "acquireRead")
    /\ UNCHANGED <<sharedLock, monitor, native, ctor, seen>>

(***************************************************************************)
(* releaseSharedLock()                                                     *)
(***************************************************************************)
StartRelease(t) ==
    /\ pc[t] = "using"
    /\ Goto(t, "releaseRead")
    /\ UNCHANGED <<sharedLock, monitor, native, ctor, seen>>

ReleaseRead(t) ==
    /\ pc[t] = "releaseRead"
    /\ seen' = [seen EXCEPT ![t] = sharedLock]
    /\ Goto(t, IF sharedLock < 0 THEN "releaseClosed"
               ELSE IF sharedLock = 0 THEN "releaseUnderflow"
               ELSE "releaseCAS")
    /\ UNCHANGED <<sharedLock, monitor, native, ctor>>

ReleaseCAS(t) ==
    /\ pc[t] = "releaseCAS"
    /\ sharedLock = seen[t]
    /\ sharedLock' = seen[t] - 1
    /\ Goto(t, "idle")
    /\ UNCHANGED <<monitor, native, ctor, seen>>

ReleaseRetry(t) ==
    /\ pc[t] = "releaseCAS"
    /\ sharedLock # seen[t]
    /\ Goto(t, "releaseRead")
    /\ UNCHANGED <<sharedLock, monitor, native, ctor, seen>>

(***************************************************************************)
(* close(), also called by finalize(): it may start on an object whose     *)
(* constructor threw, never on one still under construction.               *)
(***************************************************************************)
StartClose(t) ==
    /\ ctor # "running"
    /\ pc[t] = "idle"
    /\ Goto(t, "closeEnter")
    /\ UNCHANGED <<sharedLock, monitor, native, ctor, seen>>

CloseEnter(t) ==
    /\ pc[t] = "closeEnter"
    /\ monitor = NoThread
    /\ monitor' = t
    /\ Goto(t, "closeRead")
    /\ UNCHANGED <<sharedLock, native, ctor, seen>>

CloseRead(t) ==
    /\ pc[t] = "closeRead"
    /\ Goto(t, IF sharedLock = SHARED_LOCK_CLOSED THEN "closeExit" ELSE "closeCAS")
    /\ UNCHANGED <<sharedLock, monitor, native, ctor, seen>>

CloseCAS(t) ==
    /\ pc[t] = "closeCAS"
    /\ IF sharedLock = 0
       THEN sharedLock' = SHARED_LOCK_CLOSED /\ Goto(t, "doClose")
       ELSE sharedLock' = sharedLock /\ Goto(t, "closeExitThrow")
    /\ UNCHANGED <<monitor, native, ctor, seen>>

\* if (nativePtr != 0) { free(); nativePtr = 0; }
DoClose(t) ==
    /\ pc[t] = "doClose"
    /\ native' = IF native = "none" THEN "none" ELSE "freed"
    /\ Goto(t, "closeExit")
    /\ UNCHANGED <<sharedLock, monitor, ctor, seen>>

CloseExit(t) ==
    /\ pc[t] \in {"closeExit", "closeExitThrow"}
    /\ monitor' = NoThread
    /\ Goto(t, IF pc[t] = "closeExit" THEN "closeReturned" ELSE "closeInUse")
    /\ UNCHANGED <<sharedLock, native, ctor, seen>>

\* The caller takes the method's outcome and goes on with something else.
Resume(t) ==
    /\ pc[t] \in ThrewPCs \cup {"closeReturned"}
    /\ Goto(t, "idle")
    /\ UNCHANGED <<sharedLock, monitor, native, ctor, seen>>

AcquireStep(t) == AcquireRead(t) \/ AcquireCAS(t) \/ AcquireRetry(t)
ReleaseStep(t) == ReleaseRead(t) \/ ReleaseCAS(t) \/ ReleaseRetry(t)
CloseStep(t)   == CloseEnter(t) \/ CloseRead(t) \/ CloseCAS(t) \/ DoClose(t) \/ CloseExit(t)

\* A method that has started goes on by itself; starting one is the caller's choice.
MethodStep(t) == AcquireStep(t) \/ ReleaseStep(t) \/ CloseStep(t)

Next ==
    \/ ConstructorInit \/ storeFence
    \/ \E t \in Threads : \/ StartUse(t) \/ StartRelease(t) \/ StartClose(t)
                          \/ MethodStep(t) \/ Resume(t)

Spec == Init /\ [][Next]_vars

\* The JVM keeps scheduling runnable threads; nothing forces a caller to start a
\* method or to stop using the object.
FairSpec == Spec /\ \A t \in Threads : WF_vars(MethodStep(t))

-----------------------------------------------------------------------------
(***************************************************************************)
(* Properties                                                              *)
(***************************************************************************)

\* Every variable has its type; the counter never leaves -1..MaxLock.
TypeOK ==
    /\ sharedLock \in -1..MaxLock
    /\ monitor \in Threads \cup {NoThread}
    /\ native \in {"none", "live", "freed"}
    /\ ctor \in {"running", "threw", "done"}
    /\ pc \in [Threads -> PCs]
    /\ seen \in [Threads -> -1..MaxLock]

\* Use after free never happens: whoever is between acquireSharedLock() and
\* the end of releaseSharedLock() has a live native object under it, however
\* close() and the finalizer interleave with it.
NoUseAfterFree == Holders # {} => native = "live"

\* A user that pairs its calls is never refused on the way out: neither the
\* "Closed" nor the "underflow" exception of releaseSharedLock() can reach it.
ReleaseNeverThrows == \A t \in Threads : pc[t] \notin {"releaseClosed", "releaseUnderflow"}

\* Racy close: a close() that returns normally, even the one that lost the race
\* and did nothing, returns only when nothing native is left allocated.  It is
\* what the monitor around the compare-and-set and doClose() is for.
CloseReturnedMeansFreed ==
    \A t \in Threads : pc[t] = "closeReturned" => native # "live"

\* close() may throw "Attempt to close while in use" only if the object had a
\* user at the moment of the compare-and-set.
CloseRefusedOnlyInUse ==
    [][\A t \in Threads : CloseCAS(t) /\ pc'[t] = "closeExitThrow" => Holders # {}]_vars

\* Once closed, an object never has another user and its counter never moves.
ClosedIsFinal ==
    [][sharedLock = SHARED_LOCK_CLOSED => sharedLock' = sharedLock /\ Holders' = {}]_vars

\* A successful close always ends with the native object released, whatever the
\* other threads do (needs the fairness of FairSpec).
ClosedLeadsToFreed == sharedLock = SHARED_LOCK_CLOSED ~> native # "live"

\* The detailed protocol implements SharedUse: the compare-and-set in
\* acquireSharedLock() is the moment a user enters, the one in
\* releaseSharedLock() the moment it leaves.
Abstract == INSTANCE SharedUse WITH
    Users <- Threads, MaxUsers <- MaxLock,
    users <- Holders,
    open  <- sharedLock # SHARED_LOCK_CLOSED,
    freed <- native = "freed"
RefinesSharedUse == Abstract!USpec

-----------------------------------------------------------------------------
(***************************************************************************)
(* The inductive invariant behind the safety properties.                   *)
(***************************************************************************)

\* The counter is exactly the number of holders, and a closed object has none.
CounterInv == IF sharedLock = SHARED_LOCK_CLOSED THEN Holders = {}
                                                 ELSE sharedLock = Cardinality(Holders)

\* A local copy that reached the compare-and-set passed the method's tests.
SeenInv == \A t \in Threads :
    /\ pc[t] = "acquireCAS" => seen[t] \in 0..(MaxLock - 1)
    /\ pc[t] = "releaseCAS" => seen[t] \in 1..MaxLock

\* The monitor's owner is the one thread inside the synchronized block.
MonitorInv == \A t \in Threads : pc[t] \in MonitorPCs <=> monitor = t

\* The native object is allocated exactly while the object is open or its
\* closer has not reached free().
NativeInv ==
    /\ \A t \in Threads : pc[t] = "closeCAS" => sharedLock # SHARED_LOCK_CLOSED
    /\ \A t \in Threads : pc[t] = "doClose" => sharedLock = SHARED_LOCK_CLOSED /\ native # "freed"
    /\ \A t \in Threads : pc[t] \in {"closeExit", "closeReturned"}
                             => sharedLock = SHARED_LOCK_CLOSED /\ native # "live"
    /\ sharedLock # SHARED_LOCK_CLOSED => native # "freed"
    /\ sharedLock = SHARED_LOCK_CLOSED /\ native = "live" => \E t \in Threads : pc[t] = "doClose"

\* Nobody reaches the object before its constructor ends, and only close() one
\* whose constructor threw.
CtorInv ==
    /\ ctor = "running" => sharedLock = 0 /\ \A t \in Threads : pc[t] = "idle"
    /\ ctor = "threw" => native = "none"
    /\ ctor = "done" => native # "none"
    /\ \A t \in Threads : pc[t] \in AcquirePCs \cup ReleasePCs \cup {"using"} => ctor = "done"

\* The lifetime of the native object, the counter, the monitor and the
\* constructor agree in every state; it is inductive.
LifetimeInv == CounterInv /\ SeenInv /\ MonitorInv /\ NativeInv /\ CtorInv /\ ReleaseNeverThrows
=============================================================================
