------------------------- MODULE RecyclingBufferPool -------------------------
(***************************************************************************)
(* RecyclingBufferPool and the streams that share it.  A stream takes a    *)
(* buffer in its constructor and gives it back in close(); skip() borrows  *)
(* a second one.  Streams are used by several threads, the finalizer's     *)
(* among them; each method is synchronized on its stream, but the pool is  *)
(* shared without any lock.                                                *)
(*                                                                         *)
(* poll() and add() of ConcurrentLinkedQueue are atomic.  The queue holds  *)
(* soft references, which the garbage collector may clear at any time as   *)
(* long as nobody else refers to the buffer.                               *)
(***************************************************************************)
EXTENDS Integers, Sequences, FiniteSets

CONSTANTS Clients,     \* the threads that use the streams, the finalizer's among them
          Streams,
          Buffers,     \* identities of buffers; one in no use any more is collected
          Small,       \* the buffers of a capacity below buffSize
          None,        \* null
          MaxSkips     \* bound on the skips of one stream

ASSUME PoolAssumption ==
    /\ Small \subseteq Buffers
    /\ None \notin Buffers \cup Clients \cup Streams
    /\ MaxSkips \in Nat

VARIABLES pool,      \* the queue of soft references; a cleared one is None
          src,       \* srcByteBuffer or dstByteBuffer of each stream
          state,     \* new, open, closed (isClosed)
          at,        \* where each thread is
          on,        \* the stream whose monitor it holds
          tmp,       \* the local variable buf of skip(), or the argument of release()
          skips      \* calls of skip() so far

poolVars == <<pool, src, state, at, on, tmp, skips>>

PoolInit ==
    /\ pool = <<>>
    /\ src = [s \in Streams |-> None]
    /\ state = [s \in Streams |-> "new"]
    /\ at = [t \in Clients |-> "idle"]
    /\ on = [t \in Clients |-> None]
    /\ tmp = [t \in Clients |-> None]
    /\ skips = [s \in Streams |-> 0]

\* The monitor of s is free.
Free(s) == \A t \in Clients : on[t] # s

\* The buffers some running code can reach.  A closed stream keeps its reference
\* but never uses it.
Held == ({src[s] : s \in {s \in Streams : state[s] = "open"}} \cup {tmp[t] : t \in Clients}) \ {None}

InPool == {i \in 1..Len(pool) : pool[i] # None}

Unused == Buffers \ (Held \cup {pool[i] : i \in InPool})

Go(t, place) == at' = [at EXCEPT ![t] = place]

(***************************************************************************)
(* Plausible mistakes in this code, for judging the properties; no part of *)
(* the specification.                                                      *)
(***************************************************************************)
\* close() without the test of isClosed.
CloseAgain(t, s) ==
    /\ at[t] = "idle" /\ Free(s) /\ state[s] # "new"
    /\ state' = [state EXCEPT ![s] = "closed"]
    /\ on' = [on EXCEPT ![t] = s]
    /\ tmp' = [tmp EXCEPT ![t] = src[s]]
    /\ Go(t, "release")
    /\ UNCHANGED <<pool, src, skips>>

(***************************************************************************)
(* The pool                                                                *)
(***************************************************************************)
\* get(): the queue is empty, so a buffer is allocated ...
PollEmpty(t) ==
    /\ at[t] \in {"getSrc", "getTmp"}
    /\ pool = <<>>
    /\ \E b \in Unused \ Small : tmp' = [tmp EXCEPT ![t] = b]
    /\ Go(t, IF at[t] = "getSrc" THEN "construct" ELSE "skip")
    /\ UNCHANGED <<pool, src, state, on, skips>>

\* ... the reference was cleared, so get() tries again ...
PollCleared(t) ==
    /\ at[t] \in {"getSrc", "getTmp"}
    /\ pool # <<>> /\ Head(pool) = None
    /\ pool' = Tail(pool)
    /\ UNCHANGED <<src, state, at, on, tmp, skips>>

\* ... or a buffer is recycled.
PollBuffer(t) ==
    /\ at[t] \in {"getSrc", "getTmp"}
    /\ pool # <<>> /\ Head(pool) # None
    /\ pool' = Tail(pool)
    /\ tmp' = [tmp EXCEPT ![t] = Head(pool)]
    /\ Go(t, IF at[t] = "getSrc" THEN "construct" ELSE "skip")
    /\ UNCHANGED <<src, state, on, skips>>

\* release() keeps a buffer only if its capacity is at least buffSize.
Keeps(b) == b \notin Small

Release(t) ==
    /\ at[t] = "release"
    /\ pool' = IF Keeps(tmp[t]) THEN Append(pool, tmp[t]) ELSE pool
    /\ tmp' = [tmp EXCEPT ![t] = None]
    /\ on' = [on EXCEPT ![t] = None]
    /\ Go(t, "idle")
    /\ UNCHANGED <<src, state, skips>>

\* The collector clears a soft reference to a buffer nobody holds.
ClearReference ==
    /\ \E i \in InPool : pool[i] \notin Held /\ pool' = [pool EXCEPT ![i] = None]
    /\ UNCHANGED <<src, state, at, on, tmp, skips>>

(***************************************************************************)
(* The streams                                                             *)
(***************************************************************************)
\* new ZstdInputStream(in, pool): nobody else has the stream yet.
Construct(t, s) ==
    /\ at[t] = "idle" /\ state[s] = "new" /\ Free(s)
    /\ on' = [on EXCEPT ![t] = s]
    /\ Go(t, "getSrc")
    /\ UNCHANGED <<pool, src, state, tmp, skips>>

Constructed(t) ==
    /\ at[t] = "construct"
    /\ src' = [src EXCEPT ![on[t]] = tmp[t]]
    /\ state' = [state EXCEPT ![on[t]] = "open"]
    /\ tmp' = [tmp EXCEPT ![t] = None]
    /\ on' = [on EXCEPT ![t] = None]
    /\ Go(t, "idle")
    /\ UNCHANGED <<pool, skips>>

\* skip(): read() into a borrowed buffer; the finally block gives it back whether
\* read() returned or threw.
Skip(t, s) ==
    /\ at[t] = "idle" /\ state[s] = "open" /\ Free(s)
    /\ skips[s] < MaxSkips
    /\ skips' = [skips EXCEPT ![s] = @ + 1]
    /\ on' = [on EXCEPT ![t] = s]
    /\ Go(t, "getTmp")
    /\ UNCHANGED <<pool, src, state, tmp>>

Skipped(t) ==
    /\ at[t] = "skip"
    /\ Go(t, "release")
    /\ UNCHANGED <<pool, src, state, on, tmp, skips>>

\* close(), by the application or by finalize(); on a closed stream it returns.
Close(t, s) ==
    /\ at[t] = "idle" /\ Free(s) /\ state[s] = "open"
    /\ state' = [state EXCEPT ![s] = "closed"]
    /\ on' = [on EXCEPT ![t] = s]
    /\ tmp' = [tmp EXCEPT ![t] = src[s]]
    /\ Go(t, "release")
    /\ UNCHANGED <<pool, src, skips>>

\* An application hands a buffer of its own to the pool.
Donate(t) ==
    /\ at[t] = "idle"
    /\ \E b \in Unused \cap Small : tmp' = [tmp EXCEPT ![t] = b]
    /\ Go(t, "release")
    /\ UNCHANGED <<pool, src, state, on, skips>>

Get(t) == PollEmpty(t) \/ PollCleared(t) \/ PollBuffer(t)

Run(t) == Get(t) \/ Release(t) \/ Constructed(t) \/ Skipped(t)

PoolNext ==
    \/ ClearReference
    \/ \E t \in Clients :
          \/ Run(t) \/ Donate(t)
          \/ \E s \in Streams : Construct(t, s) \/ Skip(t, s) \/ Close(t, s)

PoolSpec == PoolInit /\ [][PoolNext]_poolVars

\* A thread inside a method keeps running.
PoolFairSpec == PoolSpec /\ \A t \in Clients : WF_poolVars(Run(t))

-----------------------------------------------------------------------------
(***************************************************************************)
(* Properties                                                              *)
(***************************************************************************)

\* Every variable has its type, and a thread has a buffer in hand exactly where its
\* method has a local variable for one.  No buffer smaller than buffSize is in the
\* pool or in a stream, whatever others have released.
PoolTypeOK ==
    /\ pool \in Seq((Buffers \ Small) \cup {None})
    /\ src \in [Streams -> (Buffers \ Small) \cup {None}]
    /\ state \in [Streams -> {"new", "open", "closed"}]
    /\ at \in [Clients -> {"idle", "getSrc", "getTmp", "construct", "skip", "release"}]
    /\ on \in [Clients -> Streams \cup {None}]
    /\ tmp \in [Clients -> Buffers \cup {None}]
    /\ skips \in [Streams -> 0..MaxSkips]
    /\ \A s \in Streams : state[s] = "open" => src[s] # None
    /\ \A t \in Clients : tmp[t] # None <=> at[t] \in {"construct", "skip", "release"}
    /\ \A t \in Clients : at[t] \in {"construct", "skip"} => tmp[t] \notin Small

\* Where a buffer is: in an open stream, in a running method, or in the queue.
Places(b) ==
    {<<"src", s>> : s \in {s \in Streams : state[s] = "open" /\ src[s] = b}}
    \cup {<<"tmp", t>> : t \in {t \in Clients : tmp[t] = b}}
    \cup {<<"pool", i>> : i \in {i \in 1..Len(pool) : pool[i] = b}}

\* No two streams ever work in the same array, and none in an array the pool may
\* hand out: a buffer is in one place at a time, whoever closes, skips, or
\* finalizes, and however often.
OneOwner == \A b \in Buffers : Cardinality(Places(b)) <= 1

=============================================================================
