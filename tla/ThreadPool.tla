----------------------------- MODULE ThreadPool -----------------------------
(***************************************************************************)
(* The thread pool of common/pool.c: the worker threads, the ring of jobs, *)
(* the two condition variables and one client thread.  A section under     *)
(* queueMutex is one step; waiting on a condition variable ends it, and    *)
(* the thread that is woken takes the mutex again in a later step.         *)
(*                                                                         *)
(* There is one client: COVER, FASTCOVER and ZSTDMT each create their own  *)
(* pool and use it from the thread that created it.                        *)
(***************************************************************************)
EXTENDS Integers, Sequences, FiniteSets

CONSTANTS MaxThreads,     \* bound on the threads of the pool
          MaxJobs,        \* bound on the jobs of one behaviour
          MaxAdds,        \* bound on those the client below that calls everything adds
          MaxQueue,       \* bound on the intended queueSize
          MaxResizes      \* bound on the calls of POOL_resize

ASSUME ThreadPoolAssumption ==
    /\ {MaxThreads, MaxJobs} \subseteq Nat \ {0}
    /\ {MaxQueue, MaxResizes, MaxAdds} \subseteq Nat /\ MaxAdds <= MaxJobs

Threads == 1..MaxThreads
Jobs == 1..MaxJobs
None == 0

VARIABLES queueSize, queue, queueHead, queueTail, queueEmpty,
          numThreadsBusy, threadLimit, threadCapacity, shutdown,
          thread,     \* none, ready (about to take the mutex), wait, running, ran, exited
          cur,        \* the job a running thread holds
          client,     \* where the client thread is
          arg,        \* numThreads while it creates, the job while it adds
          done,       \* the jobs whose function has returned
          nextJob, resizes

ring == <<queueSize, queue, queueHead, queueTail, queueEmpty>>
limits == <<threadLimit, threadCapacity, shutdown>>
pool == <<ring, limits, numThreadsBusy, thread, cur>>
bounds == <<nextJob, resizes>>
poolvars == <<pool, client, arg, done, bounds>>

PoolInit ==
    /\ queueSize \in 1..(MaxQueue + 1)              \* one slot more than intended
    /\ queue = [i \in 0..(queueSize - 1) |-> None]
    /\ queueHead = 0 /\ queueTail = 0 /\ queueEmpty = TRUE
    /\ numThreadsBusy = 0 /\ threadLimit = 0 /\ threadCapacity = 0 /\ shutdown = FALSE
    /\ thread = [t \in Threads |-> "none"]
    /\ cur = [t \in Threads |-> None]
    /\ client = "create" /\ arg \in Threads
    /\ done = {} /\ nextJob = 1 /\ resizes = 0

\* The threads that sleep on queuePopCond; the client is the only one on queuePushCond.
Sleeping == {t \in Threads : thread[t] = "wait"}

\* One waiter, if there is one, is woken: it tests its condition again.
SignalPush(c) == CASE c = "addWait" -> "add" [] c = "joinWait" -> "joinJobs" [] OTHER -> c

SignalPop ==
    IF Sleeping = {} THEN UNCHANGED thread
    ELSE \E t \in Sleeping : thread' = [thread EXCEPT ![t] = "ready"]

BroadcastPop(th) == [t \in Threads |-> IF th[t] = "wait" THEN "ready" ELSE th[t]]

\* The jobs in the ring, oldest first.
Queued ==
    LET n == IF queueEmpty THEN 0 ELSE ((queueTail - queueHead - 1) % queueSize) + 1
    IN  [i \in 1..n |-> queue[(queueHead + i - 1) % queueSize]]

Q == INSTANCE JobQueue WITH pending <- Queued, running <- {cur[t] : t \in Threads} \ (done \cup {None}),
                            done <- done, gone <- client = "freed"

(***************************************************************************)
(* Plausible mistakes in this code, for judging the properties; no part of *)
(* the specification.                                                      *)
(***************************************************************************)
\* Without intended queue, the job that still waits for its thread is forgotten.
IgnoresWaitingJob ==
    IF queueSize > 1 THEN queueHead = (queueTail + 1) % queueSize ELSE numThreadsBusy = threadLimit

\* A thread that has finished a job does not signal, the pop alone does.
NoSignalAfterJob(t) ==
    /\ thread[t] = "ran"
    /\ numThreadsBusy' = numThreadsBusy - 1
    /\ thread' = [thread EXCEPT ![t] = "ready"]
    /\ cur' = [cur EXCEPT ![t] = None]
    /\ UNCHANGED <<ring, limits, client, arg, done, bounds>>
-----------------------------------------------------------------------------
IsQueueFull ==
    IF queueSize > 1 THEN queueHead = (queueTail + 1) % queueSize
    ELSE numThreadsBusy = threadLimit \/ ~queueEmpty

(* The worker threads: POOL_thread. *)

ThreadWaits(t) ==
    /\ thread[t] = "ready" /\ ~shutdown
    /\ queueEmpty \/ numThreadsBusy >= threadLimit
    /\ thread' = [thread EXCEPT ![t] = "wait"]
    /\ UNCHANGED <<ring, limits, numThreadsBusy, cur, client, arg, done, bounds>>

ThreadExits(t) ==
    /\ thread[t] = "ready" /\ shutdown
    /\ queueEmpty \/ numThreadsBusy >= threadLimit
    /\ thread' = [thread EXCEPT ![t] = "exited"]
    /\ UNCHANGED <<ring, limits, numThreadsBusy, cur, client, arg, done, bounds>>

ThreadPops(t) ==
    /\ thread[t] = "ready"
    /\ ~queueEmpty /\ numThreadsBusy < threadLimit
    /\ cur' = [cur EXCEPT ![t] = queue[queueHead]]
    /\ queueHead' = (queueHead + 1) % queueSize
    /\ queueEmpty' = (queueHead' = queueTail)
    /\ numThreadsBusy' = numThreadsBusy + 1
    /\ thread' = [thread EXCEPT ![t] = "running"]
    /\ client' = SignalPush(client)
    /\ UNCHANGED <<queueSize, queue, queueTail, limits, arg, done, bounds>>

\* job.function(job.opaque), for a job that is of no further interest.
ThreadRuns(t) ==
    /\ thread[t] = "running"
    /\ done' = done \cup {cur[t]}
    /\ thread' = [thread EXCEPT ![t] = "ran"]
    /\ UNCHANGED <<ring, limits, numThreadsBusy, cur, client, arg, bounds>>

ThreadFinishes(t) ==
    /\ thread[t] = "ran"
    /\ numThreadsBusy' = numThreadsBusy - 1
    /\ thread' = [thread EXCEPT ![t] = "ready"]
    /\ cur' = [cur EXCEPT ![t] = None]
    /\ client' = SignalPush(client)
    /\ UNCHANGED <<ring, limits, arg, done, bounds>>

ThreadStep(t) == ThreadWaits(t) \/ ThreadExits(t) \/ ThreadPops(t) \/ ThreadFinishes(t)
-----------------------------------------------------------------------------
(* The client. *)

Created == {t \in Threads : thread[t] # "none"}

\* One turn of the loop of POOL_create_advanced; the threads that already run find
\* threadLimit = 0 and an empty queue.
CreateThread ==
    /\ client = "create" /\ Cardinality(Created) < arg
    /\ \E t \in Threads :
          /\ t = Cardinality(Created) + 1
          /\ thread' = [thread EXCEPT ![t] = "ready"]
    /\ UNCHANGED <<ring, limits, numThreadsBusy, cur, client, arg, done, bounds>>

CreateEnds ==
    /\ client = "create" /\ Cardinality(Created) = arg
    /\ threadCapacity' = arg /\ threadLimit' = arg
    /\ client' = "idle" /\ arg' = None
    /\ UNCHANGED <<ring, shutdown, numThreadsBusy, thread, cur, done, bounds>>

\* An allocation or a pthread_create fails: POOL_free of what there is.
CreateFails ==
    /\ client = "create" /\ Cardinality(Created) < arg
    /\ threadCapacity' = Cardinality(Created)
    /\ client' = "free" /\ arg' = None
    /\ UNCHANGED <<ring, threadLimit, shutdown, numThreadsBusy, thread, cur, done, bounds>>

\* POOL_add_internal.
AddInternal(job) ==
    IF shutdown THEN UNCHANGED <<ring, thread>>
    ELSE /\ queueEmpty' = FALSE
         /\ queue' = [queue EXCEPT ![queueTail] = job]
         /\ queueTail' = (queueTail + 1) % queueSize
         /\ SignalPop
         /\ UNCHANGED <<queueSize, queueHead>>

\* POOL_add, from the first lock or from a wake-up.
Add ==
    /\ client = "add"
    /\ IF IsQueueFull /\ ~shutdown
       THEN client' = "addWait" /\ UNCHANGED <<ring, thread, arg>>
       ELSE AddInternal(arg) /\ client' = "idle" /\ arg' = None
    /\ UNCHANGED <<limits, numThreadsBusy, cur, done, bounds>>

CallAdd ==
    /\ client = "idle" /\ nextJob <= MaxAdds
    /\ client' = "add" /\ arg' = nextJob /\ nextJob' = nextJob + 1
    /\ UNCHANGED <<pool, done, resizes>>

\* POOL_tryAdd, when it takes the job; a full queue changes nothing.
TryAdd ==
    /\ client = "idle" /\ nextJob <= MaxAdds
    /\ ~IsQueueFull
    /\ AddInternal(nextJob) /\ nextJob' = nextJob + 1
    /\ UNCHANGED <<limits, numThreadsBusy, cur, client, arg, done, resizes>>

\* POOL_joinJobs.
JoinJobs ==
    /\ client = "joinJobs"
    /\ client' = IF ~queueEmpty \/ numThreadsBusy > 0 THEN "joinWait" ELSE "idle"
    /\ UNCHANGED <<pool, arg, done, bounds>>

\* POOL_resize_internal: a smaller pool keeps its threads and lowers the limit; a larger
\* one creates the missing threads, of which the k-th may fail, or has no memory for them.
ResizeInternal(n) ==
    IF n <= threadCapacity
    THEN /\ threadLimit' = IF n = 0 THEN threadLimit ELSE n
         /\ thread' = BroadcastPop(thread) /\ UNCHANGED threadCapacity
    ELSE \E k \in threadCapacity..n :
            /\ thread' = [t \in Threads |-> IF t \in (threadCapacity + 1)..k THEN "ready"
                                            ELSE BroadcastPop(thread)[t]]
            /\ threadCapacity' = k
            /\ threadLimit' = IF k = n THEN n ELSE threadLimit

Resize ==
    /\ client = "idle" /\ resizes < MaxResizes
    /\ \E n \in 0..MaxThreads : ResizeInternal(n)
    /\ resizes' = resizes + 1
    /\ UNCHANGED <<ring, shutdown, numThreadsBusy, cur, client, arg, done, nextJob>>

\* POOL_join in three parts: shutdown is set, the sleepers are woken (after the mutex
\* has been released), the threads are joined.  POOL_free then destroys everything.
Shutdown ==
    /\ client = "free"
    /\ shutdown' = TRUE /\ client' = "wake"
    /\ UNCHANGED <<ring, threadLimit, threadCapacity, numThreadsBusy, thread, cur, arg, done, bounds>>

WakeAll ==
    /\ client = "wake"
    /\ thread' = BroadcastPop(thread) /\ client' = "join"
    /\ UNCHANGED <<ring, limits, numThreadsBusy, cur, arg, done, bounds>>

JoinAll ==
    /\ client = "join"
    /\ \A t \in 1..threadCapacity : thread[t] = "exited"
    /\ client' = "freed"
    /\ UNCHANGED <<pool, arg, done, bounds>>

ClientStep == CreateThread \/ CreateEnds \/ Add \/ JoinJobs \/ Shutdown \/ WakeAll \/ JoinAll
-----------------------------------------------------------------------------
(* A client that uses every operation, in any order. *)

CallJoinJobs ==
    /\ client = "idle" /\ client' = "joinJobs"
    /\ UNCHANGED <<pool, arg, done, bounds>>

CallFree ==
    /\ client = "idle" /\ client' = "free"
    /\ UNCHANGED <<pool, arg, done, bounds>>

ClientCalls == CallAdd \/ TryAdd \/ CallJoinJobs \/ Resize \/ CallFree
=============================================================================
