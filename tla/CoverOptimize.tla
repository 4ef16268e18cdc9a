---------------------------- MODULE CoverOptimize ----------------------------
(***************************************************************************)
(* The search for the best training parameters,                            *)
(* ZDICT_optimizeTrainFromBuffer_cover and ..._fastCover: one context per  *)
(* d, one job per (d, k) that runs on the thread pool or, with one thread, *)
(* inside the loop, and the COVER_best_t in which the jobs leave the best  *)
(* dictionary.  The same run also drives the pool by a client that uses    *)
(* all of its operations (usage = "pool").                                 *)
(*                                                                         *)
(* A dictionary is the number of the job that built it; sizes are small    *)
(* numbers, the error codes the largest of them, as in size_t.             *)
(***************************************************************************)
EXTENDS ThreadPool, FiniteSetsExt

CONSTANTS Ds, Ks        \* how many values of d, and of k for each d

ASSUME CoverAssumption == {Ds, Ks} \subseteq Nat \ {0} /\ Ds * Ks <= MaxJobs

ErrGeneric == 9         \* ERROR(GENERIC) is (size_t)-1, the largest size_t
ErrOther == 8           \* the other error codes are below it
IsError(size) == size >= ErrOther

VARIABLES usage,        \* "pool", "cover" or, without a pool, "inline"
          phase,        \* where ZDICT_optimizeTrainFromBuffer_cover is
          d, k,
          ctxs,         \* the values of d whose context is alive
          best,         \* the COVER_best_t
          least,        \* the least csize of a dictionary passed to COVER_best_finish
          oom,          \* some malloc of COVER_best_finish has failed
          result        \* what the function returned: a dictionary or an error

search == <<phase, d, k, ctxs, result>>
covervars == <<usage, search, best, least, oom>>
vars == <<poolvars, covervars>>

JobOf(dd, kk) == (dd - 1) * Ks + kk
CtxOf(job) == (job - 1) \div Ks + 1

Init ==
    /\ PoolInit
    /\ usage \in {"pool", "cover", "inline"}
    /\ usage # "pool" => queueSize = 2 /\ arg = (IF usage = "cover" THEN 2 ELSE 1)
    /\ phase = (IF usage = "pool" THEN "off" ELSE "start")
    /\ d = 1 /\ k = 1 /\ ctxs = {} /\ result = None
    /\ best = [live |-> FALSE, liveJobs |-> 0, dict |-> None, room |-> -1, dictSize |-> 0, csize |-> ErrGeneric]
    /\ least = ErrGeneric /\ oom = FALSE

\* What COVER_selectDict returns for the dictionary of a job: when there is no memory
\* for its buffers the "error" is the size of the content, no error code at all.
COVER_selectDict(job) ==
    {[dict |-> job, dictSize |-> q[1], csize |-> q[2]] : q \in {<<1, 1>>, <<1, 2>>, <<2, 1>>}}
    \cup {[dict |-> None, dictSize |-> 0, csize |-> c] : c \in {1, ErrOther}}

\* COVER_tryParameters and FASTCOVER_tryParameters up to COVER_best_finish; without
\* memory of its own the job reports ERROR(GENERIC).
TryParameters(job) ==
    COVER_selectDict(job) \cup {[dict |-> None, dictSize |-> 0, csize |-> ErrGeneric]}

(***************************************************************************)
(* Plausible mistakes in this code, for judging the properties; no part of *)
(* the specification.                                                      *)
(***************************************************************************)
\* A buffer, once allocated, is kept for dictionaries of any size.
KeepsSmallBuffer(sel) == best.room = -1

\* The context goes as soon as the last job has been queued.
NoWait == TRUE
-----------------------------------------------------------------------------
(* COVER_best_t. *)

NeedsBuffer(sel) == best.room = -1 \/ best.dictSize < sel.dictSize

\* best after COVER_best_finish; alloc: whether malloc(dictSize), if called, succeeds.
Finished(sel, alloc) ==
    LET left == [best EXCEPT !.liveJobs = @ - 1]
        roomy == IF NeedsBuffer(sel) THEN [left EXCEPT !.room = sel.dictSize, !.dict = None] ELSE left
    IN  CASE sel.csize >= best.csize -> left
          [] sel.csize < best.csize /\ NeedsBuffer(sel) /\ ~alloc ->
                [left EXCEPT !.room = -1, !.dict = None, !.dictSize = 0, !.csize = ErrGeneric]
          [] OTHER ->
                IF sel.dict = None THEN roomy
                ELSE [roomy EXCEPT !.dict = sel.dict, !.dictSize = sel.dictSize, !.csize = sel.csize]

\* A thread asleep in COVER_best_wait is woken by the last job, or by one whose malloc failed.
Woken(left, failed) == IF phase = "sleep" /\ (left = 0 \/ failed) THEN "wait" ELSE phase

COVER_best_finish(sel) ==
    \E alloc \in BOOLEAN :
        LET failed == sel.csize < best.csize /\ NeedsBuffer(sel) /\ ~alloc
        IN  /\ best' = Finished(sel, alloc)
            /\ oom' = (oom \/ failed)
            /\ least' = IF sel.dict = None THEN least ELSE Min({least, sel.csize})
            /\ phase' = Woken(best.liveJobs - 1, failed)

\* COVER_best_wait lets the thread go on.
WaitOver == best.liveJobs = 0
-----------------------------------------------------------------------------
(* The jobs. *)

\* While its thread is "running" the job reads the context; what it has found it leaves
\* in COVER_best_t, under that mutex, and touches neither again.
RunJob(t) ==
    /\ usage = "cover" /\ thread[t] = "running"
    /\ \E sel \in TryParameters(cur[t]) : COVER_best_finish(sel)
    /\ ThreadRuns(t)
    /\ UNCHANGED <<usage, d, k, ctxs, result>>
-----------------------------------------------------------------------------
(* ZDICT_optimizeTrainFromBuffer_cover. *)

Idle == client \in (IF usage = "inline" THEN {"create"} ELSE {"idle"})

Goto(p) == phase' = p /\ UNCHANGED <<poolvars, usage, d, k, result, least, oom>>

\* COVER_best_init, once there is a pool if one is wanted.
Begin ==
    /\ phase = "start" /\ Idle
    /\ best' = [best EXCEPT !.live = TRUE]
    /\ Goto("ctxInit") /\ UNCHANGED ctxs

\* POOL_create returned NULL (after freeing what it had).
NoPool ==
    /\ phase = "start" /\ usage = "cover" /\ client = "freed"
    /\ result' = ErrOther + MaxJobs /\ phase' = "returned"
    /\ UNCHANGED <<poolvars, usage, d, k, ctxs, best, least, oom>>

CtxInit ==
    /\ phase = "ctxInit" /\ d <= Ds
    /\ ctxs' = ctxs \cup {d} /\ k' = 1 /\ phase' = "loop"
    /\ UNCHANGED <<poolvars, usage, d, result, best, least, oom>>

\* COVER_ctx_init fails, or malloc of the data of a job does: COVER_best_destroy, the
\* context if there is one, POOL_free.
GiveUp ==
    /\ \/ phase = "ctxInit" /\ d <= Ds
       \/ phase = "loop" /\ k <= Ks /\ Idle
    /\ result' = ErrOther + MaxJobs /\ phase' = "wait"
    /\ UNCHANGED <<poolvars, usage, d, k, ctxs, best, least, oom>>

\* COVER_checkParameters refuses this k.
SkipK ==
    /\ phase = "loop" /\ k <= Ks /\ Idle
    /\ k' = k + 1
    /\ UNCHANGED <<poolvars, usage, phase, d, ctxs, result, best, least, oom>>

\* COVER_best_start and POOL_add.
Launch ==
    /\ phase = "loop" /\ k <= Ks /\ client = "idle" /\ usage = "cover"
    /\ best' = [best EXCEPT !.liveJobs = @ + 1]
    /\ k' = k + 1
    /\ client' = "add" /\ arg' = JobOf(d, k)
    /\ UNCHANGED <<pool, done, bounds, usage, phase, d, ctxs, result, least, oom>>

\* COVER_best_start and COVER_tryParameters without a pool.
RunInline ==
    /\ phase = "loop" /\ k <= Ks /\ usage = "inline"
    /\ \E sel \in TryParameters(JobOf(d, k)), alloc \in BOOLEAN :
          /\ best' = [Finished(sel, alloc) EXCEPT !.liveJobs = @ + 1]
          /\ oom' = (oom \/ (sel.csize < best.csize /\ NeedsBuffer(sel) /\ ~alloc))
          /\ least' = IF sel.dict = None THEN least ELSE Min({least, sel.csize})
    /\ k' = k + 1
    /\ UNCHANGED <<poolvars, usage, phase, d, ctxs, result>>

\* COVER_best_wait: at the end of the loop over k, and in COVER_best_destroy.
EndOfLoop ==
    /\ phase = "loop" /\ k > Ks /\ Idle
    /\ Goto("wait") /\ UNCHANGED <<ctxs, best>>

BestWait ==
    /\ phase = "wait"
    /\ Goto(IF ~WaitOver THEN "sleep" ELSE IF result = None THEN "ctxDestroy" ELSE "destroy")
    /\ UNCHANGED <<ctxs, best>>

NextD ==
    /\ phase = "ctxDestroy"
    /\ ctxs' = {} /\ d' = d + 1 /\ phase' = "ctxInit"
    /\ UNCHANGED <<poolvars, usage, k, result, best, least, oom>>

\* After the last d: the best dictionary is copied out, or its error returned.
Result ==
    /\ phase = "ctxInit" /\ d > Ds
    /\ result' = IF IsError(best.csize) THEN best.csize + MaxJobs ELSE best.dict
    /\ phase' = "wait"
    /\ UNCHANGED <<poolvars, usage, d, k, ctxs, best, least, oom>>

\* The end of COVER_best_destroy, COVER_ctx_destroy, POOL_free (of NULL: nothing).
Destroy ==
    /\ phase = "destroy"
    /\ best' = [best EXCEPT !.live = FALSE, !.dict = None, !.room = -1]
    /\ ctxs' = {} /\ phase' = "returned"
    /\ client' = (IF usage = "cover" THEN "free" ELSE client)
    /\ UNCHANGED <<pool, arg, done, bounds, usage, d, k, result, least, oom>>

Search == Begin \/ NoPool \/ CtxInit \/ GiveUp \/ SkipK \/ Launch \/ RunInline \/ EndOfLoop
          \/ BestWait \/ NextD \/ Result \/ Destroy
-----------------------------------------------------------------------------
PoolStep(A) == usage # "inline" /\ A /\ UNCHANGED covervars

Next ==
    \/ \E t \in Threads : PoolStep(ThreadStep(t))
    \/ \E t \in Threads : usage = "pool" /\ PoolStep(ThreadRuns(t))
    \/ \E t \in Threads : RunJob(t)
    \/ PoolStep(ClientStep \/ CreateFails)
    \/ usage = "pool" /\ PoolStep(ClientCalls)
    \/ Search

\* Every thread that can run gets to run; nobody has to call the pool.
Fairness ==
    /\ \A t \in Threads : /\ WF_vars(PoolStep(ThreadStep(t)))
                          /\ WF_vars(usage = "pool" /\ PoolStep(ThreadRuns(t)))
                          /\ WF_vars(RunJob(t))
    /\ WF_vars(PoolStep(ClientStep))
    /\ WF_vars(Search)

Spec == Init /\ [][Next]_vars /\ Fairness
-----------------------------------------------------------------------------
(* Properties. *)

\* POOL_add, POOL_thread, POOL_free (pool.c:67): the ring, the flag queueEmpty and the
\* thread limit together behave as a queue of jobs: each accepted job starts once, in
\* order, and the pool is freed only when all of them have run.
ImplementsJobQueue == Q!QSpec

\* POOL_add, POOL_joinJobs and POOL_free return, and so does the search for parameters.
CallsReturn ==
    /\ client \in {"add", "joinJobs", "free"} ~> client \in {"idle", "freed"}
    /\ phase = "start" ~> phase = "returned"

\* The context and the COVER_best_t are locals of the function: no job that has not yet
\* reached the end of COVER_best_finish may outlive them (cover.c:1283, 1250).
ContextOutlivesJobs ==
    usage = "cover" =>
        \A job \in {cur[t] : t \in {t \in Threads : thread[t] = "running"}} \cup {Queued[i] : i \in DOMAIN Queued} :
            CtxOf(job) \in ctxs /\ best.live

\* While no malloc fails, COVER_best_t holds the best of all selections so far, whatever
\* the order in which the jobs finish; and never a dictionary larger than its buffer.
BestIsBest ==
    best.live =>
        /\ best.room = -1 \/ best.dictSize <= best.room
        /\ ~IsError(best.csize) => best.dict # None /\ best.csize >= least
        /\ ~oom => best.csize = least
=============================================================================
