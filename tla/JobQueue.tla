------------------------------ MODULE JobQueue ------------------------------
(***************************************************************************)
(* What the thread pool of common/pool.c promises the code that gives it   *)
(* jobs, with no threads, no ring and no condition variables: jobs start   *)
(* in the order in which they were accepted, each one runs once, and       *)
(* the pool is gone only after every accepted job has run.                 *)
(***************************************************************************)
EXTENDS Naturals, Sequences

CONSTANT Jobs   \* the jobs there may be

VARIABLES pending,   \* accepted, not started
          running,   \* being executed
          done,      \* executed
          gone       \* POOL_free has returned

qvars == <<pending, running, done, gone>>

QInit == pending = <<>> /\ running = {} /\ done = {} /\ gone = FALSE

Accept ==
    /\ ~gone
    /\ \E job \in Jobs \ (done \cup running) : pending' = Append(pending, job)
    /\ UNCHANGED <<running, done, gone>>

Start ==
    /\ pending # <<>>
    /\ pending' = Tail(pending)
    /\ running' = running \cup {Head(pending)}
    /\ UNCHANGED <<done, gone>>

Finish ==
    /\ \E job \in running : running' = running \ {job} /\ done' = done \cup {job}
    /\ UNCHANGED <<pending, gone>>

Vanish ==
    /\ pending = <<>> /\ running = {}
    /\ gone' = TRUE
    /\ UNCHANGED <<pending, running, done>>

QNext == Accept \/ Start \/ Finish \/ Vanish

QSpec == QInit /\ [][QNext]_qvars
=============================================================================
