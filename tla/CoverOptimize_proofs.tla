------------------------- MODULE CoverOptimize_proofs -------------------------
(***************************************************************************)
(* Proofs about the thread pool and the search for training parameters     *)
(* that runs on it, for any number of threads, jobs and queue slots: the   *)
(* pool is the job queue of JobQueue, no job outlives what it works on,    *)
(* and the best dictionary wins.                                           *)
(***************************************************************************)
EXTENDS CoverOptimize, SequenceTheorems, FiniteSetTheorems, TLAPS

(***************************************************************************)
(* The ring of s slots: slot h holds the oldest of its n jobs, t is the    *)
(* first slot after the youngest.                                          *)
(***************************************************************************)
Pos(h, i, s) == (h + i - 1) % s
Ring(q, h, n, s) == [i \in 1 .. n |-> q[Pos(h, i, s)]]
Span(h, t, s) == ((t - h - 1) % s) + 1

\* Remainders one turn around.
Wrap(x, s) == IF x < 0 THEN x + s ELSE IF x < s THEN x ELSE x - s

LEMMA Around ==
    ASSUME NEW s \in Nat \ {0}, NEW x \in Int, -s <= x, x < 2 * s
    PROVE  x % s = Wrap(x, s)
<1> DEFINE r == x % s
           z == x \div s
<1>1. r \in 0 .. s - 1 /\ z \in Int /\ x = s * z + r
  OBVIOUS
<1> HIDE DEF r, z
<1>2. z = -1 \/ z = 0 \/ z = 1
  <2>1. CASE z >= 2
    <3>1. s * z >= 2 * s
      BY <1>1, <2>1
    <3> QED
      BY <1>1, <3>1
  <2>2. CASE z <= -2
    <3>1. s * z <= -(2 * s)
      BY <1>1, <2>2
    <3> QED
      BY <1>1, <3>1
  <2> QED
    BY <1>1, <2>1, <2>2
<1>3. x = r - s \/ x = r \/ x = r + s
  BY <1>1, <1>2
<1>4. r = Wrap(x, s)
  BY <1>1, <1>3 DEF Wrap
<1> QED
  BY <1>4 DEF r

\* How many jobs the ring holds, and where they are.
LEMMA RingPos ==
    ASSUME NEW s \in Nat \ {0}, NEW h \in 0 .. s - 1, NEW i \in 1 .. s + 1
    PROVE  /\ Pos(h, i, s) = IF h + i - 1 < s THEN h + i - 1 ELSE h + i - 1 - s
           /\ Pos(h, i, s) \in 0 .. s - 1
<1>1. PICK x \in Int : x = h + i - 1 /\ -s <= x /\ x < 2 * s
  OBVIOUS
<1>2. x % s = Wrap(x, s)
  BY <1>1, Around
<1>3. Pos(h, i, s) = Wrap(x, s)
  BY <1>1, <1>2 DEF Pos
<1> QED
  BY <1>1, <1>3 DEF Wrap

LEMMA RingSpan ==
    ASSUME NEW s \in Nat \ {0}, NEW h \in 0 .. s - 1, NEW t \in 0 .. s - 1
    PROVE  /\ Span(h, t, s) \in 1 .. s
           /\ Span(h, t, s) = IF t > h THEN t - h ELSE t - h + s
<1>1. PICK x \in Int : x = t - h - 1 /\ -s <= x /\ x < 2 * s
  OBVIOUS
<1>2. x % s = Wrap(x, s)
  BY <1>1, Around
<1>3. PICK c : c = Span(h, t, s)
  OBVIOUS
<1>4. c = Wrap(x, s) + 1
  BY <1>1, <1>2, <1>3 DEF Span
<1>5. c \in 1 .. s /\ c = IF t > h THEN t - h ELSE t - h + s
  BY <1>1, <1>4 DEF Wrap
<1> QED
  BY <1>3, <1>5

LEMMA RingSeq ==
    ASSUME NEW s \in Nat \ {0}, NEW h \in 0 .. s - 1, NEW n \in 0 .. s,
           NEW q \in [0 .. s - 1 -> Nat]
    PROVE  /\ Ring(q, h, n, s) \in Seq(Nat)
           /\ Len(Ring(q, h, n, s)) = n
           /\ \A i \in 1 .. n : Ring(q, h, n, s)[i] = q[Pos(h, i, s)]
<1>1. PICK r : r = Ring(q, h, n, s)
  OBVIOUS
<1>2. \A i \in 1 .. n : Pos(h, i, s) \in 0 .. s - 1
  <2>1. ASSUME NEW i \in 1 .. n PROVE Pos(h, i, s) \in 0 .. s - 1
    <3>1. i \in 1 .. s + 1
      OBVIOUS
    <3> QED
      BY <3>1, RingPos
  <2> QED
    BY <2>1
<1>3. r = [i \in 1 .. n |-> q[Pos(h, i, s)]]
  BY <1>1 DEF Ring
<1>4. r \in [1 .. n -> Nat] /\ n \in Nat
  BY <1>2, <1>3
<1>5. r \in Seq(Nat) /\ Len(r) = n
  BY <1>4
<1> QED
  BY <1>1, <1>3, <1>5

\* The oldest job leaves.
PopArgs(q, s, h, n, m, g) ==
    /\ s \in Nat \ {0} /\ h \in 0 .. s - 1 /\ n \in 1 .. s /\ m \in 0 .. s /\ m = n - 1
    /\ q \in [0 .. s - 1 -> Nat] /\ g = (h + 1) % s

Popped(R, P, job) == R # << >> /\ Head(R) = job /\ P = Tail(R)

LEMMA RingPop ==
    ASSUME NEW q, NEW s, NEW h, NEW n, NEW m, NEW g, PopArgs(q, s, h, n, m, g)
    PROVE  Popped(Ring(q, h, n, s), Ring(q, g, m, s), q[h])
<1>r. PICK R : R = Ring(q, h, n, s)
  OBVIOUS
<1>p. PICK P : P = Ring(q, g, m, s)
  OBVIOUS
<1> USE DEF PopArgs
<1>1. g = (IF h + 1 < s THEN h + 1 ELSE 0) /\ g \in 0 .. s - 1
  <2>1. PICK j \in 1 .. s + 1 : j = 2
    OBVIOUS
  <2>2. g = Pos(h, j, s)
    BY <2>1 DEF Pos
  <2>3. /\ Pos(h, j, s) = IF h + j - 1 < s THEN h + j - 1 ELSE h + j - 1 - s
        /\ Pos(h, j, s) \in 0 .. s - 1
    BY RingPos
  <2> QED
    BY <2>1, <2>2, <2>3
<1>2. m \in 0 .. s /\ n \in 0 .. s
  OBVIOUS
<1>4. R \in Seq(Nat) /\ Len(R) = n /\ \A i \in 1 .. n : R[i] = q[Pos(h, i, s)]
  BY <1>r, <1>2, RingSeq
<1>5. P \in Seq(Nat) /\ Len(P) = m /\ \A i \in 1 .. m : P[i] = q[Pos(g, i, s)]
  <2>1. g \in 0 .. s - 1
    BY <1>1
  <2> HIDE <1>1
  <2>2. /\ Ring(q, g, m, s) \in Seq(Nat)
        /\ Len(Ring(q, g, m, s)) = m
        /\ \A i \in 1 .. m : Ring(q, g, m, s)[i] = q[Pos(g, i, s)]
    BY <2>1, RingSeq
  <2> QED
    BY <1>p, <2>2
<1>6. ASSUME NEW i \in 1 .. m, NEW j, j = i + 1 PROVE Pos(g, i, s) = Pos(h, j, s)
  <2>1. i \in 1 .. s + 1 /\ j \in 1 .. s + 1
    BY <1>6
  <2>2. Pos(g, i, s) = IF g + i - 1 < s THEN g + i - 1 ELSE g + i - 1 - s
    BY <1>1, <2>1, RingPos
  <2>4. Pos(h, j, s) = IF h + j - 1 < s THEN h + j - 1 ELSE h + j - 1 - s
    BY <2>1, RingPos
  <2>5. PICK x : x = Pos(g, i, s)
    OBVIOUS
  <2>6. PICK y : y = Pos(h, j, s)
    OBVIOUS
  <2>7. x = y
    BY <1>1, <1>6, <2>2, <2>4, <2>5, <2>6, SMTT(30)
  <2> QED
    BY <2>5, <2>6, <2>7
<1>7. Pos(h, 1, s) = h
  <2>1. PICK j \in 1 .. s + 1 : j = 1
    OBVIOUS
  <2>2. Pos(h, j, s) = IF h + j - 1 < s THEN h + j - 1 ELSE h + j - 1 - s
    BY RingPos
  <2> QED
    BY <2>1, <2>2
<1>8. R # << >> /\ Head(R) = q[h]
  <2>1. R # << >> /\ 1 \in 1 .. n
    BY <1>4
  <2>2. Head(R) = R[1]
    BY <1>4, <2>1
  <2> QED
    BY <1>4, <1>7, <2>1, <2>2
<1>9. P = Tail(R)
  <2>1. Tail(R) \in Seq(Nat) /\ Len(Tail(R)) = m /\ \A i \in 1 .. m : Tail(R)[i] = R[i + 1]
    BY <1>4, <1>8, HeadTailProperties
  <2>2. ASSUME NEW i \in 1 .. m PROVE P[i] = Tail(R)[i]
    <3>1. PICK j : j = i + 1 /\ j \in 1 .. n
      OBVIOUS
    <3>2. R[j] = q[Pos(h, j, s)]
      BY <1>4, <3>1
    <3>3. Pos(g, i, s) = Pos(h, j, s)
      BY <1>6, <3>1
    <3> QED
      BY <1>5, <2>1, <3>1, <3>2, <3>3
  <2> QED
    BY <1>5, <2>1, <2>2, SeqEqual
<1> QED
  BY <1>r, <1>p, <1>8, <1>9, Zenon DEF Popped

\* A job is added where there is room.
PushArgs(q, s, h, n, m, t, job) ==
    /\ s \in Nat \ {0} /\ h \in 0 .. s - 1 /\ n \in 0 .. s - 1 /\ m \in 0 .. s /\ m = n + 1
    /\ q \in [0 .. s - 1 -> Nat] /\ job \in Nat /\ t = Pos(h, m, s)

Pushed(R, P, job) == P = Append(R, job)

LEMMA RingPush ==
    ASSUME NEW q, NEW s, NEW h, NEW n, NEW m, NEW t, NEW job, PushArgs(q, s, h, n, m, t, job),
           NEW p, p = [q EXCEPT ![t] = job]
    PROVE  Pushed(Ring(q, h, n, s), Ring(p, h, m, s), job) /\ p \in [0 .. s - 1 -> Nat]
<1>r. PICK R : R = Ring(q, h, n, s)
  OBVIOUS
<1>p. PICK P : P = Ring(p, h, m, s)
  OBVIOUS
<1> USE DEF PushArgs
<1>2. m \in 1 .. s + 1 /\ m \in 0 .. s /\ n \in 0 .. s
  OBVIOUS
<1>3. t = (IF h + n < s THEN h + n ELSE h + n - s) /\ t \in 0 .. s - 1
  <2>1. /\ Pos(h, m, s) = IF h + m - 1 < s THEN h + m - 1 ELSE h + m - 1 - s
        /\ Pos(h, m, s) \in 0 .. s - 1
    BY <1>2, RingPos
  <2> QED
    BY <2>1
<1>5. p \in [0 .. s - 1 -> Nat]
  OBVIOUS
<1>6. R \in Seq(Nat) /\ Len(R) = n /\ \A i \in 1 .. n : R[i] = q[Pos(h, i, s)]
  BY <1>r, <1>2, RingSeq, ZenonT(60)
<1>7. P \in Seq(Nat) /\ Len(P) = m /\ \A i \in 1 .. m : P[i] = p[Pos(h, i, s)]
  <2>2. /\ Ring(p, h, m, s) \in Seq(Nat)
        /\ Len(Ring(p, h, m, s)) = m
        /\ \A i \in 1 .. m : Ring(p, h, m, s)[i] = p[Pos(h, i, s)]
    <3>1. PICK pp \in [0 .. s - 1 -> Nat] : pp = p
      BY <1>5
    <3>2. /\ Ring(pp, h, m, s) \in Seq(Nat)
          /\ Len(Ring(pp, h, m, s)) = m
          /\ \A i \in 1 .. m : Ring(pp, h, m, s)[i] = pp[Pos(h, i, s)]
      BY RingSeq
    <3> QED
      BY <3>1, <3>2
  <2> QED
    BY <1>p, <2>2
<1>8. ASSUME NEW i \in 1 .. n
      PROVE  Pos(h, i, s) \in 0 .. s - 1 /\ Pos(h, i, s) # t
  <2>1. i \in 1 .. s + 1
    OBVIOUS
  <2>2. Pos(h, i, s) \in 0 .. s - 1 /\ Pos(h, i, s) = IF h + i - 1 < s THEN h + i - 1 ELSE h + i - 1 - s
    BY <2>1, RingPos
  <2>3. PICK z : z = Pos(h, i, s)
    OBVIOUS
  <2>4. z # t
    BY <1>3, <2>2, <2>3, SMTT(30)
  <2> QED
    BY <2>2, <2>3, <2>4
<1>9. Append(R, job) \in Seq(Nat) /\ Len(Append(R, job)) = n + 1
      /\ (\A i \in 1 .. n : Append(R, job)[i] = R[i]) /\ Append(R, job)[n + 1] = job
  BY <1>6, AppendProperties
<1>10. ASSUME NEW i \in 1 .. m PROVE P[i] = Append(R, job)[i]
  <2>1. CASE i = n + 1
    <3>1. p[t] = job
      BY <1>3
    <3>2. P[i] = p[Pos(h, m, s)]
      BY <1>7, <2>1
    <3> QED
      BY <1>9, <2>1, <3>1, <3>2
  <2>2. CASE i # n + 1
    <3>1. i \in 1 .. n
      BY <2>2
    <3>2. R[i] = q[Pos(h, i, s)] /\ P[i] = p[Pos(h, i, s)] /\ Pos(h, i, s) \in 0 .. s - 1 /\ Pos(h, i, s) # t
      BY <1>6, <1>7, <1>8, <3>1
    <3>3. P[i] = R[i]
      BY <3>2
    <3> QED
      BY <1>9, <3>1, <3>3
  <2> QED
    BY <2>1, <2>2
<1> QED
  <2>1. P = Append(R, job)
    BY <1>6, <1>7, <1>9, <1>10, SeqEqual
  <2> QED
    BY <1>r, <1>p, <1>5, <2>1, Zenon DEF Pushed

\* The number of jobs after a pop and after a push, from head and tail.
LEMMA SpanPop ==
    ASSUME NEW s \in Nat \ {0}, NEW h \in 0 .. s - 1, NEW t \in 0 .. s - 1,
           NEW g, g = (h + 1) % s, NEW n, n = Span(h, t, s), s > 1 => h # t
    PROVE  /\ n \in 1 .. s /\ g \in 0 .. s - 1
           /\ g = t => n = 1
           /\ g # t => Span(g, t, s) = n - 1
<1>1. g = (IF h + 1 < s THEN h + 1 ELSE 0) /\ g \in 0 .. s - 1
  <2>1. PICK j \in 1 .. s + 1 : j = 2
    OBVIOUS
  <2>2. g = Pos(h, j, s)
    BY <2>1 DEF Pos
  <2>3. /\ Pos(h, j, s) = IF h + j - 1 < s THEN h + j - 1 ELSE h + j - 1 - s
        /\ Pos(h, j, s) \in 0 .. s - 1
    BY RingPos
  <2> QED
    BY <2>1, <2>2, <2>3
<1>2. n \in 1 .. s /\ n = IF t > h THEN t - h ELSE t - h + s
  BY RingSpan
<1>3. PICK m : m = Span(g, t, s)
  OBVIOUS
<1>4. m = IF t > g THEN t - g ELSE t - g + s
  BY <1>1, <1>3, RingSpan
<1>5. (g = t => n = 1) /\ (g # t => m = n - 1)
  BY <1>1, <1>2, <1>4
<1> QED
  BY <1>1, <1>2, <1>3, <1>5

LEMMA SpanPush ==
    ASSUME NEW s \in Nat \ {0}, NEW h \in 0 .. s - 1, NEW t \in 0 .. s - 1,
           NEW g, g = (t + 1) % s, s > 1 => h # g,
           NEW n, \/ n = 0 /\ h = t
                  \/ n = Span(h, t, s) /\ h # t
    PROVE  /\ n \in 0 .. s - 1 /\ g \in 0 .. s - 1
           /\ t = Pos(h, n + 1, s)
           /\ Span(h, g, s) = n + 1
<1>1. g = (IF t + 1 < s THEN t + 1 ELSE 0) /\ g \in 0 .. s - 1
  <2>1. PICK j \in 1 .. s + 1 : j = 2
    OBVIOUS
  <2>2. g = Pos(t, j, s)
    BY <2>1 DEF Pos
  <2>3. /\ Pos(t, j, s) = IF t + j - 1 < s THEN t + j - 1 ELSE t + j - 1 - s
        /\ Pos(t, j, s) \in 0 .. s - 1
    BY RingPos
  <2> QED
    BY <2>1, <2>2, <2>3
<1>2. n = (IF t >= h THEN t - h ELSE t - h + s)
  <2>1. Span(h, t, s) = IF t > h THEN t - h ELSE t - h + s
    BY RingSpan
  <2> QED
    BY <2>1
<1>3. PICK m : m = Span(h, g, s)
  OBVIOUS
<1>4. m = IF g > h THEN g - h ELSE g - h + s
  BY <1>1, <1>3, RingSpan
<1>5. m = n + 1 /\ n \in 0 .. s - 1
  BY <1>1, <1>2, <1>4
<1>6. t = Pos(h, n + 1, s)
  <2>1. PICK j \in 1 .. s + 1 : j = n + 1
    BY <1>5
  <2>2. PICK p : p = Pos(h, j, s)
    OBVIOUS
  <2>3. p = IF h + j - 1 < s THEN h + j - 1 ELSE h + j - 1 - s
    BY <2>2, RingPos
  <2>4. p = t
    BY <1>2, <2>1, <2>3
  <2> QED
    BY <2>1, <2>2, <2>4
<1> QED
  BY <1>1, <1>3, <1>5, <1>6
-----------------------------------------------------------------------------
(***************************************************************************)
(* The inductive invariant.                                                *)
(***************************************************************************)
Count == IF queueEmpty THEN 0 ELSE Span(queueHead, queueTail, queueSize)

\* The flag queueEmpty tells an empty ring from a full one only when there is one slot.
RingInv ==
    /\ queueSize \in Nat \ {0}
    /\ queue \in [0 .. queueSize - 1 -> Nat]
    /\ queueHead \in 0 .. queueSize - 1 /\ queueTail \in 0 .. queueSize - 1
    /\ queueEmpty \in BOOLEAN
    /\ queueSize > 1 => (queueEmpty <=> queueHead = queueTail)

Running == {t \in Threads : thread[t] = "running"}
Busy == {t \in Threads : thread[t] \in {"running", "ran"}}
Alive == {t \in Threads : thread[t] \notin {"none", "exited"}}

ThreadInv ==
    /\ thread \in [Threads -> {"none", "ready", "wait", "running", "ran", "exited"}]
    /\ cur \in [Threads -> Nat] /\ done \subseteq Jobs
    /\ \A t \in Threads : CASE thread[t] = "running" -> cur[t] \in Jobs \ done
                            [] thread[t] = "ran" -> cur[t] \in done
                            [] OTHER -> cur[t] = None
    /\ numThreadsBusy = Cardinality(Busy)
    /\ threadLimit \in Nat /\ threadCapacity \in 0 .. MaxThreads /\ shutdown \in BOOLEAN

Open == {"idle", "add", "addWait", "joinJobs", "joinWait"}
Closing == {"wake", "join", "freed"}
Adding == client \in {"add", "addWait"}

\* Where the client is bounds what there can be: no job before the pool is complete, no
\* thread that ends before shutdown, and always one left for a job that waits.
ClientInv ==
    /\ client \in {"create", "free"} \cup Open \cup Closing
    /\ client = "create" =>
          /\ threadLimit = 0 /\ queueEmpty /\ arg \in Threads
          /\ \E n \in 0 .. arg : \A t \in Threads : t <= n <=> thread[t] # "none"
    /\ client # "create" => \A t \in Threads : t <= threadCapacity <=> thread[t] # "none"
    /\ client \in Open => threadLimit > 0 /\ threadCapacity > 0
    /\ (\E t \in Threads : thread[t] = "exited") => shutdown
    /\ shutdown => client \in Closing
    /\ ~queueEmpty => threadLimit > 0 /\ Alive # {}
    /\ client = "freed" => queueEmpty /\ \A t \in Threads : thread[t] \in {"none", "exited"}

\* The number of the next job: nothing accepted, running or done has reached it.
Fresh == IF usage = "pool" THEN nextJob ELSE JobOf(d, IF phase = "ctxInit" THEN 1 ELSE k)

Pending == IF Adding THEN {arg} ELSE {}

\* A job is in one place: done, held by one thread, in the ring once, or about to be added.
JobsOK(qs, dn, cr, f, pd) ==
    /\ f \in Nat \ {0} /\ qs \in Seq(Nat) /\ cr \in [Threads -> Nat] /\ dn \subseteq Jobs
    /\ \A job \in dn : job < f
    /\ \A t \in Threads : cr[t] < f
    /\ \A t, u \in Threads : cr[t] = cr[u] /\ cr[t] # None => t = u
    /\ \A i \in 1 .. Len(qs) : /\ qs[i] \in Jobs /\ qs[i] \notin dn /\ qs[i] < f /\ qs[i] \notin pd
                               /\ \A t \in Threads : cr[t] # qs[i]
    /\ \A i, j \in 1 .. Len(qs) : qs[i] = qs[j] => i = j
    /\ \A job \in pd : /\ job \in Jobs /\ job \notin dn /\ job < f
                       /\ \A t \in Threads : cr[t] # job

JobInv == nextJob \in Nat \ {0} /\ JobsOK(Queued, done, cur, Fresh, Pending)

\* Where the search is.
SearchInv ==
    /\ usage \in {"pool", "cover", "inline"}
    /\ phase \in {"off", "start", "ctxInit", "loop", "wait", "sleep", "ctxDestroy", "destroy", "returned"}
    /\ phase = "off" <=> usage = "pool"
    /\ usage = "inline" => client = "create" /\ queueEmpty /\ \A t \in Threads : thread[t] = "none"
    /\ usage = "cover" =>
          /\ phase = "start" => client \in {"create", "idle", "free"} \cup Closing
          /\ phase = "loop" => client \in {"idle", "add", "addWait"}
          /\ phase = "returned" => client \in {"free"} \cup Closing
          /\ phase \notin {"start", "loop", "returned"} => client = "idle"
    /\ k \in 1 .. Ks + 1 /\ d \in 1 .. Ds + 1
    /\ phase = "start" => k = 1
    /\ phase = "loop" => d <= Ds
    /\ phase = "ctxDestroy" => result = None
    /\ phase \in {"wait", "sleep", "ctxDestroy"} /\ result = None => k = Ks + 1 /\ d <= Ds

InFlight == Cardinality(Pending) + Len(Queued) + Cardinality(Running)

\* The jobs in flight are counted, belong to the current d, and have all they work on.
InCtx(job) == (d - 1) * Ks < job /\ job <= d * Ks

LiveInv ==
    usage # "pool" =>
        /\ best.liveJobs = InFlight
        /\ best.live <=> phase \notin {"start", "returned"}
        /\ phase \in {"start", "ctxInit", "ctxDestroy", "destroy", "returned"} => best.liveJobs = 0
        /\ phase = "loop" \/ best.liveJobs > 0 => d \in ctxs
        /\ \A i \in 1 .. Len(Queued) : InCtx(Queued[i])
        /\ \A t \in Running : InCtx(cur[t])
        /\ \A job \in Pending : InCtx(job)

BestInv ==
    /\ best \in [live : BOOLEAN, liveJobs : Int, dict : Nat, room : Int, dictSize : Nat, csize : Int]
    /\ least \in Int /\ oom \in BOOLEAN
    /\ usage = "pool" => ~best.live
    /\ phase # "returned" =>
          /\ IF best.room = -1 THEN best.dictSize = 0 /\ best.csize = ErrGeneric
             ELSE best.dictSize <= best.room /\ best.room >= 0
          /\ ~IsError(best.csize) => best.dict # None /\ best.csize >= least
          /\ ~oom => best.csize = least
Inv == RingInv /\ ThreadInv /\ ClientInv /\ JobInv /\ SearchInv /\ LiveInv /\ BestInv
-----------------------------------------------------------------------------
(* The ring as a sequence. *)

LEMMA QueuedIs == Queued = Ring(queue, queueHead, Count, queueSize)
BY DEF Queued, Ring, Count, Span, Pos

LEMMA CountIs ==
    ASSUME RingInv
    PROVE  Count \in 0 .. queueSize /\ (queueEmpty => Count = 0) /\ (~queueEmpty => Count \in 1 .. queueSize)
<1>1. Span(queueHead, queueTail, queueSize) \in 1 .. queueSize
  BY RingSpan DEF RingInv
<1>2. queueSize \in Nat \ {0} /\ queueEmpty \in BOOLEAN
  BY DEF RingInv
<1>3. CASE queueEmpty
  BY <1>2, <1>3 DEF Count
<1>4. CASE ~queueEmpty
  BY <1>1, <1>2, <1>4 DEF Count
<1> QED
  BY <1>3, <1>4

LEMMA QueuedSeq ==
    ASSUME RingInv
    PROVE  Queued \in Seq(Nat) /\ Len(Queued) = Count /\ Len(Queued) \in Nat /\ (queueEmpty <=> Len(Queued) = 0)
<1>1. PICK n : n = Count
  OBVIOUS
<1>2. n \in 0 .. queueSize
  BY <1>1, CountIs
<1>3. Ring(queue, queueHead, n, queueSize) \in Seq(Nat) /\ Len(Ring(queue, queueHead, n, queueSize)) = n
  BY <1>2, RingSeq DEF RingInv
<1>4. Queued = Ring(queue, queueHead, n, queueSize)
  BY <1>1, QueuedIs
<1>5. Queued \in Seq(Nat) /\ Len(Queued) = n
  BY <1>3, <1>4
<1>6. queueEmpty <=> n = 0
  BY <1>1, CountIs
<1>7. n \in Nat
  BY <1>2
<1> QED
  BY <1>1, <1>5, <1>6, <1>7

PopsRing ==
    /\ ~queueEmpty
    /\ queueHead' = (queueHead + 1) % queueSize
    /\ queueEmpty' = (queueHead' = queueTail)
    /\ UNCHANGED <<queueSize, queue, queueTail>>

PushesRing(job) ==
    /\ queueEmpty' = FALSE
    /\ queue' = [queue EXCEPT ![queueTail] = job]
    /\ queueTail' = (queueTail + 1) % queueSize
    /\ UNCHANGED <<queueSize, queueHead>>

LEMMA PopStep ==
    ASSUME RingInv, PopsRing
    PROVE  /\ RingInv'
           /\ Queued # << >> /\ Queued' = Tail(Queued) /\ Head(Queued) = queue[queueHead]
<1>1. PICK s, h, t : s = queueSize /\ h = queueHead /\ t = queueTail
  OBVIOUS
<1>t. s \in Nat \ {0} /\ h \in 0 .. s - 1 /\ t \in 0 .. s - 1
  BY <1>1 DEF RingInv
<1>2. s > 1 => h # t
  BY <1>1 DEF RingInv, PopsRing
<1>3. PICK g, n : g = (h + 1) % s /\ n = Span(h, t, s)
  OBVIOUS
<1>4. /\ n \in 1 .. s /\ g \in 0 .. s - 1
      /\ g = t => n = 1
      /\ g # t => Span(g, t, s) = n - 1
  BY <1>t, <1>2, <1>3, SpanPop
<1>5. g = queueHead' /\ s = queueSize' /\ t = queueTail' /\ queueEmpty' = (g = t)
  BY <1>1, <1>3 DEF PopsRing
<1>6. Count = n
  BY <1>1, <1>3 DEF Count, PopsRing
<1>7. Count' = n - 1
  <2>1. CASE g = t
    <3>1. Count' = 0
      BY <1>5, <2>1 DEF Count
    <3> QED
      BY <1>4, <2>1, <3>1
  <2>2. CASE g # t
    BY <1>4, <1>5, <2>2 DEF Count
  <2> QED
    BY <2>1, <2>2
<1>8. RingInv'
  <2>1. queue' \in [0 .. queueSize' - 1 -> Nat]
    BY DEF RingInv, PopsRing
  <2>2. queueHead' \in 0 .. queueSize' - 1 /\ queueTail' \in 0 .. queueSize' - 1 /\ queueSize' \in Nat \ {0}
    BY <1>t, <1>4, <1>5
  <2>3. queueEmpty' \in BOOLEAN /\ (queueEmpty' <=> queueHead' = queueTail')
    BY <1>5
  <2> QED
    BY <2>1, <2>2, <2>3 DEF RingInv
<1>9. PICK m : m = n - 1 /\ m \in 0 .. s
  BY <1>t, <1>4
<1>10. PICK q \in [0 .. s - 1 -> Nat] : q = queue
  BY <1>1 DEF RingInv
<1>11. PICK R, P : R = Ring(q, h, n, s) /\ P = Ring(q, g, m, s)
  OBVIOUS
<1>12. R # << >> /\ Head(R) = q[h] /\ P = Tail(R)
  <2>1. PopArgs(q, s, h, n, m, g)
    BY <1>t, <1>3, <1>4, <1>9 DEF PopArgs
  <2>2. Popped(Ring(q, h, n, s), Ring(q, g, m, s), q[h])
    BY <2>1, RingPop
  <2> QED
    BY <1>11, <2>2, Zenon DEF Popped
<1>13. Queued = R
  BY <1>1, <1>6, <1>10, <1>11, QueuedIs
<1>14. Queued' = P
  <2>1. Queued' = Ring(queue', queueHead', Count', queueSize')
    BY DEF Queued, Ring, Count, Span, Pos
  <2> QED
    BY <1>1, <1>5, <1>7, <1>9, <1>10, <1>11, <2>1 DEF PopsRing
<1> QED
  BY <1>1, <1>8, <1>10, <1>12, <1>13, <1>14

LEMMA PushStep ==
    ASSUME RingInv, ~IsQueueFull, NEW job \in Nat, PushesRing(job)
    PROVE  /\ RingInv'
           /\ Queued' = Append(Queued, job)
<1>1. PICK s, h, t : s = queueSize /\ h = queueHead /\ t = queueTail
  OBVIOUS
<1>t. s \in Nat \ {0} /\ h \in 0 .. s - 1 /\ t \in 0 .. s - 1
  BY <1>1 DEF RingInv
<1>3. PICK g, n : g = (t + 1) % s /\ n = Count
  OBVIOUS
<1>2. s > 1 => h # g
  BY <1>1, <1>3 DEF IsQueueFull
<1>4. \/ n = 0 /\ h = t
      \/ n = Span(h, t, s) /\ h # t
  <2>1. CASE s > 1
    <3>1. queueEmpty <=> h = t
      BY <1>1, <2>1 DEF RingInv
    <3> QED
      BY <1>1, <1>3, <3>1 DEF Count
  <2>2. CASE ~(s > 1)
    <3>1. queueEmpty
      BY <1>1, <2>2 DEF IsQueueFull
    <3>2. h = 0 /\ t = 0
      BY <1>t, <2>2
    <3> QED
      BY <1>1, <1>3, <3>1, <3>2 DEF Count
  <2> QED
    BY <2>1, <2>2
<1>5. /\ n \in 0 .. s - 1 /\ g \in 0 .. s - 1
      /\ t = Pos(h, n + 1, s)
      /\ Span(h, g, s) = n + 1
  BY <1>t, <1>2, <1>3, <1>4, SpanPush
<1>6. h = queueHead' /\ s = queueSize' /\ g = queueTail'
  BY <1>1, <1>3 DEF PushesRing
<1>7. PICK m : m = n + 1 /\ m \in 0 .. s
  BY <1>t, <1>5
<1>8. Count' = m
  BY <1>5, <1>6, <1>7 DEF Count, PushesRing
<1>9. PICK q \in [0 .. s - 1 -> Nat] : q = queue
  BY <1>1 DEF RingInv
<1>10. PICK p, R, P : p = [q EXCEPT ![t] = job] /\ R = Ring(q, h, n, s) /\ P = Ring(p, h, m, s)
  OBVIOUS
<1>11. t = Pos(h, m, s)
  BY <1>5, <1>7
<1>12. P = Append(R, job) /\ p \in [0 .. s - 1 -> Nat]
  <2>1. PushArgs(q, s, h, n, m, t, job)
    BY <1>t, <1>5, <1>7, <1>11 DEF PushArgs
  <2>2. Pushed(Ring(q, h, n, s), Ring(p, h, m, s), job) /\ p \in [0 .. s - 1 -> Nat]
    BY <1>10, <2>1, RingPush
  <2> QED
    BY <1>10, <2>2, Zenon DEF Pushed
<1>13. queue' = p
  BY <1>1, <1>9, <1>10 DEF PushesRing
<1>14. Queued = R
  BY <1>1, <1>3, <1>9, <1>10, QueuedIs
<1>15. Queued' = P
  <2>1. Queued' = Ring(queue', queueHead', Count', queueSize')
    BY DEF Queued, Ring, Count, Span, Pos
  <2> QED
    BY <1>6, <1>8, <1>10, <1>13, <2>1
<1>16. RingInv'
  <2>1. queue' \in [0 .. queueSize' - 1 -> Nat]
    BY <1>6, <1>12, <1>13
  <2>2. queueHead' \in 0 .. queueSize' - 1 /\ queueTail' \in 0 .. queueSize' - 1 /\ queueSize' \in Nat \ {0}
    BY <1>t, <1>5, <1>6
  <2>3. queueEmpty' = FALSE /\ (queueSize' > 1 => queueHead' # queueTail')
    BY <1>2, <1>6 DEF PushesRing
  <2> QED
    BY <2>1, <2>2, <2>3 DEF RingInv
<1> QED
  BY <1>12, <1>14, <1>15, <1>16
-----------------------------------------------------------------------------
(* Jobs stay in one place. *)

LEMMA JobsPop ==
    ASSUME NEW qs, NEW dn, NEW cr, NEW f, NEW pd, JobsOK(qs, dn, cr, f, pd),
           qs # << >>, NEW t \in Threads,
           NEW qt, qt = Tail(qs), NEW ct, ct = [cr EXCEPT ![t] = Head(qs)]
    PROVE  JobsOK(qt, dn, ct, f, pd) /\ Head(qs) \in Jobs /\ Head(qs) \notin dn
<1>1. qs \in Seq(Nat) /\ Len(qs) \in Nat /\ Len(qs) > 0 /\ cr \in [Threads -> Nat]
  BY DEF JobsOK
<1>2. qt \in Seq(Nat) /\ Len(qt) = Len(qs) - 1 /\ \A i \in 1 .. Len(qt) : qt[i] = qs[i + 1]
  BY <1>1, HeadTailProperties
<1>3. PICK job : job = Head(qs) /\ job = qs[1]
  BY <1>1
<1>4. /\ job \in Jobs /\ job \notin dn /\ job < f /\ job \notin pd /\ job \in Nat
      /\ \A u \in Threads : cr[u] # job
  BY <1>1, <1>3 DEF JobsOK, Jobs
<1>5. ct \in [Threads -> Nat] /\ ct[t] = job /\ \A u \in Threads : u # t => ct[u] = cr[u]
  BY <1>1, <1>3, <1>4
<1>6. \A u \in Threads : ct[u] < f
  BY <1>4, <1>5 DEF JobsOK
<1>7. \A u, v \in Threads : ct[u] = ct[v] /\ ct[u] # None => u = v
  BY <1>4, <1>5 DEF JobsOK
<1>8. ASSUME NEW i \in 1 .. Len(qt)
      PROVE  /\ qt[i] \in Jobs /\ qt[i] \notin dn /\ qt[i] < f /\ qt[i] \notin pd
             /\ \A u \in Threads : ct[u] # qt[i]
  <2>1. PICK j \in 1 .. Len(qs) : j = i + 1 /\ j # 1
    BY <1>1, <1>2
  <2>2. qt[i] = qs[j]
    BY <1>2, <2>1
  <2>3. qs[j] # job
    BY <1>1, <1>3, <2>1 DEF JobsOK
  <2> QED
    BY <1>5, <2>2, <2>3 DEF JobsOK
<1>9. ASSUME NEW i \in 1 .. Len(qt), NEW j \in 1 .. Len(qt), qt[i] = qt[j] PROVE i = j
  <2>1. PICK ii \in 1 .. Len(qs) : ii = i + 1
    BY <1>1, <1>2
  <2>2. PICK jj \in 1 .. Len(qs) : jj = j + 1
    BY <1>1, <1>2
  <2>3. qs[ii] = qs[jj]
    BY <1>2, <1>9, <2>1, <2>2
  <2>4. ii = jj
    BY <2>3 DEF JobsOK
  <2> QED
    BY <2>1, <2>2, <2>4
<1>10. \A x \in pd : x \in Jobs /\ x \notin dn /\ x < f /\ \A u \in Threads : ct[u] # x
  BY <1>4, <1>5 DEF JobsOK
<1> QED
  BY <1>2, <1>3, <1>4, <1>5, <1>6, <1>7, <1>8, <1>9, <1>10 DEF JobsOK

LEMMA JobsPush ==
    ASSUME NEW qs, NEW dn, NEW cr, NEW f, NEW job, JobsOK(qs, dn, cr, f, {job}),
           NEW qt, qt = Append(qs, job)
    PROVE  JobsOK(qt, dn, cr, f, {}) /\ job \in Nat
<1>1. qs \in Seq(Nat) /\ Len(qs) \in Nat
  BY DEF JobsOK
<1>2. job \in Jobs /\ job \notin dn /\ job < f /\ job \in Nat /\ \A t \in Threads : cr[t] # job
  BY DEF JobsOK, Jobs
<1>3. /\ qt \in Seq(Nat) /\ Len(qt) = Len(qs) + 1 /\ qt[Len(qs) + 1] = job
      /\ \A i \in 1 .. Len(qs) : qt[i] = qs[i]
  BY <1>1, <1>2, AppendProperties
<1>4. ASSUME NEW i \in 1 .. Len(qt)
      PROVE  /\ qt[i] \in Jobs /\ qt[i] \notin dn /\ qt[i] < f
             /\ \A t \in Threads : cr[t] # qt[i]
  <2>1. CASE i = Len(qs) + 1
    BY <1>2, <1>3, <2>1
  <2>2. CASE i \in 1 .. Len(qs)
    BY <1>3, <2>2 DEF JobsOK
  <2> QED
    BY <1>1, <1>3, <2>1, <2>2
<1>5. ASSUME NEW i \in 1 .. Len(qt), NEW j \in 1 .. Len(qt), qt[i] = qt[j] PROVE i = j
  <2>1. \A x \in 1 .. Len(qs) : qs[x] # job
    BY DEF JobsOK
  <2>2. \A x \in 1 .. Len(qt) : x = Len(qs) + 1 \/ x \in 1 .. Len(qs)
    BY <1>1, <1>3
  <2>3. CASE i \in 1 .. Len(qs) /\ j \in 1 .. Len(qs)
    BY <1>3, <1>5, <2>3 DEF JobsOK
  <2>4. CASE i = Len(qs) + 1 /\ j \in 1 .. Len(qs)
    BY <1>3, <1>5, <2>1, <2>4
  <2>5. CASE j = Len(qs) + 1 /\ i \in 1 .. Len(qs)
    BY <1>3, <1>5, <2>1, <2>5
  <2> QED
    BY <2>2, <2>3, <2>4, <2>5
<1> QED
  BY <1>2, <1>3, <1>4, <1>5 DEF JobsOK

\* A job function returns; a thread lets go of its job.
LEMMA JobsRun ==
    ASSUME NEW qs, NEW dn, NEW cr, NEW f, NEW pd, JobsOK(qs, dn, cr, f, pd),
           NEW t \in Threads, cr[t] \in Jobs
    PROVE  JobsOK(qs, dn \cup {cr[t]}, cr, f, pd)
BY DEF JobsOK

LEMMA JobsDrop ==
    ASSUME NEW qs, NEW dn, NEW cr, NEW f, NEW pd, JobsOK(qs, dn, cr, f, pd),
           NEW t \in Threads
    PROVE  JobsOK(qs, dn, [cr EXCEPT ![t] = None], f, pd)
<1>1. PICK ct : ct = [cr EXCEPT ![t] = None]
  OBVIOUS
<1>2. ct \in [Threads -> Nat] /\ ct[t] = None /\ \A u \in Threads : u # t => ct[u] = cr[u]
  BY <1>1 DEF JobsOK, None
<1>3. JobsOK(qs, dn, ct, f, pd)
  <2>1. \A x \in Jobs : x # None
    BY ThreadPoolAssumption DEF Jobs, None
  <2>2. \A u \in Threads : ct[u] < f
    BY <1>2 DEF JobsOK, None
  <2>3. \A u, v \in Threads : ct[u] = ct[v] /\ ct[u] # None => u = v
    BY <1>2 DEF JobsOK
  <2>4. \A x \in Jobs : (\A u \in Threads : cr[u] # x) => \A u \in Threads : ct[u] # x
    BY <1>2, <2>1
  <2> QED
    BY <1>2, <2>2, <2>3, <2>4 DEF JobsOK
<1> QED
  BY <1>1, <1>3

\* Time goes by; a fresh job is taken.
LEMMA JobsLater ==
    ASSUME NEW qs, NEW dn, NEW cr, NEW f, NEW pd, JobsOK(qs, dn, cr, f, pd),
           NEW g \in Nat, g >= f
    PROVE  JobsOK(qs, dn, cr, g, pd)
<1>1. \A x \in Nat : x < f => x < g
  BY DEF JobsOK
<1>2. dn \subseteq Nat /\ (\A t \in Threads : cr[t] \in Nat) /\ Jobs \subseteq Nat
  BY DEF JobsOK, Jobs
<1>3. \A i \in 1 .. Len(qs) : qs[i] < g
  BY <1>1, <1>2 DEF JobsOK
<1>4. \A x \in pd : x < g
  BY <1>1, <1>2 DEF JobsOK
<1>5. g \in Nat \ {0}
  BY DEF JobsOK
<1> QED
  BY <1>1, <1>2, <1>3, <1>4, <1>5 DEF JobsOK

LEMMA JobsTake ==
    ASSUME NEW qs, NEW dn, NEW cr, NEW f, JobsOK(qs, dn, cr, f, {}), f <= MaxJobs
    PROVE  JobsOK(qs, dn, cr, f + 1, {f})
<1>1. f \in Nat \ {0} /\ f + 1 \in Nat /\ f + 1 >= f /\ f < f + 1
  BY DEF JobsOK
<1>2. JobsOK(qs, dn, cr, f + 1, {})
  BY <1>1, JobsLater
<1>3. f \in Jobs
  BY <1>1, ThreadPoolAssumption DEF Jobs
<1>4. f \notin dn /\ (\A t \in Threads : cr[t] # f) /\ (\A i \in 1 .. Len(qs) : qs[i] # f)
  BY <1>1 DEF JobsOK
<1> QED
  BY <1>1, <1>2, <1>3, <1>4 DEF JobsOK
-----------------------------------------------------------------------------
(* The threads. *)

States == {"none", "ready", "wait", "running", "ran", "exited"}

LEMMA Constants ==
    /\ MaxThreads \in Nat \ {0} /\ MaxJobs \in Nat \ {0} /\ MaxAdds \in Nat /\ MaxAdds <= MaxJobs
    /\ MaxQueue \in Nat /\ Ds \in Nat \ {0} /\ Ks \in Nat \ {0} /\ Ds * Ks <= MaxJobs
BY ThreadPoolAssumption, CoverAssumption

LEMMA ThreadsFinite == IsFiniteSet(Threads)
BY Constants, FS_Interval DEF Threads

LEMMA ThreadSets ==
    /\ IsFiniteSet(Running) /\ IsFiniteSet(Busy)
    /\ Cardinality(Running) \in Nat /\ Cardinality(Busy) \in Nat
<1>1. Running \subseteq Threads /\ Busy \subseteq Threads
  BY DEF Running, Busy
<1>2. IsFiniteSet(Running) /\ IsFiniteSet(Busy)
  BY <1>1, ThreadsFinite, FS_Subset
<1> QED
  BY <1>2, FS_CardinalityType

LEMMA Flip ==
    ASSUME NEW S, IsFiniteSet(S), NEW t
    PROVE  /\ t \in S => Cardinality(S \ {t}) = Cardinality(S) - 1
           /\ t \notin S => Cardinality(S \cup {t}) = Cardinality(S) + 1
BY FS_AddElement, FS_RemoveElement

LEMMA RunningTypes ==
    ASSUME ThreadInv
    PROVE  Running = {t \in Threads : thread[t] = "running"} /\ \A t \in Running : cur[t] \in Jobs /\ cur[t] \notin done
BY DEF ThreadInv, Running

LEMMA PendingSize ==
    /\ Cardinality(Pending) = (IF Adding THEN 1 ELSE 0)
    /\ Adding => Pending = {arg}
    /\ ~Adding => Pending = {}
<1>1. CASE Adding
  BY <1>1, FS_Singleton DEF Pending
<1>2. CASE ~Adding
  BY <1>2, FS_EmptySet DEF Pending
<1> QED
  BY <1>1, <1>2

\* A step that only moves threads and client about.
QuietStep ==
    /\ UNCHANGED <<ring, done, nextJob, covervars>>
    /\ Running' = Running /\ Pending' = Pending
    /\ JobsOK(Queued, done, cur', Fresh, Pending)
    /\ \A t \in Running : cur'[t] = cur[t]

LEMMA Quiet ==
    ASSUME Inv, QuietStep
    PROVE  RingInv' /\ JobInv' /\ LiveInv' /\ BestInv' /\ Queued' = Queued
<1>1. Queued' = Queued
  BY DEF QuietStep, Queued, ring
<1>2. RingInv'
  BY DEF Inv, QuietStep, RingInv, ring
<1>3. Fresh' = Fresh
  BY DEF QuietStep, Fresh, covervars, search, JobOf
<1>4. JobInv'
  BY <1>1, <1>3 DEF Inv, QuietStep, JobInv
<1>5. InFlight' = InFlight
  BY <1>1 DEF QuietStep, InFlight
<1>6. LiveInv'
  BY <1>1, <1>5 DEF Inv, QuietStep, LiveInv, covervars, search, InCtx
<1>7. BestInv'
  BY DEF Inv, QuietStep, BestInv, covervars, search
<1> QED
  BY <1>1, <1>2, <1>4, <1>6, <1>7

\* In the terms of the job queue.
Held == {cur[t] : t \in Threads} \ (done \cup {None})
QStep == [Q!QNext]_(Q!qvars)

LEMMA QuietQueue ==
    ASSUME Queued' = Queued, Held' = Held, UNCHANGED done, client' = "freed" <=> client = "freed"
    PROVE  QStep
BY DEF QStep, Q!qvars, Held
\* One thread changes its state.
Moved(t, x) ==
    /\ thread' \in [Threads -> States] /\ thread'[t] = x
    /\ \A u \in Threads : u # t => thread'[u] = thread[u]
    /\ x = "running" => Running' = Running \cup {t}
    /\ x # "running" => Running' = Running \ {t}
    /\ x \in {"running", "ran"} => Busy' = Busy \cup {t}
    /\ x \notin {"running", "ran"} => Busy' = Busy \ {t}
    /\ thread[t] = "running" <=> t \in Running
    /\ thread[t] \in {"running", "ran"} <=> t \in Busy

LEMMA OneThread ==
    ASSUME ThreadInv, NEW t \in Threads, NEW x \in States, thread' = [thread EXCEPT ![t] = x]
    PROVE  Moved(t, x)
<1>1. thread' \in [Threads -> States] /\ thread'[t] = x /\ \A u \in Threads : u # t => thread'[u] = thread[u]
  BY DEF ThreadInv, States
<1>2. /\ x = "running" => Running' = Running \cup {t}
      /\ x # "running" => Running' = Running \ {t}
  BY <1>1 DEF Running
<1>3. /\ x \in {"running", "ran"} => Busy' = Busy \cup {t}
      /\ x \notin {"running", "ran"} => Busy' = Busy \ {t}
  BY <1>1 DEF Busy
<1> QED
  BY <1>1, <1>2, <1>3 DEF Moved, Running, Busy

LEMMA WaitsOK ==
    ASSUME Inv, UNCHANGED covervars, usage # "inline", NEW t \in Threads, ThreadWaits(t)
    PROVE  Inv' /\ QStep
<1>1. /\ thread' \in [Threads -> States] /\ thread'[t] = "wait" /\ thread[t] = "ready"
      /\ \A u \in Threads : u # t => thread'[u] = thread[u]
      /\ Running' = Running /\ Busy' = Busy
  <2>1. Moved(t, "wait")
    BY OneThread DEF Inv, ThreadWaits, States
  <2> QED
    BY <2>1 DEF Moved, ThreadWaits
<1>2. UNCHANGED <<ring, limits, numThreadsBusy, cur, client, arg, done, bounds>>
  BY DEF ThreadWaits
<1>3. QuietStep
  BY <1>1, <1>2 DEF Inv, QuietStep, JobInv, bounds, Pending, Adding
<1>4. RingInv' /\ JobInv' /\ LiveInv' /\ BestInv' /\ Queued' = Queued
  BY <1>3, Quiet
<1>5. ThreadInv'
  BY <1>1, <1>2 DEF Inv, ThreadInv, States, limits
<1>6. ClientInv'
  BY <1>1, <1>2 DEF Inv, ThreadInv, ClientInv, ring, limits, Alive
<1>7. SearchInv'
  BY <1>1, <1>2 DEF Inv, SearchInv, covervars, search
<1>8. QStep
  BY <1>2, <1>4, QuietQueue DEF Held
<1> QED
  BY <1>4, <1>5, <1>6, <1>7, <1>8 DEF Inv

LEMMA ExitsOK ==
    ASSUME Inv, UNCHANGED covervars, usage # "inline", NEW t \in Threads, ThreadExits(t)
    PROVE  Inv' /\ QStep
<1>1. /\ thread' \in [Threads -> States] /\ thread'[t] = "exited" /\ thread[t] = "ready"
      /\ \A u \in Threads : u # t => thread'[u] = thread[u]
      /\ Running' = Running /\ Busy' = Busy
  <2>1. Moved(t, "exited")
    BY OneThread DEF Inv, ThreadExits, States
  <2> QED
    BY <2>1 DEF Moved, ThreadExits
<1>2. UNCHANGED <<ring, limits, numThreadsBusy, cur, client, arg, done, bounds>>
  BY DEF ThreadExits
<1>3. QuietStep
  BY <1>1, <1>2 DEF Inv, QuietStep, JobInv, bounds, Pending, Adding
<1>4. RingInv' /\ JobInv' /\ LiveInv' /\ BestInv' /\ Queued' = Queued
  BY <1>3, Quiet
<1>5. ThreadInv'
  BY <1>1, <1>2 DEF Inv, ThreadInv, States, limits
<1>6. ClientInv'
  <2>1. ~queueEmpty => Alive' # {}
    <3>1. SUFFICES ASSUME ~queueEmpty PROVE Alive' # {}
      OBVIOUS
    <3>2. numThreadsBusy > 0
      BY <3>1, ThreadSets DEF Inv, ThreadInv, ClientInv, ThreadExits
    <3>3. Busy # {}
      BY <3>2, FS_EmptySet DEF Inv, ThreadInv
    <3>4. PICK u \in Threads : thread[u] \in {"running", "ran"}
      BY <3>3 DEF Busy
    <3> QED
      BY <1>1, <3>4 DEF Alive
  <2>2. shutdown /\ client # "freed"
    BY <1>1 DEF ThreadExits, Inv, ClientInv
  <2> QED
    BY <1>1, <1>2, <2>1, <2>2 DEF Inv, ThreadInv, ClientInv, ring, limits
<1>7. SearchInv'
  BY <1>1, <1>2 DEF Inv, SearchInv, covervars, search
<1>8. QStep
  BY <1>2, <1>4, QuietQueue DEF Held
<1> QED
  BY <1>4, <1>5, <1>6, <1>7, <1>8 DEF Inv

LEMMA FinishesOK ==
    ASSUME Inv, UNCHANGED covervars, usage # "inline", NEW t \in Threads, ThreadFinishes(t)
    PROVE  Inv' /\ QStep
<1>1. /\ thread' \in [Threads -> States] /\ thread'[t] = "ready" /\ thread[t] = "ran"
      /\ \A u \in Threads : u # t => thread'[u] = thread[u]
      /\ Running' = Running /\ Busy' = Busy \ {t} /\ t \in Busy
  <2>1. Moved(t, "ready")
    BY OneThread DEF Inv, ThreadFinishes, States
  <2> QED
    BY <2>1 DEF Moved, ThreadFinishes
<1>2. UNCHANGED <<ring, limits, arg, done, bounds>>
  BY DEF ThreadFinishes
<1>3. /\ cur' = [cur EXCEPT ![t] = None] /\ cur' \in [Threads -> Nat]
      /\ cur'[t] = None /\ \A u \in Threads : u # t => cur'[u] = cur[u]
  BY DEF ThreadFinishes, Inv, ThreadInv, None
<1>4. /\ client' = SignalPush(client) /\ client' \in {"create", "free"} \cup Open \cup Closing
      /\ client' = "create" <=> client = "create"
      /\ client' \in Open <=> client \in Open
      /\ client' \in Closing <=> client \in Closing
      /\ client' = "freed" <=> client = "freed"
      /\ client = "idle" => client' = "idle"
      /\ client = "free" => client' = "free"
      /\ Adding' <=> Adding
  BY DEF ThreadFinishes, SignalPush, Inv, ClientInv, Open, Closing, Adding
<1>5. QuietStep
  <2>1. JobsOK(Queued, done, cur', Fresh, Pending)
    BY <1>3, JobsDrop DEF Inv, JobInv
  <2> QED
    BY <1>1, <1>2, <1>3, <1>4, <2>1 DEF QuietStep, bounds, Pending, Running
<1>6. RingInv' /\ JobInv' /\ LiveInv' /\ BestInv' /\ Queued' = Queued
  BY <1>5, Quiet
<1>7. ThreadInv'
  <2>1. numThreadsBusy' = Cardinality(Busy')
    BY <1>1, ThreadSets, Flip DEF Inv, ThreadInv, ThreadFinishes
  <2> QED
    BY <1>1, <1>2, <1>3, <2>1 DEF Inv, ThreadInv, States, limits
<1>8. ClientInv'
  BY <1>1, <1>2, <1>4 DEF Inv, ThreadInv, ClientInv, ring, limits, Alive
<1>9. SearchInv'
  BY <1>1, <1>2, <1>4 DEF Inv, SearchInv, covervars, search, Open, Closing, Adding
<1>10. QStep
  <2>1. cur[t] \in done
    BY <1>1 DEF Inv, ThreadInv
  <2>2. Held' = Held
    BY <1>2, <1>3, <2>1 DEF Held
  <2> QED
    BY <1>2, <1>4, <1>6, <2>2, QuietQueue
<1> QED
  BY <1>6, <1>7, <1>8, <1>9, <1>10 DEF Inv
LEMMA PopsOK ==
    ASSUME Inv, UNCHANGED covervars, usage # "inline", NEW t \in Threads, ThreadPops(t)
    PROVE  Inv' /\ QStep
<1>1. /\ thread' \in [Threads -> States] /\ thread'[t] = "running" /\ thread[t] = "ready"
      /\ \A u \in Threads : u # t => thread'[u] = thread[u]
      /\ Running' = Running \cup {t} /\ t \notin Running /\ Busy' = Busy \cup {t} /\ t \notin Busy
  <2>1. Moved(t, "running")
    BY OneThread DEF Inv, ThreadPops, States
  <2> QED
    BY <2>1 DEF Moved, ThreadPops
<1>2. UNCHANGED <<limits, arg, done, bounds>>
  BY DEF ThreadPops
<1>3. RingInv' /\ Queued # << >> /\ Queued' = Tail(Queued) /\ Head(Queued) = queue[queueHead]
  <2>1. PopsRing
    BY DEF ThreadPops, PopsRing
  <2> QED
    BY <2>1, PopStep DEF Inv
<1>4. PICK job : job = Head(Queued)
  OBVIOUS
<1>5. cur' = [cur EXCEPT ![t] = job]
  BY <1>3, <1>4 DEF ThreadPops
<1>6. /\ client' = SignalPush(client) /\ client' \in {"create", "free"} \cup Open \cup Closing
      /\ client' = "create" <=> client = "create"
      /\ client' \in Open <=> client \in Open
      /\ client' \in Closing <=> client \in Closing
      /\ client' = "freed" <=> client = "freed"
      /\ client = "idle" => client' = "idle"
      /\ client = "free" => client' = "free"
      /\ Adding' <=> Adding
  BY DEF ThreadPops, SignalPush, Inv, ClientInv, Open, Closing, Adding
<1>7. Pending' = Pending /\ Fresh' = Fresh
  BY <1>2, <1>6 DEF Pending, Fresh, bounds, covervars, search, JobOf
<1>8. JobsOK(Queued', done, cur', Fresh, Pending) /\ job \in Jobs /\ job \notin done
  <2>1. JobsOK(Queued, done, cur, Fresh, Pending)
    BY DEF Inv, JobInv
  <2>2. PICK qs, qt, ct, cr : qs = Queued /\ qt = Queued' /\ ct = cur' /\ cr = cur
    OBVIOUS
  <2>3. JobsOK(qs, done, cr, Fresh, Pending) /\ qs # << >> /\ qt = Tail(qs) /\ ct = [cr EXCEPT ![t] = Head(qs)]
    BY <1>3, <1>4, <1>5, <2>1, <2>2, Zenon
  <2>4. JobsOK(qt, done, ct, Fresh, Pending) /\ Head(qs) \in Jobs /\ Head(qs) \notin done
    BY <2>3, JobsPop
  <2> QED
    BY <1>4, <2>2, <2>4, Zenon
<1>9. JobInv'
  BY <1>2, <1>7, <1>8 DEF Inv, JobInv, bounds
<1>10. job \in Nat /\ cur'[t] = job /\ cur' \in [Threads -> Nat] /\ \A u \in Threads : u # t => cur'[u] = cur[u]
  BY <1>5, <1>8 DEF Inv, ThreadInv, Jobs
<1>11. ThreadInv'
  <2>1. numThreadsBusy' = Cardinality(Busy')
    BY <1>1, ThreadSets, Flip DEF Inv, ThreadInv, ThreadPops
  <2> QED
    BY <1>1, <1>2, <1>8, <1>10, <2>1 DEF Inv, ThreadInv, States, limits
<1>12. ClientInv'
  <2>1. ~queueEmpty /\ client # "create" /\ client # "freed" /\ threadLimit > 0
    BY DEF ThreadPops, Inv, ClientInv
  <2> QED
    BY <1>1, <1>2, <1>6, <2>1 DEF Inv, ThreadInv, ClientInv, limits, Alive
<1>13. SearchInv'
  BY <1>1, <1>2, <1>6 DEF Inv, SearchInv, covervars, search, Open, Closing, Adding
<1>14. LiveInv'
  <2>1. SUFFICES ASSUME usage # "pool" PROVE LiveInv'
    BY DEF LiveInv, covervars
  <2>2. PICK qs \in Seq(Nat), qt \in {Queued'} : qs = Queued /\ qt = Queued'
    BY QueuedSeq DEF Inv
  <2>3. /\ qs # << >> /\ qt = Tail(qs) /\ job = qs[1] /\ Len(qs) > 0 /\ Len(qt) = Len(qs) - 1
        /\ \A i \in 1 .. Len(qt) : i + 1 \in 1 .. Len(qs) /\ qt[i] = qs[i + 1]
    BY <1>3, <1>4, <2>2
  <2>4. InFlight' = InFlight
    <3>1. Cardinality(Running') = Cardinality(Running) + 1 /\ Cardinality(Running) \in Nat
      BY <1>1, ThreadSets, Flip
    <3>2. Cardinality(Pending) \in Nat
      BY PendingSize
    <3> QED
      BY <1>7, <2>2, <2>3, <3>1, <3>2 DEF InFlight
  <2>5. \A i \in 1 .. Len(qs) : InCtx(qs[i])
    BY <2>1, <2>2 DEF Inv, LiveInv
  <2>6. InCtx(job) /\ \A i \in 1 .. Len(qt) : InCtx(qt[i])
    BY <2>2, <2>3, <2>5
  <2>7. \A u \in Running' : InCtx(cur'[u])
    BY <1>1, <1>10, <2>1, <2>6 DEF Inv, LiveInv, Running
  <2>8. \A x : InCtx(x)' <=> InCtx(x)
    BY DEF InCtx, covervars, search
  <2>9. /\ \A i \in 1 .. Len(Queued') : InCtx(Queued'[i])
        /\ \A j \in Pending' : InCtx(j)
    BY <1>7, <2>1, <2>2, <2>6 DEF Inv, LiveInv
  <2> QED
    BY <2>4, <2>7, <2>9 DEF Inv, LiveInv, covervars, search, InCtx
<1>15. BestInv'
  BY DEF Inv, BestInv, covervars, search
<1>16. QStep
  <2>1. Held' = Held \cup {job}
    <3>1. cur[t] = None
      BY <1>1 DEF Inv, ThreadInv
    <3>2. job # None
      BY <1>8, Constants DEF Jobs, None
    <3> QED
      BY <1>2, <1>8, <1>10, <3>1, <3>2 DEF Held
  <2>2. (client' = "freed") = (client = "freed")
    BY <1>6
  <2>3. Q!Start
    BY <1>2, <1>3, <1>4, <2>1, <2>2 DEF Q!Start, Held
  <2> QED
    BY <2>3 DEF QStep, Q!QNext
<1> QED
  BY <1>3, <1>9, <1>11, <1>12, <1>13, <1>14, <1>15, <1>16 DEF Inv
\* A job function returns: what happens to threads and jobs, whatever the usage.
LEMMA RunsOK ==
    ASSUME Inv, UNCHANGED <<usage, d, k>>, phase' = phase \/ {phase, phase'} = {"sleep", "wait"},
           usage # "inline", NEW t \in Threads, ThreadRuns(t)
    PROVE  /\ RingInv' /\ ThreadInv' /\ ClientInv' /\ JobInv' /\ Queued' = Queued /\ Pending' = Pending
           /\ Running' = Running \ {t} /\ t \in Running /\ QStep
<1>1. /\ thread' \in [Threads -> States] /\ thread'[t] = "ran" /\ thread[t] = "running"
      /\ \A u \in Threads : u # t => thread'[u] = thread[u]
      /\ Running' = Running \ {t} /\ t \in Running /\ Busy' = Busy \cup {t} /\ t \in Busy
  <2>1. Moved(t, "ran")
    BY OneThread DEF Inv, ThreadRuns, States
  <2> QED
    BY <2>1 DEF Moved, ThreadRuns
<1>2. UNCHANGED <<ring, limits, numThreadsBusy, cur, client, arg, bounds>> /\ done' = done \cup {cur[t]}
  BY DEF ThreadRuns
<1>3. Queued' = Queued /\ Pending' = Pending /\ RingInv'
  BY <1>2 DEF Inv, RingInv, ring, Queued, Pending, Adding
<1>4. Fresh' = Fresh
  BY <1>2 DEF Fresh, bounds, JobOf
<1>5. cur[t] \in Jobs /\ cur[t] \notin done
  BY <1>1 DEF Inv, ThreadInv
<1>6. JobInv'
  <2>1. JobsOK(Queued, done \cup {cur[t]}, cur, Fresh, Pending)
    BY <1>5, JobsRun DEF Inv, JobInv
  <2> QED
    BY <1>2, <1>3, <1>4, <2>1 DEF Inv, JobInv, bounds
<1>7. ThreadInv'
  <2>1. Busy' = Busy
    BY <1>1
  <2>2. \A u \in Threads : u # t /\ cur[u] \in Jobs => cur[u] # cur[t]
    BY <1>5, Constants DEF Inv, JobInv, JobsOK, Jobs, None
  <2>3. \A u \in Threads : CASE thread'[u] = "running" -> cur'[u] \in Jobs \ done'
                             [] thread'[u] = "ran" -> cur'[u] \in done'
                             [] OTHER -> cur'[u] = None
    BY <1>1, <1>2, <1>5, <2>2 DEF Inv, ThreadInv
  <2> QED
    BY <1>1, <1>2, <1>5, <2>1, <2>3 DEF Inv, ThreadInv, States, limits
<1>8. ClientInv'
  BY <1>1, <1>2 DEF Inv, ThreadInv, ClientInv, ring, limits, Alive
<1>9. QStep
  <2>1. cur[t] \in Held /\ Held' = Held \ {cur[t]}
    BY <1>2, <1>5, Constants DEF Held, Jobs, None
  <2>2. Q!Finish
    BY <1>2, <1>3, <2>1 DEF Q!Finish, Held
  <2> QED
    BY <2>2 DEF QStep, Q!QNext
<1> QED
  BY <1>1, <1>3, <1>6, <1>7, <1>8, <1>9

LEMMA PoolRunsOK ==
    ASSUME Inv, UNCHANGED covervars, usage = "pool", NEW t \in Threads, ThreadRuns(t)
    PROVE  Inv' /\ QStep
<1>1. RingInv' /\ ThreadInv' /\ ClientInv' /\ JobInv' /\ QStep
  BY RunsOK DEF covervars, search
<1>2. SearchInv' /\ LiveInv' /\ BestInv'
  BY DEF Inv, SearchInv, LiveInv, BestInv, covervars, search, ThreadRuns
<1> QED
  BY <1>1, <1>2 DEF Inv

\* COVER_best_finish keeps the best selection.
Kept(b, l, o) ==
    /\ IF b.room = -1 THEN b.dictSize = 0 /\ b.csize = ErrGeneric
       ELSE b.dictSize <= b.room /\ b.room >= 0
    /\ ~IsError(b.csize) => b.dict # None /\ b.csize >= l
    /\ ~o => b.csize = l

BestType == [live : BOOLEAN, liveJobs : Int, dict : Nat, room : Int, dictSize : Nat, csize : Int]

LEMMA SelTypes ==
    ASSUME NEW job \in Jobs, NEW sel \in TryParameters(job)
    PROVE  /\ sel.dict \in Nat /\ sel.dictSize \in Nat /\ sel.csize \in Nat
           /\ sel.dict = None => sel.dictSize = 0
           /\ sel.csize <= ErrGeneric
BY Constants DEF TryParameters, COVER_selectDict, Jobs, None, ErrGeneric, ErrOther

LEMMA FinishedOK ==
    ASSUME best \in BestType, least \in Int, oom \in BOOLEAN, Kept(best, least, oom),
           NEW job \in Jobs, NEW sel \in TryParameters(job), NEW alloc \in BOOLEAN,
           NEW fl \in BOOLEAN, fl <=> sel.csize < best.csize /\ NeedsBuffer(sel) /\ ~alloc,
           NEW b, b = Finished(sel, alloc),
           NEW o, o = (oom \/ fl),
           NEW l, l = (IF sel.dict = None THEN least ELSE Min({least, sel.csize}))
    PROVE  /\ Kept(b, l, o) /\ b \in BestType /\ l \in Int /\ o \in BOOLEAN
           /\ b.liveJobs = best.liveJobs - 1 /\ b.live = best.live
<1>1. /\ sel.dict \in Nat /\ sel.dictSize \in Nat /\ sel.csize \in Nat
      /\ sel.dict = None => sel.dictSize = 0
      /\ sel.csize <= ErrGeneric
  BY SelTypes
<1>2. l \in Int /\ l <= least /\ (sel.dict # None => l = IF least <= sel.csize THEN least ELSE sel.csize)
      /\ (sel.dict = None => l = least)
  <2>1. Min({least, sel.csize}) = IF least <= sel.csize THEN least ELSE sel.csize
    BY <1>1 DEF Min
  <2> QED
    BY <1>1, <2>1
<1> DEFINE left == [best EXCEPT !.liveJobs = @ - 1]
<1>3. /\ left \in BestType /\ left.liveJobs = best.liveJobs - 1 /\ left.live = best.live
      /\ left.dict = best.dict /\ left.room = best.room /\ left.dictSize = best.dictSize /\ left.csize = best.csize
  BY DEF BestType
<1> HIDE DEF left
<1>4. CASE sel.csize >= best.csize
  <2>1. b = left
    BY <1>1, <1>4 DEF Finished, left, BestType
  <2>2. ~fl
    BY <1>1, <1>4 DEF BestType
  <2>3. o = oom
    BY <2>2
  <2> QED
    BY <1>1, <1>2, <1>3, <1>4, <2>1, <2>3 DEF Kept, BestType, IsError
<1>5. CASE sel.csize < best.csize /\ NeedsBuffer(sel) /\ ~alloc
  <2>1. b = [left EXCEPT !.room = -1, !.dict = None, !.dictSize = 0, !.csize = ErrGeneric]
    BY <1>1, <1>5 DEF Finished, left, BestType
  <2>2. o = TRUE
    BY <1>5
  <2>3. b = [live |-> left.live, liveJobs |-> left.liveJobs, dict |-> 0, room |-> -1, dictSize |-> 0, csize |-> 9]
    BY <1>3, <2>1 DEF BestType, None, ErrGeneric
  <2>4. b \in BestType
    BY <1>3, <2>3 DEF BestType
  <2> QED
    BY <1>2, <1>3, <2>2, <2>3, <2>4 DEF Kept, IsError, ErrGeneric, ErrOther
<1>6. CASE sel.csize < best.csize /\ ~(NeedsBuffer(sel) /\ ~alloc)
  <2>1. o = oom
    BY <1>6
  <2>2. CASE NeedsBuffer(sel)
    <3>1. PICK r : r = [left EXCEPT !.room = sel.dictSize, !.dict = None]
      OBVIOUS
    <3>2. /\ r \in BestType /\ r.liveJobs = best.liveJobs - 1 /\ r.live = best.live
          /\ r.dict = None /\ r.room = sel.dictSize /\ r.dictSize = best.dictSize /\ r.csize = best.csize
      <4>1. r = [live |-> left.live, liveJobs |-> left.liveJobs, dict |-> None, room |-> sel.dictSize,
                 dictSize |-> left.dictSize, csize |-> left.csize]
        BY <1>3, <3>1 DEF BestType
      <4> QED
        BY <1>1, <1>3, <4>1 DEF BestType, None
    <3>3. b = IF sel.dict = None THEN r
              ELSE [r EXCEPT !.dict = sel.dict, !.dictSize = sel.dictSize, !.csize = sel.csize]
      BY <1>1, <1>6, <2>2, <3>1 DEF Finished, left, BestType
    <3>4. CASE sel.dict = None
      <4>1. best.room = -1
        BY <1>1, <2>2, <3>4 DEF NeedsBuffer, Kept, BestType
      <4> QED
        BY <1>1, <1>2, <2>1, <3>2, <3>3, <3>4, <4>1 DEF Kept, IsError, ErrGeneric, ErrOther
    <3>5. CASE sel.dict # None
      <4>1. /\ b \in BestType /\ b.liveJobs = best.liveJobs - 1 /\ b.live = best.live
            /\ b.dict = sel.dict /\ b.room = sel.dictSize /\ b.dictSize = sel.dictSize /\ b.csize = sel.csize
        <5>1. b = [live |-> r.live, liveJobs |-> r.liveJobs, dict |-> sel.dict, room |-> r.room,
                   dictSize |-> sel.dictSize, csize |-> sel.csize]
          BY <3>2, <3>3, <3>5 DEF BestType
        <5> QED
          BY <1>1, <3>2, <5>1 DEF BestType
      <4> QED
        BY <1>1, <1>2, <1>6, <2>1, <3>5, <4>1 DEF Kept, IsError, BestType
    <3> QED
      BY <3>4, <3>5
  <2>3. CASE ~NeedsBuffer(sel)
    <3>3. b = IF sel.dict = None THEN left
              ELSE [left EXCEPT !.dict = sel.dict, !.dictSize = sel.dictSize, !.csize = sel.csize]
      BY <1>1, <1>6, <2>3 DEF Finished, left, BestType
    <3>4. CASE sel.dict = None
      BY <1>1, <1>2, <1>3, <2>1, <3>3, <3>4 DEF Kept, IsError, BestType
    <3>5. CASE sel.dict # None
      <4>1. /\ b \in BestType /\ b.liveJobs = best.liveJobs - 1 /\ b.live = best.live
            /\ b.dict = sel.dict /\ b.room = best.room /\ b.dictSize = sel.dictSize /\ b.csize = sel.csize
        <5>1. b = [live |-> left.live, liveJobs |-> left.liveJobs, dict |-> sel.dict, room |-> left.room,
                   dictSize |-> sel.dictSize, csize |-> sel.csize]
          BY <1>3, <3>3, <3>5 DEF BestType
        <5> QED
          BY <1>1, <1>3, <5>1 DEF BestType
      <4>2. best.room # -1 /\ sel.dictSize <= best.dictSize
        BY <1>1, <2>3 DEF NeedsBuffer, BestType
      <4> QED
        BY <1>1, <1>2, <1>6, <2>1, <3>5, <4>1, <4>2 DEF Kept, IsError, BestType
    <3> QED
      BY <3>4, <3>5
  <2> QED
    BY <2>2, <2>3
<1> QED
  BY <1>1, <1>4, <1>5, <1>6 DEF BestType
LEMMA RunJobOK ==
    ASSUME Inv, NEW t \in Threads, RunJob(t)
    PROVE  Inv' /\ QStep
<1>1. usage = "cover" /\ thread[t] = "running" /\ ThreadRuns(t) /\ UNCHANGED <<usage, d, k, ctxs, result>>
  BY DEF RunJob
<1>2. cur[t] \in Jobs /\ t \in Running
  BY <1>1 DEF Inv, ThreadInv, Running
<1>3. PICK sel \in TryParameters(cur[t]), alloc \in BOOLEAN, fl \in BOOLEAN :
        /\ fl <=> sel.csize < best.csize /\ NeedsBuffer(sel) /\ ~alloc
        /\ best' = Finished(sel, alloc) /\ oom' = (oom \/ fl)
        /\ least' = (IF sel.dict = None THEN least ELSE Min({least, sel.csize}))
        /\ phase' = Woken(best.liveJobs - 1, fl)
  <2>1. PICK sel \in TryParameters(cur[t]) : COVER_best_finish(sel)
    BY DEF RunJob
  <2>2. PICK alloc \in BOOLEAN :
        /\ best' = Finished(sel, alloc) /\ oom' = (oom \/ (sel.csize < best.csize /\ NeedsBuffer(sel) /\ ~alloc))
        /\ least' = (IF sel.dict = None THEN least ELSE Min({least, sel.csize}))
        /\ phase' = Woken(best.liveJobs - 1, sel.csize < best.csize /\ NeedsBuffer(sel) /\ ~alloc)
    BY <2>1 DEF COVER_best_finish
  <2>3. PICK fl \in BOOLEAN : fl = (sel.csize < best.csize /\ NeedsBuffer(sel) /\ ~alloc)
    OBVIOUS
  <2> QED
    BY <2>2, <2>3
<1>4. phase' = phase \/ (phase = "sleep" /\ phase' = "wait")
  BY <1>3 DEF Woken
<1>5. /\ RingInv' /\ ThreadInv' /\ ClientInv' /\ JobInv' /\ Queued' = Queued /\ Pending' = Pending
      /\ Running' = Running \ {t} /\ t \in Running /\ QStep
  BY <1>1, <1>4, RunsOK
<1>6. InFlight' = InFlight - 1 /\ InFlight > 0 /\ InFlight \in Nat
  <2>1. Cardinality(Running') = Cardinality(Running) - 1 /\ Cardinality(Running) \in Nat /\ Cardinality(Running') \in Nat
    <3>1. PICK r : r = Running \ {t}
      OBVIOUS
    <3>2. IsFiniteSet(r) /\ Cardinality(r) = Cardinality(Running) - 1
      BY <1>5, <3>1, ThreadSets, FS_RemoveElement
    <3>3. Cardinality(r) \in Nat
      BY <3>2, FS_CardinalityType
    <3> QED
      BY <1>5, <3>1, <3>2, <3>3, ThreadSets
  <2>2. Cardinality(Pending) \in Nat
    BY PendingSize
  <2>3. Len(Queued) \in Nat
    BY QueuedSeq DEF Inv
  <2> QED
    BY <1>5, <2>1, <2>2, <2>3 DEF InFlight
<1>7. phase \in {"loop", "wait", "sleep"} /\ best.liveJobs = InFlight /\ best.live
  BY <1>1, <1>6 DEF Inv, LiveInv, SearchInv
<1>8. best \in BestType /\ least \in Int /\ oom \in BOOLEAN /\ Kept(best, least, oom)
  BY <1>7 DEF Inv, BestInv, Kept, BestType
<1>9. /\ Kept(best', least', oom') /\ best' \in BestType /\ least' \in Int /\ oom' \in BOOLEAN
      /\ best'.liveJobs = best.liveJobs - 1 /\ best'.live = best.live
  <2>1. PICK b, l, o : b = best' /\ l = least' /\ o = oom'
    OBVIOUS
  <2>2. /\ Kept(b, l, o) /\ b \in BestType /\ l \in Int /\ o \in BOOLEAN
        /\ b.liveJobs = best.liveJobs - 1 /\ b.live = best.live
    BY <1>2, <1>3, <1>8, <2>1, FinishedOK
  <2> QED
    BY <2>1, <2>2
<1>10. BestInv'
  BY <1>1, <1>9 DEF BestInv, Kept, BestType
<1>11. SearchInv'
  BY <1>1, <1>4 DEF Inv, SearchInv, ThreadRuns
<1>12. LiveInv'
  <2>1. \A u \in Running' : InCtx(cur'[u])
    BY <1>1, <1>5 DEF Inv, LiveInv, ThreadRuns
  <2> QED
    BY <1>1, <1>4, <1>5, <1>6, <1>7, <1>9, <2>1 DEF Inv, LiveInv, InCtx
<1> QED
  BY <1>5, <1>10, <1>11, <1>12 DEF Inv

(* The client. *)

LEMMA CreatedCount ==
    ASSUME Inv, client = "create"
    PROVE  /\ Cardinality(Created) \in 0 .. arg
           /\ \A t \in Threads : t <= Cardinality(Created) <=> thread[t] # "none"
<1>1. PICK n \in 0 .. arg : \A t \in Threads : t <= n <=> thread[t] # "none"
  BY DEF Inv, ClientInv
<1>2. arg \in Threads /\ Threads = 1 .. MaxThreads
  BY DEF Inv, ClientInv, Threads
<1>3. Created = 1 .. n
  BY <1>1, <1>2, Constants DEF Created
<1>4. Cardinality(1 .. n) = n
  BY <1>1, <1>2, Constants, FS_Interval
<1> QED
  BY <1>1, <1>3, <1>4

LEMMA CreateThreadOK ==
    ASSUME Inv, UNCHANGED covervars, usage # "inline", CreateThread
    PROVE  Inv' /\ QStep
<1>1. PICK t \in Threads : t = Cardinality(Created) + 1 /\ thread' = [thread EXCEPT ![t] = "ready"]
  BY DEF CreateThread
<1>2. PICK n : n = Cardinality(Created)
  OBVIOUS
<1>3. n \in 0 .. arg /\ (\A u \in Threads : u <= n <=> thread[u] # "none") /\ n < arg /\ client = "create" /\ t = n + 1
      /\ arg \in Threads
  BY <1>1, <1>2, CreatedCount DEF CreateThread, Inv, ClientInv
<1>4. arg \in Nat /\ t \in Nat /\ \A u \in Threads : u \in Nat
  BY <1>3, Constants DEF Threads
<1>5. thread[t] = "none"
  BY <1>3, <1>4 DEF Inv, ThreadInv
<1>6. /\ thread' \in [Threads -> States] /\ thread'[t] = "ready"
      /\ \A u \in Threads : u # t => thread'[u] = thread[u]
      /\ Running' = Running /\ Busy' = Busy
  <2>1. Moved(t, "ready")
    BY <1>1, OneThread DEF Inv, States
  <2> QED
    BY <1>5, <2>1 DEF Moved
<1>7. UNCHANGED <<ring, limits, numThreadsBusy, cur, client, arg, done, bounds>>
  BY DEF CreateThread
<1>8. QuietStep
  BY <1>6, <1>7 DEF Inv, QuietStep, JobInv, bounds, Pending, Adding
<1>9. RingInv' /\ JobInv' /\ LiveInv' /\ BestInv' /\ Queued' = Queued
  BY <1>8, Quiet
<1>10. ThreadInv'
  BY <1>5, <1>6, <1>7 DEF Inv, ThreadInv, States, limits
<1>11. ClientInv'
  <2>1. n + 1 \in 0 .. arg /\ \A u \in Threads : u <= n + 1 <=> thread'[u] # "none"
    BY <1>3, <1>4, <1>6
  <2>2. (\E u \in Threads : thread'[u] = "exited") => shutdown
    BY <1>6 DEF Inv, ClientInv
  <2>3. queueEmpty' /\ threadLimit' = 0 /\ client' = "create" /\ arg' = arg /\ shutdown' = shutdown
    BY <1>3, <1>7 DEF Inv, ClientInv, ring, limits
  <2>4. \E x \in 0 .. arg' : \A u \in Threads : u <= x <=> thread'[u] # "none"
    BY <2>1, <2>3
  <2> QED
    BY <1>3, <2>2, <2>3, <2>4 DEF Inv, ClientInv, Open, Closing
<1>12. SearchInv'
  BY <1>7 DEF Inv, SearchInv, covervars, search
<1>13. QStep
  BY <1>7, <1>9, QuietQueue DEF Held
<1> QED
  BY <1>9, <1>10, <1>11, <1>12, <1>13 DEF Inv

\* Steps that change the client and the limits, and leave threads and ring alone.
ClientOnly == UNCHANGED <<ring, numThreadsBusy, thread, cur, done, bounds, covervars>>

LEMMA ClientQuiet ==
    ASSUME Inv, ClientOnly, ~Adding, ~Adding'
    PROVE  RingInv' /\ JobInv' /\ LiveInv' /\ BestInv' /\ Queued' = Queued /\ Held' = Held
<1>1. Pending' = Pending
  BY DEF Pending
<1>2. Running' = Running
  BY DEF ClientOnly, Running
<1>3. QuietStep
  BY <1>1, <1>2 DEF ClientOnly, QuietStep, Inv, JobInv, bounds
<1> QED
  BY <1>3, Quiet DEF ClientOnly, Held
LEMMA CreateEndsOK ==
    ASSUME Inv, UNCHANGED covervars, usage # "inline", CreateEnds
    PROVE  Inv' /\ QStep
<1>1. /\ client = "create" /\ client' = "idle" /\ shutdown' = shutdown /\ ClientOnly
      /\ threadCapacity' = arg /\ threadLimit' = arg /\ arg = Cardinality(Created)
  BY DEF CreateEnds, ClientOnly
<1>2. /\ arg \in Threads /\ arg \in Nat /\ arg > 0 /\ arg <= MaxThreads /\ queueEmpty
      /\ \A t \in Threads : t <= arg <=> thread[t] # "none"
  BY <1>1, CreatedCount, Constants DEF Inv, ClientInv, Threads
<1>3. RingInv' /\ JobInv' /\ LiveInv' /\ BestInv' /\ Queued' = Queued /\ Held' = Held
  BY <1>1, ClientQuiet DEF Adding
<1>4. ThreadInv'
  BY <1>1, <1>2, Constants DEF Inv, ThreadInv, ClientOnly, Busy
<1>5. ClientInv'
  BY <1>1, <1>2 DEF Inv, ClientInv, ClientOnly, ring, Open, Closing
<1>6. SearchInv'
  BY <1>1 DEF Inv, SearchInv, ClientOnly, covervars, search, Closing
<1>7. QStep
  BY <1>1, <1>3, QuietQueue DEF ClientOnly
<1> QED
  BY <1>3, <1>4, <1>5, <1>6, <1>7 DEF Inv

LEMMA CreateFailsOK ==
    ASSUME Inv, UNCHANGED covervars, usage # "inline", CreateFails
    PROVE  Inv' /\ QStep
<1>1. /\ client = "create" /\ client' = "free" /\ UNCHANGED <<shutdown, threadLimit>> /\ ClientOnly
      /\ threadCapacity' = Cardinality(Created)
  BY DEF CreateFails, ClientOnly
<1>2. /\ threadCapacity' \in 0 .. MaxThreads /\ queueEmpty /\ threadLimit = 0
      /\ \A t \in Threads : t <= threadCapacity' <=> thread[t] # "none"
  BY <1>1, CreatedCount, Constants DEF Inv, ClientInv, Threads
<1>3. RingInv' /\ JobInv' /\ LiveInv' /\ BestInv' /\ Queued' = Queued /\ Held' = Held
  BY <1>1, ClientQuiet DEF Adding
<1>4. ThreadInv'
  BY <1>1, <1>2 DEF Inv, ThreadInv, ClientOnly, Busy
<1>5. ClientInv'
  BY <1>1, <1>2 DEF Inv, ClientInv, ClientOnly, ring, Open, Closing
<1>6. SearchInv'
  BY <1>1 DEF Inv, SearchInv, ClientOnly, covervars, search, Closing
<1>7. QStep
  BY <1>1, <1>3, QuietQueue DEF ClientOnly
<1> QED
  BY <1>3, <1>4, <1>5, <1>6, <1>7 DEF Inv

\* POOL_joinJobs and the calls of the client that wait for nothing.
LEMMA JoinJobsOK ==
    ASSUME Inv, UNCHANGED covervars, usage # "inline", JoinJobs \/ (usage = "pool" /\ (CallJoinJobs \/ CallFree))
    PROVE  Inv' /\ QStep
<1>1. /\ ClientOnly /\ UNCHANGED limits /\ arg' = arg
      /\ client \in {"joinJobs", "idle"} /\ client' \in {"joinWait", "idle", "joinJobs", "free"}
      /\ client = "joinJobs" \/ usage = "pool"
  BY DEF JoinJobs, CallJoinJobs, CallFree, ClientOnly, pool
<1>2. RingInv' /\ JobInv' /\ LiveInv' /\ BestInv' /\ Queued' = Queued /\ Held' = Held
  BY <1>1, ClientQuiet DEF Adding
<1>3. ThreadInv'
  BY <1>1 DEF Inv, ThreadInv, ClientOnly, Busy, limits
<1>4. ClientInv'
  BY <1>1 DEF Inv, ClientInv, ClientOnly, ring, Open, Closing, limits, Alive
<1>5. usage = "pool"
  BY <1>1 DEF Inv, SearchInv, Closing
<1>6. SearchInv'
  BY <1>1, <1>5 DEF Inv, SearchInv, ClientOnly, covervars, search
<1>7. QStep
  BY <1>1, <1>2, QuietQueue DEF ClientOnly
<1> QED
  BY <1>2, <1>3, <1>4, <1>6, <1>7 DEF Inv

LEMMA ShutdownOK ==
    ASSUME Inv, UNCHANGED covervars, usage # "inline", Shutdown
    PROVE  Inv' /\ QStep
<1>1. /\ ClientOnly /\ UNCHANGED <<threadLimit, threadCapacity, arg>>
      /\ client = "free" /\ client' = "wake" /\ shutdown' = TRUE
  BY DEF Shutdown, ClientOnly
<1>2. RingInv' /\ JobInv' /\ LiveInv' /\ BestInv' /\ Queued' = Queued /\ Held' = Held
  BY <1>1, ClientQuiet DEF Adding
<1>3. ThreadInv'
  BY <1>1 DEF Inv, ThreadInv, ClientOnly, Busy
<1>4. ClientInv'
  BY <1>1 DEF Inv, ClientInv, ClientOnly, ring, Open, Closing, Alive
<1>6. SearchInv'
  BY <1>1 DEF Inv, SearchInv, ClientOnly, covervars, search, Closing
<1>7. QStep
  BY <1>1, <1>2, QuietQueue DEF ClientOnly
<1> QED
  BY <1>2, <1>3, <1>4, <1>6, <1>7 DEF Inv

\* The last thread leaves no job behind: the pool is freed with an empty queue.
LEMMA JoinAllOK ==
    ASSUME Inv, UNCHANGED covervars, usage # "inline", JoinAll
    PROVE  Inv' /\ QStep
<1>1. /\ ClientOnly /\ UNCHANGED <<limits, arg>>
      /\ client = "join" /\ client' = "freed" /\ \A t \in 1 .. threadCapacity : thread[t] = "exited"
  BY DEF JoinAll, ClientOnly, pool
<1>2. RingInv' /\ JobInv' /\ LiveInv' /\ BestInv' /\ Queued' = Queued /\ Held' = Held
  BY <1>1, ClientQuiet DEF Adding
<1>3. ThreadInv'
  BY <1>1 DEF Inv, ThreadInv, ClientOnly, Busy, limits
<1>4. \A t \in Threads : thread[t] \in {"none", "exited"}
  <2>1. SUFFICES ASSUME NEW t \in Threads PROVE thread[t] \in {"none", "exited"}
    OBVIOUS
  <2>2. t <= threadCapacity <=> thread[t] # "none"
    BY <1>1 DEF Inv, ClientInv
  <2>3. t <= threadCapacity => t \in 1 .. threadCapacity
    BY Constants DEF Threads, Inv, ThreadInv
  <2> QED
    BY <1>1, <2>2, <2>3
<1>5. queueEmpty
  BY <1>4 DEF Inv, ClientInv, Alive
<1>6. ClientInv'
  BY <1>1, <1>4, <1>5 DEF Inv, ClientInv, ClientOnly, ring, Open, Closing, limits
<1>7. SearchInv'
  BY <1>1 DEF Inv, SearchInv, ClientOnly, covervars, search, Closing
<1>8. QStep
  <2>1. Queued = << >>
    <3>1. Queued \in Seq(Nat) /\ Len(Queued) = 0
      BY <1>5, QueuedSeq DEF Inv
    <3> QED
      BY <3>1, EmptySeq
  <2>2. \A t \in Threads : cur[t] = None
    BY <1>4 DEF Inv, ThreadInv
  <2>3. Held = {}
    BY <2>2 DEF Held
  <2>4. Q!Vanish
    BY <1>1, <1>2, <2>1, <2>3 DEF Q!Vanish, Held, ClientOnly
  <2> QED
    BY <2>4 DEF QStep, Q!QNext
<1> QED
  BY <1>2, <1>3, <1>6, <1>7, <1>8 DEF Inv
\* The sleepers are woken, by POOL_join and by POOL_resize.
LEMMA Broadcast ==
    ASSUME ThreadInv, NEW th, th = BroadcastPop(thread)
    PROVE  /\ th \in [Threads -> States]
           /\ \A t \in Threads : th[t] = thread[t] \/ (thread[t] = "wait" /\ th[t] = "ready")
BY DEF ThreadInv, BroadcastPop, States

Woke(new) ==
    /\ thread' \in [Threads -> States]
    /\ \A t \in Threads : \/ thread'[t] = thread[t]
                          \/ thread[t] = "wait" /\ thread'[t] = "ready"
                          \/ t \in new /\ thread[t] = "none" /\ thread'[t] = "ready"

LEMMA WokeQuiet ==
    ASSUME Inv, NEW new, Woke(new), UNCHANGED <<ring, numThreadsBusy, cur, done, nextJob, covervars>>,
           Pending' = Pending, threadLimit' \in Nat, threadCapacity' \in 0 .. MaxThreads, shutdown' = shutdown
    PROVE  RingInv' /\ ThreadInv' /\ JobInv' /\ LiveInv' /\ BestInv' /\ Queued' = Queued /\ Held' = Held
<1>1. Running' = Running /\ Busy' = Busy
  BY DEF Woke, Running, Busy
<1>2. QuietStep
  BY <1>1 DEF QuietStep, Inv, JobInv
<1>3. RingInv' /\ JobInv' /\ LiveInv' /\ BestInv' /\ Queued' = Queued
  BY <1>2, Quiet
<1>4. ThreadInv'
  BY <1>1 DEF Inv, ThreadInv, Woke, States
<1> QED
  BY <1>3, <1>4 DEF Held

LEMMA WakeAllOK ==
    ASSUME Inv, UNCHANGED covervars, usage # "inline", WakeAll
    PROVE  Inv' /\ QStep
<1>1. /\ UNCHANGED <<ring, limits, numThreadsBusy, cur, arg, done, bounds>>
      /\ client = "wake" /\ client' = "join"
  BY DEF WakeAll
<1>2. Woke({})
  BY Broadcast DEF WakeAll, Woke, Inv
<1>3. Pending' = Pending
  BY <1>1 DEF Pending, Adding
<1>4. RingInv' /\ ThreadInv' /\ JobInv' /\ LiveInv' /\ BestInv' /\ Queued' = Queued /\ Held' = Held
  <2>1. threadLimit' \in Nat /\ threadCapacity' \in 0 .. MaxThreads /\ shutdown' = shutdown /\ nextJob' = nextJob
    BY <1>1 DEF limits, bounds, Inv, ThreadInv
  <2> QED
    BY <1>1, <1>2, <1>3, <2>1, WokeQuiet
<1>5. ClientInv'
  <2>1. Alive' = Alive /\ \A t \in Threads : /\ thread'[t] = "none" <=> thread[t] = "none"
                                             /\ thread'[t] = "exited" <=> thread[t] = "exited"
    BY <1>2 DEF Woke, Alive
  <2> QED
    BY <1>1, <2>1 DEF Inv, ClientInv, Open, Closing, ring, limits
<1>6. SearchInv'
  BY <1>1 DEF Inv, SearchInv, covervars, search, Closing
<1>7. QStep
  BY <1>1, <1>4, QuietQueue
<1> QED
  BY <1>4, <1>5, <1>6, <1>7 DEF Inv

LEMMA ResizeOK ==
    ASSUME Inv, UNCHANGED covervars, usage = "pool", Resize
    PROVE  Inv' /\ QStep
<1>1. /\ UNCHANGED <<ring, shutdown, numThreadsBusy, cur, client, arg, done, nextJob>> /\ client = "idle"
  BY DEF Resize
<1>2. PICK n \in 0 .. MaxThreads : ResizeInternal(n)
  BY DEF Resize
<1>3. threadCapacity \in 0 .. MaxThreads /\ threadLimit \in Nat /\ threadLimit > 0 /\ threadCapacity > 0
  BY <1>1 DEF Inv, ThreadInv, ClientInv, Open
<1>4. \A t \in Threads : t \in Nat /\ t > 0 /\ (t <= threadCapacity <=> thread[t] # "none")
  BY <1>1, Constants DEF Inv, ClientInv, Threads
<1>5. /\ Woke((threadCapacity + 1) .. threadCapacity')
      /\ threadLimit' \in Nat /\ threadLimit' > 0
      /\ threadCapacity' \in 0 .. MaxThreads /\ threadCapacity' >= threadCapacity
      /\ \A t \in Threads : t <= threadCapacity' <=> thread'[t] # "none"
  <2>1. PICK th : th = BroadcastPop(thread)
    OBVIOUS
  <2>2. /\ th \in [Threads -> States]
        /\ \A t \in Threads : th[t] = thread[t] \/ (thread[t] = "wait" /\ th[t] = "ready")
    BY <2>1, Broadcast DEF Inv
  <2>3. CASE n <= threadCapacity
    <3>1. threadLimit' = (IF n = 0 THEN threadLimit ELSE n) /\ thread' = th /\ threadCapacity' = threadCapacity
      BY <1>2, <2>1, <2>3 DEF ResizeInternal
    <3>2. Woke((threadCapacity + 1) .. threadCapacity')
      BY <2>2, <3>1 DEF Woke
    <3>3. threadLimit' \in Nat /\ threadLimit' > 0
      BY <1>3, <3>1
    <3>4. \A t \in Threads : t <= threadCapacity' <=> thread'[t] # "none"
      BY <1>4, <2>2, <3>1
    <3> QED
      BY <1>3, <3>1, <3>2, <3>3, <3>4
  <2>4. CASE ~(n <= threadCapacity)
    <3>1. PICK m \in threadCapacity .. n :
            /\ thread' = [t \in Threads |-> IF t \in (threadCapacity + 1) .. m THEN "ready" ELSE th[t]]
            /\ threadCapacity' = m
            /\ threadLimit' = IF m = n THEN n ELSE threadLimit
      BY <1>2, <2>1, <2>4 DEF ResizeInternal
    <3>2. m \in 0 .. MaxThreads /\ m >= threadCapacity /\ n > 0
      BY <1>3, <2>4, Constants
    <3>3. Woke((threadCapacity + 1) .. threadCapacity')
      <4>1. thread' \in [Threads -> States]
        BY <2>2, <3>1 DEF States
      <4>2. ASSUME NEW t \in Threads
            PROVE  \/ thread'[t] = thread[t]
                   \/ thread[t] = "wait" /\ thread'[t] = "ready"
                   \/ t \in (threadCapacity + 1) .. m /\ thread[t] = "none" /\ thread'[t] = "ready"
        <5>1. CASE t \in (threadCapacity + 1) .. m
          BY <1>3, <1>4, <3>1, <3>2, <5>1
        <5>2. CASE t \notin (threadCapacity + 1) .. m
          BY <2>2, <3>1, <5>2
        <5> QED
          BY <5>1, <5>2
      <4> QED
        BY <3>1, <4>1, <4>2 DEF Woke
    <3>4. threadLimit' \in Nat /\ threadLimit' > 0
      BY <1>3, <3>1, <3>2
    <3>5. ASSUME NEW t \in Threads PROVE t <= m <=> thread'[t] # "none"
      <4>1. CASE t \in (threadCapacity + 1) .. m
        BY <1>3, <3>1, <3>2, <4>1
      <4>2. CASE t \notin (threadCapacity + 1) .. m
        <5>1. t <= m <=> t <= threadCapacity
          BY <1>3, <1>4, <3>2, <4>2
        <5>2. thread'[t] # "none" <=> thread[t] # "none"
          BY <2>2, <3>1, <4>2
        <5> QED
          BY <1>4, <5>1, <5>2
      <4> QED
        BY <4>1, <4>2
    <3> QED
      BY <3>1, <3>2, <3>3, <3>4, <3>5
  <2> QED
    BY <2>3, <2>4
<1>6. Pending' = Pending
  BY <1>1 DEF Pending, Adding
<1>7. RingInv' /\ ThreadInv' /\ JobInv' /\ LiveInv' /\ BestInv' /\ Queued' = Queued /\ Held' = Held
  BY <1>1, <1>5, <1>6, WokeQuiet
<1>8. ClientInv'
  <2>1. \A t \in Threads : thread[t] \notin {"none", "exited"} => thread'[t] \notin {"none", "exited"}
    BY <1>5 DEF Woke
  <2>2. \A t \in Threads : thread'[t] = "exited" => thread[t] = "exited"
    BY <1>5 DEF Woke
  <2>3. Alive # {} => Alive' # {}
    BY <2>1 DEF Alive
  <2> QED
    BY <1>1, <1>3, <1>5, <2>2, <2>3 DEF Inv, ClientInv, Open, Closing, ring
<1>9. SearchInv'
  BY <1>1 DEF Inv, SearchInv, covervars, search
<1>10. QStep
  BY <1>1, <1>7, QuietQueue
<1> QED
  BY <1>7, <1>8, <1>9, <1>10 DEF Inv
\* A job enters the ring: what POOL_add and POOL_tryAdd have in common.
Accepts(job) ==
    /\ client \in Open /\ client' = "idle"
    /\ ~IsQueueFull /\ PushesRing(job) /\ SignalPop
    /\ JobsOK(Queued, done, cur, Fresh', {job})
    /\ UNCHANGED <<limits, numThreadsBusy, cur, done, covervars>>

LEMMA SignalOK ==
    ASSUME ThreadInv, SignalPop
    PROVE  Woke({})
<1>1. CASE Sleeping = {}
  BY <1>1 DEF SignalPop, Woke, ThreadInv, States
<1>2. CASE Sleeping # {}
  <2>1. PICK t \in Sleeping : thread' = [thread EXCEPT ![t] = "ready"]
    BY <1>2 DEF SignalPop
  <2> QED
    BY <2>1 DEF Sleeping, Woke, ThreadInv, States
<1> QED
  BY <1>1, <1>2

LEMMA AcceptsOK ==
    ASSUME Inv, NEW job, Accepts(job)
    PROVE  /\ RingInv' /\ ThreadInv' /\ ClientInv' /\ QStep /\ Running' = Running
           /\ JobsOK(Queued', done', cur', Fresh', Pending') /\ Pending' = {}
           /\ Queued' = Append(Queued, job) /\ job \in Nat
<1>1. job \in Nat /\ job \in Jobs /\ job \notin done /\ \A t \in Threads : cur[t] # job
  BY DEF Accepts, JobsOK, Jobs
<1>2. RingInv' /\ Queued' = Append(Queued, job)
  BY <1>1, PushStep DEF Accepts, Inv
<1>3. Pending' = {}
  BY DEF Accepts, Pending, Adding
<1>4. JobsOK(Queued', done', cur', Fresh', Pending')
  <2>1. PICK qs, qt, f : qs = Queued /\ qt = Queued' /\ f = Fresh'
    OBVIOUS
  <2>2. JobsOK(qs, done, cur, f, {job}) /\ qt = Append(qs, job)
    BY <1>2, <2>1, Zenon DEF Accepts
  <2>3. JobsOK(qt, done, cur, f, {})
    BY <2>2, JobsPush
  <2> QED
    BY <1>3, <2>1, <2>3 DEF Accepts
<1>5. Woke({})
  BY SignalOK DEF Accepts, Inv
<1>6. Running' = Running /\ Busy' = Busy
  BY <1>5 DEF Woke, Running, Busy
<1>7. ThreadInv'
  BY <1>5, <1>6 DEF Accepts, Inv, ThreadInv, Woke, States, limits
<1>8. ClientInv'
  <2>1. ~shutdown /\ threadLimit > 0 /\ threadCapacity > 0
    BY DEF Accepts, Inv, ClientInv, Open, Closing
  <2>2. \A t \in Threads : /\ thread'[t] = "none" <=> thread[t] = "none"
                           /\ thread'[t] = "exited" <=> thread[t] = "exited"
    BY <1>5 DEF Woke
  <2>3. 1 \in Threads /\ 1 <= threadCapacity
    BY <2>1, Constants DEF Threads, Inv, ThreadInv
  <2>4. client # "create"
    BY DEF Accepts, Open
  <2>5. thread[1] # "none" /\ thread[1] # "exited"
    BY <2>1, <2>3, <2>4 DEF Inv, ClientInv
  <2>6. Alive' # {}
    BY <2>2, <2>3, <2>5 DEF Alive
  <2> QED
    BY <2>1, <2>2, <2>4, <2>6 DEF Accepts, Inv, ClientInv, Open, Closing, limits
<1>9. QStep
  <2>1. job \in Jobs \ (done \cup Held)
    BY <1>1 DEF Held
  <2>2. Held' = Held /\ done' = done /\ (client' = "freed") = (client = "freed") /\ client # "freed"
    BY DEF Held, Accepts, Open
  <2>3. Q!Accept
    BY <1>2, <2>1, <2>2 DEF Q!Accept, Held
  <2> QED
    BY <2>3 DEF QStep, Q!QNext
<1> QED
  BY <1>1, <1>2, <1>3, <1>4, <1>6, <1>7, <1>8, <1>9

LEMMA AddOK ==
    ASSUME Inv, UNCHANGED covervars, usage # "inline", Add
    PROVE  Inv' /\ QStep
<1>1. client = "add" /\ ~shutdown /\ Adding /\ Pending = {arg} /\ client \in Open
      /\ UNCHANGED <<limits, numThreadsBusy, cur, done, bounds>>
  BY DEF Add, Adding, Pending, Inv, ClientInv, Open, Closing
<1>2. CASE IsQueueFull
  <2>1. client' = "addWait" /\ UNCHANGED <<ring, thread, arg>>
    BY <1>1, <1>2 DEF Add
  <2>2. Woke({})
    BY <2>1 DEF Woke, Inv, ThreadInv, States
  <2>3. Pending' = Pending
    BY <1>1, <2>1 DEF Pending, Adding
  <2>4. RingInv' /\ ThreadInv' /\ JobInv' /\ LiveInv' /\ BestInv' /\ Queued' = Queued /\ Held' = Held
    <3>1. threadLimit' \in Nat /\ threadCapacity' \in 0 .. MaxThreads /\ shutdown' = shutdown /\ nextJob' = nextJob
      BY <1>1 DEF limits, bounds, Inv, ThreadInv
    <3> QED
      BY <1>1, <2>1, <2>2, <2>3, <3>1, WokeQuiet
  <2>5. ClientInv'
    BY <1>1, <2>1 DEF Inv, ClientInv, Open, Closing, ring, limits, Alive
  <2>6. SearchInv'
    BY <1>1, <2>1 DEF Inv, SearchInv, covervars, search, Closing
  <2>7. QStep
    BY <1>1, <2>1, <2>4, QuietQueue
  <2> QED
    BY <2>4, <2>5, <2>6, <2>7 DEF Inv
<1>3. CASE ~IsQueueFull
  <2>1. AddInternal(arg) /\ client' = "idle" /\ arg' = None
    BY <1>1, <1>3 DEF Add
  <2>2. PushesRing(arg) /\ SignalPop
    BY <1>1, <2>1 DEF AddInternal, PushesRing
  <2>3. Fresh' = Fresh
    BY <1>1 DEF Fresh, bounds, covervars, search, JobOf
  <2>4. Accepts(arg)
    BY <1>1, <1>3, <2>1, <2>2, <2>3 DEF Accepts, Inv, JobInv
  <2>5. /\ RingInv' /\ ThreadInv' /\ ClientInv' /\ QStep /\ Running' = Running
        /\ JobsOK(Queued', done', cur', Fresh', Pending') /\ Pending' = {}
        /\ Queued' = Append(Queued, arg) /\ arg \in Nat
    BY <2>4, AcceptsOK
  <2>6. JobInv'
    BY <1>1, <2>5 DEF Inv, JobInv, bounds
  <2>7. SearchInv'
    BY <1>1, <2>1, <2>2 DEF Inv, SearchInv, covervars, search, Closing
  <2>8. BestInv'
    BY DEF Inv, BestInv, covervars, search
  <2>9. LiveInv'
    <3>1. SUFFICES ASSUME usage # "pool" PROVE LiveInv'
      BY DEF LiveInv, covervars
    <3>2. PICK qs \in Seq(Nat), qt \in {Queued'} : qs = Queued /\ qt = Queued' /\ Len(qs) \in Nat
      BY QueuedSeq DEF Inv
    <3>3. qt = Append(qs, arg) /\ Len(qt) = Len(qs) + 1 /\ qt[Len(qs) + 1] = arg
          /\ \A i \in 1 .. Len(qs) : qt[i] = qs[i]
      BY <2>5, <3>2
    <3>4. InFlight' = InFlight
      <4>1. Cardinality(Pending) = 1 /\ Cardinality(Pending') = 0
        BY <1>1, <2>5, FS_Singleton, FS_EmptySet
      <4> QED
        BY <2>5, <3>2, <3>3, <4>1, ThreadSets DEF InFlight
    <3>5. (\A i \in 1 .. Len(qs) : InCtx(qs[i])) /\ InCtx(arg)
      BY <1>1, <3>1, <3>2 DEF Inv, LiveInv
    <3>6. ASSUME NEW i \in 1 .. Len(qt) PROVE InCtx(qt[i])
      <4>1. CASE i = Len(qs) + 1
        BY <3>3, <3>5, <4>1
      <4>2. CASE i \in 1 .. Len(qs)
        BY <3>3, <3>5, <4>2
      <4> QED
        BY <3>2, <3>3, <4>1, <4>2
    <3>7. \A i \in 1 .. Len(Queued') : InCtx(Queued'[i])
      BY <3>2, <3>6
    <3>8. \A u \in Running' : InCtx(cur'[u])
      BY <1>1, <2>5, <3>1 DEF Inv, LiveInv
    <3> QED
      BY <2>5, <3>1, <3>4, <3>7, <3>8 DEF Inv, LiveInv, covervars, search, InCtx
  <2> QED
    BY <2>5, <2>6, <2>7, <2>8, <2>9 DEF Inv
<1> QED
  BY <1>2, <1>3

LEMMA TryAddOK ==
    ASSUME Inv, UNCHANGED covervars, usage = "pool", TryAdd
    PROVE  Inv' /\ QStep
<1>1. /\ client = "idle" /\ nextJob <= MaxJobs /\ ~IsQueueFull /\ AddInternal(nextJob) /\ nextJob' = nextJob + 1
      /\ UNCHANGED <<limits, numThreadsBusy, cur, client, arg, done>> /\ nextJob \in Nat \ {0}
  BY Constants DEF TryAdd, Inv, JobInv
<1>2. ~shutdown /\ client \in Open
  BY <1>1 DEF Inv, ClientInv, Open, Closing
<1>3. PushesRing(nextJob) /\ SignalPop
  BY <1>1, <1>2 DEF AddInternal, PushesRing
<1>4. Fresh = nextJob /\ Fresh' = nextJob + 1 /\ Pending = {}
  BY <1>1 DEF Fresh, covervars, Pending, Adding
<1>5. JobsOK(Queued, done, cur, Fresh', {nextJob})
  BY <1>1, <1>4, JobsTake DEF Inv, JobInv
<1>6. Accepts(nextJob)
  BY <1>1, <1>2, <1>3, <1>5 DEF Accepts
<1>7. /\ RingInv' /\ ThreadInv' /\ ClientInv' /\ QStep
      /\ JobsOK(Queued', done', cur', Fresh', Pending')
  BY <1>6, AcceptsOK
<1>8. JobInv'
  BY <1>1, <1>7 DEF JobInv
<1>9. SearchInv' /\ LiveInv' /\ BestInv'
  BY <1>1 DEF Inv, SearchInv, LiveInv, BestInv, covervars, search
<1> QED
  BY <1>7, <1>8, <1>9 DEF Inv

LEMMA CallAddOK ==
    ASSUME Inv, UNCHANGED covervars, usage = "pool", CallAdd
    PROVE  Inv' /\ QStep
<1>1. /\ client = "idle" /\ client' = "add" /\ nextJob <= MaxJobs /\ arg' = nextJob /\ nextJob' = nextJob + 1
      /\ UNCHANGED <<ring, limits, numThreadsBusy, thread, cur, done>> /\ nextJob \in Nat \ {0}
  BY Constants DEF CallAdd, Inv, JobInv, pool
<1>2. Fresh = nextJob /\ Fresh' = nextJob + 1 /\ Pending = {} /\ Pending' = {nextJob}
  BY <1>1 DEF Fresh, covervars, Pending, Adding
<1>3. JobsOK(Queued, done, cur, Fresh', {nextJob})
  BY <1>1, <1>2, JobsTake DEF Inv, JobInv
<1>4. Queued' = Queued /\ RingInv'
  BY <1>1 DEF Queued, ring, Inv, RingInv
<1>5. JobInv'
  BY <1>1, <1>2, <1>3, <1>4 DEF JobInv
<1>6. ThreadInv'
  BY <1>1 DEF Inv, ThreadInv, Busy, limits
<1>7. ClientInv'
  BY <1>1 DEF Inv, ClientInv, Open, Closing, ring, limits, Alive
<1>8. SearchInv' /\ LiveInv' /\ BestInv'
  BY <1>1 DEF Inv, SearchInv, LiveInv, BestInv, covervars, search
<1>9. QStep
  BY <1>1, <1>4, QuietQueue DEF Held
<1> QED
  BY <1>4, <1>5, <1>6, <1>7, <1>8, <1>9 DEF Inv
-----------------------------------------------------------------------------
(* The search. *)

LEMMA JobNumbers ==
    ASSUME NEW x \in Nat \ {0}, NEW y \in Nat \ {0}
    PROVE  /\ JobOf(x, y) \in Nat \ {0} /\ JobOf(x, 1) \in Nat \ {0} /\ JobOf(x, 1) <= JobOf(x, y)
           /\ JobOf(x, y + 1) = JobOf(x, y) + 1
           /\ JobOf(x + 1, 1) = JobOf(x, Ks + 1)
           /\ (x - 1) * Ks < JobOf(x, y)
           /\ y <= Ks => JobOf(x, y) <= x * Ks
           /\ x <= Ds /\ y <= Ks => JobOf(x, y) <= MaxJobs
<1>1. PICK z, w : z = (x - 1) * Ks /\ w = x * Ks
  OBVIOUS
<1>2. z \in Nat /\ w = z + Ks /\ Ks \in Nat \ {0}
  <2>1. Ks \in Nat \ {0}
    BY Constants
  <2>2. (x - 1) * Ks = x * Ks - Ks /\ (x - 1) * Ks >= 0 /\ (x - 1) * Ks \in Int /\ x * Ks \in Int
    BY <2>1
  <2> QED
    BY <1>1, <2>1, <2>2
<1>3. JobOf(x, y) = z + y /\ JobOf(x, 1) = z + 1 /\ JobOf(x, y + 1) = z + (y + 1) /\ JobOf(x, Ks + 1) = z + (Ks + 1)
  BY <1>1 DEF JobOf
<1>4. JobOf(x + 1, 1) = w + 1
  <2>1. (x + 1) - 1 = x
    OBVIOUS
  <2> QED
    BY <1>1, <2>1 DEF JobOf
<1>5. x <= Ds => w <= MaxJobs
  <2>1. SUFFICES ASSUME x <= Ds PROVE w <= MaxJobs
    OBVIOUS
  <2>2. x * Ks <= Ds * Ks /\ Ds * Ks \in Int
    BY <2>1, Constants
  <2> QED
    BY <1>1, <1>2, <2>2, Constants
<1> QED
  BY <1>1, <1>2, <1>3, <1>4, <1>5, Constants

LEMMA StillPool ==
    ASSUME Inv, UNCHANGED poolvars
    PROVE  /\ RingInv' /\ ThreadInv' /\ ClientInv' /\ QStep
           /\ Queued' = Queued /\ Pending' = Pending /\ Running' = Running /\ InFlight' = InFlight
           /\ cur' = cur /\ client' = client /\ queueEmpty' = queueEmpty /\ thread' = thread
<1>1. UNCHANGED <<ring, limits, numThreadsBusy, thread, cur, client, arg, done, bounds>>
  BY DEF poolvars, pool
<1>2. Queued' = Queued /\ Pending' = Pending /\ Running' = Running
  BY <1>1 DEF Queued, ring, Pending, Adding, Running
<1>3. RingInv'
  BY <1>1 DEF Inv, RingInv, ring
<1>4. ThreadInv'
  BY <1>1 DEF Inv, ThreadInv, Busy, limits
<1>5. ClientInv'
  BY <1>1 DEF Inv, ClientInv, ring, limits, Alive
<1>6. QStep
  BY <1>1, <1>2, QuietQueue DEF Held
<1> QED
  BY <1>1, <1>2, <1>3, <1>4, <1>5, <1>6 DEF InFlight, ring

LEMMA StillJobs ==
    ASSUME Inv, UNCHANGED poolvars, UNCHANGED usage, usage # "pool", NEW f \in Nat, f = Fresh', f >= Fresh
    PROVE  JobInv'
<1>1. Queued' = Queued /\ Pending' = Pending /\ cur' = cur /\ done' = done /\ nextJob' = nextJob
  BY StillPool DEF poolvars, bounds
<1>2. JobsOK(Queued, done, cur, f, Pending)
  BY JobsLater DEF Inv, JobInv
<1> QED
  BY <1>1, <1>2 DEF Inv, JobInv

LEMMA SearchTypes ==
    ASSUME Inv
    PROVE  /\ k \in Nat \ {0} /\ d \in Nat \ {0} /\ k <= Ks + 1 /\ d <= Ds + 1 /\ Ks \in Nat \ {0} /\ Ds \in Nat \ {0}
           /\ InFlight \in Nat /\ Fresh \in Nat
<1>1. Cardinality(Pending) \in Nat /\ Cardinality(Running) \in Nat /\ Len(Queued) \in Nat
  BY PendingSize, ThreadSets, QueuedSeq DEF Inv
<1>2. Fresh \in Nat
  BY DEF Inv, JobInv, JobsOK
<1> QED
  BY <1>1, <1>2, Constants DEF Inv, SearchInv, InFlight

\* Nothing is in flight when the count is zero.
LEMMA NothingInFlight ==
    ASSUME Inv, InFlight = 0
    PROVE  Len(Queued) = 0 /\ Running = {} /\ Pending = {}
<1>1. Cardinality(Pending) \in Nat /\ Cardinality(Running) \in Nat /\ Len(Queued) \in Nat
  BY PendingSize, ThreadSets, QueuedSeq DEF Inv
<1>2. Cardinality(Pending) = 0 /\ Cardinality(Running) = 0 /\ Len(Queued) = 0
  BY <1>1 DEF InFlight
<1>3. Running = {}
  BY <1>2, ThreadSets, FS_EmptySet
<1>4. Pending = {}
  BY <1>2, PendingSize
<1> QED
  BY <1>2, <1>3, <1>4

\* The steps that change neither best nor d.
LEMMA LiveStill ==
    ASSUME Inv, UNCHANGED poolvars, UNCHANGED <<usage, d, best>>,
           phase \notin {"start", "returned"}, phase' \notin {"start", "returned"},
           phase' \in {"ctxInit", "ctxDestroy", "destroy"} => best.liveJobs = 0,
           phase' = "loop" \/ best.liveJobs > 0 => d \in ctxs'
    PROVE  LiveInv'
<1>1. Queued' = Queued /\ Pending' = Pending /\ Running' = Running /\ InFlight' = InFlight /\ cur' = cur
  BY StillPool
<1> QED
  BY <1>1 DEF Inv, LiveInv, InCtx

LEMMA BestStill ==
    ASSUME Inv, UNCHANGED <<usage, best, least, oom>>, phase # "returned"
    PROVE  BestInv'
BY DEF Inv, BestInv

LEMMA BeginOK ==
    ASSUME Inv, Begin
    PROVE  Inv' /\ QStep
<1>1. /\ phase = "start" /\ phase' = "ctxInit" /\ Idle /\ best' = [best EXCEPT !.live = TRUE]
      /\ UNCHANGED poolvars /\ UNCHANGED <<usage, d, k, result, least, oom, ctxs>>
  BY DEF Begin, Goto
<1>2. /\ RingInv' /\ ThreadInv' /\ ClientInv' /\ QStep
      /\ Queued' = Queued /\ Pending' = Pending /\ Running' = Running /\ InFlight' = InFlight
      /\ cur' = cur /\ client' = client /\ queueEmpty' = queueEmpty /\ thread' = thread
  BY <1>1, StillPool
<1>3. usage # "pool" /\ k = 1
  BY <1>1 DEF Inv, SearchInv
<1>4. JobInv'
  <2>1. Fresh' = Fresh
    BY <1>1, <1>3 DEF Fresh, JobOf
  <2> QED
    BY <1>1, <1>3, <2>1, SearchTypes, StillJobs
<1>5. SearchInv'
  BY <1>1, <1>2, <1>3 DEF Inv, SearchInv, Idle
<1>6. best' \in BestType /\ best'.live = TRUE /\ best'.liveJobs = best.liveJobs /\ best'.room = best.room
      /\ best'.dict = best.dict /\ best'.dictSize = best.dictSize /\ best'.csize = best.csize
  BY <1>1 DEF Inv, BestInv, BestType
<1>7. LiveInv'
  BY <1>1, <1>2, <1>3, <1>6 DEF Inv, LiveInv, InCtx
<1>8. BestInv'
  BY <1>1, <1>3, <1>6 DEF Inv, BestInv, BestType
<1> QED
  BY <1>2, <1>4, <1>5, <1>7, <1>8 DEF Inv

LEMMA NoPoolOK ==
    ASSUME Inv, NoPool
    PROVE  Inv' /\ QStep
<1>1. /\ phase = "start" /\ phase' = "returned" /\ usage = "cover" /\ client = "freed"
      /\ UNCHANGED poolvars /\ UNCHANGED <<usage, d, k, ctxs, best, least, oom>>
  BY DEF NoPool
<1>2. /\ RingInv' /\ ThreadInv' /\ ClientInv' /\ QStep
      /\ Queued' = Queued /\ Pending' = Pending /\ Running' = Running /\ InFlight' = InFlight
      /\ cur' = cur /\ client' = client /\ queueEmpty' = queueEmpty /\ thread' = thread
  BY <1>1, StillPool
<1>4. JobInv'
  <2>1. Fresh' = Fresh
    BY <1>1 DEF Fresh, JobOf
  <2> QED
    BY <1>1, <2>1, SearchTypes, StillJobs
<1>5. SearchInv'
  BY <1>1, <1>2 DEF Inv, SearchInv, Closing
<1>7. LiveInv'
  BY <1>1, <1>2 DEF Inv, LiveInv, InCtx
<1>8. BestInv'
  BY <1>1 DEF Inv, BestInv
<1> QED
  BY <1>2, <1>4, <1>5, <1>7, <1>8 DEF Inv

LEMMA CtxInitOK ==
    ASSUME Inv, CtxInit
    PROVE  Inv' /\ QStep
<1>1. /\ phase = "ctxInit" /\ phase' = "loop" /\ d <= Ds /\ k' = 1 /\ ctxs' = ctxs \cup {d}
      /\ UNCHANGED poolvars /\ UNCHANGED <<usage, d, result, best, least, oom>>
  BY DEF CtxInit
<1>2. /\ RingInv' /\ ThreadInv' /\ ClientInv' /\ QStep
      /\ Queued' = Queued /\ Pending' = Pending /\ Running' = Running /\ InFlight' = InFlight
      /\ cur' = cur /\ client' = client /\ queueEmpty' = queueEmpty /\ thread' = thread
  BY <1>1, StillPool
<1>3. usage # "pool"
  BY <1>1 DEF Inv, SearchInv
<1>4. JobInv'
  <2>1. Fresh' = Fresh
    BY <1>1, <1>3 DEF Fresh, JobOf
  <2> QED
    BY <1>1, <1>3, <2>1, SearchTypes, StillJobs
<1>5. SearchInv'
  <2>1. k' \in 1 .. Ks + 1
    BY <1>1, SearchTypes
  <2> QED
    BY <1>1, <1>2, <2>1 DEF Inv, SearchInv
<1>7. LiveInv'
  BY <1>1, LiveStill
<1>8. BestInv'
  BY <1>1, BestStill
<1> QED
  BY <1>2, <1>4, <1>5, <1>7, <1>8 DEF Inv
LEMMA GiveUpOK ==
    ASSUME Inv, GiveUp
    PROVE  Inv' /\ QStep
<1>1. /\ phase = "ctxInit" \/ (phase = "loop" /\ Idle) 
      /\ phase' = "wait" /\ result' = ErrOther + MaxJobs
      /\ UNCHANGED poolvars /\ UNCHANGED <<usage, d, k, ctxs, best, least, oom>>
  BY DEF GiveUp
<1>2. /\ RingInv' /\ ThreadInv' /\ ClientInv' /\ QStep
      /\ Queued' = Queued /\ Pending' = Pending /\ Running' = Running /\ InFlight' = InFlight
      /\ cur' = cur /\ client' = client /\ queueEmpty' = queueEmpty /\ thread' = thread
  BY <1>1, StillPool
<1>3. usage # "pool"
  BY <1>1 DEF Inv, SearchInv
<1>4. JobInv'
  <2>1. Fresh' = JobOf(d, k) /\ (Fresh = JobOf(d, 1) \/ Fresh = JobOf(d, k))
    BY <1>1, <1>3 DEF Fresh, JobOf
  <2>2. JobOf(d, k) \in Nat /\ JobOf(d, 1) <= JobOf(d, k) /\ JobOf(d, 1) \in Nat
    BY SearchTypes, JobNumbers
  <2>3. PICK f \in Nat : f = Fresh'
    BY <2>1, <2>2
  <2> QED
    BY <1>1, <1>3, <2>1, <2>2, <2>3, StillJobs
<1>5. SearchInv'
  <2>1. result' # None
    BY <1>1, Constants DEF ErrOther, None
  <2> QED
    BY <1>1, <1>2, <2>1 DEF Inv, SearchInv, Idle
<1>6. best.liveJobs > 0 => d \in ctxs'
  BY <1>1, <1>3 DEF Inv, LiveInv
<1>7. LiveInv'
  BY <1>1, <1>6, LiveStill
<1>8. BestInv'
  BY <1>1, BestStill
<1> QED
  BY <1>2, <1>4, <1>5, <1>7, <1>8 DEF Inv

LEMMA SkipKOK ==
    ASSUME Inv, SkipK
    PROVE  Inv' /\ QStep
<1>1. /\ phase = "loop" /\ k <= Ks /\ Idle /\ phase' = "loop" /\ k' = k + 1
      /\ UNCHANGED poolvars /\ UNCHANGED <<usage, d, ctxs, result, best, least, oom>>
  BY DEF SkipK
<1>2. /\ RingInv' /\ ThreadInv' /\ ClientInv' /\ QStep
      /\ Queued' = Queued /\ Pending' = Pending /\ Running' = Running /\ InFlight' = InFlight
      /\ cur' = cur /\ client' = client /\ queueEmpty' = queueEmpty /\ thread' = thread
  BY <1>1, StillPool
<1>3. usage # "pool"
  BY <1>1 DEF Inv, SearchInv
<1>4. JobInv'
  <2>1. Fresh' = JobOf(d, k + 1) /\ Fresh = JobOf(d, k)
    BY <1>1, <1>3 DEF Fresh, JobOf
  <2>2. JobOf(d, k) \in Nat /\ JobOf(d, k + 1) = JobOf(d, k) + 1
    BY SearchTypes, JobNumbers
  <2>3. PICK f \in Nat : f = Fresh'
    BY <2>1, <2>2
  <2> QED
    BY <1>1, <1>3, <2>1, <2>2, <2>3, StillJobs
<1>5. SearchInv'
  <2>1. k' \in 1 .. Ks + 1
    BY <1>1, SearchTypes
  <2> QED
    BY <1>1, <1>2, <2>1 DEF Inv, SearchInv
<1>6. d \in ctxs
  BY <1>1, <1>3 DEF Inv, LiveInv
<1>7. LiveInv'
  BY <1>1, <1>6, LiveStill
<1>8. BestInv'
  BY <1>1, BestStill
<1> QED
  BY <1>2, <1>4, <1>5, <1>7, <1>8 DEF Inv

LEMMA LaunchOK ==
    ASSUME Inv, Launch
    PROVE  Inv' /\ QStep
<1>1. /\ phase = "loop" /\ phase' = "loop" /\ k <= Ks /\ client = "idle" /\ usage = "cover"
      /\ best' = [best EXCEPT !.liveJobs = @ + 1] /\ k' = k + 1
      /\ client' = "add" /\ arg' = JobOf(d, k)
      /\ UNCHANGED <<ring, limits, numThreadsBusy, thread, cur, done, bounds>>
      /\ UNCHANGED <<usage, d, ctxs, result, least, oom>>
  BY DEF Launch, pool
<1>2. Queued' = Queued /\ Running' = Running /\ RingInv'
  BY <1>1 DEF Queued, ring, Running, Inv, RingInv
<1>3. Pending = {} /\ Pending' = {arg'}
  BY <1>1 DEF Pending, Adding
<1>4. /\ JobOf(d, k) \in Nat \ {0} /\ JobOf(d, k + 1) = JobOf(d, k) + 1
      /\ (d - 1) * Ks < JobOf(d, k) /\ JobOf(d, k) <= d * Ks /\ JobOf(d, k) <= MaxJobs
  BY <1>1, SearchTypes, JobNumbers DEF Inv, SearchInv
<1>5. JobInv'
  <2>1. PICK f : f = JobOf(d, k)
    OBVIOUS
  <2>2. Fresh' = JobOf(d, k + 1) /\ Fresh = f
    BY <1>1, <2>1 DEF Fresh, JobOf
  <2>3. Fresh' = f + 1
    BY <1>4, <2>1, <2>2
  <2>4. JobsOK(Queued, done, cur, f, {})
    BY <1>3, <2>2 DEF Inv, JobInv
  <2>5. JobsOK(Queued, done, cur, f + 1, {f})
    BY <1>4, <2>1, <2>4, JobsTake
  <2> QED
    BY <1>1, <1>2, <1>3, <2>1, <2>3, <2>5 DEF Inv, JobInv, bounds
<1>6. ThreadInv'
  BY <1>1 DEF Inv, ThreadInv, Busy, limits
<1>7. ClientInv'
  BY <1>1 DEF Inv, ClientInv, Open, Closing, ring, limits, Alive
<1>8. SearchInv'
  <2>1. k' \in 1 .. Ks + 1
    BY <1>1, SearchTypes
  <2> QED
    BY <1>1, <2>1 DEF Inv, SearchInv
<1>9. best' \in BestType /\ best'.live = best.live /\ best'.liveJobs = best.liveJobs + 1 /\ best'.room = best.room
      /\ best'.dict = best.dict /\ best'.dictSize = best.dictSize /\ best'.csize = best.csize
  BY <1>1 DEF Inv, BestInv, BestType
<1>10. InFlight' = InFlight + 1
  <2>1. Cardinality(Pending) = 0 /\ Cardinality(Pending') = 1
    BY <1>3, FS_Singleton, FS_EmptySet
  <2>2. Len(Queued) \in Nat
    BY QueuedSeq DEF Inv
  <2> QED
    BY <1>2, <2>1, <2>2, ThreadSets DEF InFlight
<1>11. LiveInv'
  <2>1. \A job \in Pending' : InCtx(job)
    BY <1>1, <1>3, <1>4 DEF InCtx
  <2> QED
    BY <1>1, <1>2, <1>9, <1>10, <2>1 DEF Inv, LiveInv, InCtx
<1>12. BestInv'
  BY <1>1, <1>9 DEF Inv, BestInv, BestType
<1>13. QStep
  BY <1>1, <1>2, QuietQueue DEF Held
<1> QED
  BY <1>2, <1>5, <1>6, <1>7, <1>8, <1>11, <1>12, <1>13 DEF Inv

LEMMA RunInlineOK ==
    ASSUME Inv, RunInline
    PROVE  Inv' /\ QStep
<1>1. /\ phase = "loop" /\ k <= Ks /\ usage = "inline" /\ phase' = "loop" /\ k' = k + 1
      /\ UNCHANGED poolvars /\ UNCHANGED <<usage, d, ctxs, result>>
  BY DEF RunInline
<1>2. /\ RingInv' /\ ThreadInv' /\ ClientInv' /\ QStep
      /\ Queued' = Queued /\ Pending' = Pending /\ Running' = Running /\ InFlight' = InFlight
      /\ cur' = cur /\ client' = client /\ queueEmpty' = queueEmpty /\ thread' = thread
  BY <1>1, StillPool
<1>3. JobInv'
  <2>1. Fresh' = JobOf(d, k + 1) /\ Fresh = JobOf(d, k)
    BY <1>1 DEF Fresh, JobOf
  <2>2. JobOf(d, k) \in Nat /\ JobOf(d, k + 1) = JobOf(d, k) + 1
    BY SearchTypes, JobNumbers
  <2>3. PICK f \in Nat : f = Fresh'
    BY <2>1, <2>2
  <2> QED
    BY <1>1, <2>1, <2>2, <2>3, StillJobs
<1>4. SearchInv'
  <2>1. k' \in 1 .. Ks + 1
    BY <1>1, SearchTypes
  <2> QED
    BY <1>1, <1>2, <2>1 DEF Inv, SearchInv
<1>5. PICK sel \in TryParameters(JobOf(d, k)), alloc \in BOOLEAN, fl \in BOOLEAN :
        /\ fl <=> sel.csize < best.csize /\ NeedsBuffer(sel) /\ ~alloc
        /\ best' = [Finished(sel, alloc) EXCEPT !.liveJobs = @ + 1] /\ oom' = (oom \/ fl)
        /\ least' = (IF sel.dict = None THEN least ELSE Min({least, sel.csize}))
  <2>1. PICK sel \in TryParameters(JobOf(d, k)), alloc \in BOOLEAN :
          /\ best' = [Finished(sel, alloc) EXCEPT !.liveJobs = @ + 1]
          /\ oom' = (oom \/ (sel.csize < best.csize /\ NeedsBuffer(sel) /\ ~alloc))
          /\ least' = IF sel.dict = None THEN least ELSE Min({least, sel.csize})
    BY DEF RunInline
  <2>2. PICK fl \in BOOLEAN : fl = (sel.csize < best.csize /\ NeedsBuffer(sel) /\ ~alloc)
    OBVIOUS
  <2> QED
    BY <2>1, <2>2
<1>6. best \in BestType /\ least \in Int /\ oom \in BOOLEAN /\ Kept(best, least, oom)
  BY <1>1 DEF Inv, BestInv, Kept, BestType
<1>7. PICK job \in Jobs : job = JobOf(d, k)
  BY <1>1, SearchTypes, JobNumbers, Constants DEF Inv, SearchInv, Jobs
<1>8. PICK b, l, o : b = Finished(sel, alloc) /\ l = least' /\ o = oom'
  OBVIOUS
<1>9. /\ Kept(b, l, o) /\ b \in BestType /\ l \in Int /\ o \in BOOLEAN
      /\ b.liveJobs = best.liveJobs - 1 /\ b.live = best.live
  BY <1>5, <1>6, <1>7, <1>8, FinishedOK, ZenonT(60)
<1>10. /\ best' \in BestType /\ best'.live = b.live /\ best'.liveJobs = b.liveJobs + 1 /\ best'.room = b.room
       /\ best'.dict = b.dict /\ best'.dictSize = b.dictSize /\ best'.csize = b.csize
  BY <1>5, <1>8, <1>9 DEF BestType
<1>11. best'.live = best.live /\ best'.liveJobs = best.liveJobs
  BY <1>6, <1>9, <1>10 DEF BestType
<1>12. LiveInv'
  BY <1>1, <1>2, <1>11 DEF Inv, LiveInv, InCtx
<1>13. BestInv'
  BY <1>1, <1>8, <1>9, <1>10 DEF BestInv, Kept, BestType
<1> QED
  BY <1>2, <1>3, <1>4, <1>12, <1>13 DEF Inv

LEMMA EndOfLoopOK ==
    ASSUME Inv, EndOfLoop
    PROVE  Inv' /\ QStep
<1>1. /\ phase = "loop" /\ k > Ks /\ Idle /\ phase' = "wait"
      /\ UNCHANGED poolvars /\ UNCHANGED <<usage, d, k, ctxs, result, best, least, oom>>
  BY DEF EndOfLoop, Goto
<1>2. /\ RingInv' /\ ThreadInv' /\ ClientInv' /\ QStep
      /\ Queued' = Queued /\ Pending' = Pending /\ Running' = Running /\ InFlight' = InFlight
      /\ cur' = cur /\ client' = client /\ queueEmpty' = queueEmpty /\ thread' = thread
  BY <1>1, StillPool
<1>3. usage # "pool"
  BY <1>1 DEF Inv, SearchInv
<1>4. JobInv'
  <2>1. Fresh' = Fresh
    BY <1>1, <1>3 DEF Fresh, JobOf
  <2> QED
    BY <1>1, <1>3, <2>1, SearchTypes, StillJobs
<1>5. SearchInv'
  <2>1. k = Ks + 1
    BY <1>1, SearchTypes
  <2> QED
    BY <1>1, <1>2, <2>1 DEF Inv, SearchInv, Idle
<1>6. d \in ctxs
  BY <1>1, <1>3 DEF Inv, LiveInv
<1>7. LiveInv'
  BY <1>1, <1>6, LiveStill
<1>8. BestInv'
  BY <1>1, BestStill
<1> QED
  BY <1>2, <1>4, <1>5, <1>7, <1>8 DEF Inv

LEMMA BestWaitOK ==
    ASSUME Inv, BestWait
    PROVE  Inv' /\ QStep
<1>1. /\ phase = "wait"
      /\ phase' = (IF ~WaitOver THEN "sleep" ELSE IF result = None THEN "ctxDestroy" ELSE "destroy")
      /\ UNCHANGED poolvars /\ UNCHANGED <<usage, d, k, ctxs, result, best, least, oom>>
  BY DEF BestWait, Goto
<1>2. /\ RingInv' /\ ThreadInv' /\ ClientInv' /\ QStep
      /\ Queued' = Queued /\ Pending' = Pending /\ Running' = Running /\ InFlight' = InFlight
      /\ cur' = cur /\ client' = client /\ queueEmpty' = queueEmpty /\ thread' = thread
  BY <1>1, StillPool
<1>3. usage # "pool"
  BY <1>1 DEF Inv, SearchInv
<1>4. JobInv'
  <2>1. Fresh' = Fresh
    BY <1>1, <1>3 DEF Fresh, JobOf
  <2> QED
    BY <1>1, <1>3, <2>1, SearchTypes, StillJobs
<1>5. SearchInv'
  BY <1>1, <1>2 DEF Inv, SearchInv
<1>6. best.liveJobs > 0 => d \in ctxs
  BY <1>1, <1>3 DEF Inv, LiveInv
<1>7. LiveInv'
  BY <1>1, <1>6, LiveStill DEF WaitOver
<1>8. BestInv'
  BY <1>1, BestStill
<1> QED
  BY <1>2, <1>4, <1>5, <1>7, <1>8 DEF Inv
\* The context goes when nothing is in flight any more.
LEMMA NextDOK ==
    ASSUME Inv, NextD
    PROVE  Inv' /\ QStep
<1>1. /\ phase = "ctxDestroy" /\ phase' = "ctxInit" /\ ctxs' = {} /\ d' = d + 1
      /\ UNCHANGED poolvars /\ UNCHANGED <<usage, k, result, best, least, oom>>
  BY DEF NextD
<1>2. /\ RingInv' /\ ThreadInv' /\ ClientInv' /\ QStep
      /\ Queued' = Queued /\ Pending' = Pending /\ Running' = Running /\ InFlight' = InFlight
      /\ cur' = cur /\ client' = client /\ queueEmpty' = queueEmpty /\ thread' = thread
  BY <1>1, StillPool
<1>3. usage # "pool" /\ k = Ks + 1 /\ d <= Ds
  BY <1>1 DEF Inv, SearchInv
<1>4. JobInv'
  <2>1. Fresh' = JobOf(d + 1, 1) /\ Fresh = JobOf(d, Ks + 1)
    BY <1>1, <1>3 DEF Fresh, JobOf
  <2>2. JobOf(d + 1, 1) = JobOf(d, Ks + 1)
    BY SearchTypes, JobNumbers
  <2>3. Fresh' = Fresh
    BY <2>1, <2>2
  <2> QED
    BY <1>1, <1>3, <2>3, SearchTypes, StillJobs
<1>5. SearchInv'
  <2>1. d' \in 1 .. Ds + 1
    BY <1>1, <1>3, SearchTypes
  <2> QED
    BY <1>1, <1>2, <2>1 DEF Inv, SearchInv
<1>6. best.liveJobs = 0 /\ InFlight = 0 /\ best.live
  BY <1>1, <1>3 DEF Inv, LiveInv
<1>7. Len(Queued) = 0 /\ Running = {} /\ Pending = {}
  BY <1>6, NothingInFlight
<1>8. LiveInv'
  BY <1>1, <1>2, <1>6, <1>7 DEF LiveInv
<1>9. BestInv'
  BY <1>1, BestStill
<1> QED
  BY <1>2, <1>4, <1>5, <1>8, <1>9 DEF Inv

LEMMA ResultOK ==
    ASSUME Inv, Result
    PROVE  Inv' /\ QStep
<1>1. /\ phase = "ctxInit" /\ phase' = "wait" 
      /\ result' = (IF IsError(best.csize) THEN best.csize + MaxJobs ELSE best.dict)
      /\ UNCHANGED poolvars /\ UNCHANGED <<usage, d, k, ctxs, best, least, oom>>
  BY DEF Result
<1>2. /\ RingInv' /\ ThreadInv' /\ ClientInv' /\ QStep
      /\ Queued' = Queued /\ Pending' = Pending /\ Running' = Running /\ InFlight' = InFlight
      /\ cur' = cur /\ client' = client /\ queueEmpty' = queueEmpty /\ thread' = thread
  BY <1>1, StillPool
<1>3. usage # "pool"
  BY <1>1 DEF Inv, SearchInv
<1>4. JobInv'
  <2>1. Fresh' = JobOf(d, k) /\ Fresh = JobOf(d, 1)
    BY <1>1, <1>3 DEF Fresh, JobOf
  <2>2. JobOf(d, k) \in Nat /\ JobOf(d, 1) <= JobOf(d, k)
    BY SearchTypes, JobNumbers
  <2>3. PICK f \in Nat : f = Fresh'
    BY <2>1, <2>2
  <2> QED
    BY <1>1, <1>3, <2>1, <2>2, <2>3, StillJobs
<1>5. result' # None
  <2>1. CASE IsError(best.csize)
    <3>1. best.csize \in Int /\ best.csize >= 8
      BY <2>1 DEF Inv, BestInv, IsError, ErrOther
    <3> QED
      BY <1>1, <2>1, <3>1, Constants DEF None
  <2>2. CASE ~IsError(best.csize)
    BY <1>1, <2>2 DEF Inv, BestInv
  <2> QED
    BY <2>1, <2>2
<1>6. SearchInv'
  BY <1>1, <1>2, <1>5 DEF Inv, SearchInv
<1>7. best.liveJobs > 0 => d \in ctxs
  BY <1>1, <1>3 DEF Inv, LiveInv
<1>8. LiveInv'
  BY <1>1, <1>7, LiveStill
<1>9. BestInv'
  BY <1>1, BestStill
<1> QED
  BY <1>2, <1>4, <1>6, <1>8, <1>9 DEF Inv

LEMMA DestroyOK ==
    ASSUME Inv, Destroy
    PROVE  Inv' /\ QStep
<1>1. /\ phase = "destroy" /\ phase' = "returned" /\ ctxs' = {}
      /\ best' = [best EXCEPT !.live = FALSE, !.dict = None, !.room = -1]
      /\ client' = (IF usage = "cover" THEN "free" ELSE client)
      /\ UNCHANGED <<ring, limits, numThreadsBusy, thread, cur, arg, done, bounds>>
      /\ UNCHANGED <<usage, d, k, result, least, oom>>
  BY DEF Destroy, pool
<1>2. usage # "pool" /\ (usage = "cover" => client = "idle") /\ (usage = "inline" => client = "create")
  BY <1>1 DEF Inv, SearchInv
<1>3. Queued' = Queued /\ Running' = Running /\ RingInv'
  BY <1>1 DEF Queued, ring, Running, Inv, RingInv
<1>4. Pending = {} /\ Pending' = {}
  BY <1>1, <1>2 DEF Pending, Adding, Inv, SearchInv
<1>5. JobInv'
  <2>1. Fresh' = Fresh
    BY <1>1, <1>2 DEF Fresh, JobOf
  <2> QED
    BY <1>1, <1>3, <1>4, <2>1 DEF Inv, JobInv, bounds
<1>6. ThreadInv'
  BY <1>1 DEF Inv, ThreadInv, Busy, limits
<1>7. ClientInv'
  <2>1. CASE usage = "cover"
    BY <1>1, <1>2, <2>1 DEF Inv, ClientInv, Open, Closing, ring, limits, Alive
  <2>2. CASE usage # "cover"
    BY <1>1, <1>2, <2>2 DEF Inv, ClientInv, Open, Closing, ring, limits, Alive
  <2> QED
    BY <2>1, <2>2
<1>8. SearchInv'
  BY <1>1, <1>2 DEF Inv, SearchInv, ring
<1>9. best' = [live |-> FALSE, liveJobs |-> best.liveJobs, dict |-> 0, room |-> -1,
               dictSize |-> best.dictSize, csize |-> best.csize]
  BY <1>1 DEF Inv, BestInv, None
<1>10. best.liveJobs = 0 /\ InFlight = 0
  BY <1>1, <1>2 DEF Inv, LiveInv
<1>11. Len(Queued) = 0 /\ Running = {}
  BY <1>10, NothingInFlight
<1>12. LiveInv'
  <2>1. InFlight' = 0
    BY <1>3, <1>4, <1>10 DEF InFlight
  <2> QED
    BY <1>1, <1>3, <1>4, <1>9, <1>10, <1>11, <2>1 DEF LiveInv
<1>13. BestInv'
  <2>1. best.liveJobs \in Int /\ best.dictSize \in Nat /\ best.csize \in Int
    BY DEF Inv, BestInv
  <2>2. best' \in BestType /\ ~best'.live
    BY <1>9, <2>1 DEF BestType
  <2> QED
    BY <1>1, <2>2 DEF Inv, BestInv, BestType
<1>14. QStep
  BY <1>1, <1>2, <1>3, QuietQueue DEF Held
<1> QED
  BY <1>3, <1>5, <1>6, <1>7, <1>8, <1>12, <1>13, <1>14 DEF Inv
-----------------------------------------------------------------------------
(* The theorems. *)

LEMMA InitOK ==
    ASSUME Init
    PROVE  Inv /\ Q!QInit
<1>1. /\ queueSize \in 1 .. (MaxQueue + 1) /\ queue = [i \in 0 .. (queueSize - 1) |-> None]
      /\ queueHead = 0 /\ queueTail = 0 /\ queueEmpty = TRUE
      /\ numThreadsBusy = 0 /\ threadLimit = 0 /\ threadCapacity = 0 /\ shutdown = FALSE
      /\ thread = [t \in Threads |-> "none"] /\ cur = [t \in Threads |-> None]
      /\ client = "create" /\ arg \in Threads
      /\ done = {} /\ nextJob = 1
  BY DEF Init, PoolInit
<1>2. /\ usage \in {"pool", "cover", "inline"}
      /\ phase = (IF usage = "pool" THEN "off" ELSE "start")
      /\ d = 1 /\ k = 1 /\ ctxs = {} /\ result = None
      /\ best = [live |-> FALSE, liveJobs |-> 0, dict |-> None, room |-> -1, dictSize |-> 0, csize |-> ErrGeneric]
      /\ least = ErrGeneric /\ oom = FALSE
  BY DEF Init
<1>3. RingInv
  BY <1>1, Constants DEF RingInv, None
<1>4. Queued = << >> /\ Len(Queued) = 0
  <2>1. Queued \in Seq(Nat) /\ Len(Queued) = 0
    BY <1>1, <1>3, QueuedSeq
  <2> QED
    BY <2>1, EmptySeq
<1>5. Running = {} /\ Busy = {} /\ Pending = {}
  BY <1>1 DEF Running, Busy, Pending, Adding
<1>6. Cardinality(Running) = 0 /\ Cardinality(Busy) = 0 /\ Cardinality(Pending) = 0
  BY <1>5, FS_EmptySet
<1>7. ThreadInv
  <2>1. thread \in [Threads -> {"none", "ready", "wait", "running", "ran", "exited"}] /\ cur \in [Threads -> Nat]
    BY <1>1 DEF None
  <2>2. \A t \in Threads : thread[t] = "none" /\ cur[t] = None
    BY <1>1
  <2>3. threadCapacity \in 0 .. MaxThreads /\ threadLimit \in Nat
    BY <1>1, Constants
  <2> QED
    BY <1>1, <1>6, <2>1, <2>2, <2>3 DEF ThreadInv
<1>8. ClientInv
  <2>1. 0 \in 0 .. arg /\ \A t \in Threads : t <= 0 <=> thread[t] # "none"
    BY <1>1, Constants DEF Threads
  <2> QED
    BY <1>1, <2>1 DEF ClientInv, Open, Closing
<1>9. Fresh = 1
  <2>1. JobOf(1, 1) = 1
    BY Constants DEF JobOf
  <2> QED
    BY <1>1, <1>2, <2>1 DEF Fresh
<1>10. JobInv
  <2>1. JobsOK(<< >>, {}, cur, 1, {})
    BY <1>1 DEF JobsOK, None
  <2> QED
    BY <1>1, <1>4, <1>5, <1>9, <2>1 DEF JobInv
<1>11. SearchInv
  BY <1>1, <1>2, Constants DEF SearchInv
<1>12. LiveInv
  BY <1>2, <1>4, <1>5, <1>6 DEF LiveInv, InFlight
<1>13. BestInv
  <2>1. best = [live |-> FALSE, liveJobs |-> 0, dict |-> 0, room |-> -1, dictSize |-> 0, csize |-> 9] /\ least = 9
    BY <1>2 DEF ErrGeneric, None
  <2>2. best \in BestType
    BY <2>1 DEF BestType
  <2>3. best.live = FALSE /\ best.room = -1 /\ best.dictSize = 0 /\ best.csize = 9
    BY <2>1
  <2>4. IsError(best.csize) /\ ErrGeneric = 9 /\ oom = FALSE
    BY <1>2, <2>3 DEF IsError, ErrOther, ErrGeneric
  <2>5. least = 9
    BY <2>1
  <2> QED
    BY <2>2, <2>3, <2>4, <2>5 DEF BestInv, BestType
<1>14. Q!QInit
  BY <1>1, <1>4 DEF Q!QInit
<1> QED
  BY <1>3, <1>7, <1>8, <1>10, <1>11, <1>12, <1>13, <1>14 DEF Inv

LEMMA StepOK ==
    ASSUME Inv, [Next]_vars
    PROVE  Inv' /\ QStep
<1>1. CASE Next
  <2>1. ASSUME NEW t \in Threads, PoolStep(ThreadStep(t)) PROVE Inv' /\ QStep
    BY <2>1, WaitsOK, ExitsOK, PopsOK, FinishesOK DEF PoolStep, ThreadStep
  <2>2. ASSUME NEW t \in Threads, usage = "pool", PoolStep(ThreadRuns(t)) PROVE Inv' /\ QStep
    BY <2>2, PoolRunsOK DEF PoolStep
  <2>3. ASSUME NEW t \in Threads, RunJob(t) PROVE Inv' /\ QStep
    BY <2>3, RunJobOK
  <2>4. CASE PoolStep(ClientStep \/ CreateFails)
    <3>1. UNCHANGED covervars /\ usage # "inline" /\ (ClientStep \/ CreateFails)
      BY <2>4 DEF PoolStep
    <3> QED
      BY <3>1, CreateThreadOK, CreateEndsOK, CreateFailsOK, AddOK, JoinJobsOK, ShutdownOK, WakeAllOK, JoinAllOK
      DEF ClientStep
  <2>5. CASE usage = "pool" /\ PoolStep(ClientCalls)
    <3>1. UNCHANGED covervars /\ usage = "pool" /\ ClientCalls /\ usage # "inline"
      BY <2>5 DEF PoolStep
    <3> QED
      BY <3>1, CallAddOK, TryAddOK, JoinJobsOK, ResizeOK DEF ClientCalls
  <2>6. CASE Search
    BY <2>6, BeginOK, NoPoolOK, CtxInitOK, GiveUpOK, SkipKOK, LaunchOK, RunInlineOK, EndOfLoopOK,
       BestWaitOK, NextDOK, ResultOK, DestroyOK DEF Search
  <2> QED
    BY <1>1, <2>1, <2>2, <2>3, <2>4, <2>5, <2>6 DEF Next
<1>2. CASE UNCHANGED vars
  <2>1. UNCHANGED poolvars /\ UNCHANGED <<usage, phase, d, k, ctxs, result, best, least, oom>>
    BY <1>2 DEF vars, covervars, search
  <2>2. /\ RingInv' /\ ThreadInv' /\ ClientInv' /\ QStep
        /\ Queued' = Queued /\ Pending' = Pending /\ Running' = Running /\ InFlight' = InFlight
        /\ cur' = cur /\ client' = client /\ queueEmpty' = queueEmpty /\ thread' = thread
    BY <2>1, StillPool
  <2>3. Fresh' = Fresh /\ done' = done /\ nextJob' = nextJob
    BY <2>1 DEF Fresh, JobOf, poolvars, bounds
  <2>4. JobInv'
    BY <2>2, <2>3 DEF Inv, JobInv
  <2>5. SearchInv'
    BY <2>1, <2>2 DEF Inv, SearchInv
  <2>6. LiveInv' /\ BestInv'
    BY <2>1, <2>2 DEF Inv, LiveInv, BestInv, InCtx
  <2> QED
    BY <2>2, <2>4, <2>5, <2>6 DEF Inv
<1> QED
  BY <1>1, <1>2

\* The inductive invariant of the pool, its client and the search (pool.c:67, cover.c:1163).
THEOREM CoverInvariant == Spec => []Inv
<1>1. Init => Inv
  BY InitOK
<1>2. Inv /\ [Next]_vars => Inv'
  BY StepOK
<1> QED
  BY <1>1, <1>2, PTL DEF Spec

\* The thread pool of pool.c, whatever the number of threads, the size of the ring and the
\* jobs, behaves as a queue: a job starts once and in order, and POOL_free leaves none behind.
THEOREM PoolIsAQueue == Spec => ImplementsJobQueue
<1>1. Init => Q!QInit
  BY InitOK
<1>2. Inv /\ [Next]_vars => [Q!QNext]_(Q!qvars)
  BY StepOK DEF QStep
<1> QED
  BY <1>1, <1>2, CoverInvariant, PTL DEF Spec, ImplementsJobQueue, Q!QSpec

\* No job, queued or running, is without its context and its COVER_best_t (cover.c:1250).
THEOREM JobsHaveContext == Spec => []ContextOutlivesJobs
<1>1. Inv => ContextOutlivesJobs
  <2>1. SUFFICES ASSUME Inv, usage = "cover",
                        NEW job \in {cur[t] : t \in {t \in Threads : thread[t] = "running"}} \cup {Queued[i] : i \in DOMAIN Queued}
                 PROVE  CtxOf(job) \in ctxs /\ best.live
    BY DEF ContextOutlivesJobs
  <2>2. Queued \in Seq(Nat) /\ Len(Queued) \in Nat
    BY <2>1, QueuedSeq DEF Inv
  <2>3. Cardinality(Pending) \in Nat /\ Cardinality(Running) \in Nat
    BY PendingSize, ThreadSets
  <2>4. InCtx(job) /\ job \in Nat /\ InFlight > 0
    <3>1. CASE job \in {cur[t] : t \in {t \in Threads : thread[t] = "running"}}
      <4>1. PICK t \in Threads : thread[t] = "running" /\ job = cur[t]
        BY <3>1
      <4>2. t \in Running
        BY <4>1 DEF Running
      <4>3. Cardinality(Running) # 0
        BY <4>2, ThreadSets, FS_EmptySet
      <4> QED
        BY <2>1, <2>2, <2>3, <4>1, <4>2, <4>3 DEF Inv, LiveInv, InFlight, ThreadInv
    <3>2. CASE job \in {Queued[i] : i \in DOMAIN Queued}
      <4>1. PICK i \in 1 .. Len(Queued) : job = Queued[i]
        BY <2>2, <3>2
      <4>2. Len(Queued) > 0
        BY <2>2, <4>1
      <4> QED
        BY <2>1, <2>2, <2>3, <4>1, <4>2 DEF Inv, LiveInv, InFlight
    <3> QED
      BY <2>1, <3>1, <3>2
  <2>5. d \in ctxs /\ best.live
    BY <2>1, <2>4, SearchTypes DEF Inv, LiveInv
  <2>6. CtxOf(job) = d
    <3>1. PICK x, y : x = (job - 1) \div Ks /\ y = (job - 1) % Ks
      OBVIOUS
    <3>2. d \in Nat \ {0} /\ Ks \in Nat \ {0}
      BY <2>1, SearchTypes
    <3>3. x \in Int /\ y \in 0 .. Ks - 1 /\ job - 1 = Ks * x + y
      BY <2>4, <3>1, <3>2
    <3>4. x = d - 1
      <4>1. CASE x >= d
        <5>1. Ks * x >= Ks * d
          BY <3>2, <3>3, <4>1
        <5> QED
          BY <2>4, <3>2, <3>3, <5>1 DEF InCtx
      <4>2. CASE x <= d - 2
        <5>1. Ks * x <= Ks * (d - 2)
          BY <3>2, <3>3, <4>2
        <5>2. Ks * (d - 2) = (d - 1) * Ks - Ks
          BY <3>2
        <5> QED
          BY <2>4, <3>2, <3>3, <5>1, <5>2 DEF InCtx
      <4> QED
        BY <3>2, <3>3, <4>1, <4>2
    <3> QED
      BY <3>1, <3>2, <3>4 DEF CtxOf
  <2> QED
    BY <2>5, <2>6
<1> QED
  BY <1>1, CoverInvariant, PTL

\* COVER_best_finish leaves the best of all selections, in whatever order the jobs end.
THEOREM BestKept == Spec => []BestIsBest
<1>1. Inv => BestIsBest
  BY DEF Inv, BestInv, LiveInv, BestIsBest
<1> QED
  BY <1>1, CoverInvariant, PTL
=============================================================================
