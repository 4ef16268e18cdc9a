----------------------------- MODULE MTCompress -----------------------------
(***************************************************************************)
(* Multi-threaded compression, compress/zstdmt_compress.c, called through  *)
(* ZSTD_compressStream2: the calling thread cuts the input into jobs,      *)
(* which live in a table of slots and read a shared round buffer; the      *)
(* workers compress them in parallel, except for a serial part that takes  *)
(* them in order; the caller flushes what they produce, in order.          *)
(*                                                                         *)
(* The input is counted in chunks (4 * ZSTD_BLOCKSIZE_MAX): the stream is  *)
(* 1, 2, 3, ... and the round buffer maps addresses to such positions.  A  *)
(* job's output is a sequence of tokens: Hdr, the positions it read, 0 for *)
(* data compressed against a history that was not there, End and Sum(n),   *)
(* the checksum of the first n positions.                                  *)
(*                                                                         *)
(* A section under one mutex is a step.  A worker reads the input in the   *)
(* step that reports it as consumed: the last moment it may read it.       *)
(***************************************************************************)
EXTENDS Integers, Sequences, FiniteSets, FiniteSetsExt

CONSTANT Configs
    \* Each one: the parameters of a compression.  nbWorkers, section (targetSectionSize),
    \* overlap (targetPrefixSize), window (0 without LDM), checksum, rsyncable; and bounds:
    \* lengths (of the streams, one per frame), faults, abandon (how often a frame may be given up),
    \* ops (the directives the application uses; without flush it offers all its input in every
    \* call, at first without room for output),
    \* staleReady (a frame may begin after one that was given up while a job was ready).

ASSUME ConfigsAssumption ==
    \A c \in Configs : /\ {c.nbWorkers, c.section} \subseteq Nat \ {0}
                       /\ {c.overlap, c.window, c.faults, c.abandon} \subseteq Nat /\ c.overlap <= c.section
                       /\ \A i \in DOMAIN c.lengths : c.lengths[i] \in Nat

Hdr == -1
End == -2
Sum(n) == -10 - n
Err == -1               \* an error code in cSize
Null == -1              \* no address
NoBuff == 0
Inf == 99               \* room for any output

VARIABLES cfg,          \* the parameters
          jobs,         \* mtctx->jobs, by slot
          mt,           \* the other fields of mtctx
          mem,          \* the round buffer
          serial,       \* SerialState: nextJobID, hashed positions (-1: not the stream's), the two LDM windows
          pool,         \* mtctx->bufPool
          data,         \* the contents of the output buffers
          factory,      \* the slot that waits in the thread pool for its worker, if any
          worker,       \* of each worker: where it is, its slot, whether its history was right
          call,         \* the call of ZSTD_compressStream2 in progress
          frame,        \* number of the frame; stage: init (not begun), load, gone (freed)
          taken,        \* positions of the stream consumed
          out,          \* tokens delivered
          faults

vars == <<cfg, jobs, mt, mem, serial, pool, data, factory, worker, call, frame, taken, out, faults>>

Seg(start, size) == [start |-> start, size |-> size]
NullSeg == Seg(Null, 0)

\* ZSTDMT_createJobsTable: a power of two above nbWorkers + 2.
Slots == CHOOSE p \in {4, 8, 16} : cfg.nbWorkers + 2 < p /\ p <= 2 * (cfg.nbWorkers + 2)
Slot(id) == id % Slots
Workers == 1..cfg.nbWorkers

\* BUF_POOL_MAX_NB_BUFFERS; at most one more buffer than slots is ever alive.
PoolMax == 2 * cfg.nbWorkers + 3
Buffers == 1..(Slots + 1)

Capacity(c) == Max({c.window, c.section * c.nbWorkers}) + c.section * (IF c.overlap > 0 THEN 3 ELSE 2)

\* A descriptor after calloc or memset: no pools (live), no buffer, nothing to do.
Zeroed == [live |-> FALSE, src |-> NullSeg, prefix |-> NullSeg, consumed |-> 0, cSize |-> 0,
           dst |-> NoBuff, id |-> 0, last |-> FALSE, sumNeeded |-> FALSE, flushed |-> 0]

NoWindow == [ext |-> Seg(0, 0), pre |-> NullSeg]
Idle == [pc |-> "idle", slot |-> 0, good |-> TRUE]
NoCall == [pc |-> "idle", endOp |-> "continue", local |-> "continue", limit |-> 0, room |-> 0,
           fwd |-> FALSE, moved |-> FALSE, inUse |-> NullSeg, ret |-> "none"]

FreshMt == [nextJobID |-> 0, doneJobID |-> 0, jobReady |-> FALSE, buff |-> Null, filled |-> 0,
            prefix |-> NullSeg, pos |-> 0, frameEnded |-> FALSE, allJobsCompleted |-> TRUE,
            checksumFlag |-> FALSE, consumed |-> 0, produced |-> 0]

Init ==
    /\ cfg \in Configs
    /\ jobs = [s \in 0..(Slots - 1) |-> Zeroed]
    /\ mt = FreshMt
    /\ mem = [a \in 0..(Capacity(cfg) - 1) |-> 0]
    /\ serial = [nextJobID |-> 0, hashed |-> 0, window |-> NoWindow, copy |-> NoWindow]
    /\ pool = {} /\ data = [b \in Buffers \cup {NoBuff} |-> <<>>]
    /\ factory = {} /\ worker = [w \in Workers |-> Idle]
    /\ call = NoCall /\ frame = [no |-> 1, stage |-> "init", given |-> 0] /\ taken = 0 /\ out = <<>> /\ faults = 0

Length == cfg.lengths[frame.no]
Ldm == cfg.window > 0
-----------------------------------------------------------------------------
(* ZSTDMT_bufferPool.  All buffers of a run have the same size. *)

\* ZSTDMT_getBuffer: one from the pool, else a new one.
GetBuffer == IF pool # {} THEN Min(pool)
             ELSE Min(Buffers \ {jobs[s].dst : s \in DOMAIN jobs})

\* ZSTDMT_releaseBuffer, of several buffers: those above the capacity are freed.
Released(bufs) ==
    LET all == pool \cup (bufs \ {NoBuff})
    IN  {b \in all : Cardinality({x \in all : x <= b}) <= PoolMax}

Wiped(bufs) == [b \in DOMAIN data |-> IF b \in bufs THEN <<>> ELSE data[b]]
-----------------------------------------------------------------------------
(***************************************************************************)
(* Plausible mistakes in this code, for judging the properties; no part of *)
(* the specification.                                                      *)
(***************************************************************************)
\* The range in use ignores the prefix: only the source of the job is protected.
ForgetsPrefix ==
    LET busy == {id \in mt.doneJobID..(mt.nextJobID - 1) :
                    jobs[Slot(id)].consumed < jobs[Slot(id)].src.size}
    IN  IF mt.nextJobID < Capacity(cfg) \div cfg.section \/ busy = {} THEN NullSeg
        ELSE jobs[Slot(Min(busy))].src

\* "Nothing to flush" is taken for "flushed": jobs on their way do not count.
IgnoresJobsUnderWay(t) == t.jobReady \/ t.filled > 0

\* A job that is ready is posted only when there is something else to do.
LosesReadyJob(endOp) ==
    \/ mt.filled >= cfg.section
    \/ endOp # "continue" /\ mt.filled > 0
    \/ endOp = "end" /\ ~mt.frameEnded

-----------------------------------------------------------------------------
(* The workers: ZSTDMT_compressionJob. *)

Job(w) == jobs[worker[w].slot]

Contents(r) == [i \in 1..r.size |-> mem[r.start + i - 1]]

\* The history in r is what precedes position p in the stream.
Precedes(r, p) == \A i \in 1..r.size : mem[r.start + i - 1] = p - r.size + i - 1

Fault == faults < cfg.faults /\ faults' = faults + 1
NoFault == UNCHANGED faults

\* POOL_thread takes the job; getCCtx, getSeq and getBuffer, each of which may fail.
TakeJob(w) ==
    /\ worker[w].pc = "idle"
    /\ \E s \in factory :
          /\ factory' = {}
          /\ \/ /\ NoFault /\ jobs[s].live
                /\ worker' = [worker EXCEPT ![w] = [pc |-> "serial", slot |-> s, good |-> TRUE]]
                /\ jobs' = [jobs EXCEPT ![s].dst = GetBuffer]
                /\ pool' = pool \ {GetBuffer}
             \/ /\ Fault /\ jobs[s].live
                /\ worker' = [worker EXCEPT ![w] = [pc |-> "failed", slot |-> s, good |-> TRUE]]
                /\ jobs' = [jobs EXCEPT ![s].cSize = Err]
                /\ UNCHANGED pool
             \/ /\ ~jobs[s].live                    \* null pools
                /\ worker' = [worker EXCEPT ![w] = [pc |-> "crash", slot |-> s, good |-> TRUE]]
                /\ UNCHANGED <<jobs, pool, faults>>
    /\ UNCHANGED <<cfg, mt, mem, serial, data, call, frame, taken, out>>

\* ZSTD_window_update for src: a new segment turns the old one into the external
\* dictionary, which shrinks where src overwrites it.
WindowUpdate(win, src) ==
    LET moved == IF src.start = win.pre.start + win.pre.size THEN win
                 ELSE [ext |-> IF win.pre = NullSeg THEN Seg(0, 0) ELSE win.pre, pre |-> Seg(src.start, 0)]
        hit == src.start + src.size > moved.ext.start /\ src.start < moved.ext.start + moved.ext.size
        low == Min({src.start + src.size, moved.ext.start + moved.ext.size})
    IN  IF src.size = 0 THEN win
        ELSE [ext |-> IF hit THEN Seg(low, moved.ext.start + moved.ext.size - low) ELSE moved.ext,
              pre |-> Seg(moved.pre.start, moved.pre.size + src.size)]

\* ZSTD_window_enforceMaxDist at the end of the source.
EnforceMaxDist(win) ==
    LET size == Min({win.pre.size, cfg.window})
        left == Min({win.ext.size, cfg.window - size})
    IN  [ext |-> Seg(win.ext.start + win.ext.size - left, left),
         pre |-> Seg(win.pre.start + win.pre.size - size, size)]

\* The window that LDM searches holds the stream up to position p.
WindowRight(win, p) ==
    LET first == p - win.pre.size
    IN  Precedes(win.pre, p + 1) /\ Precedes(win.ext, first + 1)

MyTurn(j) == serial.nextJobID >= j.id

\* ZSTDMT_serialState_genSequences: in turn, unless a later job has failed and skipped us.
GenSequences(w) ==
    LET j == Job(w)
        win == EnforceMaxDist(WindowUpdate(serial.window, j.src))
        last == mem[j.src.start + j.src.size - 1]
        mine == serial.nextJobID = j.id
        hashed == IF Contents(j.src) = [i \in 1..j.src.size |-> serial.hashed + i]
                  THEN serial.hashed + j.src.size ELSE -1
    IN  /\ worker[w].pc = "serial" /\ MyTurn(j)
        /\ serial' = [nextJobID |-> serial.nextJobID + 1,
                      hashed |-> IF mine /\ cfg.checksum THEN hashed ELSE serial.hashed,
                      window |-> IF mine /\ Ldm THEN win ELSE serial.window,
                      copy |-> IF mine /\ Ldm THEN win ELSE serial.copy]
        /\ \/ /\ NoFault /\ UNCHANGED jobs
              /\ worker' = [worker EXCEPT ![w].pc = "compress",
                                          ![w].good = ~(mine /\ Ldm /\ j.src.size > 0) \/ WindowRight(win, last)]
           \/ /\ Fault                              \* ZSTD_compressBegin_advanced_internal fails
              /\ jobs' = [jobs EXCEPT ![worker[w].slot].cSize = Err]
              /\ worker' = [worker EXCEPT ![w].pc = "failed"]
        /\ UNCHANGED <<cfg, mt, mem, pool, data, factory, call, frame, taken, out>>

\* The chunk after the consumed ones, as the worker reads it now.
NextChunk(w) ==
    LET j == Job(w)
        a == j.src.start + j.consumed
        good == worker[w].good /\ Precedes(j.prefix, mem[j.src.start])
    IN  (IF j.id = 0 /\ j.consumed = 0 THEN <<Hdr>> ELSE <<>>)
        \o (IF j.src.size = 0 THEN <<>> ELSE <<IF good THEN mem[a] ELSE 0>>)

\* One turn of the loop: a chunk that is not the last one.
CompressChunk(w) ==
    LET j == Job(w)
    IN  /\ worker[w].pc = "compress" /\ j.consumed + 1 < j.src.size
        /\ data' = [data EXCEPT ![j.dst] = @ \o NextChunk(w)]
        /\ jobs' = [jobs EXCEPT ![worker[w].slot] =
                       [j EXCEPT !.consumed = @ + 1, !.cSize = @ + Len(NextChunk(w))]]
        /\ UNCHANGED <<cfg, mt, mem, serial, pool, factory, worker, call, frame, taken, out, faults>>

\* The last chunk, ensureFinished (nothing to do) and the report; the only job of a frame
\* writes the checksum itself.
CompressLast(w) ==
    LET j == Job(w)
        tokens == NextChunk(w) \o (IF j.last THEN <<End>> ELSE <<>>)
                  \o (IF j.last /\ j.id = 0 /\ cfg.checksum THEN <<Sum(j.src.size)>> ELSE <<>>)
    IN  /\ worker[w].pc = "compress" /\ j.consumed + 1 >= j.src.size
        /\ data' = [data EXCEPT ![j.dst] = @ \o tokens]
        /\ jobs' = [jobs EXCEPT ![worker[w].slot] =
                       [j EXCEPT !.consumed = j.src.size, !.cSize = @ + Len(tokens)]]
        /\ worker' = [worker EXCEPT ![w].pc = "ran", ![w].good = TRUE]
        /\ UNCHANGED <<cfg, mt, mem, serial, pool, factory, call, frame, taken, out, faults>>

\* JOB_ERROR once the job has begun: ZSTD_compressContinue or ZSTD_compressEnd fails on the
\* header, on a chunk or on the last block.  What is published of the job is lost.
ChunkFails(w) ==
    /\ worker[w].pc = "compress" /\ Fault
    /\ jobs' = [jobs EXCEPT ![worker[w].slot].cSize = Err]
    /\ worker' = [worker EXCEPT ![w].pc = "failed"]
    /\ UNCHANGED <<cfg, mt, mem, serial, pool, data, factory, call, frame, taken, out>>

\* ZSTDMT_serialState_ensureFinished after an error.
EnsureFinished(w) ==
    LET id == Job(w).id
        cleared == [ext |-> Seg(0, 0), pre |-> Seg(serial.copy.pre.start + serial.copy.pre.size, 0)]
    IN  /\ worker[w].pc = "failed"
        /\ serial' = IF serial.nextJobID <= id THEN [serial EXCEPT !.nextJobID = id + 1, !.copy = cleared]
                     ELSE serial
        /\ worker' = [worker EXCEPT ![w].pc = "report"]
        /\ UNCHANGED <<cfg, jobs, mt, mem, pool, data, factory, call, frame, taken, out, faults>>

ReportError(w) ==
    /\ worker[w].pc = "report"
    /\ jobs' = [jobs EXCEPT ![worker[w].slot].consumed = Job(w).src.size]
    /\ worker' = [worker EXCEPT ![w].pc = "ran", ![w].good = TRUE]
    /\ UNCHANGED <<cfg, mt, mem, serial, pool, data, factory, call, frame, taken, out, faults>>

\* Back in POOL_thread: only now the thread no longer counts as busy.
JobDone(w) ==
    /\ worker[w].pc = "ran"
    /\ worker' = [worker EXCEPT ![w] = Idle]
    /\ UNCHANGED <<cfg, jobs, mt, mem, serial, pool, data, factory, call, frame, taken, out, faults>>

WorkerStep(w) == TakeJob(w) \/ GenSequences(w) \/ CompressChunk(w) \/ CompressLast(w)
                 \/ ChunkFails(w) \/ EnsureFinished(w) \/ ReportError(w) \/ JobDone(w)
-----------------------------------------------------------------------------
(* ZSTDMT_initCStream_internal and the end of a frame. *)

\* ZSTDMT_waitForAllJobsCompleted returns.
AllCompleted == \A id \in mt.doneJobID..(mt.nextJobID - 1) :
                    jobs[Slot(id)].consumed >= jobs[Slot(id)].src.size

\* ZSTDMT_releaseAllJobResources, but for the fields of mt.
ReleaseAll ==
    LET bufs == {jobs[s].dst : s \in DOMAIN jobs}
    IN  /\ pool' = Released(bufs) /\ data' = Wiped(bufs)
        /\ jobs' = [s \in DOMAIN jobs |-> Zeroed]

InitCStream ==
    /\ call.pc = "init"
    /\ IF mt.allJobsCompleted THEN UNCHANGED <<jobs, pool, data>> ELSE AllCompleted /\ ReleaseAll
    /\ mt' = [FreshMt EXCEPT !.jobReady = mt.jobReady,              \* not reset
                             !.allJobsCompleted = FALSE, !.checksumFlag = cfg.checksum]
    /\ serial' = [nextJobID |-> 0, hashed |-> 0, window |-> NoWindow, copy |-> NoWindow]
    /\ mem' = [a \in DOMAIN mem |-> 0]                             \* nothing of this stream
    /\ frame' = [frame EXCEPT !.stage = "load"]
    /\ call' = [call EXCEPT !.pc = "fill"]
    /\ UNCHANGED <<cfg, factory, worker, taken, out, faults>>

\* ZSTDMT_freeCCtx: POOL_free ends the workers, then everything goes.
FreeCCtx ==
    /\ call.pc = "free"
    /\ factory = {} /\ \A w \in Workers : worker[w].pc = "idle"
    /\ jobs' = [s \in DOMAIN jobs |-> Zeroed] /\ pool' = {} /\ data' = [b \in DOMAIN data |-> <<>>]
    /\ frame' = [frame EXCEPT !.stage = "gone"]
    /\ call' = NoCall
    /\ UNCHANGED <<cfg, mt, mem, serial, factory, worker, taken, out, faults>>
-----------------------------------------------------------------------------
(* ZSTDMT_compressStream_generic: input. *)

\* ZSTDMT_isOverlapped.
Overlapped(b, r) ==
    /\ b.size > 0 /\ r.size > 0
    /\ b.start < r.start + r.size /\ r.start < b.start + b.size

\* ZSTDMT_waitForLdmComplete returns.
LdmComplete(b) == ~Ldm \/ ~(Overlapped(b, serial.copy.ext) \/ Overlapped(b, serial.copy.pre))

\* ZSTDMT_getInputDataInUse: what the earliest incomplete job reads; not checked as long
\* as the jobs cannot have filled the buffer.
InputDataInUse ==
    LET busy == {id \in mt.doneJobID..(mt.nextJobID - 1) :
                    jobs[Slot(id)].consumed < jobs[Slot(id)].src.size}
        job == jobs[Slot(Min(busy))]
    IN  IF mt.nextJobID < Capacity(cfg) \div cfg.section \/ busy = {} THEN NullSeg
        ELSE IF job.prefix.size = 0 THEN job.src ELSE job.prefix

Section == Seg(mt.pos, cfg.section)
Moved == Seg(0, mt.prefix.size)

Goto(pc) == call' = [call EXCEPT !.pc = pc]

FillInput ==
    LET inUse == InputDataInUse
        wraps == Capacity(cfg) - mt.pos < cfg.section
    IN  /\ call.pc = "fill"
        /\ call' = [call EXCEPT !.local = call.endOp, !.fwd = FALSE, !.moved = FALSE,
                                !.inUse = IF mt.buff = Null /\ ~mt.jobReady /\ taken < call.limit THEN inUse ELSE NullSeg,
                                !.pc = IF mt.jobReady \/ taken = call.limit THEN "create"
                                       ELSE IF mt.buff # Null THEN "load"
                                       ELSE IF Overlapped(IF wraps THEN Moved ELSE Section, inUse) THEN "create"
                                       ELSE IF wraps THEN "move" ELSE "grab"]
        /\ UNCHANGED <<cfg, jobs, mt, mem, serial, pool, data, factory, worker, frame, taken, out, faults>>

\* The prefix goes to the start of the round buffer.
MovePrefix ==
    LET n == mt.prefix.size
    IN  /\ call.pc = "move" /\ LdmComplete(Moved)
        /\ mem' = [a \in DOMAIN mem |-> IF a < n THEN mem[mt.prefix.start + a] ELSE mem[a]]
        /\ mt' = [mt EXCEPT !.prefix.start = 0, !.pos = n]
        /\ Goto(IF Overlapped(Seg(n, cfg.section), call.inUse) THEN "create" ELSE "grab")
        /\ UNCHANGED <<cfg, jobs, serial, pool, data, factory, worker, frame, taken, out, faults>>

GrabSection ==
    /\ call.pc = "grab" /\ LdmComplete(Section)
    /\ mt' = [mt EXCEPT !.buff = mt.pos, !.filled = 0]
    /\ call' = [call EXCEPT !.pc = "load", !.inUse = NullSeg]
    /\ UNCHANGED <<cfg, jobs, mem, serial, pool, data, factory, worker, frame, taken, out, faults>>

\* findSynchronizationPoint: where the rolling hash hits depends on the data.
SyncPoints ==
    LET most == Min({call.limit - taken, cfg.section - mt.filled})
    IN  {[toLoad |-> most, flush |-> FALSE]} \cup
        {[toLoad |-> n, flush |-> TRUE] : n \in {n \in 0..most : cfg.rsyncable /\ mt.filled + n > 0}}

LoadInput ==
    /\ call.pc = "load"
    /\ \E sync \in SyncPoints :
          /\ mem' = [a \in DOMAIN mem |->
                       LET i == a - (mt.buff + mt.filled) IN IF i \in 0..(sync.toLoad - 1) THEN taken + i + 1 ELSE mem[a]]
          /\ mt' = [mt EXCEPT !.filled = @ + sync.toLoad]
          /\ taken' = taken + sync.toLoad
          /\ call' = [call EXCEPT !.pc = "create", !.fwd = sync.toLoad > 0, !.moved = @ \/ sync.toLoad > 0,
                                  !.local = IF sync.flush /\ @ = "continue" THEN "flush" ELSE @]
    /\ UNCHANGED <<cfg, jobs, serial, pool, data, factory, worker, frame, out, faults>>
-----------------------------------------------------------------------------
(* ZSTDMT_createCompressionJob. *)

LocalEndOp == IF taken < call.limit /\ call.local = "end" THEN "flush" ELSE call.local

WantsJob(endOp) ==
    \/ mt.jobReady \/ mt.filled >= cfg.section
    \/ endOp # "continue" /\ mt.filled > 0
    \/ endOp = "end" /\ ~mt.frameEnded

TableFull == mt.nextJobID > mt.doneJobID + Slots - 1

Prepared(endOp) ==
    [Zeroed EXCEPT !.live = TRUE, !.src = Seg(mt.buff, mt.filled), !.prefix = mt.prefix, !.id = mt.nextJobID,
                   !.last = endOp = "end",
                   !.sumNeeded = mt.checksumFlag /\ endOp = "end" /\ mt.nextJobID > 0]

\* The fields of mt once the job has been prepared.
AfterPrepare(endOp) ==
    LET n == Min({mt.filled, cfg.overlap})
        end == endOp = "end"
    IN  [mt EXCEPT !.pos = @ + mt.filled, !.buff = Null, !.filled = 0,
                   !.prefix = IF end THEN NullSeg ELSE Seg(mt.buff + mt.filled - n, n),
                   !.frameEnded = @ \/ end,
                   !.checksumFlag = @ /\ ~(end /\ mt.nextJobID = 0)]

\* POOL_tryAdd for a pool without queue: it takes the job if a worker is free to run it.
TryAdd(t, s) ==
    IF factory = {} /\ \E w \in Workers : worker[w].pc = "idle"
    THEN factory' = {s} /\ mt' = [t EXCEPT !.nextJobID = @ + 1, !.jobReady = FALSE]
    ELSE mt' = [t EXCEPT !.jobReady = TRUE] /\ UNCHANGED factory

CreateJob ==
    LET endOp == LocalEndOp
        s == Slot(mt.nextJobID)
        job == Prepared(endOp)
        wanted == WantsJob(endOp) /\ ~TableFull
    IN  /\ call.pc = "create"
        /\ call' = [call EXCEPT !.pc = "flush", !.local = endOp]
        /\ \/ /\ ~wanted
              /\ UNCHANGED <<jobs, mt, pool, data, factory, faults>>
           \/ /\ wanted /\ mt.jobReady                      \* prepared earlier
              /\ TryAdd(mt, s)
              /\ UNCHANGED <<jobs, pool, data, faults>>
           \/ /\ wanted /\ ~mt.jobReady
              /\ mt.filled > 0 \/ mt.nextJobID = 0
              /\ jobs' = [jobs EXCEPT ![s] = job]
              /\ TryAdd(AfterPrepare(endOp), s)
              /\ UNCHANGED <<pool, data, faults>>
           \/ /\ wanted /\ ~mt.jobReady                     \* ZSTDMT_writeLastEmptyBlock
              /\ mt.filled = 0 /\ mt.nextJobID > 0
              /\ mt' = [AfterPrepare(endOp) EXCEPT !.nextJobID = @ + 1]
              /\ \/ /\ NoFault
                    /\ jobs' = [jobs EXCEPT ![s] = [job EXCEPT !.src = NullSeg, !.dst = GetBuffer, !.cSize = 1]]
                    /\ pool' = pool \ {GetBuffer}
                    /\ data' = [data EXCEPT ![GetBuffer] = <<End>>]
                 \/ Fault /\ jobs' = [jobs EXCEPT ![s] = [job EXCEPT !.cSize = Err]] /\ UNCHANGED <<pool, data>>
              /\ UNCHANGED factory
        /\ UNCHANGED <<cfg, mem, serial, worker, frame, taken, out>>
-----------------------------------------------------------------------------
(* ZSTDMT_flushProduced, and what ZSTD_compressStream2 makes of its result. *)

Oldest == jobs[Slot(mt.doneJobID)]

\* The caller would sleep on job_cond.
Blocks ==
    /\ ~call.fwd /\ mt.doneJobID < mt.nextJobID
    /\ Oldest.flushed = Oldest.cSize /\ Oldest.consumed # Oldest.src.size

\* Work is left beyond the oldest job; t is mt when that job has been dealt with.
Busy(t) == t.doneJobID < t.nextJobID \/ t.jobReady \/ t.filled > 0

\* The loop of ZSTD_compressStream2 ends.
Over(ret, moved, room) ==
    IF call.endOp = "continue" THEN moved \/ taken = call.limit \/ room = 0
    ELSE ret = "zero" \/ room = 0

NextFrame == IF frame.no < Len(cfg.lengths) THEN [frame EXCEPT !.no = @ + 1, !.stage = "init"]
             ELSE [frame EXCEPT !.stage = "over"]

Left(n) == IF call.room = Inf THEN Inf ELSE call.room - n

FlushProduced ==
    LET j == Oldest
        complete == j.consumed = j.src.size
        sum == complete /\ j.sumNeeded
        cSize == IF sum THEN j.cSize + 1 ELSE j.cSize
        bytes == IF sum THEN data[j.dst] \o <<Sum(serial.hashed)>> ELSE data[j.dst]
        n == IF cSize > 0 THEN Min({cSize - j.flushed, call.room}) ELSE 0
        gone == cSize > 0 /\ complete /\ j.flushed + n = cSize
        t == IF gone THEN [mt EXCEPT !.doneJobID = @ + 1, !.consumed = @ + j.src.size, !.produced = @ + cSize]
             ELSE mt
        busy == cSize > j.flushed + n \/ ~complete \/ Busy(t)
        ret == IF busy \/ taken < call.limit \/ (call.local = "end" /\ ~t.frameEnded) THEN "more" ELSE "zero"
    IN  /\ call.pc = "flush" /\ ~Blocks /\ j.cSize # Err
        /\ out' = out \o SubSeq(bytes, j.flushed + 1, j.flushed + n)
        /\ jobs' = [jobs EXCEPT ![Slot(mt.doneJobID)] =
                       [j EXCEPT !.flushed = @ + n, !.sumNeeded = @ /\ ~sum,
                                 !.dst = IF gone THEN NoBuff ELSE @, !.cSize = IF gone THEN 0 ELSE cSize]]
        /\ pool' = IF gone THEN Released({j.dst}) ELSE pool
        /\ data' = IF gone THEN Wiped({j.dst}) ELSE IF sum THEN [data EXCEPT ![j.dst] = bytes] ELSE data
        /\ mt' = IF busy THEN t ELSE [t EXCEPT !.allJobsCompleted = t.frameEnded]
        /\ frame' = IF call.endOp = "end" /\ ret = "zero" THEN [frame EXCEPT !.stage = "done"] ELSE frame
        /\ call' = IF Over(ret, call.moved \/ n > 0, Left(n))
                   THEN [NoCall EXCEPT !.endOp = call.endOp, !.limit = call.limit, !.ret = ret]
                   ELSE [call EXCEPT !.pc = "fill", !.room = Left(n)]
        /\ UNCHANGED <<cfg, mem, serial, factory, worker, taken, faults>>

\* The oldest job failed: the others are waited for, everything is released, the error is
\* returned and ZSTD_compressStream2 resets the session.
FlushFails ==
    /\ call.pc = "flush" /\ ~Blocks /\ Oldest.cSize = Err
    /\ AllCompleted
    /\ ReleaseAll
    /\ mt' = [mt EXCEPT !.doneJobID = mt.nextJobID, !.buff = Null, !.filled = 0, !.allJobsCompleted = TRUE]
    /\ frame' = NextFrame /\ taken' = 0 /\ out' = <<>>
    /\ call' = NoCall
    /\ UNCHANGED <<cfg, mem, serial, factory, worker, faults>>
-----------------------------------------------------------------------------
(* The application. *)

\* A call of ZSTD_compressStream2.  Once a frame is being ended it goes on like that.
Call(endOp) ==
    /\ call.pc = "idle" /\ frame.stage \in {"init", "load"}
    /\ call.endOp = "end" => endOp = "end"
    /\ endOp = "end" /\ frame.stage = "init" => Length > 1         \* else compressed by the caller itself
    /\ frame.stage = "init" => cfg.staleReady \/ ~mt.jobReady
    /\ \E limit \in {taken, Min({taken + 1, Length}), Length}, room \in {0, 1, Inf} :
          /\ endOp = "end" => limit = Length /\ room > 0
          /\ "flush" \notin cfg.ops => limit = Length /\ room = (IF endOp = "end" THEN Inf ELSE 0)
          /\ call' = [NoCall EXCEPT !.pc = IF frame.stage = "init" THEN "init" ELSE "fill",
                                    !.endOp = endOp, !.local = endOp, !.limit = limit, !.room = room]
    /\ UNCHANGED <<cfg, jobs, mt, mem, serial, pool, data, factory, worker, frame, taken, out, faults>>

\* The frame has been delivered: the next one.
FrameDone ==
    /\ frame.stage = "done" /\ call.pc = "idle"
    /\ frame' = NextFrame /\ taken' = 0 /\ out' = <<>> /\ call' = NoCall
    /\ UNCHANGED <<cfg, jobs, mt, mem, serial, pool, data, factory, worker, faults>>

\* ZSTD_CCtx_reset(ZSTD_reset_session_only) in the middle of a frame.
ResetSession ==
    /\ call.pc = "idle" /\ frame.stage = "load" /\ frame.given < cfg.abandon
    /\ frame' = [NextFrame EXCEPT !.given = @ + 1] /\ taken' = 0 /\ out' = <<>> /\ call' = NoCall
    /\ UNCHANGED <<cfg, jobs, mt, mem, serial, pool, data, factory, worker, faults>>

CallFree ==
    /\ call.pc = "idle" /\ frame.stage # "gone"
    /\ Goto("free")
    /\ UNCHANGED <<cfg, jobs, mt, mem, serial, pool, data, factory, worker, frame, taken, out, faults>>

CallerStep == InitCStream \/ FreeCCtx \/ FillInput \/ MovePrefix \/ GrabSection \/ LoadInput
              \/ CreateJob \/ FlushProduced \/ FlushFails

Next ==
    \/ \E w \in Workers : WorkerStep(w)
    \/ CallerStep
    \/ \E endOp \in cfg.ops : Call(endOp)
    \/ FrameDone \/ ResetSession \/ CallFree

\* Threads that can run do run; an application that has begun to end a frame goes on.
Fairness ==
    /\ \A w \in 1..2 : WF_vars(w \in Workers /\ WorkerStep(w))
    /\ WF_vars(CallerStep \/ (call.endOp = "end" /\ Call("end")))

Spec == Init /\ [][Next]_vars /\ Fairness
-----------------------------------------------------------------------------
(* Properties. *)

Frame(n) == <<Hdr>> \o [i \in 1..n |-> i] \o <<End>> \o (IF cfg.checksum THEN <<Sum(n)>> ELSE <<>>)

\* Whatever the interleaving, what the caller receives is the frame of its input: every
\* position once and in order, compressed against the history the decoder will have,
\* with the checksum of all of it (ZSTDMT_flushProduced, tryGetInputRange, genSequences).
OutputIsTheFrame ==
    /\ Len(out) <= Len(Frame(taken))
    /\ out = SubSeq(Frame(taken), 1, Len(out))
    /\ Len(out) > taken + 1 => mt.frameEnded

\* A flush that returned 0 has delivered all input, an end that returned 0 the whole frame
\* ("return : 0 if no more", ZSTDMT_flushProduced).
ZeroMeansDelivered ==
    call.pc = "idle" /\ call.ret = "zero" =>
        CASE call.endOp = "flush" -> Len(out) = (IF taken = 0 /\ out = <<>> THEN 0 ELSE taken + 1)
          [] call.endOp = "end" -> out = Frame(Length)
          [] OTHER -> TRUE

\* Ending a frame makes progress until the frame is complete or has failed (zstd.h:806).
FrameEnds == (call.endOp = "end" /\ frame.stage = "load") ~> (frame.stage # "load" \/ call.endOp # "end")
=============================================================================
