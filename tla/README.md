# zstd-jni: a TLA+ verification project

zstd-jni is the JNI binding of the zstd compression library: Java objects that
own native objects, streams that drive a native state machine through small
buffers, a C layer between the two, and the library itself, which the repository
carries as source. The subjects here are

- the lifetime of native memory that several threads share and any of them, or the
  finalizer, may close;
- the loops that feed the native streaming coder, and must not lose, repeat or
  invent a byte, end too early or never;
- what happens when one step of several throws;
- the threads inside the library: its pool, the parallel search of dictionary
  training, multi-threaded compression;
- the codec: that what its match finders store is what a decoder rebuilds, that its
  window names the bytes it says, and that both sides of a frame agree on tables,
  offsets and memory.

All Java paths below are relative to `src/src/main/java/com/github/luben/zstd/`,
all C paths to `src/src/main/native/`.

## 1. Inventory

| Component | State | Operations | What is hard | What makes it correct |
|---|---|---|---|---|
| `AutoCloseBase`, `SharedDictBase` | `sharedLock` (counter and closed flag), the monitor, `nativePtr` | `acquireSharedLock`, `releaseSharedLock`, `close`, `doClose`, `finalize` | lock-free loops against a racy `close()`; counter overflow | nobody uses freed memory; a returned `close()` has freed it; loops are lock free |
| `ZstdDictCompress`, `ZstdDictDecompress`, and the dictionary methods of contexts and streams | a locked Java field and a native pointer for the same dictionary | `loadDict`, `setDict`, `setRefMultipleDDicts`, `reset`, `close` | the two records must agree through every exception; dictionaries are closed by other threads | native code never reads a freed dictionary; every lock is released once |
| `ZstdInputStream(NoFinalizer)` | `srcPos`, `srcSize`, `dstPos`, `needRead`, `frameFinished`, `isContinuous`, `isClosed` | `read`, `skip`, `available`, `close`, setters | short and zero reads, several frames, output held back by zstd, truncation, a growing file | every byte once; `-1` only at a real end; truncation is an exception; `read` returns |
| `ZstdOutputStream(NoFinalizer)` | `frameClosed`, `frameStarted`, `closeFrameOnFlush`, `dstPos`, `srcPos`, `isClosed` | `write`, `flush`, `close`, setters | frames opened and closed by four methods; a parent that throws | a flushed byte can be decoded; a closed stream is complete; release happens once |
| `Base/Buffer/DirectBufferDecompressingStream` | `source`, `finishedFrame`, `streamEnd`, `closed` | `read`, `refill`, `hasRemaining`, `close`, setters | the end of the stream is inferred from two flags and a callback | the documented loop gets everything and ends |
| `DirectBufferCompressingStream` | `target`, `initialized`, `closed`, `fastDict` | `compress`, `flush`, `close`, `flushBuffer`, `setDict` | lazy initialization; a callback that may make no room | nothing lost across an exception; one complete frame |
| `RecyclingBufferPool`, `NoPool` | a concurrent queue of soft references | `get`, `release` | no lock; cleared references; double `close()` | a buffer has one owner |
| native streaming coder (`ZSTD_decompressStream`, `ZSTD_compressStream2`) | stage, buffers, hostage byte, progress counter | one call | partial consumption, output that does not fit | as seen by its callers |
| `common/pool.c` | ring of jobs, busy count, thread limit, two condition variables | `POOL_create`, `add`, `tryAdd`, `resize`, `joinJobs`, `free`, the threads | lost wake-ups; shutdown with a full queue; fewer threads than before | each accepted job runs once, in order; every call returns |
| `dictBuilder/cover.c`, `fastcover.c` | contexts and one `COVER_best_t`, locals of the searching function | the search over `d` and `k`, `COVER_best_start/finish/wait` | jobs that use locals of another thread; failed allocations | no job outlives its context; the best dictionary is returned |
| `compress/zstdmt_compress.c` | job table, round buffer, serial state, pool of buffers | the calls of `ZSTD_compressStream2`, worker steps, reset, free | a caller that overwrites what a slow worker still reads; order of the serial part; failing jobs | the output is the frame; 0 means delivered; frames end |
| `compress/zstd_fast.c`, `zstd_double_fast.c`, `zstd_lazy.c`, `zstd_opt.c`, `zstd_ldm.c` | hash tables, chains, rows, trees, prices, raw sequences | one block compressor per strategy and dictionary mode | matches across two segments, repeated offsets, searches ahead | the decoder rebuilds the block; every loop ends |
| window (`zstd_compress_internal.h`, `zstd_compress.c`) | `ZSTD_window_t`, `nextToUpdate`, `loadedDictEnd`, table entries | update, reduce indexes, limit distance, load or attach a dictionary, next frame | input anywhere, over older input; indexes near their limit | an index names the byte it was given for, and the decoder has it |
| entropy coding (`bitstream.h`, `fse*.c`, `huf*.c`) | none between calls except tables | normalize, build, write and read tables, encode, decode | depth limits, fast loops bounded by one of four streams | as part of a block |
| blocks (`zstd_compress_literals.c`, `zstd_compress_sequences.c`, `zstd_compress.c`, `zstd_decompress_block.c`) | tables that may be repeated, three last offsets, the ring of the decoder | store, split, write, read, execute | each side derives tables and offsets for itself; copies overshoot | same bytes, same history, no write out of bounds |
| dictionary entropy (`zdict.c`, `zstd_ddict.c`) | the tables and offsets of a dictionary | analyze, load on each side | a table without a symbol that a block needs | used only where it suffices |
| streaming calls of the contexts with a packed result | none in Java | `compressDirectByteBufferStream`, ... | three values in a `long` | planned |
| sequence producers | `seqprod`, `seqprod_state` | `registerSequenceProducer`; the native side is part of blocks | application callbacks that throw | Java side planned |
| `ZstdDictTrainer` | sample buffer | `addSample`, `trainSamples` | bounds | planned |
| `Zstd` static calls, exceptions, `util.Native`, rest of the library | none, or I/O | | | not modelled (section 8) |

Components interact through calls on the caller's thread. Shared between threads
are only dictionaries and contexts (through `AutoCloseBase`) and buffer pools
(through a concurrent queue); the methods of input and output streams are
`synchronized`, and the buffer streams are for one thread. Callbacks into
application code are the parent streams, `refill()`, `flushBuffer()`, the pool and
the sequence producer. The hazards of `PROJECT.json` give the line at which each
of these can go wrong.

## 2. Modules

    SharedUse                 abstract: who uses a native object, and when it is freed
      ^ refined by
    AutoCloseBase             the compare-and-set protocol         SharedObjects_proofs
      v its atomic operations are used by
    DictSharing               dictionaries, contexts, streams      DictSharing_proofs

    StreamDecoder             ZSTD_decompressStream
      ^ extended by
    InputStream               ZstdInputStream                      DecompressingStreams_proofs
    BufferDecompressingStream the buffer decompressing streams     DecompressingStreams_proofs
    StreamEncoder             ZSTD_compressStream2                 StreamEncoder_proofs
      ^ extended by
    OutputStream              ZstdOutputStream                     OutputStream_proofs
    DirectBufferCompressingStream                                  DirectBufferCompressingStream_proofs

    RecyclingBufferPool       the pool and the streams that use it SharedObjects_proofs

    JobQueue                  abstract: a queue of jobs
      ^ refined by
    ThreadPool                common/pool.c
      ^ extended by
    CoverOptimize             the search of COVER and FASTCOVER    CoverOptimize_proofs
    MTCompress                zstdmt_compress.c

    SeqCodes <- MatchState <- ZstdFast, ZstdDoubleFast
                           <- LazySearch <- ZstdLazy
                                         <- ZstdOpt
    Ldm extends all of them; MCCodec runs it

    ZstdWindow                the operations on a ZSTD_window_t
      ^ extended by
    FrameWindow               a context over many calls            FrameWindow_proofs

    Fse <- Huf <- HufDecode <- Literals <- SeqEntropy <- BlockCompress <- Superblock
      <- BlockExec <- DictEntropy <- BlockFrame <- MCBlockFrame

`DictSharing`, `MTCompress`, `Ldm` and `BlockFrame` have an `MC...` module with the
symmetry set, the configurations or the inputs of their runs; the others are checked as
they are. Two proof modules are about two components each, which they both extend; that
is why `RecyclingBufferPool` and `BufferDecompressingStream` prefix `Init`, `Next` and
`Spec` with `Pool` and `Buffer`. The compressed streams that the runs decode stand at the
end of `StreamDecoder`. Modules contain a few variants
of their definitions with one plausible mistake each; no specification uses them, they
are there to show that each property can fail.

**AutoCloseBase.** One step is one volatile access, one compare-and-set, one
monitor operation or one native call. `seen[t]` is the local variable
`sharedLock`; a place `...Threw`, `acquireClosed`, `closeInUse` and so on is an
exception as the caller gets it. `storeFence` publishes the object. A thread in
`using` is a library method between acquire and release, or a context that holds
the object as its dictionary. Threads include the finalizer's.

**SharedUse.** A set of users, an open flag and a freed flag: enter while open and
below the limit, leave, close when empty, free once after closing.

**DictSharing.** The locks of dictionaries are atomic counters, which the
refinement justifies. Everything between two lock operations interleaves with
every other consumer and with `DictClose` by any thread. Per consumer: `field` is
`compression_dict`, `decompression_dict`, `active_dict` or `fastDict`; `ref` is
the pointer in the native context, `refSet` its set of dictionaries, `stage`
whether it is inside a frame (zstd then refuses dictionaries). The failure paths
are actions: a closed dictionary, a refusal by zstd, a failed allocation. A native
call reads the dictionary while its caller waits, except in a compressor with workers
(`MTConsumers`): the first job of a frame keeps the pointer (`worker`, from
`jobs[0].cdict`), `PostFirstJob` returns, and a worker thread reads it until
`WorkerDone`, whatever the owner does meanwhile. The call that ends the frame waits for
it; `reset()`, a one-shot `compress()` and the error for input after the end of a frame
(`AbandonFrame`) give the frame up and do not; freeing the native object joins it.

**StreamDecoder.** A compressed stream is a sequence of units (header, first part
of a header, block of a size, last block). One action per turn of the loop of
`ZSTD_decompressStream`: transparent reset, header, bytes that are no header,
single pass, read, flush, and
the steps after the loop: the counter of calls without progress, the hint, and the
byte held hostage until the output is flushed. Units stand for bytes at the
granularity the callers can tell apart; a block split between two source buffers
(`zdss_load`) is a block that arrives later, since nothing is produced in between.
What both Java streams have (the compressed stream `input`, how much of it was `taken`,
what was `delivered`, the `outcome` of the last call) is declared here too.

**InputStream.** `read()` and `readInternal()`: the head of the loop, the three
answers of `in.read()`, the native call, and the three ways to go on. The
compressed stream (`input`) and `isContinuous` are chosen initially; in continuous
mode the file may be incomplete when reading begins, and another process appends to
it (`AppendUnit`). `in` hands out pieces of any size up to `MaxChunk`, or zero;
`available()` may always answer zero and, outside continuous mode, promise too much.

**BufferDecompressingStream.** `readInternal()` with `refill()` as the
application's choice, and `hasRemaining()`. Array and direct buffers share it.

**StreamEncoder.** The application's bytes are numbered, the output consists of
headers, bytes and frame ends. `ZSTD_compressStream2`: beginning a frame, loading
up to a block, compressing it, flushing what fits, and what is left as the result.

**OutputStream.** `write`, `flush`, `setCloseFrameOnFlush`, `close` and
`closeWithoutClosingParentStream` with the loops around the native calls. Every
call of the parent and of native code may throw; `close()` runs its finally block.

**DirectBufferCompressingStream.** `compress`, `flush`, `close` and the lazy
initialization. `flushBuffer()` empties the target or leaves it as it is. A call
that throws for lack of space leaves the rest in the source (`todo`), and the
application may repeat it.

**RecyclingBufferPool.** `get()` one `poll()` at a time, `release()`, the collector
that clears soft references, and streams as clients: constructor, `skip()`,
`close()`, the finalizer's second `close()`, and an application that gives the
pool a buffer that is too small.

**ThreadPool, JobQueue, CoverOptimize.** A section under `queueMutex` is a step; a
wait ends it, and a woken thread takes the mutex again later. Spurious wake-ups are
not needed to reach the interesting cases: every wait is in a loop that tests again.
The run drives the pool by a client that calls everything, and by the search for
training parameters, whose `COVER_best_t` has its own mutex. A dictionary is the
number of its job; sizes are small, error codes the largest of them.

**MTCompress.** Input is counted in chunks, the round buffer maps addresses to chunk
numbers, and a job's output is a sequence of tokens that name what it read and
against which history. So an overwritten source, a wrong prefix or a serial part out
of order show in the output. A worker reads its input in the step in which it
reports it consumed, the last moment at which it may.

**MatchState and the block compressors.** One call of a block compressor on a window
of a few bytes over an alphabet of two. Widths (4 and 8 bytes read at once, the
steps of skipping, table sizes) are constants, so that a block of twelve bytes has
matches of every kind. Reads past a segment's end give `junk`. The sequences a call
stores are executed by the decoder's rules and compared with the block.

**Ldm.** The rolling hash, the buckets, the raw sequences of an input in chunks, and
the way the block compressors are run on the literals between them.

**ZstdWindow, FrameWindow.** Addresses are integers and bytes are numbered in the
order in which they were fed, so that an index can be asked which byte it means. An
entry of the chain table has beside its index the byte it was made for, and lies in
the slot of its index; `ZSTD_reduceTable`, a new frame and the match finder change it
as they change the real one.

**Fse to BlockFrame.** Real bits: the numbers, tables and bytes are the ones
the code computes, for blocks of at most 1024 bytes. A *shape* gives a producer's
sequences and literals. `BlockCompress` takes them to bytes (with the repeat modes,
the estimates, the splitter), `Superblock` cuts a block to a target size, `BlockExec` takes bytes to writes in one memory in
which a write outside the room is noticed, `DictEntropy` adds what comes from a
dictionary, and `BlockFrame` has a step per block and side. The two sides share
nothing but the bytes.

## 3. Runs

| Run | Question | Properties |
|---|---|---|
| `autoclose` | Can the protocol free under a user, refuse wrongly, return early; does it implement `SharedUse`; does a won close end in a free? | `LifetimeInv`, `NoUseAfterFree`, `CloseReturnedMeansFreed`, `CloseRefusedOnlyInUse`, `RefinesSharedUse`, `ClosedLeadsToFreed` |
| `dictionaries` | Does a native call, or a worker of a frame in progress, ever read a freed dictionary? Do the streams release every dictionary they lock, once, whatever fails? | `NativeDictsAlive`, `StreamsPairLocks` |
| `input` | Is a complete stream read without loss, exception or early end, for all piece and array sizes, also while it grows in continuous mode? Does every `read()` return? | `NothingLost`, `NoSpuriousError`, `EndMeansComplete`, `ReadTerminates` |
| `output` | Is what was flushed decodable, a closed stream complete, nothing sent twice, with exceptions anywhere? Do the loops end? | `NoByteTwice`, `FlushDelivers`, `CloseCompletes`, `CallReturns` |
| `buffer` | Does the documented loop get everything of a complete stream, and end on that and on a stream cut inside a block? | `DoneMeansComplete`, `ReadLoopEnds` |
| `direct` | Is nothing lost when the target is full; is the frame complete after `close()`? | `BytesConserved`, `CloseCompletes` |
| `pool` | Has a buffer one owner? | `OneOwner` |
| `thread_pool` | Is the pool a queue of jobs; does a job outlive its context; is the best dictionary returned; is every waiting call woken? | `ImplementsJobQueue`, `ContextOutlivesJobs`, `BestIsBest`, `CallsReturn` |
| `mt` | Is the output the frame of the input, whatever the workers' speeds and failures; does 0 mean delivered; do frames end? | `OutputIsTheFrame`, `ZeroMeansDelivered`, `FrameEnds` |
| `codec` | Does every match finder, in every dictionary mode, store what a decoder rebuilds; do its assertions hold, its sums add up, its loops end? | `SequencesRebuildBlock`, `AssertionsHold`, `StatsAddUp`, `CallsReturn` |
| `window` | Does every usable index name its byte, through overwriting, reduction and dictionaries, and does the decoder have it? | `WindowIsTheHistory`, `TableEntriesAreRight`, `SlotsKeepTheirCycle`, `DecoderReaches` |
| `frame` | Are blocks accepted, with equal bytes and equal histories on both sides and no write out of bounds? | `WindowIntact`, `EveryBlockAccepted`, `WritesInBounds`, `HistoriesAgree` |

All of them hold. `AssertionsHold` collects a selection of the code's assertions: those of
the lazy, row, tree, optimal and long distance finders that the model's own operators do
not make trivially true; none of `zstd_fast.c` and `zstd_double_fast.c`. The `TypeOK` of a module documents its variables; that of
`AutoCloseBase`, `RecyclingBufferPool`, `DictSharing`, `InputStream`, `OutputStream` and
`DirectBufferCompressingStream` is proved (section 7), the
others were checked once on the instances
of the runs. Deadlock is checked in `autoclose` and in
`codec`, where it says that a call never stops half way. Everywhere else the program
really may stop: all objects are closed, the frame has ended, or the application
calls nothing more.

## 4. Bounds

- `AutoCloseBase`: three threads are a user, a second user and a closer at once, or
  two closers and a user; `MaxLock = 2` lets the overflow test fire. The theorems
  need no bound.
- `DictSharing`: two dictionaries, so that one replaces the other, and two consumers
  at a time, in six combinations of the five kinds (`Live`), the context and the output
  stream with workers. `MaxLock = 2` lets a dictionary's lock be held by both, and lets
  the limit be reached.
- `InputStream`, `BufferDecompressingStream`: three frames, an empty one and one
  with a split header among them; `MaxChunk` is large enough for the end of one
  frame and the whole next frame in one piece, `MaxLen` for a whole frame in one
  call and small enough for output to be held back. `NO_FORWARD_PROGRESS_MAX` is 3
  in place of 16: a smaller limit is reached earlier, so "no spurious error" is the
  harder to satisfy.
- `OutputStream`, `DirectBufferCompressingStream`: blocks of two bytes, three or
  five bytes in all, so that a block is left half full, filled and exceeded; an
  output array of two units does not hold a block with its header.
  Two or three calls may throw, enough for a failure, a retry that fails and a
  failure in `close()`.
- `RecyclingBufferPool`: two threads and two streams that may each `skip()` twice, so
  that a buffer given back by one is taken by the other; there is a buffer more
  than can be held at once, and a small one.

- `ThreadPool`, `CoverOptimize`: three threads, rings of one to three slots, four
  jobs, one resize: a limit below the busy count, a full ring and a shutdown with
  jobs waiting all occur. Two values each of `d` and `k`.
- `MTCompress`: eleven configurations (`MCMTCompress`), each a small instance of one
  mechanism: more input than the round buffer holds, overlapping jobs, long distance
  matching, partial jobs by flushing and by `rsyncable`, one job that fails (before its first
  chunk, or on any), a frame
  given up, empty frames (which neither fail nor are given up: finding 6). One or two
  workers: a third adds no new pair of neighbours.
- `codec`: histories of seven bytes and blocks of twelve, over two byte values;
  eighteen blocks chosen so that repeats at all small distances, none, and broken
  ones occur, three histories, three offset histories; the long distance matcher
  gets eleven inputs. All table sizes are a few entries, so that entries collide and
  are overwritten.
- `FrameWindow`: four input addresses with inputs of one and three bytes (so that
  they follow, overlap and replace each other), an index limit of 7 (so that reduction
  happens within six bytes and again in the next frame) and a window of two.
- `BlockFrame`: a window and a block of 1024 bytes, two blocks a frame, four when
  streaming, where the ring starts over. Nine settings cover the strategies on both
  sides of each test (1, 4, 5, 7, 9), splitting or not, three target sizes, no dictionary, a raw one, a trained
  one and one whose tables lack symbols, exact room and ample room. Scaled: the least
  number of sequences worth splitting (8 for 300), the fast Huffman loop's table log
  (6 for 11), the sequences from which tables are dynamic at low strategies (100 for
  2048), the extra literal buffer (64 for 65536), the least
  target size (40 for 1340). Literals above 40 KB, which are
  sampled first, do not occur.

Symmetry is used for dictionaries only, in runs without liveness: they are compared
for equality and never ordered.

## 5. Fairness

A thread inside a library call keeps running (`WF` on the steps of a call): the JVM
schedules it. Strong fairness appears in `InputStream` only, for an upstream that
does not answer zero for ever while it has bytes or has ended: `read()` loops as
long as it does, by design. In `DirectBufferCompressingStream` a
`flushBuffer()` that makes no room costs one of `MaxFailures` and makes the call
throw; otherwise it empties the target. `BufferDecompressingStream` assumes the application runs the loop the
documentation asks for, since the property is about that loop. Nothing else makes
an application call anything. In `CoverOptimize` every pool
thread and the client run while they can. In `MTCompress` the workers and the call
in progress run, and an application that has begun to end a frame repeats the call,
as `zstd.h` asks it to; nothing is assumed of one that has not.

## 6. Findings

Disagreements met while modelling. The first seven were reproduced with TLC on the modules
here, with the instance named; the properties of the runs are stated so that they hold
beside them, and section 3 says of what.

1. `loadDict(dict)` of a context acquires the context's lock, then the dictionary's,
   and enters the `try` only afterwards, against the rule stated at
   `AutoCloseBase.java:24`. With a closed dictionary the context stays locked and
   cannot be closed any more (`ZstdCompressCtx.java:428`, `ZstdDecompressCtx.java:72`).
   In `DictSharing`: one context, `ownLock` not 0 between two methods.
2. With `setRefMultipleDDicts(true)` only the last dictionary is kept locked and
   alive, while zstd keeps all of them (`ZstdInputStreamNoFinalizer.java:119`), against
   `zstd.h:1178`. The streams of `MultiStreams` are exempt from `NativeDictsAlive` for
   this reason. In `DictSharing`: one stream, two dictionaries, the formula
   `SeveralDictsAlive`.
3. A stream cut in a later frame can end in `-1`, because `frameFinished` is cleared
   only by `in.read()` (`ZstdInputStreamNoFinalizer.java:201`); the test at
   `src/src/test/scala/Zstd.scala:1178` expects an exception for a truncated stream.
   In `InputStream`: `CutInBlock` as the input, with the end of its first frame and what
   follows in one piece.
4. On a stream cut inside a frame header `hasRemaining()` stays true and `read()`
   returns 0 for ever; zstd returns from its header stage before it counts calls
   without progress (`BaseZstdBufferDecompressingStreamNoFinalizer.java:46`). In
   `BufferDecompressingStream`: a frame followed by `PartOfHeader`.
5. `jobReady` of a multi-threaded context survives a session reset or an error: when
   a job was prepared and the pool had no room for it, the next frame posts a cleared
   descriptor (`zstdmt_compress.c:875`, `:1269`, `:1473`). In `MTCompress`: one
   worker, a frame of two chunks given up while a job is ready, and `staleReady`
   `TRUE`; with `FALSE` such a frame is not begun.
6. The first job of an empty frame has nothing to consume, so it counts as completed
   before its worker has begun, and `ZSTDMT_waitForAllJobsCompleted` does not wait for it
   (`zstdmt_compress.c:1035`). When an allocation of that job fails, or the frame is given up, the
   descriptor is cleared while the worker still uses it; the note at 1006 says "ensure
   all workers are killed first !", the one at 1524 "job completed -> worker no longer
   active". In `MTCompress`: `Base` with `lengths` `<<0, 2>>` and one fault; a `continue`,
   an `end`, and an error before the worker reports. Such a frame takes both calls: a
   single `end` without input is compressed by the caller itself.
7. Workers may read a dictionary after its lock was given back, against `zstd.h:1121`
   ("its lifetime must outlive its usage within CCtx"). The first job of a frame keeps the
   pointer (`zstdmt_compress.c:1425`), a worker reads it after the call has returned (728),
   and `ZSTD_CCtx_reset` (`zstd_compress.c:1367`) does not wait for workers. So after
   `ZstdCompressCtx.reset()` in the middle of a multi-threaded frame, or after a one-shot
   `compress()` that gave such a frame up and a `loadDict()` of another dictionary,
   the first one can be closed under the worker. Likewise
   `ZstdOutputStreamNoFinalizer.close()` releases `active_dict` (511) before
   `freeCStream` joins the workers; when the `try` block threw, some may still run.
   In `DictSharing`: the formula `WorkerDictsAlive`, with one context (`loadDict`,
   `PostFirstJob`, `reset()`, `close()` of the dictionary), or with one output stream
   (`setDict`, `PostFirstJob`, `StreamCloseRelease`, `close()` of the dictionary), each in
   `MTConsumers`. For a frame in progress the dictionary is safe: zstd refuses another
   one until the frame has ended, and the call that ends it waits for the jobs (outside
   finding 6).

Two more locks are never released. `loadDict(dict)` of a context leaves the
dictionary locked when zstd refuses it (`ZstdCompressCtx.java:433`,
`ZstdDecompressCtx.java:77`), and `setDict(byte[])` of the direct-buffer stream after
`setDict(dict)` forgets a locked dictionary
(`ZstdDirectBufferCompressingStreamNoFinalizer.java:67`). `StreamsPairLocks` is
therefore about the other streams.

Read off the native code, none of them with an effect on the result unless said so:

- `zstdmt_compress.c:1263` resizes the tables before line 1269 waits for the jobs
  that use them; the comment at 364 asks for the opposite order.
- `zstdmt_compress.c:984` and `:1011`: when the creation of the context fails half
  way, the job table may be NULL where it is released.
- The line "pool capacity reached (should not happen)" (near
  `zstdmt_compress.c:274`) is reached with two workers; the buffer is then freed.
- `zstd_opt.c`, near 1385: a missing `else` makes a branch dead.
- `ZSTD_validateSequence` is given a position that already includes the match it
  validates, and starts at 0 for each block of a producer.
- `zstd.h:2914` says that a dictionary "won't have any effect" with a sequence
  producer; its entropy tables and its offsets are used.
- The second block size in `ZSTD_decodingBufferSize_internal`
  (`zstd_decompress.c:1977`) is needed: with one, literals kept at the end of the ring
  overwrite the window. The variant `RingOfOneBlock` shows it.

## 7. Proofs

Every theorem is about all values of the constants; "assumes" names the `ASSUME`s it
uses, which TLC evaluates on the instance of the run. The usual argument applies in
all modules: the property of the run is not inductive, a stronger invariant is, and
there is a lemma per action that says the action keeps it.

| Module | Theorem | States |
|---|---|---|
| `SharedObjects_proofs` | `TypeCorrect`, `Lifetime`, `UseAfterFreeImpossible`, `RacyCloseSafe`, `RefusalIsHonest`, `ClosedForever` | `TypeOK`, `LifetimeInv`, `NoUseAfterFree`, `CloseReturnedMeansFreed`, `CloseRefusedOnlyInUse`, `ClosedIsFinal` |
| | `Refinement` | `RefinesSharedUse` |
| | `PoolTypeCorrect`, `PoolOneOwner` | `PoolTypeOK`, `OneOwner` |
| `DictSharing_proofs` | `DictTypeCorrect`, `DictsAlive`, `StreamsPair` | `TypeOK`, `NativeDictsAlive`, `StreamsPairLocks` |
| `FrameWindow_proofs` | `HistoryKept`, `TableKept`, `SlotsKept`, `Reachable` | `WindowIsTheHistory`, `TableEntriesAreRight`, `SlotsKeepTheirCycle`, `DecoderReaches` |
| `CoverOptimize_proofs` | `CoverInvariant` | the inductive invariant `Inv` |
| | `PoolIsAQueue` | `ImplementsJobQueue` |
| | `JobsHaveContext`, `BestKept` | `ContextOutlivesJobs`, `BestIsBest` |
| `OutputStream_proofs` | `OutputTypeCorrect`, `OutputInOrder`, `OutputFlushes`, `OutputCloses` | `TypeOK`, `NoByteTwice`, `FlushDelivers`, `CloseCompletes` |
| `DecompressingStreams_proofs` | `InputTypeCorrect`, `InputNothingLost`, `InputNoSpuriousError`, `InputEndComplete` | `TypeOK`, `NothingLost`, `NoSpuriousError`, `EndMeansComplete` |
| | `BufferDoneMeansComplete` | `DoneMeansComplete` |
| `DirectBufferCompressingStream_proofs` | `DirectTypeCorrect`, `DirectConserves`, `DirectCloses` | `TypeOK`, `BytesConserved`, `CloseCompletes` |

**AutoCloseBase** (every finite set of threads, every limit of the counter; assumes
`MaxLockAssumption`, `ThreadsAssumption`). `NoUseAfterFree` is not inductive: a
compare-and-set may follow its read by any number of steps of others. `LifetimeInv`
adds what makes it so. The counter is the number of holders, or -1 with none
(`CounterInv`); a value that passed a method's tests is still within them at the
compare-and-set (`SeenInv`); the monitor's owner is the thread inside the block
(`MonitorInv`), so at most one closer is between the compare-and-set and `doClose()`;
the native object lives exactly while the object is open or that closer has not yet
freed it (`NativeInv`); and nobody gets at an object whose constructor has not ended
(`CtorInv`). `HoldersEnter`, `HoldersLeave` and `HoldersSame` say what each step does
to the set of holders and its size. `Refinement` maps users to `Holders`, open to
"counter is not -1", and freed to the native object; the compare-and-sets are the
abstract steps and all others stutter. TLC checks `LifetimeInv` in `autoclose`.

**RecyclingBufferPool** (any sets of threads, streams and buffers; assumes
`PoolAssumption`). `OneOwner` counts the places of a buffer; the invariant says that
open streams, running methods and the queue share none, pair by pair (`Apart`), and
that a stream's monitor keeps a second method out (`Exclusion`), without which two
`close()` would both give the buffer back.

**DictSharing** (any number of dictionaries and consumers; assumes `DictAssumption`,
`ConsumersAssumption`: an object has one class, and there are finitely many). What
keeps a dictionary alive is that its lock is at least the number of its holders
(`LockCoversHolders`). It is an inequality because of the locks of section 6 that are
never released: equality is false, and `NativeDictsAlive` does not need it. The other
half is that the native pointer is the argument of the method once the native call
has stored it, and the Java field before and after (`PointerInv`), which needs to know
who can be in which method (`MethodsInv`). `WorkersInv` adds the workers: while the frame
they belong to is in progress, the native pointer is the one they read, since no
dictionary is accepted then; so the lock that covers the pointer covers them. It is false
of a frame that was given up, and the theorem says nothing of those. `StreamsPair` is an action property: the
step-wise change of a lock equals the change of the share of the stream that moved.

**ZstdWindow and FrameWindow** (every window, table and block size and every index
limit within `LimitsAssumption`; also assumes
`WindowAssumption`, `FrameWindowAssumption`; inputs of any size anywhere in memory, over older
input too). `Good` says of a window, a table, a memory and a number of fed bytes that
every index names its byte and every entry is right and in its slot; it is stated of
values and not of variables because an action changes the window several times.
The first part of `FrameWindow_proofs` has a lemma for each operation (update, clear, correct, enforce the
distance), with the arithmetic of remainders that a correction by a multiple of the table
size rests on. `NextInv`, `ChunkInv` and `DictInv` add where the match finder goes on, that
the chunk in progress is the end of the prefix, and that the end of the dictionary is
the index behind its last byte. `call.safe` collects the assertions of
`ZSTD_window_correctOverflow`; that it is never false is part of the invariant.

`LimitsAssumption` states what the limits of zstd give: sizes that are powers of two,
room below `ZSTD_CURRENT_MAX` for window, table and a block, and a dictionary that
either needs an empty window (longer than `ZSTD_CHUNKSIZE_MAX`) or fits in that room.
Its last part is not implied by the code in one corner: `windowLog` 31 and `chainLog`
30, which zstd accepts on 64-bit machines, with a dictionary of more than about
448 MB. There the assertion `curr > newCurrent` does not follow; the theorems say
nothing of it.

**ThreadPool and CoverOptimize** (any number of threads, slots, jobs, values of `d` and
`k`; assumes `ThreadPoolAssumption`, `CoverAssumption`). `PoolIsAQueue` maps the ring to the sequence of
its jobs from `queueHead` on. `RingPop` and `RingPush` are the lemmas about head and
tail modulo the number of slots; one slot is special, since head equals tail whether
it is full or empty and `queueEmpty` alone tells. `JobInv` says that a job is in one
place: done, held by one thread, in the ring once, or in the hands of the client that
adds it. `LiveInv` counts the jobs in flight in `liveJobs`, which is why
`COVER_best_wait` may let the context be destroyed: a queued or running job belongs to
the current `d`, and its context exists while the count is not zero. `ThreadInv` and
`ClientInv` are what the pool adds: `numThreadsBusy` is the number of busy threads, no
thread ends before shutdown, and one is left as long as a job waits. `BestInv` relates
`best` to the smallest size of any job that was finished, unless an allocation failed.

**StreamEncoder, OutputStream, DirectBufferCompressingStream** (any number of bytes, any
block and output size from one on; `OutputAssumption` and `DirectAssumption`, any number
of failing calls).
`StreamEncoder_proofs` says what joining and cutting sequences of units does to the bytes
they carry, their order, the headers and the number of frames, and what each step of the
native call does to the encoder's two buffers. In both streams the properties are about
what has reached the sink, which no step can be judged by alone: a byte may be in the
application's source, in the encoder's input or output buffer, or in the output array.
So both invariants speak of `Whole`, the units in all these places in the order in which
they leave, and a step moves units within it.

- `OutputStream`: `OrderInv` holds whatever throws: an exception only drops units
  (`Part`, `ThrowInd`), so `Whole` stays in order and no byte is sent twice. While
  nothing has thrown, `Whole` carries exactly the accepted bytes, and `UnitsInv` counts
  frames: those that are complete in what was sent against those that were opened.
  `FrameInv` and `PushedInv` say what is empty where. They are needed because
  `frameEnded` and `headerDone` keep the values of the previous frame until the next
  one begins, and because the output array fills up while the encoder still holds output.
- `DirectBufferCompressingStream`: `Whole` decodes to the accepted bytes unless the
  encoder failed; the source holds the last of them (`TodoInv`), which is what makes
  the repetition of a call that threw for lack of space safe. `FrameInv` says that a
  frame has ended only inside `close()` or after it, with nothing left behind.

TLC checked both `IndInv` on the instances of the runs, and that of `OutputStream` also
with an output of one unit and blocks of three bytes.

**StreamDecoder, InputStream, BufferDecompressingStream** (any compressed streams, whole,
cut or malformed; any sizes of pieces and of output buffers from one on; assumes
`StreamAssumption`, which asks of the limit of calls without progress only that it is more
than 1). The properties are about streams of whole frames, and compare what was delivered
with `SizeOf`, a sum over all units. What is needed of such sums (they do not depend on
what follows, and grow by one unit at a time) is the first part of the module; each fact
follows from a least counterexample (`Least`, `NatInd`), so no induction scheme is needed.
`WholeFrames` is stated unit by unit: what may follow what. So the decoder's step from one
unit to the next can be judged by those two.

- The decoder: `DecoderInv` does not depend on the input. `BufferInv` says when output is
  pending and when the byte is held hostage; `ReturnInv`, in which stages a call ends and
  with which result: 0 only between frames, otherwise with `src` empty or `dst` full;
  `ProgressInv`, that a call without progress follows one with progress.
  `PlaceInv`, of streams of whole frames, names the unit the decoder has reached (`at`, from
  what was taken and what is left in `src`, the hostage not counted), and says that what it
  has produced, with what is pending, is the sum of the units before; that `src` is the
  part of `input` from there on; and that the last unit consumed agrees with the stage.
- `InputStream`: `FrameInv` relates `needRead` and `src` to the stage. The case that matters
  is an output array that is full when the frame ends or while the decoder holds output
  back: the next call must go to the decoder and not upstream, which would overwrite `src`.
  `RetryInv` is about calls without progress: there can be one, when `read()` comes back for
  output that is not there, but never a second without bytes in between, so the decoder's
  counter does not get to its limit (which is why that must exceed 1). `CountInv` says that
  delivered and received bytes add up to the produced ones. `CompleteInv` has `PlaceInv`
  and `frameFinished` between frames, and rules out `error` and `truncated`, in
  continuous mode with the file growing too.
- `BufferDecompressingStream`: `OpenInv`. Since `refill()` leaves the source empty only at
  the end of the input, an empty source between calls means that the decoder is between
  frames, so `finishedFrame` with an empty source is the end.

The invariants were checked by TLC beforehand, on all sequences of up to three to five units,
malformed ones included.

Checked by TLC only:

- liveness (`ClosedLeadsToFreed`, `ReadTerminates`, `CallReturns`, `ReadLoopEnds`,
  `CallsReturn`, `FrameEnds`): it needs fairness and ENABLED;
- the codec and the frame, which are built from recursive operators;
- `MTCompress`: its invariant has to relate the job table, the round buffer with its
  prefix, the windows of long distance matching and the output, and is not worked out.
  Findings 5 and 6 are exceptions that a theorem would have to name.

## 8. Not modelled

- Corrupt compressed data, on any level: every frame here was written by the compressor
  or cut short.
- The splitter that looks at the input before a block (`zstd_preSplit.c`): it chooses
  where a block ends, from statistics. Frame headers, the checksum and the empty last
  block of a frame in `BlockFrame`: its frames are sequences of blocks.
- A sub-block that does not fit into the room the caller gave: `Superblock` has an error
  there, while the code copies a table without a test. With `ZSTD_COMPRESSBOUND` of room,
  which the run gives, it is not reached.
- The choice of dictionary content: suffix sorting (`divsufsort.c`), the scores of
  segments, the header of a dictionary.
- Checksums (`xxhash.h`): arithmetic without state the properties could tell apart; where
  a checksum matters (`MTCompress`) it is a token. Legacy formats: not compiled in.
- Parameter plumbing: setters, defaults per level, size estimates, workspace layout
  (`zstd_cwksp.h`); the declarations of public headers and of `jni.h`.
- The static calls of `Zstd`: each passes its arguments to one native call.
  `util.Native`: file and class loader I/O. Failures inside the JVM while an array is
  pinned.
- In `BlockCompress`: the fallback to the internal match finder when a sequence producer
  fails (`ZSTD_c_enableSeqProducerFallback`, off by default): without it the error is
  returned, which is modelled; with it the block is one of those of the `codec` run. The
  checks for more sequences than there is room for, for a decoded block above the maximum
  and for a Huffman stream that does not end with its segment are there, but the frames
  of the run, which the compressor wrote, never fail them.
- In `MTCompress`: resizing between frames, a dictionary as the first prefix, the
  formulas for job size and overlap.

## 9. Plan

Done: the modules of section 2 and the proofs of section 7.

1. Proofs: `ZeroMeansDelivered` and `OutputIsTheFrame` of `MTCompress`, first without long
   distance matching: one job per slot, one buffer per job, a section of the round buffer
   that no job in flight reads.
2. Frame headers in `BlockFrame`: the header on the wire, content size and checksum
   checked at the end, several frames in a row.
3. Streaming calls of `ZstdCompressCtx` and `ZstdDecompressCtx`: the packed result
   as operators with 32-bit widths, and the calls over `StreamEncoder` and
   `StreamDecoder`.
4. Java side of sequence producers: the lifetime of `seqprod_state` under callbacks
   that throw, with the rest of `ZstdCompressCtx.doClose()`.
5. `ZstdDictTrainer`: the bookkeeping of samples; `util.Native`: loading once.
