----------------------------- MODULE DictSharing -----------------------------
(***************************************************************************)
(* Dictionaries shared between the objects that compress or decompress     *)
(* with them.  A dictionary is an AutoCloseBase; its shared lock is used   *)
(* here at the level of SharedUse: acquire, release and close are atomic,  *)
(* which AutoCloseBase_proofs justifies.  Everything between two of those  *)
(* operations interleaves: each consumer is driven by one thread of its    *)
(* own, and any thread (the finalizer's too) may close a dictionary.       *)
(*                                                                         *)
(* A consumer keeps two records of its dictionary, a Java field whose      *)
(* dictionary it has locked, and the pointer inside the native context.    *)
(* A compressor with workers has a third: the first job of a frame keeps   *)
(* the pointer and a worker thread reads it after the call has returned.   *)
(* The Java code is correct when no pointer outlives the lock.             *)
(***************************************************************************)
EXTENDS Integers, FiniteSets

CONSTANTS Dicts,          \* ZstdDictCompress or ZstdDictDecompress objects
          Ctxs,           \* ZstdCompressCtx, ZstdDecompressCtx
          InStreams,      \* ZstdInputStreamNoFinalizer
          OutStreams,     \* ZstdOutputStreamNoFinalizer
          BufStreams,     \* BaseZstdBufferDecompressingStreamNoFinalizer
          DirectStreams,  \* ZstdDirectBufferCompressingStreamNoFinalizer
          NoDict,         \* the null reference
          MaxLock,        \* Integer.MAX_VALUE
          MultiStreams,   \* the input streams whose application calls setRefMultipleDDicts()
          MTConsumers,    \* the compressors whose application calls setWorkers()
          AllocMayFail    \* may a native allocation fail?

Streams   == InStreams \cup OutStreams \cup BufStreams
Consumers == Ctxs \cup Streams \cup DirectStreams

ASSUME DictAssumption ==
    /\ NoDict \notin Dicts /\ MaxLock \in Nat \ {0} /\ AllocMayFail \in BOOLEAN
    /\ MultiStreams \subseteq InStreams /\ MTConsumers \subseteq Ctxs \cup OutStreams

\* An object is of one class; a program has finitely many.
ASSUME ConsumersAssumption ==
    /\ IsFiniteSet(Consumers)
    /\ Ctxs \cap (Streams \cup DirectStreams) = {}
    /\ Streams \cap DirectStreams = {}
    /\ BufStreams \cap (InStreams \cup OutStreams) = {}

VARIABLES dictLock,   \* each dictionary's shared lock, -1 when closed and freed
          ownLock,    \* a context's own shared lock
          open,       \* the consumer's native object exists
          pc,         \* where each consumer's current method is
          arg,        \* the dictionary that method is about
          field,      \* compression_dict, decompression_dict, active_dict, fastDict
          ref,        \* cctx->cdict, dctx->ddict when it is one of Dicts
          refSet,     \* dctx->ddictSet
          multiple,   \* ZSTD_d_refMultipleDDicts
          stage,      \* streamStage: "init", or in the middle of a frame, "jobs" once
                      \* the first job of a multi-threaded frame is posted, else "busy"
          worker      \* jobs[0].cdict as long as a worker may read it

vars == <<dictLock, ownLock, open, pc, arg, field, ref, refSet, multiple, stage, worker>>

Init ==
    /\ dictLock = [d \in Dicts |-> 0]
    /\ ownLock = [c \in Ctxs |-> 0]
    /\ open = [c \in Consumers |-> TRUE]
    /\ pc = [c \in Consumers |-> "idle"]
    /\ arg = [c \in Consumers |-> NoDict]
    /\ field = [c \in Consumers |-> NoDict]
    /\ ref = [c \in Consumers |-> NoDict]
    /\ refSet = [c \in Consumers |-> {}]
    /\ multiple = [c \in Consumers |-> FALSE]
    /\ stage = [c \in Consumers |-> "init"]
    /\ worker = [c \in Consumers |-> NoDict]

-----------------------------------------------------------------------------
(***************************************************************************)
(* Dictionaries                                                            *)
(***************************************************************************)
CanAcquire(d) == dictLock[d] \in 0..(MaxLock - 1)

\* The locks after d is released; releasing null is no release.
Released(locks, d) == [e \in Dicts |-> IF e = d THEN locks[e] - 1 ELSE locks[e]]

Acquired(d) == [dictLock EXCEPT ![d] = @ + 1]

\* close() of a dictionary, by any thread; in use, it throws and changes nothing.
DictClose(d) ==
    /\ dictLock[d] = 0
    /\ dictLock' = [dictLock EXCEPT ![d] = -1]
    /\ UNCHANGED <<ownLock, open, pc, arg, field, ref, refSet, multiple, stage, worker>>

\* Go on inside the method, or leave it.
Goto(c, place) == pc' = [pc EXCEPT ![c] = place] /\ arg' = arg
Return(c) == pc' = [pc EXCEPT ![c] = "idle"] /\ arg' = [arg EXCEPT ![c] = NoDict]
Call(c, d, place) == pc' = [pc EXCEPT ![c] = place] /\ arg' = [arg EXCEPT ![c] = d]

(***************************************************************************)
(* The native side of loading a dictionary                                 *)
(***************************************************************************)

\* A mistake, for judging the properties: ZSTD_CCtx_refCDict without its check of the stage.
NativeRefInFrame(c, d) ==
    /\ ref' = [ref EXCEPT ![c] = d]
    /\ refSet' = [refSet EXCEPT ![c] = IF multiple[c] /\ d # NoDict THEN @ \cup {d} ELSE @]

\* ZSTD_CCtx_refCDict and ZSTD_DCtx_refDDict succeed only between frames.
NativeRef(c, d) ==
    /\ stage[c] = "init"
    /\ ref' = [ref EXCEPT ![c] = d]
    /\ refSet' = [refSet EXCEPT ![c] = IF multiple[c] /\ d # NoDict THEN @ \cup {d} ELSE @]

\* Adding to the set may fail to allocate after the pointer is already set.
NativeRefFails(c, d) ==
    /\ \/ stage[c] # "init" /\ ref' = ref
       \/ AllocMayFail /\ stage[c] = "init" /\ multiple[c] /\ ref' = [ref EXCEPT ![c] = d]
    /\ UNCHANGED refSet

\* ZSTD_CCtx_loadDictionary and ZSTD_DCtx_loadDictionary drop the pointer first;
\* the copy of the bytes that follows may still fail.
NativeLoadBytes(c) ==
    /\ stage[c] = "init"
    /\ ref' = [ref EXCEPT ![c] = NoDict]
    /\ UNCHANGED refSet

(***************************************************************************)
(* ZstdCompressCtx and ZstdDecompressCtx.  ensureOpen() and the            *)
(* acquireSharedLock() of the context itself guard every method.           *)
(***************************************************************************)
CtxMayEnter(c) == pc[c] = "idle" /\ open[c] /\ ownLock[c] < MaxLock

(***************************************************************************)
(* A plausible mistake in this code, for judging the properties; no part   *)
(* of the specification.                                                   *)
(***************************************************************************)
\* setDict() that does not release the new dictionary on an error.
StreamLoadErrorKeepsLock(c) ==
    /\ pc[c] = "load"
    /\ NativeRefFails(c, arg[c])
    /\ Return(c)
    /\ UNCHANGED <<dictLock, ownLock, open, field, multiple, stage, worker>>

\* loadDict(dict): lock the context, then the dictionary.
CtxLoadDict(c, d) ==
    /\ CtxMayEnter(c)
    /\ ownLock' = [ownLock EXCEPT ![c] = @ + 1]
    /\ Call(c, d, IF d = NoDict THEN "ctxLoad" ELSE "ctxAcquire")
    /\ UNCHANGED <<dictLock, open, field, ref, refSet, multiple, stage, worker>>

\* dict.acquireSharedLock() is outside the try block: if it throws, the finally
\* block that unlocks the context does not run.
CtxAcquireDict(c) ==
    /\ pc[c] = "ctxAcquire"
    /\ IF CanAcquire(arg[c])
       THEN dictLock' = Acquired(arg[c]) /\ Goto(c, "ctxLoad")
       ELSE dictLock' = dictLock /\ Return(c)
    /\ UNCHANGED <<ownLock, open, field, ref, refSet, multiple, stage, worker>>

CtxLoadNative(c) ==
    /\ pc[c] = "ctxLoad"
    /\ NativeRef(c, arg[c])
    /\ Goto(c, "ctxSwap")
    /\ UNCHANGED <<dictLock, ownLock, open, field, multiple, stage, worker>>

\* The native error becomes a ZstdException; finally unlocks the context only.
CtxLoadError(c) ==
    /\ pc[c] = "ctxLoad"
    /\ NativeRefFails(c, arg[c])
    /\ ownLock' = [ownLock EXCEPT ![c] = @ - 1]
    /\ Return(c)
    /\ UNCHANGED <<dictLock, open, field, multiple, stage, worker>>

\* Release the dictionary used so far, keep the new one, unlock the context.
CtxSwap(c) ==
    /\ pc[c] = "ctxSwap"
    /\ dictLock' = Released(dictLock, field[c])
    /\ field' = [field EXCEPT ![c] = arg[c]]
    /\ ownLock' = [ownLock EXCEPT ![c] = @ - 1]
    /\ Return(c)
    /\ UNCHANGED <<open, ref, refSet, multiple, stage, worker>>

\* loadDict(byte[]): on success the dictionary object is released.
CtxLoadBytes(c) ==
    /\ CtxMayEnter(c)
    /\ NativeLoadBytes(c)
    /\ \/ /\ ownLock' = [ownLock EXCEPT ![c] = @ + 1]
          /\ Call(c, NoDict, "ctxSwap")
       \/ AllocMayFail /\ UNCHANGED <<ownLock, arg, pc>>
    /\ UNCHANGED <<dictLock, open, field, multiple, stage, worker>>

\* reset(): the native reset of session and parameters never fails, and waits for
\* no worker.
CtxReset(c) ==
    /\ CtxMayEnter(c)
    /\ stage' = [stage EXCEPT ![c] = "init"]
    /\ ref' = [ref EXCEPT ![c] = NoDict]
    /\ multiple' = [multiple EXCEPT ![c] = FALSE]
    /\ ownLock' = [ownLock EXCEPT ![c] = @ + 1]
    /\ Call(c, NoDict, "ctxSwap")
    /\ UNCHANGED <<dictLock, open, field, refSet, worker>>

\* close() and the first half of doClose(), which joins the workers; with the lock
\* taken it throws.
CtxClose(c) ==
    /\ pc[c] = "idle" /\ open[c] /\ ownLock[c] = 0
    /\ open' = [open EXCEPT ![c] = FALSE]
    /\ ref' = [ref EXCEPT ![c] = NoDict]
    /\ refSet' = [refSet EXCEPT ![c] = {}]
    /\ worker' = [worker EXCEPT ![c] = NoDict]
    /\ Goto(c, "release")
    /\ UNCHANGED <<dictLock, ownLock, field, multiple, stage>>

\* The dictionary is released after the native object, in doClose() of a context
\* and in close() of the buffer streams.
ReleaseField(c) ==
    /\ pc[c] = "release"
    /\ dictLock' = Released(dictLock, field[c])
    /\ field' = [field EXCEPT ![c] = NoDict]
    /\ Return(c)
    /\ UNCHANGED <<ownLock, open, ref, refSet, multiple, stage, worker>>

(***************************************************************************)
(* ZstdInputStream, ZstdOutputStream and the buffer decompressing streams. *)
(***************************************************************************)

\* setDict(dict); an output stream refuses it in the middle of a frame.  With a
\* closed dictionary acquireSharedLock() throws and nothing has happened.
StreamSetDict(c, d) ==
    /\ pc[c] = "idle" /\ open[c]
    /\ c \in OutStreams => stage[c] = "init"
    /\ CanAcquire(d)
    /\ dictLock' = Acquired(d)
    /\ Call(c, d, "load")
    /\ UNCHANGED <<ownLock, open, field, ref, refSet, multiple, stage, worker>>

StreamLoadNative(c) ==
    /\ pc[c] = "load"
    /\ NativeRef(c, arg[c])
    /\ Goto(c, "swap")
    /\ UNCHANGED <<dictLock, ownLock, open, field, multiple, stage, worker>>

StreamLoadError(c) ==
    /\ pc[c] = "load"
    /\ NativeRefFails(c, arg[c])
    /\ dictLock' = Released(dictLock, arg[c])
    /\ Return(c)
    /\ UNCHANGED <<ownLock, open, field, multiple, stage, worker>>

StreamSwap(c) ==
    /\ pc[c] = "swap"
    /\ dictLock' = Released(dictLock, field[c])
    /\ field' = [field EXCEPT ![c] = arg[c]]
    /\ Return(c)
    /\ UNCHANGED <<ownLock, open, ref, refSet, multiple, stage, worker>>

\* setDict(byte[]) leaves the field, and so the lock, alone.
StreamSetDictBytes(c) ==
    /\ pc[c] = "idle" /\ open[c]
    /\ NativeLoadBytes(c)
    /\ UNCHANGED <<dictLock, ownLock, open, pc, arg, field, multiple, stage, worker>>

\* ZSTD_DCtx_setParameter works only between frames.
SetRefMultipleDDicts(c) ==
    /\ pc[c] = "idle" /\ open[c] /\ stage[c] = "init"
    /\ \E b \in BOOLEAN : multiple' = [multiple EXCEPT ![c] = b]
    /\ UNCHANGED <<dictLock, ownLock, open, pc, arg, field, ref, refSet, stage, worker>>

\* close() of ZstdInputStream and ZstdOutputStream: first the dictionary, in the
\* finally block of the latter, so after an exception in the middle of a frame ...
StreamCloseRelease(c) ==
    /\ pc[c] = "idle" /\ open[c]
    /\ dictLock' = Released(dictLock, field[c])
    /\ field' = [field EXCEPT ![c] = NoDict]
    /\ Goto(c, "free")
    /\ UNCHANGED <<ownLock, open, ref, refSet, multiple, stage, worker>>

\* ... then the native stream.  The calling thread looks at no dictionary any more;
\* workers may until freeCStream has joined them.
StreamCloseFree(c) ==
    /\ pc[c] = "free"
    /\ open' = [open EXCEPT ![c] = FALSE]
    /\ ref' = [ref EXCEPT ![c] = NoDict]
    /\ refSet' = [refSet EXCEPT ![c] = {}]
    /\ worker' = [worker EXCEPT ![c] = NoDict]
    /\ Return(c)
    /\ UNCHANGED <<dictLock, ownLock, field, multiple, stage>>

\* close() of the buffer streams frees the native stream first.
BufClose(c) ==
    /\ pc[c] = "idle" /\ open[c]
    /\ open' = [open EXCEPT ![c] = FALSE]
    /\ ref' = [ref EXCEPT ![c] = NoDict]
    /\ refSet' = [refSet EXCEPT ![c] = {}]
    /\ stage' = [stage EXCEPT ![c] = "init"]
    /\ Goto(c, "release")
    /\ UNCHANGED <<dictLock, ownLock, field, multiple, worker>>

(***************************************************************************)
(* ZstdDirectBufferCompressingStream: setDict() only remembers, the first  *)
(* compress() hands the dictionary to the native stream.  For these        *)
(* streams stage "busy" is the flag initialized, and close() clears it.    *)
(***************************************************************************)

\* setDict(dict) tests initialized, not closed.
DirectSetDict(c, d) ==
    /\ pc[c] = "idle" /\ stage[c] = "init"
    /\ CanAcquire(d)
    /\ dictLock' = Acquired(d)
    /\ Call(c, d, "swap")
    /\ UNCHANGED <<ownLock, open, field, ref, refSet, multiple, stage, worker>>

\* setDict(byte[]) forgets the dictionary object without releasing it.
DirectSetDictBytes(c) ==
    /\ pc[c] = "idle" /\ stage[c] = "init"
    /\ field' = [field EXCEPT ![c] = NoDict]
    /\ UNCHANGED <<dictLock, ownLock, open, pc, arg, ref, refSet, multiple, stage, worker>>

\* The first compress(): initCStreamWithFastDict, initCStreamWithDict or
\* initCStream, whatever setDict() left.
DirectInitialize(c) ==
    /\ pc[c] = "idle" /\ open[c] /\ stage[c] = "init"
    /\ ref' = [ref EXCEPT ![c] = field[c]]
    /\ stage' = [stage EXCEPT ![c] = "busy"]
    /\ UNCHANGED <<dictLock, ownLock, open, pc, arg, field, refSet, multiple, worker>>

-----------------------------------------------------------------------------
\* A native compression or decompression call: it reads the dictionary and ends
\* inside a frame or between two.  With several dictionaries referenced the
\* frame's header selects one of them.  A multi-threaded frame ends, completed or
\* in the error of a job, when its jobs have.
NativeWork(c) ==
    /\ pc[c] = "idle" /\ open[c]
    /\ stage[c] = "jobs" => worker[c] = NoDict
    /\ \E s \in {"init", "busy"} : stage' = [stage EXCEPT ![c] = s]
    /\ \E d \in IF multiple[c] /\ ref[c] # NoDict THEN refSet[c] \cup {ref[c]} ELSE {ref[c]} :
           ref' = [ref EXCEPT ![c] = d]
    /\ UNCHANGED <<dictLock, ownLock, open, pc, arg, field, refSet, multiple, worker>>

\* The call that posts the first job of a multi-threaded frame, whose beginning has
\* waited for what was left of the frame before.
PostFirstJob(c) ==
    /\ pc[c] = "idle" /\ open[c]
    /\ stage[c] # "jobs" /\ worker[c] = NoDict
    /\ stage' = [stage EXCEPT ![c] = "jobs"]
    /\ worker' = [worker EXCEPT ![c] = ref[c]]
    /\ UNCHANGED <<dictLock, ownLock, open, pc, arg, field, ref, refSet, multiple>>

\* The worker has compressed the first job, while the owner of c does anything.
WorkerDone(c) ==
    /\ worker[c] # NoDict
    /\ worker' = [worker EXCEPT ![c] = NoDict]
    /\ UNCHANGED <<dictLock, ownLock, open, pc, arg, field, ref, refSet, multiple, stage>>

\* A call that leaves the multi-threaded frame behind with its jobs running:
\* compress() of a context resets the session first, and so does the error for
\* input after the end of the frame.  The frame then begun has no workers, or
\* PostFirstJob waits.
AbandonFrame(c) ==
    /\ pc[c] = "idle" /\ open[c]
    /\ stage[c] = "jobs"
    /\ stage' = [stage EXCEPT ![c] = "busy"]
    /\ UNCHANGED <<dictLock, ownLock, open, pc, arg, field, ref, refSet, multiple, worker>>

CtxNext(c) ==
    \/ \E d \in Dicts \cup {NoDict} : CtxLoadDict(c, d)
    \/ CtxAcquireDict(c) \/ CtxLoadNative(c) \/ CtxLoadError(c) \/ CtxSwap(c)
    \/ CtxLoadBytes(c) \/ CtxReset(c) \/ CtxClose(c) \/ ReleaseField(c) \/ NativeWork(c)

StreamNext(c) ==
    \/ \E d \in Dicts : StreamSetDict(c, d)
    \/ StreamLoadNative(c) \/ StreamLoadError(c) \/ StreamSwap(c)
    \/ StreamSetDictBytes(c) \/ NativeWork(c)

Next ==
    \/ \E d \in Dicts : DictClose(d)
    \/ \E c \in Ctxs : CtxNext(c)
    \/ \E c \in Streams : StreamNext(c)
    \/ \E c \in MultiStreams : SetRefMultipleDDicts(c)
    \/ \E c \in MTConsumers : PostFirstJob(c) \/ WorkerDone(c) \/ AbandonFrame(c)
    \/ \E c \in InStreams \cup OutStreams : StreamCloseRelease(c) \/ StreamCloseFree(c)
    \/ \E c \in BufStreams : BufClose(c) \/ ReleaseField(c)
    \/ \E c \in DirectStreams :
          \/ \E d \in Dicts : DirectSetDict(c, d)
          \/ StreamSwap(c) \/ DirectSetDictBytes(c) \/ DirectInitialize(c)
          \/ BufClose(c) \/ ReleaseField(c)

Spec == Init /\ [][Next]_vars

-----------------------------------------------------------------------------
(***************************************************************************)
(* Properties                                                              *)
(***************************************************************************)

\* Every variable has its type.
TypeOK ==
    /\ dictLock \in [Dicts -> -1..MaxLock]
    /\ ownLock \in [Ctxs -> 0..MaxLock]
    /\ open \in [Consumers -> BOOLEAN]
    /\ pc \in [Consumers -> {"idle", "ctxAcquire", "ctxLoad", "ctxSwap", "release",
                             "load", "swap", "free"}]
    /\ arg \in [Consumers -> Dicts \cup {NoDict}]
    /\ field \in [Consumers -> Dicts \cup {NoDict}]
    /\ ref \in [Consumers -> Dicts \cup {NoDict}]
    /\ refSet \in [Consumers -> SUBSET Dicts]
    /\ multiple \in [Consumers -> BOOLEAN]
    /\ stage \in [Consumers -> {"init", "busy", "jobs"}]
    /\ worker \in [Consumers -> Dicts \cup {NoDict}]

\* The dictionaries that native code of c may read: in a call, and in the jobs of
\* the frame in progress.
Reachable(c) ==
    ({ref[c]} \cup (IF multiple[c] THEN refSet[c] ELSE {})
              \cup (IF stage[c] = "jobs" THEN {worker[c]} ELSE {})) \ {NoDict}

\* No native code reads a freed dictionary: whatever a consumer that still accepts
\* work points at has not been closed, nor has what the workers of its frame in
\* progress read.  Left out are a stream that references several dictionaries, of
\* which Java keeps only the last locked, and the workers of a frame that was given
\* up: see SeveralDictsAlive and WorkerDictsAlive.
NativeDictsAlive ==
    \A c \in Consumers : open[c] /\ pc[c] # "free" /\ c \notin MultiStreams =>
        \A d \in Reachable(c) : dictLock[d] # -1

\* "CDict is just referenced, its lifetime must outlive its usage within CCtx"
\* (zstd.h): no worker ever reads a freed dictionary.  No run has it, for the code
\* breaks it (finding 7 of the README): reset() in the middle of a frame, and close()
\* of an output stream after an exception, give the lock back without waiting for the
\* workers.
WorkerDictsAlive ==
    \A c \in Consumers : worker[c] # NoDict => dictLock[worker[c]] # -1

\* "DDict is just referenced, its lifetime must outlive its usage from DCtx" (zstd.h):
\* every dictionary from which a frame's header may select is alive.  No run has it,
\* for the code breaks it (finding 2 of the README): of the dictionaries of a stream
\* with setRefMultipleDDicts(true) Java keeps only the last one locked.
SeveralDictsAlive ==
    \A c \in MultiStreams : open[c] /\ pc[c] # "free" =>
        \A d \in Reachable(c) : dictLock[d] # -1

\* Who has locked d and will release it: fields, and methods in progress.
HoldersOf(d) ==
    {<<c, "field">> : c \in {c \in Consumers : field[c] = d}}
    \cup {<<c, "arg">> : c \in {c \in Consumers : pc[c] \in {"ctxLoad", "ctxSwap", "load", "swap"}
                                                   /\ arg[c] = d}}

\* "This call must be paired with a try block with releaseSharedLock() in the
\* finally block": in the streams that handle their errors a lock comes and goes
\* with its holder, in every step and whatever fails, so a dictionary nobody uses
\* any more can be closed.
StreamsPairLocks ==
    [][\A d \in Dicts :
         (\A c \in Ctxs \cup DirectStreams : field'[c] = field[c] /\ pc'[c] = pc[c]) /\ dictLock'[d] # -1 =>
             dictLock'[d] - dictLock[d] = Cardinality(HoldersOf(d)') - Cardinality(HoldersOf(d))]_vars

=============================================================================
