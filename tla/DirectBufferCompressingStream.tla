-------------------- MODULE DirectBufferCompressingStream --------------------
(***************************************************************************)
(* ZstdDirectBufferCompressingStreamNoFinalizer: compress(), flush() and   *)
(* close() into a target buffer that the application empties, or does not, *)
(* when flushBuffer() is called.  dst is what the target holds.            *)
(*                                                                         *)
(* A call that throws for lack of space leaves the positions of source and *)
(* target where the encoder left them, so the application may make room    *)
(* and call again with the same source: todo is what remains in it.        *)
(***************************************************************************)
EXTENDS StreamEncoder

CONSTANTS MaxBytes,     \* bound on what the application compresses
          MaxFailures   \* bound on the calls that throw

ASSUME DirectAssumption ==
    /\ {MaxBytes, BlockSize, DstSize} \subseteq Nat \ {0}
    /\ MaxFailures \in Nat

VARIABLES closed,
          initialized,
          sink,          \* what flushBuffer() has taken out of targets
          freed,         \* how often the native stream was freed
          accepted,      \* bytes handed to compress()
          compressed,    \* compress() has been called
          failures,      \* how many calls have thrown
          broken,        \* one of them with an error of the encoder
          outcome

java == <<closed, initialized, freed>>
app  == <<accepted, compressed>>
fate == <<failures, broken, outcome>>
vars == <<java, op, pc, todo, dst, size, native, sink, app, fate>>

Init ==
    /\ closed = FALSE /\ initialized = FALSE /\ freed = 0
    /\ op = "none" /\ pc = "idle" /\ todo = <<>> /\ dst = <<>> /\ size = 0
    /\ NativeStart
    /\ sink = <<>> /\ accepted = 0 /\ compressed = FALSE
    /\ failures = 0 /\ broken = FALSE /\ outcome = "none"

Return(r) ==
    /\ op' = "none" /\ pc' = "idle" /\ size' = 0 /\ todo' = todo
    /\ outcome' = r /\ UNCHANGED <<failures, broken>>

\* close() frees the stream in its finally block.
Throw ==
    /\ failures < MaxFailures
    /\ IF op = "close" THEN pc' = "release" /\ op' = op ELSE pc' = "idle" /\ op' = "none"
    /\ size' = 0 /\ todo' = todo
    /\ failures' = failures + 1 /\ outcome' = "thrown"

\* What the application's flushBuffer() may do: take the contents and clear the
\* target, or nothing at all, which is what the method does unless overridden.
Emptied   == sink' = sink \o dst /\ dst' = <<>>
Untouched == UNCHANGED <<sink, dst>>

(***************************************************************************)
(* Plausible mistakes in this code, for judging the properties; no part of *)
(* the specification.                                                      *)
(***************************************************************************)
\* compress() sets the position of source only when it returns.
NoRoomRewindsSource ==
    /\ pc = "makeRoom"
    /\ Untouched
    /\ failures < MaxFailures
    /\ op' = "none" /\ pc' = "idle" /\ size' = 0
    /\ todo' = [i \in 1..accepted |-> i]
    /\ failures' = failures + 1 /\ outcome' = "thrown"
    /\ UNCHANGED <<java, native, app, broken>>

\* The end of the frame is taken for done while some of it is still to flush.
FlushedDoneOnce ==
    /\ pc = "flushTarget"
    /\ Emptied \/ Untouched
    /\ IF op = "close" THEN Goto("release") /\ UNCHANGED fate ELSE Return("flushed")
    /\ UNCHANGED <<java, native, app>>

(***************************************************************************)
(* compress()                                                              *)
(***************************************************************************)
\* The first call initializes the native stream.  An application whose last call
\* threw goes on with the same source.
Compress(n) ==
    /\ pc = "idle" /\ ~closed
    /\ IF todo # <<>> THEN n = 0 ELSE accepted + n <= MaxBytes
    /\ IF initialized THEN UNCHANGED native ELSE ZSTD_CCtx_reset
    /\ initialized' = TRUE /\ compressed' = TRUE
    /\ op' = "write" /\ pc' = "loop" /\ size' = 0 /\ outcome' = "none"
    /\ todo' = IF todo # <<>> THEN todo ELSE [i \in 1..n |-> accepted + i]
    /\ accepted' = accepted + n
    /\ UNCHANGED <<closed, freed, dst, sink, failures, broken>>

\* initCStream() or its variants with a dictionary fail; the stream stays as it was.
InitError ==
    /\ pc = "idle" /\ ~closed /\ ~initialized
    /\ ZSTD_CCtx_reset
    /\ Throw
    /\ UNCHANGED <<java, dst, sink, app, broken>>

\* while (source.hasRemaining())
CompressLoop ==
    /\ pc = "loop"
    /\ IF todo = <<>> THEN Return("compressed")
       ELSE Goto(IF Len(dst) = DstSize THEN "makeRoom" ELSE "native") /\ UNCHANGED fate
    /\ UNCHANGED <<java, dst, native, sink, app>>

\* The target is full: flushBuffer() empties it ...
Room ==
    /\ pc = "makeRoom"
    /\ Emptied
    /\ Goto("native")
    /\ UNCHANGED <<java, native, app, fate>>

\* ... or does not, or throws itself; compress() throws.
NoRoom ==
    /\ pc = "makeRoom"
    /\ Untouched
    /\ Throw
    /\ UNCHANGED <<java, native, app, broken>>

CompressedSome ==
    /\ pc = "emit" /\ op = "write"
    /\ Goto("loop")
    /\ UNCHANGED <<java, dst, native, sink, app, fate>>

(***************************************************************************)
(* flush() and close()                                                     *)
(***************************************************************************)
Flush ==
    /\ pc = "idle" /\ ~closed
    /\ IF initialized
       THEN op' = "flush" /\ pc' = "native" /\ outcome' = "none" /\ UNCHANGED <<todo, size, failures, broken>>
       ELSE Return("flushed")
    /\ UNCHANGED <<java, dst, native, sink, app>>

\* An application that closes gives up what a call that threw left in its source.
Close ==
    /\ pc = "idle" /\ ~closed
    /\ op' = "close" /\ pc' = IF initialized THEN "native" ELSE "release"
    /\ todo' = <<>> /\ accepted' = accepted - Len(todo)
    /\ outcome' = "none"
    /\ UNCHANGED <<java, dst, size, native, sink, compressed, failures, broken>>

\* What the native call produced is in the target; flushBuffer() is called.
NativeDone ==
    /\ pc = "emit" /\ op # "write"
    /\ Goto("flushTarget")
    /\ UNCHANGED <<java, dst, native, sink, app, fate>>

\* needed > 0 and there is room: another native call.
FlushedMore ==
    /\ pc = "flushTarget" /\ size > 0
    /\ Emptied \/ Untouched
    /\ Len(dst') < DstSize
    /\ Goto("native")
    /\ UNCHANGED <<java, native, app, fate>>

FlushedDone ==
    /\ pc = "flushTarget" /\ size = 0
    /\ Emptied \/ Untouched
    /\ IF op = "close" THEN Goto("release") /\ UNCHANGED fate ELSE Return("flushed")
    /\ UNCHANGED <<java, native, app>>

\* flushBuffer() throws, or leaves no room although more has to be flushed.
FlushedNoRoom ==
    /\ pc = "flushTarget"
    /\ Untouched
    /\ Throw
    /\ UNCHANGED <<java, native, app, broken>>

\* A native call reports an error.  An encoder that has failed promises nothing, so
\* what the call consumed before is not put back into the source.
NativeError ==
    /\ pc = "native"
    /\ Throw
    /\ broken' = TRUE
    /\ UNCHANGED <<java, dst, native, sink, app>>

\* The finally block of close().
Release ==
    /\ pc = "release"
    /\ closed' = TRUE /\ initialized' = FALSE /\ freed' = freed + 1
    /\ Return(IF outcome = "thrown" THEN "thrown" ELSE "closed")
    /\ UNCHANGED <<dst, native, sink, app>>

-----------------------------------------------------------------------------
compressStream == ZSTD_compressStream2 /\ UNCHANGED <<java, sink, app, fate>>

Step ==
    \/ CompressLoop \/ Room \/ CompressedSome \/ NativeDone \/ FlushedMore \/ FlushedDone
    \/ Release \/ compressStream

Next ==
    \/ \E n \in 0..MaxBytes : Compress(n)
    \/ Flush \/ Close \/ Step
    \/ InitError \/ NoRoom \/ FlushedNoRoom \/ NativeError

Spec == Init /\ [][Next]_vars

\* The thread inside a call keeps running, and its flushBuffer() empties the target
\* when that is full.
FairSpec == Spec /\ WF_vars(Step)

-----------------------------------------------------------------------------
(***************************************************************************)
(* Properties                                                              *)
(***************************************************************************)

\* Every variable has its type, the target is never overrun, and the native stream
\* is freed exactly once, by the first close(), whatever threw before.
TypeOK ==
    /\ {closed, initialized, compressed, broken} \subseteq BOOLEAN
    /\ op \in {"none", "write", "flush", "close"}
    /\ pc \in {"idle", "loop", "makeRoom", "native", "result", "emit", "flushTarget", "release"}
    /\ accepted \in 0..MaxBytes /\ failures \in Nat
    /\ freed = (IF closed THEN 1 ELSE 0)
    /\ outcome \in {"none", "compressed", "flushed", "closed", "thrown"}
    /\ EncoderTypeOK

Output == sink \o dst

\* Between calls every byte handed over is in exactly one place: in the output,
\* in the encoder, or still in the application's source.  A call that threw for
\* lack of space has neither lost nor repeated one.
BytesConserved ==
    pc = "idle" /\ ~closed /\ ~broken =>
        Decodes(Output \o outBuff \o inBuff \o todo, accepted)

\* When close() returns after a compress(), the output is one complete frame of
\* everything the encoder was given, calls that threw for lack of space and were
\* repeated included; a stream that never compressed has no frame.
CloseCompletes ==
    outcome = "closed" /\ ~broken =>
        IF compressed THEN Output # <<>> /\ Ended(Output) /\ Decodes(Output, accepted)
        ELSE Output = <<>>

=============================================================================
