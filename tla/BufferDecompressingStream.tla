---------------------- MODULE BufferDecompressingStream ----------------------
(***************************************************************************)
(* BaseZstdBufferDecompressingStreamNoFinalizer, the common part of        *)
(* ZstdBufferDecompressingStream and ZstdDirectBufferDecompressingStream:  *)
(* read() decodes what the source buffer holds into the target and asks    *)
(* refill() for more when the source is empty.  Its documentation tells    *)
(* the application to call read() in a loop while hasRemaining() is true.  *)
(*                                                                         *)
(* src is what remains in the source buffer; len is target.remaining().    *)
(***************************************************************************)
EXTENDS StreamDecoder

VARIABLES finishedFrame,
          streamEnd,
          closed

bufferFlags == <<finishedFrame, streamEnd, closed>>
origin      == <<input, taken>>
bufferVars  == <<origin, src, bufferFlags, call, native, app>>

\* The constructor gets a source that may be empty.
BufferInit ==
    /\ input \in Inputs
    /\ taken \in {n \in 0..MaxChunk : n <= Len(input)}
    /\ src = SubSeq(input, 1, taken)
    /\ finishedFrame = FALSE /\ streamEnd = FALSE /\ closed = FALSE
    /\ pc = "idle" /\ len = 0 /\ out = 0 /\ size = 0
    /\ NativeStart
    /\ delivered = 0 /\ outcome = "none"

\* this.source is null exactly when the stream is closed.
hasRemaining == ~closed /\ ~streamEnd /\ (src # <<>> \/ ~finishedFrame)

ReadEnds(o) ==
    /\ pc' = "idle" /\ len' = 0 /\ out' = 0 /\ size' = 0
    /\ outcome' = o

\* What refill() leaves in the source: it blocks until there is something, and
\* returns an empty buffer at the end of the input.
Refilled(s) ==
    IF s # <<>> \/ taken = Len(input)
    THEN src' = s /\ taken' = taken
    ELSE \E n \in 1..MaxChunk :
            /\ taken + n <= Len(input)
            /\ src' = SubSeq(input, taken + 1, taken + n)
            /\ taken' = taken + n

(***************************************************************************)
(* Plausible mistakes in this code, for judging the properties; no part of *)
(* the specification.                                                      *)
(***************************************************************************)
\* The end is decided before the source is refilled.
ReadReturnsEndsEarly ==
    /\ pc = "after"
    /\ Refilled(src)
    /\ finishedFrame' = (size = 0)
    /\ streamEnd' = (streamEnd \/ (size = 0 /\ src = <<>>))
    /\ delivered' = delivered + out
    /\ ReadEnds("read")
    /\ UNCHANGED <<input, closed, native>>

(***************************************************************************)
(* read() and close()                                                      *)
(***************************************************************************)
\* readInternal() up to the native call; after the end it returns zero.
readInternal(n) ==
    /\ pc = "idle" /\ ~closed
    /\ IF streamEnd
       THEN ReadEnds("read") /\ UNCHANGED native
       ELSE NativeCall /\ len' = n /\ out' = 0 /\ size' = 0 /\ outcome' = "none"
    /\ UNCHANGED <<origin, src, bufferFlags, delivered>>

\* A native error: the positions of source and target stay where they were, so the
\* target's bytes are not the application's.  Nobody reads on after an exception,
\* and what is left in src does not matter any more.
ReadThrows ==
    /\ pc = "error"
    /\ ReadEnds("error")
    /\ UNCHANGED <<origin, src, bufferFlags, native, delivered>>

\* The positions are moved, the source is refilled if it is empty, and the flags
\* are set from what the decoder returned and what the source holds now.
ReadReturns ==
    /\ pc = "after"
    /\ Refilled(src)
    /\ finishedFrame' = (size = 0)
    /\ streamEnd' = (streamEnd \/ (size = 0 /\ src' = <<>>))
    /\ delivered' = delivered + out
    /\ ReadEnds("read")
    /\ UNCHANGED <<input, closed, native>>

close ==
    /\ pc = "idle" /\ ~closed
    /\ closed' = TRUE
    /\ src' = <<>>
    /\ UNCHANGED <<origin, finishedFrame, streamEnd, call, native, app>>

-----------------------------------------------------------------------------
decompressStream == ZSTD_decompressStream /\ UNCHANGED <<origin, bufferFlags, app>>

BufferStep == decompressStream \/ ReadThrows \/ ReadReturns

\* An application that has seen an exception reads no more.
ApplicationReads == outcome # "error" /\ \E n \in 1..MaxLen : readInternal(n)

BufferNext == BufferStep \/ ApplicationReads \/ close

BufferSpec == BufferInit /\ [][BufferNext]_bufferVars

\* The thread inside read() keeps running, and the application runs the loop the
\* documentation asks for.
BufferFairSpec == BufferSpec /\ WF_bufferVars(BufferStep) /\ WF_bufferVars(hasRemaining /\ ApplicationReads)

-----------------------------------------------------------------------------
(***************************************************************************)
(* Properties                                                              *)
(***************************************************************************)
\* A loop that stops when hasRemaining() is false has got every byte of a complete
\* stream: the end is never reported early, however refill() cuts the input and
\* however small the targets are.
DoneMeansComplete ==
    Complete /\ pc = "idle" /\ ~closed /\ ~hasRemaining => delivered = SizeOf(input, Len(input))

\* The loop of the documentation comes to an end, normally or with an exception.
ReadLoopEnds == <>(pc = "idle" /\ (~hasRemaining \/ outcome = "error"))
=============================================================================
