----------------------------- MODULE InputStream -----------------------------
(***************************************************************************)
(* ZstdInputStreamNoFinalizer: read() over an upstream that hands out its  *)
(* bytes in arbitrary pieces, returns zero bytes now and then, and ends    *)
(* wherever it ends; and the native streaming decoder behind it.           *)
(*                                                                         *)
(* The src array is the sequence of units in it not yet consumed, so       *)
(* srcPos == srcSize is src = <<>>.  Decoded bytes are told apart by their *)
(* number: the decoder makes byte 1, 2, 3, ...                             *)
(***************************************************************************)
EXTENDS StreamDecoder

VARIABLES written,        \* how much of input the upstream has so far
          needRead,
          frameFinished,
          isClosed,
          isContinuous,
          last            \* lastDstPos - offset; out is dstPos - offset

flags == <<needRead, frameFinished, isClosed>>
up    == <<input, written, taken, isContinuous>>
vars  == <<up, src, flags, call, last, native, app>>

\* setContinuous() is called before reading, for a file still being written.
Init ==
    /\ input \in Inputs /\ isContinuous \in BOOLEAN
    /\ written \in IF isContinuous THEN 0..Len(input) ELSE {Len(input)}
    /\ taken = 0
    /\ src = <<>> /\ needRead = TRUE /\ frameFinished = TRUE /\ isClosed = FALSE
    /\ pc = "idle" /\ len = 0 /\ out = 0 /\ last = 0 /\ size = 0
    /\ NativeStart
    /\ delivered = 0 /\ outcome = "none"

\* The application's view of a finished call.
Return(o) ==
    /\ pc' = "idle" /\ len' = 0 /\ out' = 0 /\ last' = 0 /\ size' = 0
    /\ outcome' = o
    /\ delivered' = IF o = "bytes" THEN delivered + out ELSE delivered

Goto(place) == pc' = place /\ UNCHANGED <<len, out, last, size>>

(***************************************************************************)
(* The upstream                                                            *)
(***************************************************************************)
AppendUnit ==
    /\ written < Len(input)
    /\ written' = written + 1
    /\ UNCHANGED <<input, taken, isContinuous, src, flags, call, last, native, app>>

\* in.available() is an estimate: it may be 0 at any time, and the available() of
\* some streams (InflaterInputStream is one) is positive until the end was read.
\* That of a file, which is what continuous mode is for, promises nothing more.
MayBeAvailable == taken < written \/ ~isContinuous

(***************************************************************************)
(* Plausible mistakes in this code, for judging the properties; no part of *)
(* the specification.                                                      *)
(***************************************************************************)
FillEndIgnoresContinuous ==
    /\ pc = "fill" /\ taken = written
    /\ src' = <<>>
    /\ Return(IF frameFinished THEN "end" ELSE "truncated")
    /\ UNCHANGED <<up, needRead, frameFinished, isClosed, native>>

FillEndContinues ==
    /\ pc = "fill" /\ taken = written
    /\ src' = <<>>
    /\ Goto("loop")
    /\ UNCHANGED <<up, needRead, frameFinished, isClosed, native, app>>

AfterFrameReturnsEnd ==
    /\ pc = "after" /\ size = 0
    /\ frameFinished' = TRUE
    /\ needRead' = (src = <<>>)
    /\ Return(IF src = <<>> THEN "end" ELSE "bytes")
    /\ UNCHANGED <<up, src, isClosed, native>>

AfterFrameAlwaysReads ==
    /\ pc = "after" /\ size = 0
    /\ frameFinished' = TRUE
    /\ needRead' = TRUE
    /\ IF out > 0 THEN Return("bytes")
       ELSE pc' = "loop" /\ last' = -1 /\ UNCHANGED <<len, out, size, app>>
    /\ UNCHANGED <<up, src, isClosed, native>>

(***************************************************************************)
(* read() and readInternal()                                               *)
(***************************************************************************)
Read(n) ==
    /\ pc = "idle" /\ ~isClosed
    /\ pc' = "loop" /\ len' = n /\ out' = 0 /\ last' = -1 /\ size' = 0
    /\ outcome' = "none"
    /\ UNCHANGED <<up, src, flags, native, delivered>>

\* The head of the loop: decide whether to read from upstream, to decode, or to
\* leave.  Leaving with nothing, read() calls readInternal() again.
LoopRead ==
    /\ pc = "loop" /\ out < len /\ last < out
    /\ needRead
    /\ out = 0 \/ MayBeAvailable
    /\ Goto("fill")
    /\ UNCHANGED <<up, src, flags, native, app>>

LoopDecode ==
    /\ pc = "loop" /\ out < len /\ last < out
    /\ ~needRead \/ out > 0
    /\ NativeCall /\ last' = out
    /\ UNCHANGED <<up, src, flags, len, out, size, app>>

LoopExit ==
    /\ pc = "loop" /\ ~(out < len /\ last < out)
    /\ IF out > 0 THEN Return("bytes")
       ELSE last' = -1 /\ UNCHANGED <<pc, len, out, size, app>>
    /\ UNCHANGED <<up, src, flags, native>>

\* in.read(src, 0, srcBuffSize) returns some bytes ...
FillSome ==
    /\ pc = "fill"
    /\ \E n \in 1..MaxChunk :
          /\ taken + n <= written
          /\ src' = SubSeq(input, taken + 1, taken + n)
          /\ taken' = taken + n
    /\ frameFinished' = FALSE
    /\ NativeCall /\ last' = out
    /\ UNCHANGED <<input, written, isContinuous, needRead, isClosed, len, out, size, app>>

\* ... or none: continue ...
FillZero ==
    /\ pc = "fill"
    /\ src' = <<>>
    /\ Goto("loop")
    /\ UNCHANGED <<up, needRead, frameFinished, isClosed, native, app>>

\* ... or the end.  needRead stays set, so the next call fills src anew.
FillEnd ==
    /\ pc = "fill" /\ taken = written
    /\ src' = <<>>
    /\ Return(IF frameFinished THEN "end"
              ELSE IF isContinuous THEN (IF out > 0 THEN "bytes" ELSE "end")
              ELSE "truncated")
    /\ UNCHANGED <<up, needRead, frameFinished, isClosed, native>>

\* What follows decompressStream().
AfterError ==
    /\ pc = "error"
    /\ Return("error")
    /\ UNCHANGED <<up, src, flags, native>>

AfterFrame ==
    /\ pc = "after" /\ size = 0
    /\ frameFinished' = TRUE
    /\ needRead' = (src = <<>>)
    /\ IF out > 0 THEN Return("bytes")
       ELSE pc' = "loop" /\ last' = -1 /\ UNCHANGED <<len, out, size, app>>
    /\ UNCHANGED <<up, src, isClosed, native>>

AfterPart ==
    /\ pc = "after" /\ size > 0
    /\ needRead' = (out < len)
    /\ Goto("loop")
    /\ UNCHANGED <<up, src, frameFinished, isClosed, native, app>>

Close ==
    /\ pc = "idle" /\ ~isClosed
    /\ isClosed' = TRUE
    /\ UNCHANGED <<up, src, needRead, frameFinished, call, last, native, app>>

-----------------------------------------------------------------------------
DecompressStream == ZSTD_decompressStream /\ UNCHANGED <<up, flags, last, app>>

ReadStep ==
    \/ LoopRead \/ LoopDecode \/ LoopExit \/ FillSome \/ FillEnd
    \/ AfterError \/ AfterFrame \/ AfterPart \/ DecompressStream

Next ==
    \/ AppendUnit \/ Close
    \/ \E n \in 1..MaxLen : Read(n)
    \/ FillZero \/ ReadStep

Spec == Init /\ [][Next]_vars

\* The thread inside read() keeps running, and an upstream with bytes left does
\* not answer zero for ever.  Nothing makes the application read.
FairSpec == Spec /\ WF_vars(ReadStep) /\ SF_vars(FillSome) /\ SF_vars(FillEnd)

-----------------------------------------------------------------------------
(***************************************************************************)
(* Properties                                                              *)
(***************************************************************************)
Outcomes == {"none", "bytes", "end", "truncated", "error"}

\* Every variable has its type, and a call never writes past its len.
TypeOK ==
    /\ input \in Inputs /\ written \in 0..Len(input) /\ taken \in 0..written
    /\ {needRead, frameFinished, isClosed, isContinuous} \subseteq BOOLEAN
    /\ pc \in {"idle", "loop", "fill", "native", "result", "hint", "after", "error"}
    /\ last \in -1..MaxLen /\ delivered \in Nat /\ outcome \in Outcomes
    /\ DecoderTypeOK

\* Between calls no decoded byte is lost: whatever the decoder put into a dst
\* array has been returned to the application, in every sequence of short
\* reads, zero reads, frame ends and dst sizes.  (A "Truncated source" takes what
\* was decoded in the same call with it; continuous mode never throws it.)
NothingLost == (Complete \/ isContinuous) /\ pc = "idle" => delivered = produced

\* A complete stream is read without any exception: neither "Truncated source"
\* nor zstd's noForwardProgress errors, which repeated calls with an empty src
\* or a full dst could provoke.  In continuous mode the file may grow meanwhile.
NoSpuriousError == Complete => outcome \notin {"truncated", "error"}

\* When read() returns -1 at the end of a complete stream, the application has
\* every byte of it, also after earlier answers -1 of continuous mode.
EndMeansComplete ==
    Complete /\ outcome = "end" /\ taken = Len(input) => delivered = SizeOf(input, Len(input))

\* Every read() of an open stream returns or throws.
ReadTerminates == (pc # "idle") ~> (pc = "idle")
=============================================================================
