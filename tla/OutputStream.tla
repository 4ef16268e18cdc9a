----------------------------- MODULE OutputStream -----------------------------
(***************************************************************************)
(* ZstdOutputStreamNoFinalizer: write(), flush() and close() over a parent *)
(* stream that may throw at any call, and the native streaming encoder     *)
(* behind it.  The methods are synchronized, so one call runs at a time.   *)
(***************************************************************************)
EXTENDS StreamEncoder

CONSTANTS MaxBytes,    \* bound on what the application writes
          MaxFrames,   \* bound on the frames its writes open
          MaxFailures  \* bound on the exceptions of the parent and the native code

ASSUME OutputAssumption ==
    /\ {MaxBytes, MaxFrames, BlockSize, DstSize} \subseteq Nat \ {0}
    /\ MaxFailures \in Nat

VARIABLES isClosed,
          frameClosed,
          frameStarted,
          closeFrameOnFlush,
          closeParent,   \* the argument of close()
          sink,          \* what the parent stream has accepted
          pushed,        \* how much of it out.flush() or out.close() has passed on
          released,      \* how often dstByteBuffer was given back to the pool
          accepted,      \* bytes the application has handed over
          frames,        \* frames the application's writes have opened
          failures,      \* how many calls have thrown
          outcome        \* what the last call returned

java   == <<isClosed, frameClosed, frameStarted, closeFrameOnFlush, closeParent>>
parent == <<sink, pushed>>
app    == <<accepted, frames>>
vars   == <<java, op, pc, todo, dst, size, native, parent, released, app, failures, outcome>>

Init ==
    /\ isClosed = FALSE /\ frameClosed = TRUE /\ frameStarted = FALSE
    /\ closeFrameOnFlush = FALSE /\ closeParent = FALSE
    /\ op = "none" /\ pc = "idle" /\ todo = <<>> /\ dst = <<>> /\ size = 0
    /\ NativeStart
    /\ sink = <<>> /\ pushed = 0 /\ released = 0
    /\ accepted = 0 /\ frames = 0 /\ failures = 0 /\ outcome = "none"

\* Leave the call normally, with result r.
Return(r) ==
    /\ op' = "none" /\ pc' = "idle" /\ todo' = <<>> /\ size' = 0
    /\ outcome' = r /\ UNCHANGED failures

\* Leave it with an exception.  close() runs its finally block first.
Throw ==
    /\ IF op = "close" THEN pc' = "release" /\ op' = op ELSE pc' = "idle" /\ op' = "none"
    /\ todo' = <<>> /\ size' = 0
    /\ failures' = failures + 1 /\ outcome' = "thrown"

resetCStream == ZSTD_CCtx_reset

(***************************************************************************)
(* Plausible mistakes in this code, for judging the properties; no part of *)
(* the specification.                                                      *)
(***************************************************************************)
\* close() that looks at frameClosed where it should look at frameStarted.
CloseStartsFrameAgain(b) ==
    /\ pc = "idle" /\ ~isClosed
    /\ closeParent' = b
    /\ op' = "close" /\ outcome' = "none"
    /\ frameClosed' = FALSE
    /\ IF frameClosed THEN resetCStream ELSE UNCHANGED native
    /\ pc' = "native"
    /\ dst' = <<>>
    /\ UNCHANGED <<isClosed, frameStarted, closeFrameOnFlush, todo, size, parent, released, app,
                   failures>>

\* A flush() that sends one dst array and does not ask whether more is left.
EmitDoneOnce ==
    /\ pc = "emit" /\ op # "write"
    /\ sink' = sink \o dst
    /\ frameClosed' = (frameClosed \/ op = "endFrame")
    /\ Goto(IF op = "close" THEN "closeOut" ELSE "flushOut")
    /\ UNCHANGED <<isClosed, frameStarted, closeFrameOnFlush, closeParent, dst, native, pushed,
                   released, app, failures, outcome>>

\* A loop that tests size >= 0.
EmitMoreForever ==
    /\ pc = "emit" /\ op # "write"
    /\ sink' = IF Len(sink) < 2 * MaxBytes THEN sink \o dst ELSE sink
    /\ pc' = "native" /\ dst' = <<>>
    /\ UNCHANGED <<java, op, todo, size, native, pushed, released, app, failures, outcome>>

\* An exception of the parent leaves dst to be sent again.
EmitFailsKeepsSource ==
    /\ failures < MaxFailures /\ pc = "emit"
    /\ \E k \in 0..Len(dst) : sink' = sink \o SubSeq(dst, 1, k)
    /\ outBuff' = dst \o outBuff
    /\ stage' = "flush"
    /\ Throw
    /\ UNCHANGED <<java, dst, headerDone, inBuff, frameEnded, pushed, released, app>>

(***************************************************************************)
(* The Java methods                                                        *)
(***************************************************************************)
\* setCloseFrameOnFlush(); it does not look at isClosed.
SetCloseFrameOnFlush(b) ==
    /\ pc = "idle" /\ frameClosed
    /\ closeFrameOnFlush' = b
    /\ outcome' = "none"
    /\ UNCHANGED <<isClosed, frameClosed, frameStarted, closeParent, op, pc, todo, dst, size, native,
                   parent, released, app, failures>>

Write(n) ==
    /\ pc = "idle" /\ ~isClosed
    /\ accepted + n <= MaxBytes
    /\ op' = "write" /\ pc' = "loop" /\ outcome' = "none" /\ size' = 0
    /\ todo' = [i \in 1..n |-> accepted + i]
    /\ accepted' = accepted + n
    /\ IF frameClosed
       THEN resetCStream /\ frames' = frames + 1
       ELSE UNCHANGED <<native, frames>>
    /\ frameClosed' = FALSE
    /\ frameStarted' = (frameStarted \/ frameClosed)
    /\ UNCHANGED <<isClosed, closeFrameOnFlush, closeParent, dst, parent, released, failures>>

\* while (srcPos < srcSize)
WriteLoop ==
    /\ pc = "loop"
    /\ dst' = <<>>
    /\ IF todo = <<>> THEN Return("written")
       ELSE Goto("native") /\ UNCHANGED <<outcome, failures>>
    /\ UNCHANGED <<java, native, parent, released, app>>

\* With the frame closed flush() returns without calling out.flush().
Flush ==
    /\ pc = "idle" /\ ~isClosed
    /\ dst' = <<>>
    /\ IF frameClosed THEN Return("flushed")
       ELSE /\ op' = IF closeFrameOnFlush THEN "endFrame" ELSE "flush"
            /\ pc' = "native"
            /\ outcome' = "none"
            /\ UNCHANGED <<todo, size, failures>>
    /\ UNCHANGED <<java, native, parent, released, app>>

\* close() and closeWithoutClosingParentStream().
Close(b) ==
    /\ pc = "idle" /\ ~isClosed
    /\ closeParent' = b
    /\ op' = "close" /\ outcome' = "none"
    /\ frameClosed' = (frameClosed /\ frameStarted)
    /\ IF frameStarted THEN UNCHANGED native ELSE resetCStream
    /\ pc' = IF frameClosed' THEN "closeOut" ELSE "native"
    /\ dst' = <<>>
    /\ UNCHANGED <<isClosed, frameStarted, closeFrameOnFlush, todo, size, parent, released, app,
                   failures>>

\* The native call reports an error, be it that an array cannot be pinned.
NativeError ==
    /\ failures < MaxFailures /\ pc = "native" /\ dst = <<>>
    /\ Throw
    /\ UNCHANGED <<java, dst, native, parent, released, app>>

\* out.write(dst, 0, dstPos) in write(): back to the loop.
EmitWrite ==
    /\ pc = "emit" /\ op = "write"
    /\ sink' = sink \o dst
    /\ Goto("loop")
    /\ UNCHANGED <<java, dst, native, pushed, released, app, failures, outcome>>

\* In flush() and close(): another native call while (size > 0) ...
EmitMore ==
    /\ pc = "emit" /\ op # "write" /\ size > 0
    /\ sink' = sink \o dst
    /\ pc' = "native" /\ dst' = <<>>
    /\ UNCHANGED <<java, op, todo, size, native, pushed, released, app, failures, outcome>>

\* ... and then the end of the loop.
EmitDone ==
    /\ pc = "emit" /\ op # "write" /\ size = 0
    /\ sink' = sink \o dst
    /\ frameClosed' = (frameClosed \/ op = "endFrame")
    /\ Goto(IF op = "close" THEN "closeOut" ELSE "flushOut")
    /\ UNCHANGED <<isClosed, frameStarted, closeFrameOnFlush, closeParent, dst, native, pushed,
                   released, app, failures, outcome>>

\* out.write() throws, some of dst written; write() does not call it for nothing.
EmitFails ==
    /\ failures < MaxFailures /\ pc = "emit" /\ (op = "write" => dst # <<>>)
    /\ \E k \in 0..Len(dst) : sink' = sink \o SubSeq(dst, 1, k)
    /\ Throw
    /\ UNCHANGED <<java, dst, native, pushed, released, app>>

FlushOut ==
    /\ pc = "flushOut"
    /\ pushed' = Len(sink)
    /\ Return("flushed")
    /\ UNCHANGED <<java, dst, native, sink, released, app>>

CloseOut ==
    /\ pc = "closeOut"
    /\ pushed' = IF closeParent THEN Len(sink) ELSE pushed
    /\ Goto("release")
    /\ UNCHANGED <<java, dst, native, sink, released, app, failures, outcome>>

ParentFails ==
    /\ failures < MaxFailures
    /\ pc = "flushOut" \/ (pc = "closeOut" /\ closeParent)
    /\ Throw
    /\ UNCHANGED <<java, dst, native, parent, released, app>>

\* The finally block of close().
Release ==
    /\ pc = "release"
    /\ isClosed' = TRUE
    /\ released' = released + 1
    /\ Return(IF outcome = "thrown" THEN "thrown" ELSE "closed")
    /\ UNCHANGED <<frameClosed, frameStarted, closeFrameOnFlush, closeParent, dst, native, parent,
                   app>>

-----------------------------------------------------------------------------
compressStream2 ==
    ZSTD_compressStream2 /\ UNCHANGED <<java, parent, released, app, failures, outcome>>

Step ==
    \/ WriteLoop \/ EmitWrite \/ EmitMore \/ EmitDone \/ FlushOut \/ CloseOut \/ Release
    \/ compressStream2

Next ==
    \/ \E b \in BOOLEAN : SetCloseFrameOnFlush(b) \/ Close(b)
    \/ \E n \in 0..MaxBytes : (frameClosed => frames < MaxFrames) /\ Write(n)
    \/ Flush \/ Step
    \/ NativeError \/ EmitFails \/ ParentFails

Spec == Init /\ [][Next]_vars

\* The thread inside a method keeps running.  Nothing makes the application call.
FairSpec == Spec /\ WF_vars(Step)

-----------------------------------------------------------------------------
(***************************************************************************)
(* Properties                                                              *)
(***************************************************************************)

\* Every variable has its type, and dst never holds more than DstSize units.
TypeOK ==
    /\ {isClosed, frameClosed, frameStarted, closeFrameOnFlush, closeParent} \subseteq BOOLEAN
    /\ op \in {"none", "write", "flush", "endFrame", "close"}
    /\ pc \in {"idle", "loop", "native", "result", "emit", "flushOut", "closeOut", "release"}
    /\ pushed \in 0..Len(sink) /\ accepted \in 0..MaxBytes
    /\ {released, frames, failures} \subseteq Nat
    /\ outcome \in {"none", "written", "flushed", "closed", "thrown"}
    /\ EncoderTypeOK

\* When flush() returns, every byte written before it can be decoded from what
\* the parent has passed on; with closeFrameOnFlush, from complete frames.
FlushDelivers ==
    outcome = "flushed" /\ failures = 0 =>
        /\ Decodes(sink, accepted) /\ pushed = Len(sink)
        /\ closeFrameOnFlush => Ended(sink)

\* When close() returns, the parent has a complete stream: at least one frame,
\* every frame a write opened, no other, all bytes, passed on if the parent was
\* closed too.
CloseCompletes ==
    outcome = "closed" /\ failures = 0 =>
        /\ WellFormed(sink) /\ Decodes(sink, accepted)
        /\ sink # <<>> /\ Ended(sink)
        /\ FrameCount(sink) = (IF frames = 0 THEN 1 ELSE frames)
        /\ closeParent => pushed = Len(sink)

\* No byte reaches the parent twice or out of order, whatever threw before and
\* whatever the application calls afterwards.
NoByteTwice == InOrder(sink)

\* Every call ends, however small dst is: the loops of write(), flush() and
\* close() do not spin on a native call without progress.
CallReturns == pc # "idle" ~> pc = "idle"
=============================================================================
