---------------------------- MODULE StreamDecoder ----------------------------
(***************************************************************************)
(* ZSTD_decompressStream(), the native decoder behind the decompressing    *)
(* streams, as its callers see it: what it consumes, what it produces,     *)
(* what it returns.  The modules of the Java streams extend this one and   *)
(* run it inside their calls.                                              *)
(*                                                                         *)
(* A compressed stream is a sequence of units: a frame header, the first   *)
(* part of one that is cut short, or a block that decodes to size bytes    *)
(* and may be the last of its frame.  src holds the units of the input     *)
(* buffer not yet consumed.                                                *)
(***************************************************************************)
EXTENDS Integers, Sequences

CONSTANT NO_FORWARD_PROGRESS_MAX

Unit(k, n, b) == [kind |-> k, size |-> n, last |-> b]
Header       == Unit("header", 0, FALSE)
PartOfHeader == Unit("part", 0, FALSE)
Block(n)     == Unit("block", n, FALSE)
LastBlock(n) == Unit("block", n, TRUE)
\* The byte ZSTD_decompressStream does not consume until its output is flushed.
HostageByte  == Unit("hostage", 0, FALSE)

Units == [kind : {"header", "part", "block", "hostage"}, size : Nat, last : BOOLEAN]

\* The bytes the first n units of s decode to.
SizeOf(s, n) ==
    LET sum[i \in 0..n] == IF i = 0 THEN 0 ELSE sum[i - 1] + s[i].size IN sum[n]

\* s is a sequence of whole frames: each one a header, perhaps in pieces, and blocks
\* up to a last one.
WholeFrames(s) ==
    /\ \A i \in 1..Len(s) :
          /\ s[i].kind \in IF i = 1 \/ s[i - 1].last \/ s[i - 1].kind = "part"
                           THEN {"header", "part"} ELSE {"block"}
          /\ s[i].kind # "block" => s[i].size = 0 /\ ~s[i].last
    /\ s = <<>> \/ s[Len(s)].last

VARIABLES pc,             \* where the Java method is; native, result, hint inside the call
          src,            \* the unconsumed part of the input buffer
          len,            \* room in the output buffer when the method was called
          out,            \* bytes it has received since
          size,           \* the result of the native call, 0 or more
          stage,          \* streamStage: init, loadHeader (inHeader: lhSize > 0;
                          \* badHeader: no frame begins like this), read, flush
          pending,        \* decoded bytes still in outBuff
          frameDone,      \* the last block of the frame has been decoded
          hostage,        \* hostageByte
          noProgress,     \* noForwardProgress
          moved,          \* this native call consumed or produced something
          produced        \* bytes decoded into output buffers since the beginning

call   == <<pc, len, out, size>>
native == <<stage, pending, frameDone, hostage, noProgress, moved, produced>>

NativeStart ==
    /\ stage = "init" /\ pending = 0 /\ frameDone = FALSE /\ hostage = FALSE
    /\ noProgress = 0 /\ moved = FALSE /\ produced = 0

\* Java calls the decoder.
NativeCall ==
    /\ pc' = "native" /\ moved' = FALSE
    /\ UNCHANGED <<stage, pending, frameDone, hostage, noProgress, produced>>

NativeGoto(place) == pc' = place /\ UNCHANGED <<len, out, size>>

(***************************************************************************)
(* Plausible mistakes in this code, for judging the properties; no part of *)
(* the specification.                                                      *)
(***************************************************************************)
\* Calls without progress are not counted.
NativeNoProgressUncounted ==
    /\ pc = "result" /\ ~moved
    /\ NativeGoto("hint")
    /\ UNCHANGED <<src, native>>

(***************************************************************************)
(* One action per turn of the loop, and the steps after it.                *)
(***************************************************************************)
NativeInit ==
    /\ pc = "native" /\ stage = "init"
    /\ stage' = "loadHeader" /\ hostage' = FALSE /\ pending' = 0 /\ frameDone' = FALSE
    /\ UNCHANGED <<src, call, noProgress, moved, produced>>

\* The header, or what there is of it, is loaded.
NativeHeader ==
    /\ pc = "native" /\ stage \in {"loadHeader", "inHeader"}
    /\ src # <<>> /\ Head(src).kind \in {"header", "part"}
    /\ src' = Tail(src)
    /\ moved' = TRUE
    /\ stage' = IF Head(src).kind = "header" THEN "read" ELSE "inHeader"
    /\ UNCHANGED <<call, pending, frameDone, hostage, noProgress, produced>>

\* Bytes that begin no frame are an error.  input.pos is left where it was, or moved
\* to the end of an input that holds less than a header.
NativeBadHeader ==
    /\ pc = "native" /\ stage \in {"loadHeader", "inHeader"}
    /\ src # <<>> /\ Head(src).kind \notin {"header", "part"}
    /\ src' \in {src, <<>>}
    /\ stage' = "badHeader"
    /\ NativeGoto("error")
    /\ UNCHANGED <<pending, frameDone, hostage, noProgress, moved, produced>>

\* They stay in headerBuffer, so every later call is an error too.
NativeStillBad ==
    /\ pc = "native" /\ stage = "badHeader"
    /\ NativeGoto("error")
    /\ UNCHANGED <<src, native>>

\* A frame that declares its content size, lies complete in src (none of its
\* header came earlier) and fits into dst is decoded at one go.
NativeSinglePass ==
    /\ pc = "native" /\ stage = "loadHeader"
    /\ \E k \in 2..Len(src) :
          /\ src[1].kind = "header" /\ src[k].last
          /\ \A i \in 2..(k - 1) : src[i].kind = "block" /\ ~src[i].last
          /\ LET n == SizeOf(src, k)
             IN  /\ n <= len - out
                 /\ out' = out + n
                 /\ produced' = produced + n
          /\ src' = SubSeq(src, k + 1, Len(src))
    /\ stage' = "init" /\ frameDone' = TRUE /\ moved' = TRUE
    /\ pc' = "result"
    /\ UNCHANGED <<len, size, pending, hostage, noProgress>>

\* Not enough input for a header: returns a hint at once.
NativeNoHeader ==
    /\ pc = "native" /\ stage \in {"loadHeader", "inHeader"} /\ src = <<>>
    /\ pc' = "after" /\ size' = 1
    /\ UNCHANGED <<src, len, out, native>>

NativeBlock ==
    /\ pc = "native" /\ stage = "read" /\ ~frameDone /\ src # <<>>
    /\ src' = Tail(src)
    /\ moved' = TRUE
    /\ pending' = Head(src).size
    /\ frameDone' = Head(src).last
    /\ stage' = IF Head(src).size > 0 THEN "flush" ELSE "read"
    /\ UNCHANGED <<call, hostage, noProgress, produced>>

NativeFlush ==
    /\ pc = "native" /\ stage = "flush"
    /\ LET n == IF pending <= len - out THEN pending ELSE len - out
       IN  /\ out' = out + n
           /\ produced' = produced + n
           /\ pending' = pending - n
           /\ moved' = (moved \/ n > 0)
           /\ stage' = IF n = pending THEN "read" ELSE "flush"
           /\ pc' = IF n = pending THEN "native" ELSE "result"
    /\ UNCHANGED <<src, len, size, frameDone, hostage, noProgress>>

NativeStop ==
    /\ pc = "native" /\ stage = "read"
    /\ frameDone \/ src = <<>>
    /\ stage' = IF frameDone THEN "init" ELSE "read"
    /\ NativeGoto("result")
    /\ UNCHANGED <<src, pending, frameDone, hostage, noProgress, moved, produced>>

\* Too many calls in a row that neither consume nor produce are an error.
NativeNoProgress ==
    /\ pc = "result" /\ ~moved
    /\ noProgress' = noProgress + 1
    /\ NativeGoto(IF noProgress' >= NO_FORWARD_PROGRESS_MAX THEN "error" ELSE "hint")
    /\ UNCHANGED <<src, stage, pending, frameDone, hostage, moved, produced>>

NativeProgress ==
    /\ pc = "result" /\ moved
    /\ noProgress' = 0
    /\ NativeGoto("hint")
    /\ UNCHANGED <<src, stage, pending, frameDone, hostage, moved, produced>>

\* The value returned: 0 only when the frame is decoded, all of it is flushed,
\* and the byte held back has been consumed.
NativeResult ==
    LET flushed == frameDone /\ pending = 0
        stuck   == flushed /\ hostage /\ src = <<>>   \* the byte held back is not here
    IN  /\ pc = "hint"
        /\ pc' = "after"
        /\ size' = IF flushed /\ ~stuck THEN 0 ELSE 1
        /\ stage' = IF stuck THEN "read" ELSE stage
        /\ hostage' = (hostage \/ (frameDone /\ ~flushed))
        /\ src' = IF flushed /\ hostage /\ ~stuck THEN Tail(src)
                  ELSE IF frameDone /\ ~flushed /\ ~hostage THEN <<HostageByte>> \o src
                  ELSE src
        /\ UNCHANGED <<len, out, pending, frameDone, noProgress, moved, produced>>

ZSTD_decompressStream ==
    \/ NativeInit \/ NativeHeader \/ NativeBadHeader \/ NativeStillBad \/ NativeSinglePass
    \/ NativeNoHeader \/ NativeBlock \/ NativeFlush \/ NativeStop \/ NativeNoProgress \/ NativeProgress \/ NativeResult

\* What every caller may rely on: the variables above have their types, and the
\* output buffer is never overrun.
DecoderTypeOK ==
    /\ src \in Seq(Units) /\ len \in Nat /\ out \in 0..len /\ size \in 0..1
    /\ stage \in {"init", "loadHeader", "inHeader", "badHeader", "read", "flush"}
    /\ {pending, noProgress, produced} \subseteq Nat
    /\ {frameDone, hostage, moved} \subseteq BOOLEAN

(***************************************************************************)
(* What the Java streams that run the decoder have in common.              *)
(***************************************************************************)
CONSTANTS Inputs,      \* compressed streams, complete, cut short or malformed
          MaxChunk,    \* most units the stream gets at once: srcBuffSize, or what refill() puts
          MaxLen       \* most room in the output buffer of one call

ASSUME StreamAssumption ==
    /\ Inputs \subseteq Seq(Units)
    /\ {MaxChunk, MaxLen} \subseteq Nat \ {0}
    /\ NO_FORWARD_PROGRESS_MAX \in Nat /\ NO_FORWARD_PROGRESS_MAX > 1

VARIABLES input,          \* the compressed stream read, one of Inputs
          taken,          \* how much of it the stream has got so far
          delivered,      \* bytes the application has received
          outcome         \* what the last call of read() returned or threw

app == <<delivered, outcome>>

\* The stream was not cut and has nothing but frames.
Complete == WholeFrames(input)

(***************************************************************************)
(* Streams the runs of InputStream and BufferDecompressingStream decode.   *)
(***************************************************************************)
\* A frame of two blocks, an empty frame, and another frame of two blocks, whose
\* header may arrive in two pieces.
ThreeFrames ==
    <<Header, Block(2), LastBlock(1), Header, LastBlock(0), PartOfHeader, Header, Block(1),
      LastBlock(3)>>

\* One frame that ends before its last block.
CutFrame == <<Header, Block(2), Block(1)>>

\* A frame followed by something that is not a frame.
NoSecondFrame == <<Header, LastBlock(2), Block(1)>>

\* A complete frame, and one that ends before its last block.
CutInBlock == <<Header, Block(2), LastBlock(1), Header, Block(3), Block(2)>>

FullCutOrBad == {ThreeFrames, CutFrame, NoSecondFrame}
FullOrCutInBlock == {ThreeFrames, CutInBlock}
=============================================================================
