---------------------------- MODULE StreamEncoder ----------------------------
(***************************************************************************)
(* ZSTD_compressStream2(), the native encoder behind the compressing       *)
(* streams, as its callers see it.  The modules of the Java streams extend *)
(* this one and run it inside their calls.                                 *)
(*                                                                         *)
(* The application's bytes are told apart by their number.  The encoder    *)
(* turns them into units: the header of a frame, each byte, and the end of *)
(* the frame's last block.                                                 *)
(***************************************************************************)
EXTENDS Integers, Sequences, FiniteSets

CONSTANTS BlockSize,   \* blockSizeMax, in bytes
          DstSize      \* capacity of the output buffer, in units

Header == 0
End    == -1
Units  == {Header, End} \cup Nat

VARIABLES op,            \* the Java call in progress: write, flush, endFrame, close, or none
          pc,            \* where it is; native and result inside the native call
          todo,          \* input bytes not yet consumed
          dst,           \* what the output buffer holds
          size,          \* what the native call says is left to flush
          stage,         \* streamStage: init, load, flush
          headerDone,    \* the header of the frame has been produced
          inBuff,        \* bytes loaded and not yet compressed
          outBuff,       \* units compressed and not yet flushed
          frameEnded

native == <<stage, headerDone, inBuff, outBuff, frameEnded>>

NativeStart ==
    /\ stage = "init" /\ headerDone = FALSE /\ inBuff = <<>> /\ outBuff = <<>>
    /\ frameEnded = FALSE

Goto(place) == pc' = place /\ UNCHANGED <<op, todo, size>>

\* ZSTD_CCtx_reset(ZSTD_reset_session_only): the buffers are emptied when the next
\* frame begins.
ZSTD_CCtx_reset == stage' = "init" /\ UNCHANGED <<headerDone, inBuff, outBuff, frameEnded>>

\* The call is to end the frame: ZSTD_e_end.
Ending == op \in {"endFrame", "close"}

(***************************************************************************)
(* Transparent initialization, then the loop of                            *)
(* ZSTD_compressStream_generic().  A block compressed straight into dst is *)
(* a block compressed into outBuff and flushed at once.                    *)
(***************************************************************************)
NativeBegin ==
    /\ pc = "native" /\ stage = "init"
    /\ stage' = "load" /\ headerDone' = FALSE /\ frameEnded' = FALSE
    /\ inBuff' = <<>> /\ outBuff' = <<>>
    /\ UNCHANGED <<op, pc, todo, dst, size>>

\* Load up to a block; stop when there is nothing to compress yet.  Only a write
\* has an input: flushStream() and endStream() pass an empty one.
NativeLoad ==
    LET input == IF op = "write" THEN todo ELSE <<>>
        room  == BlockSize - Len(inBuff)
        n     == IF Len(input) <= room THEN Len(input) ELSE room
        block == inBuff \o SubSeq(input, 1, n)
        stop  == \/ op = "write" /\ Len(block) < BlockSize
                 \/ op = "flush" /\ block = <<>>
    IN  /\ pc = "native" /\ stage = "load"
        /\ todo' = IF op = "write" THEN SubSeq(todo, n + 1, Len(todo)) ELSE todo
        /\ pc' = IF stop THEN "result" ELSE "native"
        /\ IF stop
           THEN inBuff' = block /\ UNCHANGED <<stage, headerDone, outBuff, frameEnded>>
           ELSE \* compress the block, the last one of the frame when it is to end
                /\ outBuff' = (IF headerDone THEN <<>> ELSE <<Header>>) \o block
                              \o (IF Ending THEN <<End>> ELSE <<>>)
                /\ frameEnded' = Ending
                /\ headerDone' = TRUE /\ inBuff' = <<>> /\ stage' = "flush"
        /\ UNCHANGED <<op, dst, size>>

NativeFlush ==
    LET room == DstSize - Len(dst)
        n    == IF Len(outBuff) <= room THEN Len(outBuff) ELSE room
        done == n = Len(outBuff)
    IN  /\ pc = "native" /\ stage = "flush"
        /\ dst' = dst \o SubSeq(outBuff, 1, n)
        /\ outBuff' = SubSeq(outBuff, n + 1, Len(outBuff))
        /\ stage' = IF ~done THEN "flush" ELSE IF frameEnded THEN "init" ELSE "load"
        /\ IF done /\ ~frameEnded THEN Goto("native") ELSE Goto("result")
        /\ UNCHANGED <<headerDone, inBuff, frameEnded>>

\* What is left to flush is the result.
NativeResult ==
    /\ pc = "result"
    /\ size' = Len(outBuff)
    /\ pc' = "emit"
    /\ UNCHANGED <<op, todo, dst, native>>

ZSTD_compressStream2 == NativeBegin \/ NativeLoad \/ NativeFlush \/ NativeResult

-----------------------------------------------------------------------------
\* Headers stand at the start and after the end of a frame, and nowhere else.
WellFormed(s) == \A i \in 1..Len(s) : (s[i] = Header) <=> (i = 1 \/ s[i - 1] = End)

\* The bytes in s come in order; s decodes to the first n bytes; its last frame is
\* complete; so many are.
InOrder(s) == \A i, j \in 1..Len(s) : i < j /\ s[i] > 0 /\ s[j] > 0 => s[i] < s[j]
BytesIn(s) == {s[i] : i \in 1..Len(s)} \ {Header, End}
Decodes(s, n) == InOrder(s) /\ BytesIn(s) = 1..n
Ended(s) == s # <<>> => s[Len(s)] = End
FrameCount(s) == Cardinality({i \in 1..Len(s) : s[i] = End})

\* The variables above have their types, and dst never holds more than it can.
EncoderTypeOK ==
    /\ todo \in Seq(Nat) /\ inBuff \in Seq(Nat)
    /\ dst \in Seq(Units) /\ Len(dst) <= DstSize
    /\ outBuff \in Seq(Units) /\ size \in Nat
    /\ stage \in {"init", "load", "flush"} /\ {headerDone, frameEnded} \subseteq BOOLEAN
=============================================================================
