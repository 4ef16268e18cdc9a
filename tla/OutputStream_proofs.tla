------------------------- MODULE OutputStream_proofs -------------------------
(***************************************************************************)
(* Proofs about OutputStream, for output arrays and blocks of any size and *)
(* any number of bytes, frames and failures: no byte reaches the parent    *)
(* twice; and while nothing throws, what flush() and close() promise.      *)
(***************************************************************************)
EXTENDS OutputStream, StreamEncoder_proofs

(***************************************************************************)
(* The inductive invariant.  Held: what the native call has put into dst   *)
(* and the parent has not been given.  Sent: every unit produced and not   *)
(* lost to an exception.  Whole: the bytes behind them, in the encoder and *)
(* in the array written, too.                                              *)
(***************************************************************************)
Calling == pc \in {"native", "result", "emit"}
Held == IF Calling THEN dst ELSE <<>>
Sent == sink \o (Held \o outBuff)
Whole == Sent \o Rest

Bytes == Nat \ {0}

TypeInv ==
    /\ TypeOK /\ sink \in Seq(Units) /\ Len(inBuff) <= BlockSize
    /\ inBuff \in Seq(Bytes) /\ todo \in Seq(Bytes)

\* Where a call can be, and what the encoder's buffers hold, whatever has thrown.
CallInv ==
    /\ pc = "idle" <=> op = "none"
    /\ pc = "loop" => op = "write" /\ ~frameClosed
    /\ Calling => ~frameClosed
    /\ pc = "flushOut" => op \in {"flush", "endFrame"}
    /\ pc \in {"closeOut", "release"} => op = "close"
    /\ op # "write" => todo = <<>>
    /\ op = "flush" => ~closeFrameOnFlush
    /\ isClosed => pc = "idle"
    /\ pc = "emit" => size = Len(outBuff)
    /\ pc \notin {"idle", "release"} => outcome = "none"
    /\ pc = "release" => outcome \in {"none", "thrown"}
    /\ outcome = "closed" => isClosed
    /\ frameStarted <=> frames # 0
    /\ stage = "load" => outBuff = <<>> /\ ~frameEnded
    /\ stage = "flush" => inBuff = <<>>

OrderInv == InOrder(Whole) /\ BytesIn(Whole) \subseteq 1..accepted

\* While nothing has thrown.  The frame opened last has its end among the units sent:
EndedNow == frameEnded /\ (stage = "flush" \/ (Ending /\ pc # "native") \/ isClosed)
Total == IF frames = 0 THEN 1 ELSE frames

\* Frames stand one behind the other, and there are as many as were opened.
UnitsInv ==
    /\ WellFormed(Sent)
    /\ Ended(Sent) <=> (stage = "init" \/ frameEnded \/ ~headerDone)
    /\ FrameCount(Sent) = IF frameClosed THEN frames ELSE IF EndedNow THEN Total ELSE Total - 1

\* Where the encoder is between frames and when its buffers are empty.
FrameInv ==
    /\ stage = "init" => inBuff = <<>> /\ outBuff = <<>>
    /\ frameEnded => stage = "init" \/ (stage = "flush" /\ Ending)
    /\ frameClosed => stage = "init"
    /\ Ending /\ pc \in {"result", "emit"} => frameEnded \/ outBuff # <<>>
    /\ op \in {"write", "flush"} /\ pc \in {"result", "emit"} => stage # "init"
    /\ stage = "flush" /\ pc \in {"result", "emit"} => outBuff # <<>>
    /\ op = "flush" /\ pc \in {"result", "emit"} => outBuff # <<>> \/ inBuff = <<>>
    /\ pc = "flushOut" => outBuff = <<>> /\ inBuff = <<>> /\ (op = "endFrame" => frameClosed)
    /\ pc \in {"closeOut", "release"} \/ isClosed =>
          stage = "init" /\ (IF frameClosed THEN frameStarted ELSE frameEnded)
    /\ ~frameStarted => frameClosed \/ op = "close" \/ isClosed

\* What out.flush() and out.close() have passed on, and what flush() and close() promise.
PushedInv ==
    /\ frameClosed /\ pc # "flushOut" => pushed = Len(sink)
    /\ (pc = "release" \/ isClosed) /\ closeParent => pushed = Len(sink)
    /\ outcome = "flushed" => /\ outBuff = <<>> /\ inBuff = <<>> /\ pushed = Len(sink) /\ pc = "idle"
                              /\ closeFrameOnFlush => frameClosed

Clean == failures = 0 => BytesIn(Whole) = 1..accepted /\ UnitsInv /\ FrameInv /\ PushedInv

IndInv == TypeInv /\ CallInv /\ OrderInv /\ Clean

-----------------------------------------------------------------------------
LEMMA Constants == {MaxBytes, BlockSize, DstSize} \subseteq Nat /\ BlockSize > 0 /\ DstSize > 0
  BY OutputAssumption

LEMMA Empty ==
    /\ <<>> \in Seq(Nat) /\ <<>> \in Seq(Units) /\ <<>> \in Seq(Bytes) /\ Len(<<>>) = 0
    /\ <<>> \o <<>> = <<>>
  BY EmptySeq, CatEmpty

LEMMA InitInd == Init => IndInv
<1> SUFFICES ASSUME Init PROVE IndInv
  OBVIOUS
<1>1. TypeInv
  <2>1. EncoderTypeOK
    <3>1. Len(dst) <= DstSize /\ size \in Nat
      BY Empty, Constants DEF Init
    <3> QED
      BY <3>1, Empty DEF Init, NativeStart, EncoderTypeOK
  <2>2. TypeOK
    <3>1. pushed \in 0..Len(sink) /\ accepted \in 0..MaxBytes /\ {released, frames, failures} \subseteq Nat
      BY Empty, Constants DEF Init
    <3> QED
      BY <2>1, <3>1 DEF Init, TypeOK
  <2> QED
    BY <2>2, Empty, Constants DEF Init, NativeStart, TypeInv
<1>2. CallInv
  BY DEF Init, NativeStart, CallInv, Calling
<1>3. Sent = <<>> /\ Whole = <<>> /\ sink = <<>>
  BY Empty DEF Init, NativeStart, Sent, Held, Calling, Whole, Rest
<1>4. InOrder(<<>>) /\ BytesIn(<<>>) = {} /\ 1..0 = {}
  BY Empty DEF InOrder, BytesIn
<1>5. OrderInv
  BY <1>3, <1>4 DEF OrderInv
<1>6. WellFormed(<<>>) /\ Ended(<<>>)
  BY DEF WellFormed, Ended
<1>7. FrameCount(<<>>) = 0
  <2>1. {i \in 1..0 : <<>>[i] = End} = {}
    OBVIOUS
  <2> QED
    BY <2>1, Empty, FS_EmptySet DEF FrameCount
<1>8. Clean
  <2>1. BytesIn(Whole) = 1..accepted
    BY <1>3, <1>4 DEF Init
  <2>2. UnitsInv
    BY <1>3, <1>6, <1>7 DEF Init, NativeStart, UnitsInv
  <2>3. FrameInv /\ PushedInv
    BY Empty DEF Init, NativeStart, FrameInv, PushedInv
  <2> QED
    BY <2>1, <2>2, <2>3 DEF Clean
<1> QED
  BY <1>1, <1>2, <1>5, <1>8 DEF IndInv

LEMMA SentTypes ==
    ASSUME TypeInv
    PROVE  /\ sink \in Seq(Units) /\ dst \in Seq(Units) /\ outBuff \in Seq(Units)
           /\ inBuff \in Seq(Units) /\ todo \in Seq(Units) /\ Rest \in Seq(Units)
           /\ Held \in Seq(Units) /\ Sent \in Seq(Units) /\ Whole \in Seq(Units)
<1>1. /\ sink \in Seq(Units) /\ dst \in Seq(Units) /\ outBuff \in Seq(Units)
      /\ inBuff \in Seq(Units) /\ todo \in Seq(Units) /\ Rest \in Seq(Units)
  BY Types DEF TypeInv, TypeOK, EncoderTypeOK
<1>2. Held \in Seq(Units)
  BY <1>1, Empty DEF Held
<1>3. Sent \in Seq(Units)
  <2>1. Held \o outBuff \in Seq(Units)
    BY <1>1, <1>2, CatType
  <2> QED
    BY <1>1, <2>1, CatType DEF Sent
<1> QED
  BY <1>1, <1>2, <1>3, CatType DEF Whole

\* A step that moves no unit.
LEMMA Quiet ==
    ASSUME Held' = Held, UNCHANGED <<sink, outBuff, inBuff, todo>>
    PROVE  Sent' = Sent /\ Whole' = Whole
  BY DEF Sent, Whole, Rest

\* out.write(dst, 0, dstPos)
LEMMA Written ==
    ASSUME TypeInv, Held = dst, sink' = sink \o dst, Held' = <<>>, UNCHANGED <<outBuff, inBuff, todo>>
    PROVE  Sent' = Sent /\ Whole' = Whole /\ sink' \in Seq(Units) /\ Len(sink') >= Len(sink)
<1>1. sink \in Seq(Units) /\ dst \in Seq(Units) /\ outBuff \in Seq(Units)
  BY SentTypes
<1>2. (sink \o dst) \o outBuff = sink \o (dst \o outBuff) /\ <<>> \o outBuff = outBuff
  <2>1. Assoc(sink, dst, outBuff)
    BY <1>1, CatAssoc
  <2>2. <<>> \o outBuff = outBuff
    BY <1>1, CatEmpty
  <2> QED
    BY <2>1, <2>2 DEF Assoc
<1>3. Sent' = Sent
  BY <1>2 DEF Sent
<1>4. sink' \in Seq(Units) /\ Len(sink') = Len(sink) + Len(dst)
  BY <1>1, CatType
<1>5. Len(sink) \in Nat /\ Len(dst) \in Nat
  BY <1>1
<1> QED
  BY <1>3, <1>4, <1>5 DEF Whole, Rest

LEMMA SameOrder == ASSUME OrderInv, Whole' = Whole, accepted' = accepted PROVE OrderInv'
  BY DEF OrderInv

LEMMA LessOrder == ASSUME OrderInv, Part(Whole', Whole), accepted' = accepted PROVE OrderInv'
  BY DEF OrderInv, Part

LEMMA Lengths ==
    ASSUME TypeInv
    PROVE  /\ Len(sink) \in Nat /\ Len(outBuff) \in Nat /\ (Len(outBuff) = 0 <=> outBuff = <<>>)
           /\ accepted \in Nat /\ frames \in Nat /\ failures \in Nat /\ released \in Nat
<1>1. outBuff \in Seq(Units) /\ sink \in Seq(Units)
  BY SentTypes
<1> QED
  BY <1>1, EmptySeq DEF TypeInv, TypeOK

-----------------------------------------------------------------------------
(***************************************************************************)
(* One lemma per action                                                    *)
(***************************************************************************)

LEMMA SetInd == ASSUME IndInv, NEW b \in BOOLEAN, SetCloseFrameOnFlush(b) PROVE IndInv'
<1>1. /\ pc = "idle" /\ frameClosed /\ closeFrameOnFlush' = b /\ outcome' = "none"
      /\ UNCHANGED <<isClosed, frameClosed, frameStarted, closeParent, op, pc, todo, dst, size, stage,
                     headerDone, inBuff, outBuff, frameEnded, sink, pushed, released, accepted, frames, failures>>
  BY DEF SetCloseFrameOnFlush, native, parent, app
<1>2. Sent' = Sent /\ Whole' = Whole
  BY <1>1, Quiet DEF Held, Calling
<1>3. TypeInv'
  <2>1. EncoderTypeOK'
    BY <1>1 DEF IndInv, TypeInv, TypeOK, EncoderTypeOK
  <2>2. TypeOK'
    BY <1>1, <2>1 DEF IndInv, TypeInv, TypeOK
  <2> QED
    BY <1>1, <2>2 DEF IndInv, TypeInv
<1>4. CallInv'
  BY <1>1 DEF IndInv, CallInv, Calling
<1>5. OrderInv'
  BY <1>1, <1>2, SameOrder DEF IndInv
<1>6. Clean'
  BY <1>1, <1>2 DEF IndInv, CallInv, Clean, UnitsInv, EndedNow, Ending, Total, FrameInv, PushedInv
<1> QED
  BY <1>3, <1>4, <1>5, <1>6 DEF IndInv

LEMMA WriteLoopInd == ASSUME IndInv, WriteLoop PROVE IndInv'
<1>1. /\ pc = "loop" /\ dst' = <<>>
      /\ \/ /\ todo = <<>> /\ op' = "none" /\ pc' = "idle" /\ todo' = <<>> /\ size' = 0 /\ outcome' = "written"
         \/ /\ todo # <<>> /\ pc' = "native" /\ UNCHANGED <<op, todo, size, outcome>>
      /\ UNCHANGED <<isClosed, frameClosed, frameStarted, closeFrameOnFlush, closeParent, stage,
                     headerDone, inBuff, outBuff, frameEnded, sink, pushed, released, accepted, frames, failures>>
  BY DEF WriteLoop, Return, Goto, java, native, parent, app
<1>2. op = "write" /\ ~frameClosed /\ ~isClosed /\ todo' = todo
  BY <1>1 DEF IndInv, CallInv
<1>3. Sent' = Sent /\ Whole' = Whole
  <2>1. Held' = Held
    BY <1>1 DEF Held, Calling
  <2> QED
    BY <1>1, <1>2, <2>1, Quiet
<1>4. TypeInv'
  <2>1. EncoderTypeOK'
    <3>1. Len(dst') <= DstSize /\ size' \in Nat
      BY <1>1, Empty, Constants DEF IndInv, TypeInv, TypeOK, EncoderTypeOK
    <3> QED
      BY <1>1, <1>2, <3>1, Empty DEF IndInv, TypeInv, TypeOK, EncoderTypeOK
  <2>2. TypeOK'
    BY <1>1, <2>1 DEF IndInv, TypeInv, TypeOK
  <2> QED
    BY <1>1, <1>2, <2>2 DEF IndInv, TypeInv
<1>5. CallInv'
  BY <1>1, <1>2 DEF IndInv, CallInv, Calling
<1>6. OrderInv'
  BY <1>1, <1>3, SameOrder DEF IndInv
<1>7. Clean'
  BY <1>1, <1>2, <1>3 DEF IndInv, CallInv, Clean, UnitsInv, EndedNow, Ending, Total, FrameInv, PushedInv
<1> QED
  BY <1>4, <1>5, <1>6, <1>7 DEF IndInv

LEMMA FlushInd == ASSUME IndInv, Flush PROVE IndInv'
<1>1. /\ pc = "idle" /\ ~isClosed /\ dst' = <<>>
      /\ \/ /\ frameClosed /\ op' = "none" /\ pc' = "idle" /\ todo' = <<>> /\ size' = 0 /\ outcome' = "flushed"
         \/ /\ ~frameClosed /\ op' = (IF closeFrameOnFlush THEN "endFrame" ELSE "flush") /\ pc' = "native"
            /\ outcome' = "none" /\ UNCHANGED <<todo, size>>
      /\ UNCHANGED <<isClosed, frameClosed, frameStarted, closeFrameOnFlush, closeParent, stage,
                     headerDone, inBuff, outBuff, frameEnded, sink, pushed, released, accepted, frames, failures>>
  BY DEF Flush, Return, java, native, parent, app
<1>2. op = "none" /\ todo = <<>> /\ todo' = todo
  BY <1>1 DEF IndInv, CallInv
<1>3. Sent' = Sent /\ Whole' = Whole
  <2>1. Held' = Held
    BY <1>1 DEF Held, Calling
  <2> QED
    BY <1>1, <1>2, <2>1, Quiet
<1>4. TypeInv'
  <2>1. EncoderTypeOK'
    <3>1. Len(dst') <= DstSize /\ size' \in Nat
      BY <1>1, Empty, Constants DEF IndInv, TypeInv, TypeOK, EncoderTypeOK
    <3> QED
      BY <1>1, <1>2, <3>1, Empty DEF IndInv, TypeInv, TypeOK, EncoderTypeOK
  <2>2. TypeOK'
    BY <1>1, <2>1 DEF IndInv, TypeInv, TypeOK
  <2> QED
    BY <1>1, <1>2, <2>2 DEF IndInv, TypeInv
<1>5. CallInv'
  BY <1>1, <1>2 DEF IndInv, CallInv, Calling
<1>6. OrderInv'
  BY <1>1, <1>3, SameOrder DEF IndInv
<1>7. Clean'
  BY <1>1, <1>2, <1>3 DEF IndInv, CallInv, Clean, UnitsInv, EndedNow, Ending, Total, FrameInv, PushedInv
<1> QED
  BY <1>4, <1>5, <1>6, <1>7 DEF IndInv

LEMMA CloseInd == ASSUME IndInv, NEW b \in BOOLEAN, Close(b) PROVE IndInv'
<1>1. /\ pc = "idle" /\ ~isClosed /\ closeParent' = b /\ op' = "close" /\ outcome' = "none" /\ dst' = <<>>
      /\ frameClosed' = (frameClosed /\ frameStarted)
      /\ stage' = (IF frameStarted THEN stage ELSE "init")
      /\ pc' = (IF frameClosed' THEN "closeOut" ELSE "native")
      /\ UNCHANGED <<isClosed, frameStarted, closeFrameOnFlush, todo, size,
                     headerDone, inBuff, outBuff, frameEnded, sink, pushed, released, accepted, frames, failures>>
  BY DEF Close, resetCStream, ZSTD_CCtx_reset, native, parent, app
<1>2. op = "none" /\ todo = <<>>
  BY <1>1 DEF IndInv, CallInv
<1>3. Sent' = Sent /\ Whole' = Whole
  <2>1. Held' = Held
    BY <1>1 DEF Held, Calling
  <2> QED
    BY <1>1, <2>1, Quiet
<1>4. TypeInv'
  <2>1. EncoderTypeOK'
    <3>1. Len(dst') <= DstSize /\ stage' \in {"init", "load", "flush"}
      BY <1>1, Empty, Constants DEF IndInv, TypeInv, TypeOK, EncoderTypeOK
    <3> QED
      BY <1>1, <3>1, Empty DEF IndInv, TypeInv, TypeOK, EncoderTypeOK
  <2>2. TypeOK'
    BY <1>1, <2>1 DEF IndInv, TypeInv, TypeOK
  <2> QED
    BY <1>1, <2>2 DEF IndInv, TypeInv
<1>5. CallInv'
  BY <1>1, <1>2 DEF IndInv, CallInv, Calling
<1>6. OrderInv'
  BY <1>1, <1>3, SameOrder DEF IndInv
<1>7. ASSUME failures = 0 PROVE UnitsInv' /\ FrameInv' /\ PushedInv' /\ BytesIn(Whole') = 1..accepted'
  <2>1. UnitsInv /\ FrameInv /\ PushedInv /\ BytesIn(Whole) = 1..accepted
    BY <1>7 DEF IndInv, Clean
  <2>2. stage' = stage /\ (~frameStarted => frameClosed)
    BY <1>1, <1>2, <2>1 DEF FrameInv
  <2>3. FrameInv'
    BY <1>1, <1>2, <2>1, <2>2 DEF FrameInv, Ending
  <2>4. ~EndedNow /\ (~frameClosed' => ~EndedNow')
    BY <1>1, <1>2, <2>1, <2>2 DEF FrameInv, EndedNow, Ending
  <2>5. UnitsInv'
    <3>1. Total' = Total /\ (frames = 0 => Total = 1) /\ frames \in Nat /\ Total \in Nat
      BY <1>1, Lengths DEF Total, IndInv
    <3>2. frameClosed /\ ~frameClosed' => frames = 0
      BY <1>1 DEF IndInv, CallInv
    <3>3. WellFormed(Sent') /\ (Ended(Sent') <=> (stage' = "init" \/ frameEnded' \/ ~headerDone'))
      BY <1>1, <1>3, <2>1, <2>2 DEF UnitsInv
    <3>4. FrameCount(Sent') = IF frameClosed' THEN frames' ELSE Total' - 1
      <4>1. FrameCount(Sent) = IF frameClosed THEN frames ELSE Total - 1
        BY <2>1, <2>4 DEF UnitsInv
      <4>2. frames' = frames /\ (frameClosed' => frameClosed)
        BY <1>1
      <4>3. FrameCount(Sent) = IF frameClosed' THEN frames ELSE Total - 1
        BY <3>1, <3>2, <4>1, <4>2
      <4> QED
        BY <1>3, <3>1, <4>2, <4>3
    <3> QED
      BY <2>4, <3>3, <3>4 DEF UnitsInv
  <2>6. PushedInv'
    BY <1>1, <2>1 DEF PushedInv
  <2> QED
    BY <1>1, <1>3, <2>1, <2>3, <2>5, <2>6
<1> QED
  BY <1>1, <1>4, <1>5, <1>6, <1>7 DEF IndInv, Clean

LEMMA EmitWriteInd == ASSUME IndInv, EmitWrite PROVE IndInv'
<1>1. /\ pc = "emit" /\ op = "write" /\ sink' = sink \o dst /\ pc' = "loop"
      /\ UNCHANGED <<isClosed, frameClosed, frameStarted, closeFrameOnFlush, closeParent, op, todo, dst, size,
                     stage, headerDone, inBuff, outBuff, frameEnded, pushed, released, accepted, frames, failures, outcome>>
  BY DEF EmitWrite, Goto, java, native, app
<1>2. ~frameClosed /\ ~isClosed /\ outcome = "none"
  BY <1>1 DEF IndInv, CallInv, Calling
<1>3. Sent' = Sent /\ Whole' = Whole /\ sink' \in Seq(Units) /\ Len(sink') >= Len(sink)
  <2>1. Held' = <<>> /\ Held = dst
    BY <1>1 DEF Held, Calling
  <2> QED
    BY <1>1, <2>1, Written DEF IndInv
<1>4. TypeInv'
  <2>1. EncoderTypeOK'
    BY <1>1 DEF IndInv, TypeInv, TypeOK, EncoderTypeOK
  <2>2. pushed' \in 0..Len(sink')
    BY <1>1, <1>3, Lengths DEF IndInv, TypeInv, TypeOK
  <2>3. TypeOK'
    BY <1>1, <2>1, <2>2 DEF IndInv, TypeInv, TypeOK
  <2> QED
    BY <1>1, <1>3, <2>3 DEF IndInv, TypeInv
<1>5. CallInv'
  BY <1>1, <1>2 DEF IndInv, CallInv, Calling
<1>6. OrderInv'
  BY <1>1, <1>3, SameOrder DEF IndInv
<1>7. ASSUME failures = 0 PROVE UnitsInv' /\ FrameInv' /\ PushedInv' /\ BytesIn(Whole') = 1..accepted'
  <2>1. UnitsInv /\ FrameInv /\ PushedInv /\ BytesIn(Whole) = 1..accepted
    BY <1>7 DEF IndInv, Clean
  <2>2. FrameInv'
    BY <1>1, <1>2, <2>1 DEF FrameInv, Ending
  <2>3. EndedNow' <=> EndedNow
    BY <1>1 DEF EndedNow, Ending
  <2>4. UnitsInv'
    BY <1>1, <1>3, <2>1, <2>3 DEF UnitsInv, Total
  <2>5. PushedInv'
    BY <1>1, <1>2, <2>1 DEF PushedInv
  <2> QED
    BY <1>1, <1>3, <2>1, <2>2, <2>4, <2>5
<1> QED
  BY <1>1, <1>4, <1>5, <1>6, <1>7 DEF IndInv, Clean

LEMMA EmitMoreInd == ASSUME IndInv, EmitMore PROVE IndInv'
<1>1. /\ pc = "emit" /\ op # "write" /\ size > 0 /\ sink' = sink \o dst /\ pc' = "native" /\ dst' = <<>>
      /\ UNCHANGED <<isClosed, frameClosed, frameStarted, closeFrameOnFlush, closeParent, op, todo, size,
                     stage, headerDone, inBuff, outBuff, frameEnded, pushed, released, accepted, frames, failures, outcome>>
  BY DEF EmitMore, java, native, app
<1>2. ~frameClosed /\ ~isClosed /\ outcome = "none" /\ outBuff # <<>> /\ stage # "load"
  BY <1>1, Lengths DEF IndInv, CallInv, Calling
<1>3. Sent' = Sent /\ Whole' = Whole /\ sink' \in Seq(Units) /\ Len(sink') >= Len(sink)
  <2>1. Held' = <<>> /\ Held = dst
    BY <1>1 DEF Held, Calling
  <2> QED
    BY <1>1, <2>1, Written DEF IndInv
<1>4. TypeInv'
  <2>1. EncoderTypeOK'
    <3>1. Len(dst') <= DstSize
      BY <1>1, Empty, Constants
    <3> QED
      BY <1>1, <3>1, Empty DEF IndInv, TypeInv, TypeOK, EncoderTypeOK
  <2>2. pushed' \in 0..Len(sink')
    BY <1>1, <1>3, Lengths DEF IndInv, TypeInv, TypeOK
  <2>3. TypeOK'
    BY <1>1, <2>1, <2>2 DEF IndInv, TypeInv, TypeOK
  <2> QED
    BY <1>1, <1>3, <2>3 DEF IndInv, TypeInv
<1>5. CallInv'
  BY <1>1, <1>2 DEF IndInv, CallInv, Calling
<1>6. OrderInv'
  BY <1>1, <1>3, SameOrder DEF IndInv
<1>7. ASSUME failures = 0 PROVE UnitsInv' /\ FrameInv' /\ PushedInv' /\ BytesIn(Whole') = 1..accepted'
  <2>1. UnitsInv /\ FrameInv /\ PushedInv /\ BytesIn(Whole) = 1..accepted
    BY <1>7 DEF IndInv, Clean
  <2>2. stage = "flush"
    BY <1>2, <2>1 DEF FrameInv, IndInv, TypeInv, TypeOK, EncoderTypeOK
  <2>3. FrameInv'
    BY <1>1, <1>2, <2>1, <2>2 DEF FrameInv, Ending
  <2>4. EndedNow' <=> EndedNow
    BY <1>1, <2>2 DEF EndedNow, Ending
  <2>5. UnitsInv'
    BY <1>1, <1>3, <2>1, <2>4 DEF UnitsInv, Total
  <2>6. PushedInv'
    BY <1>1, <1>2, <2>1 DEF PushedInv
  <2> QED
    BY <1>1, <1>3, <2>1, <2>3, <2>5, <2>6
<1> QED
  BY <1>1, <1>4, <1>5, <1>6, <1>7 DEF IndInv, Clean

LEMMA EmitDoneInd == ASSUME IndInv, EmitDone PROVE IndInv'
<1>1. /\ pc = "emit" /\ op # "write" /\ size = 0 /\ sink' = sink \o dst
      /\ frameClosed' = (frameClosed \/ op = "endFrame")
      /\ pc' = (IF op = "close" THEN "closeOut" ELSE "flushOut")
      /\ UNCHANGED <<isClosed, frameStarted, closeFrameOnFlush, closeParent, op, todo, dst, size,
                     stage, headerDone, inBuff, outBuff, frameEnded, pushed, released, accepted, frames, failures, outcome>>
  BY DEF EmitDone, Goto, native, app
<1>2. /\ ~frameClosed /\ ~isClosed /\ outcome = "none" /\ outBuff = <<>>
      /\ op \in {"flush", "endFrame", "close"} /\ (frameClosed' <=> op = "endFrame")
  BY <1>1, Lengths DEF IndInv, CallInv, Calling, TypeInv, TypeOK
<1>3. Sent' = Sent /\ Whole' = Whole /\ sink' \in Seq(Units) /\ Len(sink') >= Len(sink)
  <2>1. Held' = <<>> /\ Held = dst
    BY <1>1 DEF Held, Calling
  <2> QED
    BY <1>1, <2>1, Written DEF IndInv
<1>4. TypeInv'
  <2>1. EncoderTypeOK'
    BY <1>1 DEF IndInv, TypeInv, TypeOK, EncoderTypeOK
  <2>2. pushed' \in 0..Len(sink')
    BY <1>1, <1>3, Lengths DEF IndInv, TypeInv, TypeOK
  <2>3. TypeOK'
    BY <1>1, <2>1, <2>2 DEF IndInv, TypeInv, TypeOK
  <2> QED
    BY <1>1, <1>3, <2>3 DEF IndInv, TypeInv
<1>5. CallInv'
  BY <1>1, <1>2 DEF IndInv, CallInv, Calling
<1>6. OrderInv'
  BY <1>1, <1>3, SameOrder DEF IndInv
<1>7. ASSUME failures = 0 PROVE UnitsInv' /\ FrameInv' /\ PushedInv' /\ BytesIn(Whole') = 1..accepted'
  <2>1. UnitsInv /\ FrameInv /\ PushedInv /\ BytesIn(Whole) = 1..accepted
    BY <1>7 DEF IndInv, Clean
  <2>2. op # "flush" => frameEnded /\ stage = "init"
    BY <1>1, <1>2, <2>1 DEF FrameInv, Ending
  <2>3. op = "flush" => inBuff = <<>> /\ ~frameEnded
    BY <1>1, <1>2, <2>1 DEF FrameInv, Ending
  <2>4. op = "endFrame" => frames # 0
    BY <1>2, <2>1 DEF FrameInv, IndInv, CallInv
  <2>5. FrameInv'
    BY <1>1, <1>2, <2>1, <2>2, <2>3 DEF FrameInv, Ending
  <2>6. (EndedNow <=> op # "flush") /\ (EndedNow' <=> op # "flush")
    BY <1>1, <1>2, <2>2, <2>3 DEF EndedNow, Ending
  <2>7. UnitsInv'
    BY <1>1, <1>2, <1>3, <2>1, <2>4, <2>6 DEF UnitsInv, Total
  <2>8. PushedInv'
    BY <1>1, <1>2, <2>1 DEF PushedInv
  <2> QED
    BY <1>1, <1>3, <2>1, <2>5, <2>7, <2>8
<1> QED
  BY <1>1, <1>4, <1>5, <1>6, <1>7 DEF IndInv, Clean

LEMMA FlushOutInd == ASSUME IndInv, FlushOut PROVE IndInv'
<1>1. /\ pc = "flushOut" /\ pushed' = Len(sink) /\ op' = "none" /\ pc' = "idle" /\ todo' = <<>> /\ size' = 0
      /\ outcome' = "flushed"
      /\ UNCHANGED <<isClosed, frameClosed, frameStarted, closeFrameOnFlush, closeParent, dst,
                     stage, headerDone, inBuff, outBuff, frameEnded, sink, released, accepted, frames, failures>>
  BY DEF FlushOut, Return, java, native, app
<1>2. op \in {"flush", "endFrame"} /\ todo = <<>> /\ ~isClosed /\ (op = "flush" => ~closeFrameOnFlush)
  BY <1>1 DEF IndInv, CallInv
<1>3. Sent' = Sent /\ Whole' = Whole
  <2>1. Held' = Held
    BY <1>1 DEF Held, Calling
  <2> QED
    BY <1>1, <1>2, <2>1, Quiet
<1>4. TypeInv'
  <2>1. EncoderTypeOK'
    BY <1>1, <1>2, Empty DEF IndInv, TypeInv, TypeOK, EncoderTypeOK
  <2>2. pushed' \in 0..Len(sink')
    BY <1>1, Lengths DEF IndInv
  <2>3. TypeOK'
    BY <1>1, <2>1, <2>2 DEF IndInv, TypeInv, TypeOK
  <2> QED
    BY <1>1, <2>3, Empty DEF IndInv, TypeInv
<1>5. CallInv'
  BY <1>1, <1>2 DEF IndInv, CallInv, Calling
<1>6. OrderInv'
  BY <1>1, <1>3, SameOrder DEF IndInv
<1>7. ASSUME failures = 0 PROVE UnitsInv' /\ FrameInv' /\ PushedInv' /\ BytesIn(Whole') = 1..accepted'
  <2>1. UnitsInv /\ FrameInv /\ PushedInv /\ BytesIn(Whole) = 1..accepted
    BY <1>7 DEF IndInv, Clean
  <2>2. FrameInv'
    BY <1>1, <1>2, <2>1 DEF FrameInv, Ending
  <2>3. ~frameClosed => ~EndedNow /\ ~EndedNow'
    BY <1>1, <1>2, <2>1 DEF EndedNow, Ending, FrameInv
  <2>4. UnitsInv'
    BY <1>1, <1>3, <2>1, <2>3 DEF UnitsInv, Total
  <2>5. PushedInv'
    BY <1>1, <1>2, <2>1 DEF PushedInv, FrameInv
  <2> QED
    BY <1>1, <1>3, <2>1, <2>2, <2>4, <2>5
<1> QED
  BY <1>1, <1>4, <1>5, <1>6, <1>7 DEF IndInv, Clean

LEMMA CloseOutInd == ASSUME IndInv, CloseOut PROVE IndInv'
<1>1. /\ pc = "closeOut" /\ pushed' = (IF closeParent THEN Len(sink) ELSE pushed) /\ pc' = "release"
      /\ UNCHANGED <<isClosed, frameClosed, frameStarted, closeFrameOnFlush, closeParent, op, todo, dst, size,
                     stage, headerDone, inBuff, outBuff, frameEnded, sink, released, accepted, frames, failures, outcome>>
  BY DEF CloseOut, Goto, java, native, app
<1>2. op = "close" /\ ~isClosed /\ outcome = "none"
  BY <1>1 DEF IndInv, CallInv
<1>3. Sent' = Sent /\ Whole' = Whole
  <2>1. Held' = Held
    BY <1>1 DEF Held, Calling
  <2> QED
    BY <1>1, <2>1, Quiet
<1>4. TypeInv'
  <2>1. EncoderTypeOK'
    BY <1>1 DEF IndInv, TypeInv, TypeOK, EncoderTypeOK
  <2>2. pushed' \in 0..Len(sink')
    BY <1>1, Lengths DEF IndInv, TypeInv, TypeOK
  <2>3. TypeOK'
    BY <1>1, <2>1, <2>2 DEF IndInv, TypeInv, TypeOK
  <2> QED
    BY <1>1, <2>3 DEF IndInv, TypeInv
<1>5. CallInv'
  BY <1>1, <1>2 DEF IndInv, CallInv, Calling
<1>6. OrderInv'
  BY <1>1, <1>3, SameOrder DEF IndInv
<1>7. ASSUME failures = 0 PROVE UnitsInv' /\ FrameInv' /\ PushedInv' /\ BytesIn(Whole') = 1..accepted'
  <2>1. UnitsInv /\ FrameInv /\ PushedInv /\ BytesIn(Whole) = 1..accepted
    BY <1>7 DEF IndInv, Clean
  <2>2. FrameInv'
    BY <1>1, <1>2, <2>1 DEF FrameInv, Ending
  <2>3. EndedNow' <=> EndedNow
    BY <1>1 DEF EndedNow, Ending
  <2>4. UnitsInv'
    BY <1>1, <1>3, <2>1, <2>3 DEF UnitsInv, Total
  <2>5. PushedInv'
    BY <1>1, <1>2, <2>1 DEF PushedInv
  <2> QED
    BY <1>1, <1>3, <2>1, <2>2, <2>4, <2>5
<1> QED
  BY <1>1, <1>4, <1>5, <1>6, <1>7 DEF IndInv, Clean

LEMMA ReleaseInd == ASSUME IndInv, Release PROVE IndInv'
<1>1. /\ pc = "release" /\ isClosed' = TRUE /\ released' = released + 1 /\ op' = "none" /\ pc' = "idle"
      /\ todo' = <<>> /\ size' = 0 /\ outcome' \in {"thrown", "closed"}
      /\ UNCHANGED <<frameClosed, frameStarted, closeFrameOnFlush, closeParent, dst,
                     stage, headerDone, inBuff, outBuff, frameEnded, sink, pushed, accepted, frames, failures>>
  BY DEF Release, Return, native, parent, app
<1>2. op = "close" /\ todo = <<>>
  BY <1>1 DEF IndInv, CallInv
<1>3. Sent' = Sent /\ Whole' = Whole
  <2>1. Held' = Held
    BY <1>1 DEF Held, Calling
  <2> QED
    BY <1>1, <1>2, <2>1, Quiet
<1>4. TypeInv'
  <2>1. EncoderTypeOK'
    BY <1>1, <1>2, Empty DEF IndInv, TypeInv, TypeOK, EncoderTypeOK
  <2>2. released' \in Nat
    BY <1>1, Lengths DEF IndInv
  <2>3. TypeOK'
    BY <1>1, <2>1, <2>2 DEF IndInv, TypeInv, TypeOK
  <2> QED
    BY <1>1, <2>3, Empty DEF IndInv, TypeInv
<1>5. CallInv'
  BY <1>1, <1>2 DEF IndInv, CallInv, Calling
<1>6. OrderInv'
  BY <1>1, <1>3, SameOrder DEF IndInv
<1>7. ASSUME failures = 0 PROVE UnitsInv' /\ FrameInv' /\ PushedInv' /\ BytesIn(Whole') = 1..accepted'
  <2>1. UnitsInv /\ FrameInv /\ PushedInv /\ BytesIn(Whole) = 1..accepted
    BY <1>7 DEF IndInv, Clean
  <2>2. FrameInv'
    BY <1>1, <1>2, <2>1 DEF FrameInv, Ending
  <2>3. EndedNow' <=> EndedNow
    BY <1>1, <1>2 DEF EndedNow, Ending
  <2>4. UnitsInv'
    BY <1>1, <1>3, <2>1, <2>3 DEF UnitsInv, Total
  <2>5. PushedInv'
    BY <1>1, <1>2, <2>1 DEF PushedInv
  <2> QED
    BY <1>1, <1>3, <2>1, <2>2, <2>4, <2>5
<1> QED
  BY <1>1, <1>4, <1>5, <1>6, <1>7 DEF IndInv, Clean

LEMMA WriteInd == ASSUME IndInv, NEW n \in 0..MaxBytes, Write(n) PROVE IndInv'
<1>1. /\ pc = "idle" /\ ~isClosed /\ accepted + n <= MaxBytes /\ op' = "write" /\ pc' = "loop"
      /\ outcome' = "none" /\ size' = 0 /\ todo' = [i \in 1..n |-> accepted + i] /\ accepted' = accepted + n
      /\ stage' = (IF frameClosed THEN "init" ELSE stage) /\ frames' = (IF frameClosed THEN frames + 1 ELSE frames)
      /\ frameClosed' = FALSE /\ frameStarted' = (frameStarted \/ frameClosed)
      /\ UNCHANGED <<isClosed, closeFrameOnFlush, closeParent, dst,
                     headerDone, inBuff, outBuff, frameEnded, sink, pushed, released, failures>>
  BY DEF Write, resetCStream, ZSTD_CCtx_reset, native, parent
<1>2. op = "none" /\ todo = <<>>
  BY <1>1 DEF IndInv, CallInv
<1>3. Sent' = Sent
  BY <1>1 DEF Sent, Held, Calling
<1>4. accepted \in Nat /\ n \in Nat /\ frames \in Nat
  BY Lengths, Constants DEF IndInv
<1>5. /\ todo' \in Seq(Nat) /\ todo' \in Seq(Bytes) /\ Len(todo') = n
      /\ \A i \in 1..n : todo'[i] = accepted + i
  BY <1>1, <1>4 DEF Bytes
<1>6. TypeInv'
  <2>1. EncoderTypeOK'
    BY <1>1, <1>5 DEF IndInv, TypeInv, TypeOK, EncoderTypeOK
  <2>2. accepted' \in 0..MaxBytes /\ frames' \in Nat
    BY <1>1, <1>4, Constants
  <2>3. TypeOK'
    BY <1>1, <2>1, <2>2 DEF IndInv, TypeInv, TypeOK
  <2> QED
    BY <1>1, <1>5, <2>3 DEF IndInv, TypeInv
<1>7. CallInv'
  <2>1. frameStarted' <=> frames' # 0
    <3>1. CASE frameClosed
      <4>1. frameStarted'
        BY <1>1, <3>1
      <4>2. frames' = frames + 1
        BY <1>1, <3>1
      <4>3. frames' # 0
        BY <1>4, <4>2
      <4> QED
        BY <4>1, <4>3
    <3>2. CASE ~frameClosed
      BY <1>1, <3>2 DEF IndInv, CallInv, TypeInv, TypeOK
    <3> QED
      BY <3>1, <3>2
  <2> QED
    BY <1>1, <1>2, <2>1 DEF IndInv, CallInv, Calling
<1>8. /\ OrderInv'
      /\ BytesIn(Whole) = 1..accepted => BytesIn(Whole') = 1..accepted'
  <2>1. PICK a \in Seq(Units) : a = Sent \o inBuff
    BY SentTypes, CatType DEF IndInv
  <2>2. Whole = a
    BY <1>2, <2>1, SentTypes, CatEmpty DEF Whole, Rest, IndInv
  <2>3. PICK t \in Seq(Units) : t = todo'
    BY <1>5, NatSeq
  <2>4. Whole' = a \o t
    <3>1. Sent \in Seq(Units) /\ inBuff \in Seq(Units)
      BY SentTypes DEF IndInv
    <3>2. (Sent \o inBuff) \o t = Sent \o (inBuff \o t)
      <4>1. Assoc(Sent, inBuff, t)
        BY <3>1, CatAssoc
      <4> QED
        BY <4>1 DEF Assoc
    <3> QED
      BY <1>1, <1>3, <2>1, <2>3, <3>2 DEF Whole, Rest
  <2>5. InOrder(t) /\ BytesIn(t) = accepted + 1..accepted + n
    <3>1. Len(t) = n /\ \A i \in 1..Len(t) : t[i] = accepted + i
      BY <1>5, <2>3
    <3> QED
      BY <1>4, <3>1, Numbered
  <2>6. InOrder(a) /\ BytesIn(a) \subseteq 1..accepted
    BY <2>2 DEF IndInv, OrderInv
  <2>7. /\ BytesIn(a \o t) = BytesIn(a) \cup BytesIn(t)
        /\ InOrder(a \o t) <=> InOrder(a) /\ InOrder(t) /\ \A x \in BytesIn(a), y \in BytesIn(t) : x < y
    BY Joined
  <2>8. \A x \in BytesIn(a), y \in BytesIn(t) : x < y
    BY <1>4, <2>5, <2>6
  <2>9. InOrder(a \o t)
    BY <2>5, <2>6, <2>7, <2>8
  <2>10. /\ BytesIn(a \o t) \subseteq 1..accepted + n
         /\ BytesIn(a) = 1..accepted => BytesIn(a \o t) = 1..accepted + n
    BY <1>4, <2>5, <2>6, <2>7
  <2> QED
    BY <1>1, <2>2, <2>4, <2>9, <2>10 DEF OrderInv
<1>9. ASSUME failures = 0 PROVE UnitsInv' /\ FrameInv' /\ PushedInv' /\ BytesIn(Whole') = 1..accepted'
  <2>1. UnitsInv /\ FrameInv /\ PushedInv /\ BytesIn(Whole) = 1..accepted
    BY <1>9 DEF IndInv, Clean
  <2>2. stage' = stage
    BY <1>1, <2>1 DEF FrameInv
  <2>3. FrameInv'
    <3>1. frameStarted' /\ (frameEnded => stage = "init")
      BY <1>1, <1>2, <2>1 DEF FrameInv, Ending
    <3> QED
      BY <1>1, <1>2, <2>1, <2>2, <3>1 DEF FrameInv, Ending
  <2>4. ~EndedNow /\ ~EndedNow'
    BY <1>1, <1>2, <2>1, <2>2 DEF FrameInv, EndedNow, Ending
  <2>5. UnitsInv'
    <3>1. FrameCount(Sent) = Total' - 1
      <4>1. CASE frameClosed
        BY <1>1, <1>4, <2>1, <4>1 DEF UnitsInv, Total
      <4>2. CASE ~frameClosed
        BY <1>1, <1>4, <2>1, <2>4, <4>2 DEF UnitsInv, Total
      <4> QED
        BY <4>1, <4>2
    <3> QED
      BY <1>1, <1>3, <2>1, <2>2, <2>4, <3>1 DEF UnitsInv
  <2>6. PushedInv'
    BY <1>1, <2>1 DEF PushedInv
  <2> QED
    BY <1>8, <2>1, <2>3, <2>5, <2>6
<1> QED
  BY <1>1, <1>6, <1>7, <1>8, <1>9 DEF IndInv, Clean

-----------------------------------------------------------------------------
(***************************************************************************)
(* Exceptions.  What was to come is dropped.                               *)
(***************************************************************************)
LEMMA ThrowInd ==
    ASSUME IndInv, Throw, pc # "idle", pc # "release",
           sink' \in Seq(Units), Len(sink') >= Len(sink), Part(Whole', Whole),
           UNCHANGED <<java, dst, native, pushed, released, app>>
    PROVE  IndInv'
<1>1. /\ \/ op = "close" /\ pc' = "release" /\ op' = op
         \/ op # "close" /\ pc' = "idle" /\ op' = "none"
      /\ todo' = <<>> /\ size' = 0 /\ failures' = failures + 1 /\ outcome' = "thrown"
      /\ UNCHANGED <<isClosed, frameClosed, frameStarted, closeFrameOnFlush, closeParent, dst,
                     stage, headerDone, inBuff, outBuff, frameEnded, pushed, released, accepted, frames>>
  BY DEF Throw, java, native, app
<1>2. failures' \in Nat /\ failures' # 0
  BY <1>1, Lengths DEF IndInv
<1>3. TypeInv'
  <2>1. EncoderTypeOK'
    BY <1>1, Empty DEF IndInv, TypeInv, TypeOK, EncoderTypeOK
  <2>2. pushed' \in 0..Len(sink')
    <3>1. Len(sink') \in Nat
      OBVIOUS
    <3> QED
      BY <1>1, <3>1, Lengths DEF IndInv, TypeInv, TypeOK
  <2>3. TypeOK'
    BY <1>1, <1>2, <2>1, <2>2 DEF IndInv, TypeInv, TypeOK
  <2> QED
    BY <1>1, <2>3, Empty DEF IndInv, TypeInv
<1>4. CallInv'
  BY <1>1 DEF IndInv, CallInv, Calling
<1>5. OrderInv'
  BY <1>1, LessOrder DEF IndInv
<1> QED
  BY <1>2, <1>3, <1>4, <1>5 DEF IndInv, Clean

\* The units sent stay; the array that was being written is dropped.
LEMMA TodoDropped ==
    ASSUME TypeInv, Sent' = Sent, inBuff' = inBuff, todo' = <<>>
    PROVE  Part(Whole', Whole)
<1>1. PICK a \in Seq(Units) : a = Sent \o inBuff
  BY SentTypes, CatType
<1>2. PICK z \in Seq(Units) : z = <<>>
  BY Empty
<1>3. Sent \in Seq(Units) /\ inBuff \in Seq(Units) /\ todo \in Seq(Units)
  BY SentTypes
<1>4. Whole = a \o (todo \o z)
  <2>1. (Sent \o inBuff) \o todo = Sent \o (inBuff \o todo)
    <3>1. Assoc(Sent, inBuff, todo)
      BY <1>3, CatAssoc
    <3> QED
      BY <3>1 DEF Assoc
  <2>2. todo \o z = todo
    BY <1>2, <1>3, CatEmpty
  <2> QED
    BY <1>1, <2>1, <2>2 DEF Whole, Rest
<1>5. Whole' = a \o z
  <2>1. (Sent \o inBuff) \o z = Sent \o (inBuff \o z)
    <3>1. Assoc(Sent, inBuff, z)
      BY <1>2, <1>3, CatAssoc
    <3> QED
      BY <3>1 DEF Assoc
  <2> QED
    BY <1>1, <1>2, <2>1 DEF Whole, Rest
<1>6. Part(a \o z, a \o (todo \o z))
  BY <1>3, Drop
<1> QED
  BY <1>4, <1>5, <1>6

LEMMA NativeErrorInd == ASSUME IndInv, NativeError PROVE IndInv'
<1>1. /\ pc = "native" /\ dst = <<>> /\ Throw /\ todo' = <<>> /\ pc' \in {"idle", "release"}
      /\ UNCHANGED <<java, dst, native, sink, pushed, released, app, inBuff, outBuff>>
  BY DEF NativeError, Throw, native, parent
<1>2. Sent' = Sent
  <2>1. Held = <<>> /\ Held' = <<>>
    BY <1>1 DEF Held, Calling
  <2> QED
    BY <1>1, <2>1 DEF Sent
<1>3. Part(Whole', Whole)
  BY <1>1, <1>2, TodoDropped DEF IndInv
<1>4. sink' \in Seq(Units) /\ Len(sink') >= Len(sink)
  BY <1>1, Lengths DEF IndInv, TypeInv
<1> QED
  BY <1>1, <1>3, <1>4, ThrowInd

LEMMA ParentFailsInd == ASSUME IndInv, ParentFails PROVE IndInv'
<1>1. /\ pc \in {"flushOut", "closeOut"} /\ Throw /\ todo' = <<>> /\ pc' \in {"idle", "release"}
      /\ UNCHANGED <<java, dst, native, sink, pushed, released, app, inBuff, outBuff>>
  BY DEF ParentFails, Throw, native, parent
<1>2. Sent' = Sent
  <2>1. Held = <<>> /\ Held' = <<>>
    BY <1>1 DEF Held, Calling
  <2> QED
    BY <1>1, <2>1 DEF Sent
<1>3. Part(Whole', Whole)
  BY <1>1, <1>2, TodoDropped DEF IndInv
<1>4. sink' \in Seq(Units) /\ Len(sink') >= Len(sink)
  BY <1>1, Lengths DEF IndInv, TypeInv
<1> QED
  BY <1>1, <1>3, <1>4, ThrowInd

\* Of dst the parent has got the first k units.
LEMMA EmitFailsInd == ASSUME IndInv, EmitFails PROVE IndInv'
<1>1. PICK k \in 0..Len(dst) : sink' = sink \o SubSeq(dst, 1, k)
  BY DEF EmitFails
<1>2. /\ pc = "emit" /\ Throw /\ todo' = <<>> /\ pc' \in {"idle", "release"}
      /\ UNCHANGED <<java, dst, native, pushed, released, app, inBuff, outBuff>>
  BY DEF EmitFails, Throw, native
<1>3. /\ sink \in Seq(Units) /\ dst \in Seq(Units) /\ outBuff \in Seq(Units)
      /\ inBuff \in Seq(Units) /\ todo \in Seq(Units)
  BY SentTypes DEF IndInv
<1>4. PICK f \in Seq(Units) : f = SubSeq(dst, 1, k)
  BY <1>1, <1>3, Cut
<1>5. PICK g \in Seq(Units) : dst = f \o g
  BY <1>1, <1>3, <1>4, Cut
<1>6. sink' = sink \o f
  BY <1>1, <1>4
<1>7. sink' \in Seq(Units) /\ Len(sink') >= Len(sink)
  <2>1. sink \o f \in Seq(Units) /\ Len(sink \o f) = Len(sink) + Len(f)
    BY <1>3, <1>4, CatType
  <2>2. Len(sink) \in Nat /\ Len(f) \in Nat
    BY <1>3, <1>4
  <2> QED
    BY <1>6, <2>1, <2>2
<1>8. Held = f \o g /\ Held' = <<>>
  BY <1>2, <1>5 DEF Held, Calling
<1>9. PICK h \in Seq(Units) : h = f \o outBuff
  BY <1>3, <1>4, CatType
<1>10. PICK e \in Seq(Units) : e = (f \o g) \o outBuff
  <2>1. f \o g \in Seq(Units)
    BY <1>3, <1>5
  <2> QED
    BY <1>3, <2>1, CatType
<1>11. Part(h, e)
  <2>1. f \in Seq(Units) /\ g \in Seq(Units) /\ f \o g \in Seq(Units) /\ outBuff \in Seq(Units)
    BY <1>3, <1>4, <1>5
  <2>2. Part(f, f \o g) /\ Part(outBuff, outBuff)
    BY <2>1, PartOfJoined DEF Part
  <2> QED
    BY <1>9, <1>10, <2>1, <2>2, PartsJoined
<1>12. Sent' = sink \o h /\ Sent = sink \o e
  <2>1. sink \in Seq(Units) /\ f \in Seq(Units) /\ outBuff \in Seq(Units)
    BY <1>3, <1>4
  <2>2. (sink \o f) \o outBuff = sink \o (f \o outBuff)
    <3>1. Assoc(sink, f, outBuff)
      BY <2>1, CatAssoc
    <3> QED
      BY <3>1 DEF Assoc
  <2>3. <<>> \o outBuff = outBuff
    BY <1>3, CatEmpty
  <2> QED
    BY <1>2, <1>6, <1>8, <1>9, <1>10, <2>2, <2>3 DEF Sent
<1>13. Part(Sent', Sent)
  <2>1. Part(sink, sink) /\ sink \in Seq(Units)
    BY <1>3 DEF Part
  <2>2. Part(sink \o h, sink \o e)
    BY <1>11, <2>1, PartsJoined
  <2> QED
    BY <1>12, <2>2
<1>14. Part(Whole', Whole)
  <2>1. Part(Rest', Rest) /\ Rest' = inBuff /\ Rest \in Seq(Units)
    <3>1. Rest' = inBuff
      BY <1>2, <1>3, CatEmpty DEF Rest
    <3>2. Part(inBuff, inBuff \o todo)
      BY <1>3, PartOfJoined
    <3> QED
      BY <3>1, <3>2, SentTypes DEF Rest, IndInv
  <2>2. PICK v \in Seq(Units) : v = Sent'
    BY <1>3, <1>12, CatType
  <2>3. Sent \in Seq(Units) /\ inBuff \in Seq(Units) /\ Part(v, Sent) /\ Part(inBuff, Rest)
    BY <1>3, <1>13, <2>1, <2>2, SentTypes DEF IndInv
  <2>4. Part(v \o inBuff, Sent \o Rest)
    BY <2>1, <2>3, PartsJoined
  <2> QED
    BY <2>1, <2>2, <2>4 DEF Whole
<1> QED
  BY <1>2, <1>7, <1>14, ThrowInd

-----------------------------------------------------------------------------
(***************************************************************************)
(* The native call                                                         *)
(***************************************************************************)
LEMMA ActiveOp ==
    ASSUME IndInv, pc \in {"native", "result"}
    PROVE  /\ op \in {"write", "flush", "endFrame", "close"} /\ ~isClosed /\ ~frameClosed /\ outcome = "none"
           /\ Held = dst /\ Sent = sink \o Made
  BY DEF IndInv, TypeInv, TypeOK, CallInv, Calling, Held, Sent, Made

LEMMA NativeBeginInd ==
    ASSUME IndInv, NativeBegin, UNCHANGED <<java, parent, released, app, failures, outcome>>
    PROVE  IndInv'
<1>1. /\ pc = "native" /\ stage = "init" /\ stage' = "load" /\ headerDone' = FALSE /\ frameEnded' = FALSE
      /\ inBuff' = <<>> /\ outBuff' = <<>>
      /\ UNCHANGED <<op, pc, todo, dst, size, isClosed, frameClosed, frameStarted, closeFrameOnFlush, closeParent,
                     sink, pushed, released, accepted, frames, failures, outcome>>
  BY DEF NativeBegin, java, parent, app
<1>2. ~isClosed /\ ~frameClosed /\ outcome = "none" /\ Held = dst /\ Held' = dst
  BY <1>1, ActiveOp DEF Held, Calling
<1>3. TypeInv'
  <2>1. EncoderTypeOK'
    BY <1>1, Empty DEF IndInv, TypeInv, TypeOK, EncoderTypeOK
  <2>2. TypeOK'
    BY <1>1, <2>1 DEF IndInv, TypeInv, TypeOK
  <2>3. Len(<<>>) <= BlockSize
    BY Empty, Constants
  <2> QED
    BY <1>1, <2>2, <2>3, Empty DEF IndInv, TypeInv
<1>4. CallInv'
  BY <1>1 DEF IndInv, CallInv, Calling
<1>5. OrderInv'
  <2>1. /\ sink \in Seq(Units) /\ dst \in Seq(Units) /\ outBuff \in Seq(Units)
        /\ inBuff \in Seq(Units) /\ todo \in Seq(Units) /\ Sent \in Seq(Units) /\ Rest \in Seq(Units)
    BY SentTypes DEF IndInv
  <2>2. Sent' = sink \o dst /\ Rest' = todo /\ Sent = sink \o (dst \o outBuff)
    BY <1>1, <1>2, <2>1, CatEmpty DEF Sent, Rest
  <2>3. Part(dst, dst \o outBuff) /\ dst \o outBuff \in Seq(Units) /\ Part(sink, sink)
    BY <2>1, PartOfJoined, CatType DEF Part
  <2>4. Part(sink \o dst, Sent) /\ sink \o dst \in Seq(Units)
    BY <2>1, <2>2, <2>3, PartsJoined, CatType
  <2>5. Part(todo, Rest)
    BY <2>1, PartOfJoined DEF Rest
  <2>6. Part((sink \o dst) \o todo, Sent \o Rest)
    BY <2>1, <2>4, <2>5, PartsJoined
  <2> QED
    BY <1>1, <2>2, <2>6, LessOrder DEF Whole, IndInv
<1>6. ASSUME failures = 0 PROVE UnitsInv' /\ FrameInv' /\ PushedInv' /\ BytesIn(Whole') = 1..accepted'
  <2>1. UnitsInv /\ FrameInv /\ PushedInv /\ BytesIn(Whole) = 1..accepted
    BY <1>6 DEF IndInv, Clean
  <2>2. inBuff = <<>> /\ outBuff = <<>>
    BY <1>1, <2>1 DEF FrameInv
  <2>3. Sent' = Sent /\ Whole' = Whole
    BY <1>1, <1>2, <2>2, Quiet
  <2>4. FrameInv'
    BY <1>1, <1>2, <2>1, <2>2 DEF FrameInv, Ending
  <2>5. ~EndedNow /\ ~EndedNow'
    BY <1>1, <1>2 DEF EndedNow
  <2>6. UnitsInv'
    BY <1>1, <1>2, <2>1, <2>3, <2>5 DEF UnitsInv, Total
  <2>7. PushedInv'
    BY <1>1, <1>2, <2>1 DEF PushedInv
  <2> QED
    BY <1>1, <2>1, <2>3, <2>4, <2>6, <2>7
<1> QED
  BY <1>1, <1>3, <1>4, <1>5, <1>6 DEF IndInv, Clean

LEMMA NativeFlushInd ==
    ASSUME IndInv, NativeFlush, UNCHANGED <<java, parent, released, app, failures, outcome>>
    PROVE  IndInv'
<1>1. /\ EncoderTypeOK' /\ Made' = Made /\ Rest' = Rest /\ todo' = todo
      /\ UNCHANGED <<op, size, headerDone, inBuff, frameEnded>>
      /\ pc = "native" /\ stage = "flush" /\ pc' \in {"native", "result"}
      /\ pc' = "native" => stage' = "load" /\ outBuff' = <<>> /\ ~frameEnded
      /\ stage' \in {"load", "init"} => outBuff' = <<>>
      /\ stage' = "init" => frameEnded
      /\ pc' = "result" => outBuff' # <<>> \/ frameEnded
      /\ outBuff' # <<>> => stage' = "flush"
      /\ stage' = "load" => ~frameEnded
      /\ stage' = "flush" => outBuff' # <<>>
  <2>1. EncoderTypeOK /\ DstSize \in Nat
    BY Constants DEF IndInv, TypeInv, TypeOK
  <2> QED
    BY <2>1, FlushStep
<1>2. UNCHANGED <<isClosed, frameClosed, frameStarted, closeFrameOnFlush, closeParent, sink, pushed, released,
                  accepted, frames, failures, outcome>>
  BY DEF java, parent, app
<1>3. /\ op \in {"write", "flush", "endFrame", "close"} /\ ~isClosed /\ ~frameClosed /\ outcome = "none"
      /\ Sent = sink \o Made
  BY <1>1, ActiveOp
<1>4. Sent' = Sent /\ Whole' = Whole
  <2>1. Held' = dst'
    BY <1>1 DEF Held, Calling
  <2>2. Sent' = sink \o Made'
    BY <1>2, <2>1 DEF Sent, Made
  <2> QED
    BY <1>1, <1>3, <2>2 DEF Whole
<1>5. TypeInv'
  <2>1. TypeOK'
    BY <1>1, <1>2 DEF IndInv, TypeInv, TypeOK
  <2> QED
    BY <1>1, <1>2, <2>1 DEF IndInv, TypeInv
<1>6. CallInv'
  BY <1>1, <1>2, <1>3 DEF IndInv, CallInv, Calling
<1>7. OrderInv'
  BY <1>2, <1>4, SameOrder DEF IndInv
<1>8. ASSUME failures = 0 PROVE UnitsInv' /\ FrameInv' /\ PushedInv' /\ BytesIn(Whole') = 1..accepted'
  <2>1. UnitsInv /\ FrameInv /\ PushedInv /\ BytesIn(Whole) = 1..accepted
    BY <1>8 DEF IndInv, Clean
  <2>2. (frameEnded => Ending) /\ inBuff = <<>>
    BY <1>1, <2>1 DEF FrameInv, IndInv, CallInv
  <2>3. FrameInv'
    <3>1. (Ending' <=> Ending) /\ stage' \in {"init", "load", "flush"}
      BY <1>1 DEF Ending, EncoderTypeOK
    <3>2. Ending <=> op \in {"endFrame", "close"}
      BY DEF Ending
    <3> QED
      BY <1>1, <1>2, <1>3, <2>1, <2>2, <3>1, <3>2 DEF FrameInv
  <2>4. (EndedNow <=> frameEnded) /\ (EndedNow' <=> frameEnded)
    BY <1>1, <1>2, <1>3, <2>2 DEF EndedNow, Ending
  <2>5. (stage' = "init" \/ frameEnded' \/ ~headerDone') <=> (stage = "init" \/ frameEnded \/ ~headerDone)
    BY <1>1
  <2>6. UnitsInv'
    BY <1>1, <1>2, <1>4, <2>1, <2>4, <2>5 DEF UnitsInv, Total
  <2>7. PushedInv'
    BY <1>1, <1>2, <1>3, <2>1 DEF PushedInv
  <2> QED
    BY <1>2, <1>4, <2>1, <2>3, <2>6, <2>7
<1> QED
  BY <1>2, <1>5, <1>6, <1>7, <1>8 DEF IndInv, Clean

LEMMA NativeResultInd ==
    ASSUME IndInv, NativeResult, UNCHANGED <<java, parent, released, app, failures, outcome>>
    PROVE  IndInv'
<1>1. /\ pc = "result" /\ size' = Len(outBuff) /\ pc' = "emit"
      /\ UNCHANGED <<op, todo, dst, stage, headerDone, inBuff, outBuff, frameEnded, isClosed, frameClosed,
                     frameStarted, closeFrameOnFlush, closeParent, sink, pushed, released, accepted, frames,
                     failures, outcome>>
  BY DEF NativeResult, native, java, parent, app
<1>2. ~isClosed /\ ~frameClosed /\ outcome = "none"
  BY <1>1, ActiveOp
<1>3. Sent' = Sent /\ Whole' = Whole
  <2>1. Held' = Held
    BY <1>1 DEF Held, Calling
  <2> QED
    BY <1>1, <2>1, Quiet
<1>4. TypeInv'
  <2>1. EncoderTypeOK'
    BY <1>1, Lengths DEF IndInv, TypeInv, TypeOK, EncoderTypeOK
  <2>2. TypeOK'
    BY <1>1, <2>1 DEF IndInv, TypeInv, TypeOK
  <2> QED
    BY <1>1, <2>2 DEF IndInv, TypeInv
<1>5. CallInv'
  BY <1>1, <1>2 DEF IndInv, CallInv, Calling
<1>6. OrderInv'
  BY <1>1, <1>3, SameOrder DEF IndInv
<1>7. ASSUME failures = 0 PROVE UnitsInv' /\ FrameInv' /\ PushedInv' /\ BytesIn(Whole') = 1..accepted'
  <2>1. UnitsInv /\ FrameInv /\ PushedInv /\ BytesIn(Whole) = 1..accepted
    BY <1>7 DEF IndInv, Clean
  <2>2. FrameInv'
    BY <1>1, <1>2, <2>1 DEF FrameInv, Ending
  <2>3. EndedNow' <=> EndedNow
    BY <1>1 DEF EndedNow, Ending
  <2>4. UnitsInv'
    BY <1>1, <1>3, <2>1, <2>3 DEF UnitsInv, Total
  <2>5. PushedInv'
    BY <1>1, <1>2, <2>1 DEF PushedInv
  <2> QED
    BY <1>1, <1>3, <2>1, <2>2, <2>4, <2>5
<1> QED
  BY <1>1, <1>4, <1>5, <1>6, <1>7 DEF IndInv, Clean

LEMMA NativeLoadInd ==
    ASSUME IndInv, NativeLoad, UNCHANGED <<java, parent, released, app, failures, outcome>>
    PROVE  IndInv'
<1>1. /\ pc = "native" /\ stage = "load"
      /\ UNCHANGED <<op, dst, size, isClosed, frameClosed, frameStarted, closeFrameOnFlush, closeParent,
                     sink, pushed, released, accepted, frames, failures, outcome>>
  BY DEF NativeLoad, java, parent, app
<1>2. /\ op \in {"write", "flush", "endFrame", "close"} /\ ~isClosed /\ ~frameClosed /\ outcome = "none"
      /\ Held = dst /\ outBuff = <<>> /\ ~frameEnded
  BY <1>1, ActiveOp DEF IndInv, CallInv
<1>3. PICK n \in Nat, block \in Seq(Nat) :
         /\ Taken(n, block) /\ (Kept(block) \/ Coded(block))
         /\ block \o todo' = Rest /\ todo' \in Seq(Nat)
  <2>1. EncoderTypeOK /\ Len(inBuff) <= BlockSize /\ BlockSize \in Nat
    BY Constants DEF IndInv, TypeInv, TypeOK
  <2> QED
    BY <1>2, <2>1, LoadStep
<1>4. /\ todo' \in Seq(Bytes) /\ block \in Seq(Bytes) /\ (op # "write" => todo' = <<>>)
      /\ Len(block) <= BlockSize
  <2>1. todo \in Seq(Bytes) /\ inBuff \in Seq(Bytes) /\ n \in 0..Len(todo)
    BY <1>3 DEF Taken, IndInv, TypeInv
  <2>2. PICK f \in Seq(Bytes) : f = SubSeq(todo, 1, n)
    BY <2>1, Cut
  <2>3. todo' \in Seq(Bytes) /\ Len(todo') = Len(todo) - n
    BY <1>3, <2>1, Cut DEF Taken
  <2>4. inBuff \o f \in Seq(Bytes)
    BY <2>1, <2>2
  <2>5. op # "write" => Len(todo') = 0
    BY <2>1, <2>3 DEF IndInv, CallInv
  <2>6. todo' \in Seq(Bytes) /\ (Len(todo') = 0 => todo' = <<>>)
    BY <2>3, EmptySeq
  <2> QED
    BY <1>3, <2>2, <2>4, <2>5, <2>6 DEF Taken
<1>5. CASE Kept(block)
  <2>1. /\ pc' = "result" /\ inBuff' = block /\ op \in {"write", "flush"} /\ (op = "flush" => block = <<>>)
        /\ UNCHANGED <<stage, headerDone, outBuff, frameEnded>>
    BY <1>5 DEF Kept
  <2>2. Sent' = Sent /\ Whole' = Whole
    <3>1. Held' = Held
      BY <1>1, <2>1 DEF Held, Calling
    <3> QED
      BY <1>1, <1>3, <2>1, <3>1 DEF Sent, Whole, Rest
  <2>3. TypeInv'
    <3>1. EncoderTypeOK'
      BY <1>1, <1>3, <2>1 DEF IndInv, TypeInv, TypeOK, EncoderTypeOK
    <3>2. TypeOK'
      BY <1>1, <2>1, <3>1 DEF IndInv, TypeInv, TypeOK
    <3> QED
      BY <1>1, <1>4, <2>1, <3>2 DEF IndInv, TypeInv
  <2>4. CallInv'
    BY <1>1, <1>2, <1>4, <2>1 DEF IndInv, CallInv, Calling
  <2>5. OrderInv'
    BY <1>1, <2>2, SameOrder DEF IndInv
  <2>6. ASSUME failures = 0 PROVE UnitsInv' /\ FrameInv' /\ PushedInv' /\ BytesIn(Whole') = 1..accepted'
    <3>1. UnitsInv /\ FrameInv /\ PushedInv /\ BytesIn(Whole) = 1..accepted
      BY <2>6 DEF IndInv, Clean
    <3>2. FrameInv'
      BY <1>1, <1>2, <2>1, <3>1 DEF FrameInv, Ending
    <3>3. ~EndedNow /\ ~EndedNow'
      BY <1>1, <1>2, <2>1 DEF EndedNow
    <3>4. UnitsInv'
      BY <1>1, <2>1, <2>2, <3>1, <3>3 DEF UnitsInv, Total
    <3>5. PushedInv'
      BY <1>1, <1>2, <2>1, <3>1 DEF PushedInv
    <3> QED
      BY <1>1, <2>2, <3>1, <3>2, <3>4, <3>5
  <2> QED
    BY <1>1, <2>3, <2>4, <2>5, <2>6 DEF IndInv, Clean
<1>6. CASE Coded(block)
  <2> DEFINE h == IF headerDone THEN <<>> ELSE <<Header>>
             e == IF Ending THEN <<End>> ELSE <<>>
  <2>1. /\ pc' = "native" /\ inBuff' = <<>> /\ stage' = "flush" /\ headerDone' = TRUE
        /\ outBuff' = h \o block \o e /\ frameEnded' = Ending
    BY <1>6 DEF Coded
  <2>2. PICK hh \in Seq({Header, End}) : hh = h /\ ((hh = <<>> /\ headerDone) \/ (hh = <<Header>> /\ ~headerDone))
    <3>1. <<>> \in Seq({Header, End}) /\ <<Header>> \in Seq({Header, End})
      OBVIOUS
    <3> QED
      BY <3>1
  <2>3. PICK ee \in Seq({Header, End}) : ee = e /\ ((ee = <<>> /\ ~Ending) \/ (ee = <<End>> /\ Ending))
    <3>1. <<>> \in Seq({Header, End}) /\ <<End>> \in Seq({Header, End})
      OBVIOUS
    <3> QED
      BY <3>1
  <2> HIDE DEF h, e
  <2>4. /\ hh \in Seq({Header, End}) /\ ee \in Seq({Header, End})
        /\ hh \in Seq(Units) /\ ee \in Seq(Units) /\ block \in Seq(Units) /\ todo' \in Seq(Units)
    BY <1>3, <2>2, <2>3, NoBytes, NatSeq
  <2>5. outBuff' = hh \o block \o ee /\ outBuff' \in Seq(Units)
    <3>1. hh \o block \in Seq(Units)
      BY <2>4, CatType
    <3>2. (hh \o block) \o ee \in Seq(Units)
      BY <2>4, <3>1, CatType
    <3> QED
      BY <2>1, <2>2, <2>3, <3>2
  <2>6. PICK u \in Seq(Units) : u = Sent
    BY SentTypes DEF IndInv
  <2>7. Sent' = u \o outBuff'
    <3>1. sink \in Seq(Units) /\ dst \in Seq(Units) /\ outBuff' \in Seq(Units)
      BY <2>5, SentTypes DEF IndInv
    <3>2. Sent = sink \o dst
      BY <1>2, <3>1, CatEmpty DEF Sent
    <3>3. Held' = dst
      BY <1>1, <2>1 DEF Held, Calling
    <3>4. (sink \o dst) \o outBuff' = sink \o (dst \o outBuff')
      <4>1. Assoc(sink, dst, outBuff')
        BY <3>1, CatAssoc
      <4> QED
        BY <4>1 DEF Assoc
    <3> QED
      BY <1>1, <2>6, <3>2, <3>3, <3>4 DEF Sent
  <2>8. SameData(Whole', Whole)
    <3>1. PICK t \in Seq(Units) : t = todo'
      BY <2>4
    <3>2. PICK b \in Seq(Units) : b = block
      BY <2>4
    <3>3. u \in Seq(Units) /\ b \in Seq(Units) /\ t \in Seq(Units) /\ hh \in Seq({Header, End}) /\ ee \in Seq({Header, End})
      BY <2>4, <2>6, <3>1, <3>2
    <3>4. SameData((u \o (hh \o b \o ee)) \o t, u \o (b \o t))
      BY <3>3, Coding
    <3>5. Whole = u \o (b \o t)
      BY <1>3, <2>6, <3>1, <3>2 DEF Whole
    <3>6. Rest' = t
      BY <2>1, <2>4, <3>1, CatEmpty DEF Rest
    <3>7. Whole' = (u \o (hh \o b \o ee)) \o t
      BY <2>5, <2>7, <3>2, <3>6 DEF Whole
    <3> QED
      BY <3>4, <3>5, <3>7
  <2>9. TypeInv'
    <3>1. EncoderTypeOK'
      BY <1>1, <1>3, <2>1, <2>5, Empty DEF IndInv, TypeInv, TypeOK, EncoderTypeOK, Ending
    <3>2. TypeOK'
      BY <1>1, <2>1, <3>1 DEF IndInv, TypeInv, TypeOK
    <3>3. Len(<<>>) <= BlockSize
      BY Empty, Constants
    <3> QED
      BY <1>1, <1>4, <2>1, <3>2, <3>3, Empty DEF IndInv, TypeInv
  <2>10. CallInv'
    BY <1>1, <1>2, <1>4, <2>1 DEF IndInv, CallInv, Calling
  <2>11. OrderInv'
    BY <1>1, <2>8 DEF IndInv, OrderInv, SameData
  <2>12. ASSUME failures = 0 PROVE UnitsInv' /\ FrameInv' /\ PushedInv' /\ BytesIn(Whole') = 1..accepted'
    <3>1. UnitsInv /\ FrameInv /\ PushedInv /\ BytesIn(Whole) = 1..accepted
      BY <2>12 DEF IndInv, Clean
    <3>2. FrameInv'
      BY <1>1, <1>2, <2>1, <3>1 DEF FrameInv, Ending
    <3>3. ~EndedNow /\ (EndedNow' <=> Ending)
      BY <1>1, <1>2, <2>1 DEF EndedNow
    <3>4. PICK p \in Nat : (p = 0 /\ headerDone) \/ (p = 1 /\ ~headerDone)
      <4>1. 0 \in Nat /\ 1 \in Nat
        OBVIOUS
      <4> QED
        BY <4>1
    <3>5. PICK q \in Nat : (q = 0 /\ ~Ending) \/ (q = 1 /\ Ending)
      <4>1. 0 \in Nat /\ 1 \in Nat
        OBVIOUS
      <4> QED
        BY <4>1
    <3>6. PICK b \in Seq(Nat \ {0}) : b = block
      BY <1>4 DEF Bytes
    <3>7. WellFormed(u) /\ (Ended(u) <=> ~headerDone) /\ FrameCount(u) = Total - 1
      BY <1>1, <1>2, <2>6, <3>1, <3>3 DEF UnitsInv
    <3>8. /\ (hh = <<>> /\ p = 0 /\ ~Ended(u)) \/ (hh = <<Header>> /\ p = 1 /\ Ended(u))
          /\ (ee = <<>> /\ q = 0) \/ (ee = <<End>> /\ q = 1)
      BY <2>2, <2>3, <3>4, <3>5, <3>7
    <3>9. /\ u \in Seq(Units) /\ b \in Seq(Nat \ {0}) /\ hh \in Seq(Units) /\ ee \in Seq(Units)
          /\ p \in Nat /\ q \in Nat /\ WellFormed(u)
      BY <2>4, <2>6, <3>4, <3>5, <3>6, <3>7
    <3>10. Continues(u \o (hh \o b \o ee), u, q)
      BY <3>8, <3>9, BlockUnits
    <3>11. Sent' = u \o (hh \o b \o ee)
      BY <2>5, <2>7, <3>6
    <3>12. WellFormed(Sent') /\ (Ended(Sent') <=> Ending) /\ FrameCount(Sent') = (Total - 1) + q
      BY <3>5, <3>7, <3>10, <3>11 DEF Continues
    <3>13. Total \in Nat /\ Total' = Total
      BY <1>1, Lengths DEF Total, IndInv
    <3>14. FrameCount(Sent') = IF Ending THEN Total ELSE Total - 1
      BY <3>5, <3>12, <3>13
    <3>15. UnitsInv'
      BY <1>1, <1>2, <2>1, <3>3, <3>12, <3>13, <3>14 DEF UnitsInv
    <3>16. PushedInv'
      BY <1>1, <1>2, <2>1, <3>1 DEF PushedInv
    <3>17. BytesIn(Whole') = 1..accepted'
      BY <1>1, <2>8, <3>1 DEF SameData
    <3> QED
      BY <3>2, <3>15, <3>16, <3>17
  <2> QED
    BY <1>1, <2>9, <2>10, <2>11, <2>12 DEF IndInv, Clean
<1> QED
  BY <1>3, <1>5, <1>6

-----------------------------------------------------------------------------
LEMMA NextInd == IndInv /\ [Next]_vars => IndInv'
<1> SUFFICES ASSUME IndInv, [Next]_vars PROVE IndInv'
  OBVIOUS
<1>1. ASSUME NEW b \in BOOLEAN, SetCloseFrameOnFlush(b) \/ Close(b) PROVE IndInv'
  BY <1>1, SetInd, CloseInd
<1>2. ASSUME NEW n \in 0..MaxBytes, Write(n) PROVE IndInv'
  BY <1>2, WriteInd
<1>3. ASSUME compressStream2 PROVE IndInv'
  BY <1>3, NativeBeginInd, NativeLoadInd, NativeFlushInd, NativeResultInd
     DEF compressStream2, ZSTD_compressStream2
<1>4. ASSUME Step PROVE IndInv'
  BY <1>3, <1>4, WriteLoopInd, EmitWriteInd, EmitMoreInd, EmitDoneInd, FlushOutInd, CloseOutInd, ReleaseInd
     DEF Step
<1>5. ASSUME Flush \/ NativeError \/ EmitFails \/ ParentFails PROVE IndInv'
  BY <1>5, FlushInd, NativeErrorInd, EmitFailsInd, ParentFailsInd
<1>6. ASSUME UNCHANGED vars PROVE IndInv'
  <2>1. UNCHANGED <<isClosed, frameClosed, frameStarted, closeFrameOnFlush, closeParent, op, pc, todo, dst, size,
                    stage, headerDone, inBuff, outBuff, frameEnded, sink, pushed, released, accepted, frames,
                    failures, outcome>>
    BY <1>6 DEF vars, native, java, parent, app
  <2>2. Sent' = Sent /\ Whole' = Whole
    <3>1. Held' = Held
      BY <2>1 DEF Held, Calling
    <3> QED
      BY <2>1, <3>1, Quiet
  <2>3. TypeInv' /\ CallInv'
    BY <2>1 DEF IndInv, TypeInv, TypeOK, EncoderTypeOK, CallInv, Calling
  <2>4. OrderInv'
    BY <2>1, <2>2, SameOrder DEF IndInv
  <2>5. Clean'
    BY <2>1, <2>2 DEF IndInv, Clean, UnitsInv, EndedNow, Ending, Total, FrameInv, PushedInv
  <2> QED
    BY <2>3, <2>4, <2>5 DEF IndInv
<1> QED
  BY <1>1, <1>2, <1>4, <1>5, <1>6 DEF Next

LEMMA Invariance == Spec => []IndInv
  BY InitInd, NextInd, PTL DEF Spec

-----------------------------------------------------------------------------
(***************************************************************************)
(* The theorems                                                            *)
(***************************************************************************)
\* Every variable has its type, and the native code never writes behind the end of dst.
THEOREM OutputTypeCorrect == Spec => []TypeOK
<1>1. IndInv => TypeOK
  BY DEF IndInv, TypeInv
<1> QED
  BY <1>1, Invariance, PTL

\* Whatever out.write(), out.flush() and the native code throw and whatever the application
\* calls afterwards, the parent gets every byte at most once and in order.
THEOREM OutputInOrder == Spec => []NoByteTwice
<1>1. IndInv => NoByteTwice
  <2> SUFFICES ASSUME IndInv PROVE InOrder(sink)
    BY DEF NoByteTwice
  <2>1. /\ sink \in Seq(Units) /\ Held \o outBuff \in Seq(Units) /\ Sent \in Seq(Units) /\ Rest \in Seq(Units)
        /\ InOrder(Whole)
    BY SentTypes, CatType DEF IndInv, OrderInv
  <2>2. Part(Sent, Sent \o Rest)
    BY <2>1, PartOfJoined
  <2>3. Part(sink, sink \o (Held \o outBuff))
    BY <2>1, PartOfJoined
  <2> QED
    BY <2>1, <2>2, <2>3 DEF Part, Whole, Sent
<1> QED
  BY <1>1, Invariance, PTL

\* Nothing is left in the stream: what was sent is what the parent has.
LEMMA AllSent ==
    ASSUME IndInv, pc = "idle", outBuff = <<>>, inBuff = <<>>
    PROVE  Sent = sink /\ Whole = sink /\ sink \in Seq(Units)
<1>1. sink \in Seq(Units) /\ Held = <<>> /\ todo = <<>>
  BY SentTypes DEF IndInv, CallInv, Held, Calling
<1>2. Sent = sink
  BY <1>1, Empty, CatEmpty DEF Sent
<1> QED
  BY <1>1, <1>2, Empty, CatEmpty DEF Whole, Rest

\* While nothing has thrown, a flush() that returns has passed on all bytes written before,
\* in complete frames if it closes them.
THEOREM OutputFlushes == Spec => []FlushDelivers
<1>1. IndInv => FlushDelivers
  <2> SUFFICES ASSUME IndInv, outcome = "flushed", failures = 0
               PROVE  /\ Decodes(sink, accepted) /\ pushed = Len(sink)
                      /\ closeFrameOnFlush => Ended(sink)
    BY DEF FlushDelivers
  <2>1. UnitsInv /\ FrameInv /\ PushedInv /\ BytesIn(Whole) = 1..accepted /\ InOrder(Whole)
    BY DEF IndInv, Clean, OrderInv
  <2>2. /\ pc = "idle" /\ outBuff = <<>> /\ inBuff = <<>> /\ pushed = Len(sink)
        /\ closeFrameOnFlush => frameClosed
    BY <2>1 DEF PushedInv
  <2>3. Sent = sink /\ Whole = sink
    BY <2>2, AllSent
  <2>4. frameClosed => Ended(sink)
    BY <2>1, <2>3 DEF FrameInv, UnitsInv
  <2> QED
    BY <2>1, <2>2, <2>3, <2>4 DEF Decodes
<1> QED
  BY <1>1, Invariance, PTL

\* While nothing has thrown, a close() that returns has left the parent a stream of complete
\* frames, one for each that a write() opened and at least one, that decodes to all bytes.
THEOREM OutputCloses == Spec => []CloseCompletes
<1>1. IndInv => CloseCompletes
  <2> SUFFICES ASSUME IndInv, outcome = "closed", failures = 0
               PROVE  /\ WellFormed(sink) /\ Decodes(sink, accepted)
                      /\ sink # <<>> /\ Ended(sink)
                      /\ FrameCount(sink) = (IF frames = 0 THEN 1 ELSE frames)
                      /\ closeParent => pushed = Len(sink)
    BY DEF CloseCompletes
  <2>1. UnitsInv /\ FrameInv /\ PushedInv /\ BytesIn(Whole) = 1..accepted /\ InOrder(Whole)
    BY DEF IndInv, Clean, OrderInv
  <2>2. isClosed /\ pc = "idle"
    BY DEF IndInv, CallInv
  <2>3. /\ stage = "init" /\ outBuff = <<>> /\ inBuff = <<>>
        /\ IF frameClosed THEN frameStarted ELSE frameEnded
    BY <2>1, <2>2 DEF FrameInv
  <2>4. Sent = sink /\ Whole = sink
    BY <2>2, <2>3, AllSent
  <2>5. FrameCount(sink) = Total
    <3>1. frameClosed => frames # 0
      BY <2>3 DEF IndInv, CallInv
    <3>2. ~frameClosed => EndedNow
      BY <2>2, <2>3 DEF EndedNow
    <3> QED
      BY <2>1, <2>4, <3>1, <3>2 DEF UnitsInv, Total
  <2>6. sink # <<>>
    <3>1. FrameCount(<<>>) = 0
      <4>1. {i \in 1..0 : <<>>[i] = End} = {}
        OBVIOUS
      <4> QED
        BY <4>1, Empty, FS_EmptySet DEF FrameCount
    <3>2. Total # 0
      BY DEF Total
    <3> QED
      BY <2>5, <3>1, <3>2
  <2>7. WellFormed(sink) /\ Ended(sink) /\ (closeParent => pushed = Len(sink))
    BY <2>1, <2>2, <2>3, <2>4 DEF UnitsInv, PushedInv
  <2> QED
    BY <2>1, <2>4, <2>5, <2>6, <2>7 DEF Decodes, Total
<1> QED
  BY <1>1, Invariance, PTL
=============================================================================
