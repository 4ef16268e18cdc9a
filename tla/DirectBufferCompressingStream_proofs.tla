---------------- MODULE DirectBufferCompressingStream_proofs ----------------
(***************************************************************************)
(* Proofs about DirectBufferCompressingStream, for targets and blocks of   *)
(* any size and any number of bytes and failures: no byte is lost or       *)
(* repeated, and close() leaves a complete frame.                          *)
(***************************************************************************)
EXTENDS DirectBufferCompressingStream, StreamEncoder_proofs

(***************************************************************************)
(* The inductive invariant.  Sent: every unit produced so far.  Whole: the *)
(* bytes behind them, in the encoder and in the source, too.               *)
(***************************************************************************)
Sent == sink \o Made
Whole == Sent \o Rest

TypeInv == TypeOK /\ sink \in Seq(Units) /\ Len(inBuff) <= BlockSize

\* The source holds the last bytes that were handed over.
TodoInv == Len(todo) <= accepted /\ \A i \in 1..Len(todo) : todo[i] = accepted - Len(todo) + i

\* Where a call can be.
CallInv ==
    /\ pc = "idle" <=> op = "none"
    /\ pc \in {"loop", "makeRoom"} => op = "write"
    /\ pc = "flushTarget" => op \in {"flush", "close"}
    /\ pc = "release" => op = "close"
    /\ op = "close" => todo = <<>>
    /\ closed => pc = "idle"
    /\ ~closed => (compressed <=> initialized)
    /\ pc \notin {"idle", "release"} => initialized /\ outcome = "none"
    /\ pc \in {"emit", "flushTarget"} => size = Len(outBuff)
    /\ outcome = "closed" => closed

\* Before the first frame the encoder is empty; the frame has ended only once close() has
\* said so; the result of a call to end it is 0 only when all of it is in the target.
FrameInv ==
    /\ stage = "load" => outBuff = <<>>
    /\ stage = "flush" => inBuff = <<>>
    /\ stage = "init" /\ ~frameEnded => inBuff = <<>> /\ outBuff = <<>>
    /\ frameEnded => /\ closed \/ op = "close"
                     /\ inBuff = <<>> /\ todo = <<>>
                     /\ Sent # <<>> /\ Ended(Sent)
                     /\ pc = "native" \/ outBuff # <<>> => stage = "flush"
    /\ op = "close" /\ pc \in {"result", "emit", "flushTarget"} => frameEnded \/ outBuff # <<>>
    /\ pc = "release" /\ outcome # "thrown" => outBuff = <<>> /\ (frameEnded \/ ~initialized)
    /\ outcome = "closed" => outBuff = <<>> /\ (frameEnded \/ ~compressed)
    /\ ~compressed => /\ Whole = <<>> /\ sink = <<>> /\ dst = <<>>
                      /\ accepted = 0 /\ stage = "init" /\ ~frameEnded

Clean == ~broken => FrameInv /\ Decodes(Whole, accepted)

IndInv == TypeInv /\ TodoInv /\ CallInv /\ Clean

-----------------------------------------------------------------------------
LEMMA Constants == {MaxBytes, BlockSize, DstSize} \subseteq Nat /\ BlockSize > 0 /\ DstSize > 0
  BY DirectAssumption

LEMMA InitInd == Init => IndInv
<1> SUFFICES ASSUME Init PROVE IndInv
  OBVIOUS
<1>1. TypeInv /\ TodoInv /\ CallInv
  <2>1. EncoderTypeOK
    <3>1. <<>> \in Seq(Nat) /\ <<>> \in Seq(Units) /\ Len(<<>>) = 0
      BY EmptySeq
    <3>2. Len(dst) <= DstSize /\ size \in Nat
      BY <3>1, Constants DEF Init
    <3> QED
      BY <3>1, <3>2 DEF Init, NativeStart, EncoderTypeOK
  <2>2. TypeInv
    <3>1. Len(inBuff) <= BlockSize /\ sink \in Seq(Units)
      BY Constants DEF Init, NativeStart
    <3>2. accepted \in 0..MaxBytes /\ freed = (IF closed THEN 1 ELSE 0)
      BY Constants DEF Init
    <3> QED
      BY <2>1, <3>1, <3>2 DEF Init, TypeInv, TypeOK
  <2>3. TodoInv /\ CallInv
    BY DEF Init, TodoInv, CallInv
  <2> QED
    BY <2>2, <2>3
<1>2. Made = <<>> /\ Rest = <<>> /\ sink = <<>>
  BY DEF Init, NativeStart, Made, Rest
<1>3. Sent = <<>> /\ Whole = <<>>
  BY <1>2 DEF Sent, Whole
<1>4. Decodes(Whole, accepted)
  BY <1>3 DEF Decodes, InOrder, BytesIn, Init
<1>5. FrameInv
  BY <1>3 DEF Init, NativeStart, FrameInv
<1> QED
  BY <1>1, <1>4, <1>5 DEF IndInv, Clean

\* What has its type.
LEMMA SentTypes ==
    ASSUME IndInv
    PROVE  /\ Sent \in Seq(Units) /\ Whole \in Seq(Units)
           /\ sink \in Seq(Units) /\ dst \in Seq(Units) /\ outBuff \in Seq(Units)
           /\ Made \in Seq(Units) /\ Rest \in Seq(Units)
           /\ inBuff \in Seq(Units) /\ todo \in Seq(Units)
<1>1. /\ sink \in Seq(Units) /\ Made \in Seq(Units) /\ Rest \in Seq(Units)
      /\ inBuff \in Seq(Units) /\ todo \in Seq(Units) /\ dst \in Seq(Units) /\ outBuff \in Seq(Units)
  BY Types DEF IndInv, TypeInv, TypeOK, EncoderTypeOK
<1>2. Sent \in Seq(Units)
  BY <1>1, CatType DEF Sent
<1> QED
  BY <1>1, <1>2, CatType DEF Whole

\* A step that moves no unit.
LEMMA Quiet ==
    ASSUME UNCHANGED <<sink, dst, outBuff, inBuff, todo>>
    PROVE  Sent' = Sent /\ Whole' = Whole
  BY DEF Sent, Whole, Made, Rest

\* flushBuffer() takes what the target holds, or leaves it.
LEMMA Moved ==
    ASSUME IndInv, Emptied \/ Untouched, UNCHANGED <<outBuff, inBuff, todo>>
    PROVE  /\ Sent' = Sent /\ Whole' = Whole
           /\ sink' \in Seq(Units) /\ dst' \in Seq(Units) /\ Len(dst') <= DstSize
<1>1. CASE Untouched
  BY <1>1, Quiet, SentTypes DEF Untouched, IndInv, TypeInv, TypeOK, EncoderTypeOK
<1>2. CASE Emptied
  <2>1. sink' = sink \o dst /\ dst' = <<>> /\ Made' = <<>> \o outBuff /\ Rest' = Rest
    BY <1>2 DEF Emptied, Made, Rest
  <2>2. Made' = outBuff
    BY <2>1, SentTypes, CatEmpty
  <2>3. (sink \o dst) \o outBuff = sink \o (dst \o outBuff)
    <3>1. sink \in Seq(Units) /\ dst \in Seq(Units) /\ outBuff \in Seq(Units)
      BY SentTypes
    <3>2. Assoc(sink, dst, outBuff)
      BY <3>1, CatAssoc
    <3> QED
      BY <3>2 DEF Assoc
  <2>4. Sent' = Sent
    BY <2>1, <2>2, <2>3 DEF Sent, Made
  <2>5. Whole' = Whole
    BY <2>1, <2>4 DEF Whole
  <2>6. sink' \in Seq(Units) /\ dst' \in Seq(Units) /\ Len(dst') = 0
    BY <2>1, SentTypes, CatType, EmptySeq
  <2> QED
    BY <2>4, <2>5, <2>6, DirectAssumption
<1> QED
  BY <1>1, <1>2

-----------------------------------------------------------------------------
(***************************************************************************)
(* One lemma per action                                                    *)
(***************************************************************************)
LEMMA CompressLoopInd == ASSUME IndInv, CompressLoop PROVE IndInv'
<1>1. Sent' = Sent /\ Whole' = Whole
  BY Quiet DEF CompressLoop, Return, Goto, native
<1>2. TypeInv' /\ TodoInv'
  <2>1. EncoderTypeOK' /\ Len(inBuff') <= BlockSize
    BY DEF IndInv, TypeInv, TypeOK, EncoderTypeOK, CompressLoop, Return, Goto, native, java, app, fate
  <2>2. TypeOK'
    BY <2>1 DEF IndInv, TypeInv, TypeOK, CallInv, CompressLoop, Return, Goto, native, java, app, fate
  <2>3. sink' \in Seq(Units)
    BY DEF IndInv, TypeInv, CompressLoop, Return, Goto, native, java, app, fate
  <2>4. TodoInv'
    BY DEF IndInv, TodoInv, CompressLoop, Return, Goto, native, java, app, fate
  <2> QED
    BY <2>1, <2>2, <2>3, <2>4 DEF TypeInv
<1>3. CallInv'
  BY DEF IndInv, TypeInv, TypeOK, CallInv, CompressLoop, Return, Goto, native, java, app, fate
<1>4. Clean'
  BY <1>1 DEF IndInv, CallInv, Clean, FrameInv, CompressLoop, Return, Goto, native, java, app, fate
<1> QED
  BY <1>2, <1>3, <1>4 DEF IndInv

LEMMA RoomInd == ASSUME IndInv, Room PROVE IndInv'
<1>1. /\ Sent' = Sent /\ Whole' = Whole
      /\ sink' \in Seq(Units) /\ dst' \in Seq(Units) /\ Len(dst') <= DstSize
  BY Moved DEF Room, Goto, native
<1>2. TypeInv' /\ TodoInv'
  BY <1>1 DEF IndInv, TypeInv, TypeOK, EncoderTypeOK, TodoInv, Room, Goto, native, java, app, fate
<1>3. CallInv'
  BY DEF IndInv, CallInv, Room, Goto, native, java, app, fate
<1>4. Clean'
  BY <1>1 DEF IndInv, CallInv, Clean, FrameInv, Room, Goto, native, java, app, fate
<1> QED
  BY <1>2, <1>3, <1>4 DEF IndInv

LEMMA NoRoomInd == ASSUME IndInv, NoRoom PROVE IndInv'
<1>1. Sent' = Sent /\ Whole' = Whole
  BY Quiet DEF NoRoom, Throw, Untouched, native
<1>2. TypeInv' /\ TodoInv'
  BY DEF IndInv, TypeInv, TypeOK, EncoderTypeOK, TodoInv, NoRoom, Throw, Untouched, native, java, app
<1>3. CallInv'
  BY DEF IndInv, CallInv, NoRoom, Throw, Untouched, native, java, app
<1>4. Clean'
  BY <1>1 DEF IndInv, CallInv, Clean, FrameInv, NoRoom, Throw, Untouched, native, java, app
<1> QED
  BY <1>2, <1>3, <1>4 DEF IndInv

LEMMA CompressedSomeInd == ASSUME IndInv, CompressedSome PROVE IndInv'
<1>1. Sent' = Sent /\ Whole' = Whole
  BY Quiet DEF CompressedSome, Goto, native
<1>2. TypeInv' /\ TodoInv'
  BY DEF IndInv, TypeInv, TypeOK, EncoderTypeOK, TodoInv, CompressedSome, Goto, native, java, app, fate
<1>3. CallInv'
  BY DEF IndInv, CallInv, CompressedSome, Goto, native, java, app, fate
<1>4. Clean'
  BY <1>1 DEF IndInv, CallInv, Clean, FrameInv, CompressedSome, Goto, native, java, app, fate
<1> QED
  BY <1>2, <1>3, <1>4 DEF IndInv

LEMMA FlushInd == ASSUME IndInv, Flush PROVE IndInv'
<1>1. Sent' = Sent /\ Whole' = Whole
  BY Quiet DEF Flush, Return, native
<1>2. TypeInv' /\ TodoInv'
  <2>1. EncoderTypeOK' /\ Len(inBuff') <= BlockSize
    BY DEF IndInv, TypeInv, TypeOK, EncoderTypeOK, Flush, Return, native, java, app, fate
  <2>2. TypeOK'
    BY <2>1 DEF IndInv, TypeInv, TypeOK, CallInv, Flush, Return, native, java, app, fate
  <2>3. sink' \in Seq(Units)
    BY DEF IndInv, TypeInv, Flush, Return, native, java, app, fate
  <2>4. TodoInv'
    BY DEF IndInv, TodoInv, Flush, Return, native, java, app, fate
  <2> QED
    BY <2>1, <2>2, <2>3, <2>4 DEF TypeInv
<1>3. CallInv'
  BY DEF IndInv, CallInv, Flush, Return, native, java, app
<1>4. Clean'
  BY <1>1 DEF IndInv, CallInv, Clean, FrameInv, Flush, Return, native, java, app
<1> QED
  BY <1>2, <1>3, <1>4 DEF IndInv

LEMMA NativeDoneInd == ASSUME IndInv, NativeDone PROVE IndInv'
<1>1. Sent' = Sent /\ Whole' = Whole
  BY Quiet DEF NativeDone, Goto, native
<1>2. TypeInv' /\ TodoInv'
  BY DEF IndInv, TypeInv, TypeOK, EncoderTypeOK, TodoInv, NativeDone, Goto, native, java, app, fate
<1>3. CallInv'
  BY DEF IndInv, TypeInv, TypeOK, CallInv, NativeDone, Goto, native, java, app, fate
<1>4. Clean'
  BY <1>1 DEF IndInv, CallInv, Clean, FrameInv, NativeDone, Goto, native, java, app, fate
<1> QED
  BY <1>2, <1>3, <1>4 DEF IndInv

LEMMA FlushedMoreInd == ASSUME IndInv, FlushedMore PROVE IndInv'
<1>1. /\ Sent' = Sent /\ Whole' = Whole
      /\ sink' \in Seq(Units) /\ dst' \in Seq(Units) /\ Len(dst') <= DstSize
  BY Moved DEF FlushedMore, Goto, native
<1>2. TypeInv' /\ TodoInv'
  BY <1>1 DEF IndInv, TypeInv, TypeOK, EncoderTypeOK, TodoInv, FlushedMore, Goto, native, java, app, fate
<1>3. CallInv'
  BY DEF IndInv, CallInv, FlushedMore, Goto, native, java, app, fate
<1>4. outBuff # <<>>
  BY DEF IndInv, CallInv, FlushedMore
<1>5. Clean'
  BY <1>1, <1>4 DEF IndInv, CallInv, Clean, FrameInv, FlushedMore, Goto, native, java, app, fate
<1> QED
  BY <1>2, <1>3, <1>5 DEF IndInv

LEMMA FlushedDoneInd == ASSUME IndInv, FlushedDone PROVE IndInv'
<1>1. /\ Sent' = Sent /\ Whole' = Whole
      /\ sink' \in Seq(Units) /\ dst' \in Seq(Units) /\ Len(dst') <= DstSize
  BY Moved DEF FlushedDone, Goto, Return, native
<1>2. TypeInv' /\ TodoInv'
  BY <1>1 DEF IndInv, TypeInv, TypeOK, EncoderTypeOK, TodoInv, FlushedDone, Goto, Return, native, java, app, fate
<1>3. CallInv'
  BY DEF IndInv, CallInv, FlushedDone, Goto, Return, native, java, app, fate
<1>4. outBuff = <<>>
  BY SentTypes, EmptySeq DEF IndInv, CallInv, FlushedDone
<1>5. Clean'
  BY <1>1, <1>4 DEF IndInv, CallInv, Clean, FrameInv, FlushedDone, Goto, Return, native, java, app, fate
<1> QED
  BY <1>2, <1>3, <1>5 DEF IndInv

LEMMA FlushedNoRoomInd == ASSUME IndInv, FlushedNoRoom PROVE IndInv'
<1>1. Sent' = Sent /\ Whole' = Whole
  BY Quiet DEF FlushedNoRoom, Throw, Untouched, native
<1>2. TypeInv' /\ TodoInv'
  BY DEF IndInv, TypeInv, TypeOK, EncoderTypeOK, TodoInv, FlushedNoRoom, Throw, Untouched, native, java, app
<1>3. CallInv'
  BY DEF IndInv, CallInv, FlushedNoRoom, Throw, Untouched, native, java, app
<1>4. Clean'
  BY <1>1 DEF IndInv, CallInv, Clean, FrameInv, FlushedNoRoom, Throw, Untouched, native, java, app
<1> QED
  BY <1>2, <1>3, <1>4 DEF IndInv

LEMMA NativeErrorInd == ASSUME IndInv, NativeError PROVE IndInv'
<1>1. TypeInv' /\ TodoInv'
  BY DEF IndInv, TypeInv, TypeOK, EncoderTypeOK, TodoInv, NativeError, Throw, native, java, app
<1>2. CallInv'
  BY DEF IndInv, CallInv, NativeError, Throw, native, java, app
<1>3. Clean'
  BY DEF Clean, NativeError
<1> QED
  BY <1>1, <1>2, <1>3 DEF IndInv

LEMMA ReleaseInd == ASSUME IndInv, Release PROVE IndInv'
<1>1. Sent' = Sent /\ Whole' = Whole
  BY Quiet DEF Release, Return, native
<1>2. TypeInv' /\ TodoInv'
  <2>1. EncoderTypeOK' /\ Len(inBuff') <= BlockSize
    BY DEF IndInv, TypeInv, TypeOK, EncoderTypeOK, Release, Return, native, java, app, fate
  <2>2. TypeOK'
    <3>1. ~closed /\ freed = 0 /\ freed' = 1 /\ closed' = TRUE
      BY DEF IndInv, TypeInv, TypeOK, CallInv, Release
    <3>2. outcome' \in {"thrown", "closed"} /\ op' = "none" /\ pc' = "idle" /\ initialized' = FALSE
      BY DEF Release, Return
    <3>3. UNCHANGED <<compressed, broken, accepted, failures>>
      BY DEF Release, Return, app
    <3> QED
      BY <2>1, <3>1, <3>2, <3>3 DEF IndInv, TypeInv, TypeOK
  <2>3. sink' \in Seq(Units)
    BY DEF IndInv, TypeInv, Release, Return, native, java, app, fate
  <2>4. TodoInv'
    BY DEF IndInv, TodoInv, Release, Return, native, java, app, fate
  <2> QED
    BY <2>1, <2>2, <2>3, <2>4 DEF TypeInv
<1>3. CallInv'
  BY DEF IndInv, CallInv, Release, Return, native, app
<1>4. Clean'
  BY <1>1 DEF IndInv, CallInv, Clean, FrameInv, Release, Return, native, app
<1> QED
  BY <1>2, <1>3, <1>4 DEF IndInv

LEMMA InitErrorInd == ASSUME IndInv, InitError PROVE IndInv'
<1>1. Sent' = Sent /\ Whole' = Whole
  BY Quiet DEF InitError, Throw, ZSTD_CCtx_reset
<1>2. TypeInv' /\ TodoInv'
  BY DEF IndInv, TypeInv, TypeOK, EncoderTypeOK, TodoInv, InitError, Throw, ZSTD_CCtx_reset, java, app
<1>3. CallInv'
  BY DEF IndInv, CallInv, InitError, Throw, ZSTD_CCtx_reset, java, app
<1>4. Clean'
  BY <1>1 DEF IndInv, CallInv, Clean, FrameInv, InitError, Throw, ZSTD_CCtx_reset, java, app
<1> QED
  BY <1>2, <1>3, <1>4 DEF IndInv

LEMMA CloseInd == ASSUME IndInv, Close PROVE IndInv'
<1>1. /\ todo' = <<>> /\ accepted' = accepted - Len(todo) /\ UNCHANGED <<sink, dst, native>>
      /\ pc = "idle" /\ ~closed /\ op' = "close" /\ outcome' = "none"
      /\ pc' = (IF initialized THEN "native" ELSE "release")
      /\ UNCHANGED <<closed, initialized, freed, size, compressed, failures, broken>>
  BY DEF Close, java
<1>2. Sent' = Sent /\ inBuff' = inBuff /\ outBuff' = outBuff /\ stage' = stage /\ frameEnded' = frameEnded
  BY <1>1 DEF Sent, Made, native
<1>3. TypeInv' /\ TodoInv'
  <2>1. EncoderTypeOK' /\ Len(inBuff') <= BlockSize
    <3>1. <<>> \in Seq(Nat)
      BY EmptySeq
    <3> QED
      BY <1>1, <3>1 DEF IndInv, TypeInv, TypeOK, EncoderTypeOK, native
  <2>2. accepted' \in 0..MaxBytes
    <3>1. Len(todo) \in Nat /\ Len(todo) <= accepted /\ accepted \in 0..MaxBytes
      BY DEF IndInv, TypeInv, TypeOK, EncoderTypeOK, TodoInv
    <3> QED
      BY <1>1, <3>1, Constants
  <2>3. TypeOK'
    BY <1>1, <2>1, <2>2 DEF IndInv, TypeInv, TypeOK
  <2>4. TodoInv'
    BY <1>1, <2>2 DEF TodoInv
  <2> QED
    BY <1>1, <2>1, <2>3, <2>4 DEF IndInv, TypeInv
<1>4. CallInv'
  BY <1>1 DEF IndInv, CallInv
<1>5. ASSUME ~broken PROVE Decodes(Whole', accepted')
  <2>1. PICK a \in Seq(Units) : a = Sent \o inBuff
    BY SentTypes, CatType
  <2>2. Whole = a \o todo
    <3>1. Sent \in Seq(Units) /\ inBuff \in Seq(Units) /\ todo \in Seq(Units)
      BY SentTypes
    <3>2. (Sent \o inBuff) \o todo = Sent \o (inBuff \o todo)
      <4>1. Assoc(Sent, inBuff, todo)
        BY <3>1, CatAssoc
      <4> QED
        BY <4>1 DEF Assoc
    <3> QED
      BY <2>1, <3>2 DEF Whole, Rest
  <2>3. Whole' = a
    BY <1>1, <1>2, <2>1, SentTypes, CatEmpty DEF Whole, Rest
  <2>4. Decodes(a \o todo, accepted)
    BY <1>5, <2>2 DEF IndInv, Clean
  <2>5. /\ todo \in Seq(Units) /\ Len(todo) <= accepted /\ accepted \in Nat
        /\ \A i \in 1..Len(todo) : todo[i] = accepted - Len(todo) + i
    BY SentTypes, Constants DEF IndInv, TodoInv, TypeInv, TypeOK
  <2>6. Decodes(a, accepted - Len(todo))
    BY <2>4, <2>5, Dropped
  <2> QED
    BY <1>1, <2>3, <2>6
<1>6. ASSUME ~broken PROVE FrameInv'
  <2>1. ~compressed => Whole' = <<>> /\ accepted' = 0
    <3>1. ASSUME ~compressed PROVE todo = <<>> /\ accepted = 0 /\ Whole = <<>>
      BY <1>6, <3>1, EmptySeq DEF IndInv, Clean, FrameInv, TodoInv, TypeInv, TypeOK, EncoderTypeOK
    <3>2. todo = <<>> => Whole' = Whole /\ accepted' = accepted
      BY <1>1, <1>2 DEF Whole, Rest, IndInv, TypeInv, TypeOK
    <3> QED
      BY <3>1, <3>2
  <2> QED
    BY <1>1, <1>2, <1>6, <2>1 DEF IndInv, CallInv, Clean, FrameInv
<1> QED
  BY <1>1, <1>3, <1>4, <1>5, <1>6 DEF IndInv, Clean

LEMMA CompressInd == ASSUME IndInv, NEW n \in 0..MaxBytes, Compress(n) PROVE IndInv'
<1>1. /\ pc = "idle" /\ ~closed /\ op' = "write" /\ pc' = "loop" /\ size' = 0 /\ outcome' = "none"
      /\ initialized' = TRUE /\ compressed' = TRUE /\ accepted' = accepted + n
      /\ UNCHANGED <<closed, freed, dst, sink, failures, broken, headerDone, inBuff, outBuff, frameEnded>>
      /\ stage' = IF initialized THEN stage ELSE "init"
  BY DEF Compress, ZSTD_CCtx_reset, native
<1>2. CASE todo # <<>>
  <2>1. todo' = todo /\ n = 0 /\ accepted' = accepted
    BY <1>1, <1>2 DEF Compress, IndInv, TypeInv, TypeOK
  <2>2. Sent' = Sent /\ Whole' = Whole
    BY <1>1, <2>1, Quiet
  <2>3. TypeInv' /\ TodoInv'
    <3>1. EncoderTypeOK' /\ Len(inBuff') <= BlockSize
      BY <1>1, <2>1 DEF IndInv, TypeInv, TypeOK, EncoderTypeOK
    <3>2. TypeOK'
      BY <1>1, <2>1, <3>1 DEF IndInv, TypeInv, TypeOK
    <3> QED
      BY <1>1, <2>1, <3>1, <3>2 DEF IndInv, TypeInv, TodoInv
  <2>4. CallInv'
    BY <1>1, <2>1 DEF IndInv, CallInv
  <2>5. Clean'
    BY <1>1, <2>1, <2>2 DEF IndInv, CallInv, Clean, FrameInv
  <2> QED
    BY <2>3, <2>4, <2>5 DEF IndInv
<1>3. CASE todo = <<>>
  <2>1. todo' = [i \in 1..n |-> accepted + i] /\ accepted + n <= MaxBytes /\ accepted \in Nat /\ n \in Nat
    BY <1>3, Constants DEF Compress, IndInv, TypeInv, TypeOK
  <2>2. todo' \in Seq(Nat) /\ Len(todo') = n /\ \A i \in 1..n : todo'[i] = accepted + i
    BY <2>1
  <2>3. Sent' = Sent
    BY <1>1 DEF Sent, Made
  <2>4. TypeInv' /\ TodoInv'
    <3>1. EncoderTypeOK' /\ Len(inBuff') <= BlockSize
      BY <1>1, <2>2 DEF IndInv, TypeInv, TypeOK, EncoderTypeOK
    <3>2. TypeOK'
      BY <1>1, <2>1, <3>1, Constants DEF IndInv, TypeInv, TypeOK
    <3>3. TodoInv'
      BY <1>1, <2>1, <2>2 DEF TodoInv
    <3> QED
      BY <1>1, <3>1, <3>2, <3>3 DEF IndInv, TypeInv
  <2>5. CallInv'
    BY <1>1 DEF IndInv, CallInv
  <2>6. ASSUME ~broken PROVE Decodes(Whole', accepted')
    <3>1. PICK a \in Seq(Units) : a = Sent \o inBuff
      BY SentTypes, CatType
    <3>2. Whole = a
      BY <1>3, <3>1, SentTypes, CatEmpty DEF Whole, Rest
    <3>3. PICK t \in Seq(Units) : t = todo'
      BY <2>2, NatSeq
    <3>4. Whole' = a \o t
      <4>1. Sent \in Seq(Units) /\ inBuff \in Seq(Units)
        BY SentTypes
      <4>2. (Sent \o inBuff) \o t = Sent \o (inBuff \o t)
        <5>1. Assoc(Sent, inBuff, t)
          BY <4>1, CatAssoc
        <5> QED
          BY <5>1 DEF Assoc
      <4> QED
        BY <1>1, <2>3, <3>1, <3>3, <4>2 DEF Whole, Rest
    <3>5. Decodes(a, accepted)
      BY <2>6, <3>2 DEF IndInv, Clean
    <3>6. Len(t) = n /\ \A i \in 1..Len(t) : t[i] = accepted + i
      BY <2>2, <3>3
    <3>7. Decodes(a \o t, accepted + n)
      BY <2>1, <3>5, <3>6, Added
    <3> QED
      BY <1>1, <3>4, <3>7
  <2>7. ASSUME ~broken PROVE FrameInv'
    <3>1. frameEnded => FALSE
      BY <1>1, <2>7 DEF IndInv, CallInv, Clean, FrameInv
    <3> QED
      BY <1>1, <2>3, <2>7, <3>1 DEF IndInv, CallInv, Clean, FrameInv
  <2> QED
    BY <1>1, <2>4, <2>5, <2>6, <2>7 DEF IndInv, Clean
<1> QED
  BY <1>2, <1>3

-----------------------------------------------------------------------------
(***************************************************************************)
(* The native call                                                         *)
(***************************************************************************)
LEMMA ActiveOp ==
    ASSUME IndInv, pc \in {"native", "result"}
    PROVE  op \in {"write", "flush", "close"} /\ ~closed /\ initialized /\ compressed /\ outcome = "none"
  BY DEF IndInv, TypeInv, TypeOK, CallInv

LEMMA NativeBeginInd ==
    ASSUME IndInv, NativeBegin, UNCHANGED <<java, sink, app, fate>>
    PROVE  IndInv'
<1>1. /\ pc = "native" /\ stage = "init" /\ stage' = "load" /\ headerDone' = FALSE /\ frameEnded' = FALSE
      /\ inBuff' = <<>> /\ outBuff' = <<>>
      /\ UNCHANGED <<op, pc, todo, dst, size, closed, initialized, freed, sink, accepted, compressed,
                     failures, broken, outcome>>
  BY DEF NativeBegin, java, app, fate
<1>2. TypeInv' /\ TodoInv'
  <2>1. <<>> \in Seq(Nat) /\ <<>> \in Seq(Units) /\ Len(<<>>) <= BlockSize
    BY EmptySeq, Constants
  <2>2. EncoderTypeOK'
    BY <1>1, <2>1 DEF IndInv, TypeInv, TypeOK, EncoderTypeOK
  <2>3. TypeOK'
    BY <1>1, <2>2 DEF IndInv, TypeInv, TypeOK
  <2> QED
    BY <1>1, <2>1, <2>3 DEF IndInv, TypeInv, TodoInv
<1>3. CallInv'
  BY <1>1 DEF IndInv, CallInv
<1>4. ASSUME ~broken PROVE FrameInv' /\ Decodes(Whole', accepted')
  <2>1. ~frameEnded /\ inBuff = <<>> /\ outBuff = <<>>
    BY <1>1, <1>4 DEF IndInv, Clean, FrameInv
  <2>2. Sent' = Sent /\ Whole' = Whole
    BY <1>1, <2>1, Quiet
  <2> QED
    BY <1>1, <1>4, <2>1, <2>2, ActiveOp DEF IndInv, CallInv, Clean, FrameInv
<1> QED
  BY <1>1, <1>2, <1>3, <1>4 DEF IndInv, Clean

LEMMA NativeFlushInd ==
    ASSUME IndInv, NativeFlush, UNCHANGED <<java, sink, app, fate>>
    PROVE  IndInv'
<1>1. /\ EncoderTypeOK' /\ Made' = Made /\ Rest' = Rest /\ todo' = todo
      /\ UNCHANGED <<op, size, headerDone, inBuff, frameEnded>>
      /\ pc = "native" /\ stage = "flush" /\ pc' \in {"native", "result"}
      /\ pc' = "native" => stage' = "load" /\ outBuff' = <<>> /\ ~frameEnded
      /\ stage' \in {"load", "init"} => outBuff' = <<>>
      /\ stage' = "init" => frameEnded
      /\ pc' = "result" => outBuff' # <<>> \/ frameEnded
      /\ outBuff' # <<>> => stage' = "flush"
      /\ stage' = "load" => ~frameEnded
  <2>1. EncoderTypeOK /\ DstSize \in Nat
    BY Constants DEF IndInv, TypeInv, TypeOK
  <2> QED
    BY <2>1, FlushStep
<1>2. UNCHANGED <<closed, initialized, freed, sink, accepted, compressed, failures, broken, outcome>>
  BY DEF java, app, fate
<1>3. Sent' = Sent /\ Whole' = Whole
  BY <1>1, <1>2 DEF Sent, Whole
<1>4. TypeInv' /\ TodoInv'
  <2>1. TypeOK'
    BY <1>1, <1>2 DEF IndInv, TypeInv, TypeOK
  <2> QED
    BY <1>1, <1>2, <2>1 DEF IndInv, TypeInv, TodoInv
<1>5. CallInv'
  BY <1>1, <1>2 DEF IndInv, CallInv
<1>6. ASSUME ~broken PROVE FrameInv'
  BY <1>1, <1>2, <1>3, <1>6, ActiveOp DEF IndInv, Clean, FrameInv
<1> QED
  BY <1>2, <1>3, <1>4, <1>5, <1>6 DEF IndInv, Clean

LEMMA NativeResultInd ==
    ASSUME IndInv, NativeResult, UNCHANGED <<java, sink, app, fate>>
    PROVE  IndInv'
<1>1. /\ pc = "result" /\ size' = Len(outBuff) /\ pc' = "emit"
      /\ UNCHANGED <<op, todo, dst, stage, headerDone, inBuff, outBuff, frameEnded,
                     closed, initialized, freed, sink, accepted, compressed, failures, broken, outcome>>
  BY DEF NativeResult, native, java, app, fate
<1>2. Sent' = Sent /\ Whole' = Whole
  BY <1>1, Quiet
<1>3. TypeInv' /\ TodoInv'
  <2>1. EncoderTypeOK'
    BY <1>1 DEF IndInv, TypeInv, TypeOK, EncoderTypeOK
  <2>2. TypeOK'
    BY <1>1, <2>1 DEF IndInv, TypeInv, TypeOK
  <2> QED
    BY <1>1, <2>2 DEF IndInv, TypeInv, TodoInv
<1>4. CallInv'
  BY <1>1 DEF IndInv, CallInv
<1>5. Clean'
  BY <1>1, <1>2, ActiveOp DEF IndInv, Clean, FrameInv
<1> QED
  BY <1>3, <1>4, <1>5 DEF IndInv

LEMMA NativeLoadInd ==
    ASSUME IndInv, NativeLoad, UNCHANGED <<java, sink, app, fate>>
    PROVE  IndInv'
<1>1. /\ pc = "native" /\ stage = "load"
      /\ UNCHANGED <<op, dst, size, closed, initialized, freed, sink, accepted, compressed,
                     failures, broken, outcome>>
  BY DEF NativeLoad, java, app, fate
<1>2. op \in {"write", "flush", "close"} /\ ~closed /\ initialized /\ compressed /\ outcome = "none"
  BY <1>1, ActiveOp
<1>3. PICK n \in Nat, block \in Seq(Nat) :
         /\ Taken(n, block) /\ (Kept(block) \/ Coded(block))
         /\ block \o todo' = Rest /\ todo' \in Seq(Nat)
  <2>1. EncoderTypeOK /\ Len(inBuff) <= BlockSize /\ BlockSize \in Nat
    BY Constants DEF IndInv, TypeInv, TypeOK
  <2> QED
    BY <1>2, <2>1, LoadStep
<1>4. TodoInv' /\ (op = "close" => todo' = <<>>)
  <2>1. todo \in Seq(Nat) /\ n \in 0..Len(todo) /\ todo' = SubSeq(todo, n + 1, Len(todo))
    BY <1>3 DEF Taken, IndInv, TypeInv, TypeOK, EncoderTypeOK
  <2>2. Len(todo') = Len(todo) - n /\ \A i \in 1..Len(todo) - n : todo'[i] = todo[n + i]
    BY <2>1, Cut
  <2>3. /\ Len(todo) \in Nat /\ Len(todo) <= accepted /\ accepted \in Nat
        /\ \A i \in 1..Len(todo) : todo[i] = accepted - Len(todo) + i
    BY Constants DEF IndInv, TodoInv, TypeInv, TypeOK, EncoderTypeOK
  <2>4. TodoInv'
    <3>1. ASSUME NEW i \in 1..Len(todo') PROVE todo'[i] = accepted - Len(todo') + i
      <4>1. i \in 1..Len(todo) - n /\ n + i \in 1..Len(todo)
        BY <2>1, <2>2, <2>3, <3>1
      <4>2. todo'[i] = todo[n + i] /\ todo[n + i] = accepted - Len(todo) + (n + i)
        BY <2>2, <2>3, <4>1
      <4>3. /\ Len(todo') = Len(todo) - n
            /\ Len(todo) \in Int /\ n \in Int /\ i \in Int /\ accepted \in Int
        BY <2>1, <2>2, <2>3, <4>1
      <4> QED
        BY <4>2, <4>3
    <3>2. Len(todo') <= accepted
      BY <2>1, <2>2, <2>3
    <3> QED
      BY <1>1, <3>1, <3>2 DEF TodoInv
  <2>5. op = "close" => Len(todo') = 0
    BY <2>1, <2>2 DEF IndInv, CallInv
  <2> QED
    BY <1>3, <2>4, <2>5, EmptySeq
<1>5. CASE Kept(block)
  <2>1. /\ pc' = "result" /\ inBuff' = block /\ op \in {"write", "flush"} /\ Len(block) <= BlockSize
        /\ UNCHANGED <<stage, headerDone, outBuff, frameEnded>>
    BY <1>3, <1>5 DEF Kept, Taken
  <2>2. Sent' = Sent /\ Whole' = Whole
    BY <1>1, <1>3, <2>1 DEF Sent, Made, Whole, Rest
  <2>3. TypeInv'
    <3>1. EncoderTypeOK'
      BY <1>1, <1>3, <2>1 DEF IndInv, TypeInv, TypeOK, EncoderTypeOK
    <3>2. TypeOK'
      BY <1>1, <2>1, <3>1 DEF IndInv, TypeInv, TypeOK
    <3> QED
      BY <1>1, <2>1, <3>2 DEF IndInv, TypeInv
  <2>4. CallInv'
    BY <1>1, <1>2, <2>1 DEF IndInv, CallInv
  <2>5. Clean'
    BY <1>1, <1>2, <2>1, <2>2 DEF IndInv, Clean, FrameInv
  <2> QED
    BY <1>4, <2>3, <2>4, <2>5 DEF IndInv
<1>6. CASE Coded(block)
  <2> DEFINE h == IF headerDone THEN <<>> ELSE <<Header>>
             e == IF Ending THEN <<End>> ELSE <<>>
  <2>1. /\ pc' = "native" /\ inBuff' = <<>> /\ stage' = "flush" /\ headerDone' = TRUE
        /\ outBuff' = h \o block \o e /\ frameEnded' = Ending /\ (Ending <=> op = "close")
    BY <1>2, <1>6 DEF Coded, Ending
  <2>2. h \in Seq({Header, End}) /\ e \in Seq({Header, End}) /\ (op = "close" => e = <<End>>)
    <3>1. /\ <<>> \in Seq({Header, End}) /\ <<Header>> \in Seq({Header, End})
          /\ <<End>> \in Seq({Header, End})
      OBVIOUS
    <3> QED
      BY <2>1, <3>1
  <2>3. block \in Seq(Units) /\ todo' \in Seq(Units) /\ h \in Seq(Units) /\ e \in Seq(Units)
    BY <1>3, <2>2, NatSeq, NoBytes
  <2> HIDE DEF h, e
  <2>4. h \o block \in Seq(Units) /\ outBuff' \in Seq(Units)
    BY <2>1, <2>3, CatType
  <2>5. TypeInv'
    <3>1. <<>> \in Seq(Nat) /\ Len(<<>>) <= BlockSize
      BY EmptySeq, Constants
    <3>2. EncoderTypeOK'
      BY <1>1, <1>3, <2>1, <2>4, <3>1 DEF IndInv, TypeInv, TypeOK, EncoderTypeOK
    <3>3. TypeOK'
      BY <1>1, <2>1, <3>2 DEF IndInv, TypeInv, TypeOK
    <3> QED
      BY <1>1, <2>1, <3>1, <3>3 DEF IndInv, TypeInv
  <2>6. CallInv'
    BY <1>1, <1>2, <1>4, <2>1 DEF IndInv, CallInv
  <2>7. ASSUME ~broken PROVE FrameInv' /\ Decodes(Whole', accepted')
    <3>1. outBuff = <<>>
      BY <1>1, <2>7 DEF IndInv, Clean, FrameInv
    <3>2. Made = dst /\ Sent = sink \o dst /\ Sent \in Seq(Units) /\ sink \in Seq(Units) /\ dst \in Seq(Units)
      BY <3>1, SentTypes, CatEmpty DEF Made, Sent
    <3>3. Sent' = Sent \o outBuff'
      <4>1. (sink \o dst) \o outBuff' = sink \o (dst \o outBuff')
        <5>1. Assoc(sink, dst, outBuff')
          BY <2>4, <3>2, CatAssoc
        <5> QED
          BY <5>1 DEF Assoc
      <4> QED
        BY <1>1, <3>2, <4>1 DEF Sent, Made
    <3>4. Rest' = todo'
      BY <2>1, <2>3, CatEmpty DEF Rest
    <3>5. Whole' = (Sent \o (h \o block \o e)) \o todo'
      BY <2>1, <3>3, <3>4 DEF Whole
    <3>6. Whole = Sent \o (block \o todo')
      BY <1>3 DEF Whole
    <3>7. Decodes(Whole', accepted')
      <4>1. Decodes(Whole, accepted)
        BY <2>7 DEF IndInv, Clean
      <4>2. /\ InOrder(Whole) <=> InOrder(Whole')
            /\ BytesIn(Whole') = BytesIn(Whole)
        <5>1. PICK t \in Seq(Units) : t = todo'
          BY <2>3
        <5>2. PICK u \in Seq(Units), b \in Seq(Units), f \in Seq({Header, End}), g \in Seq({Header, End}) :
                u = Sent /\ b = block /\ f = h /\ g = e
          BY <2>2, <2>3, <3>2
        <5>3. SameData((u \o (f \o b \o g)) \o t, u \o (b \o t))
          <6>1. /\ u \in Seq(Units) /\ b \in Seq(Units) /\ t \in Seq(Units)
                /\ f \in Seq({Header, End}) /\ g \in Seq({Header, End})
            BY <5>1, <5>2
          <6> QED
            BY <6>1, Coding
        <5>4. Whole = u \o (b \o t) /\ Whole' = (u \o (f \o b \o g)) \o t
          BY <3>5, <3>6, <5>1, <5>2
        <5>5. SameData(Whole', Whole)
          BY <5>3, <5>4
        <5> QED
          BY <5>5 DEF SameData
      <4> QED
        BY <1>1, <4>1, <4>2 DEF Decodes
    <3>8. op = "close" => Sent' # <<>> /\ Ended(Sent')
      <4>1. SUFFICES ASSUME op = "close" PROVE Sent' # <<>> /\ Ended(Sent')
        OBVIOUS
      <4>2. PICK g \in Seq(Units) : g = h \o block
        BY <2>4
      <4>3. outBuff' = g \o <<End>> /\ <<End>> \in Seq(Units)
        BY <2>1, <2>2, <2>3, <4>1, <4>2
      <4>4. PICK v \in Seq(Units) : v = Sent \o g
        BY <3>2, <4>2, CatType
      <4>5. Sent' = v \o <<End>>
        <5>1. PICK z \in Seq(Units) : z = <<End>>
          BY <4>3
        <5>2. Sent \in Seq(Units) /\ g \in Seq(Units) /\ z \in Seq(Units)
          BY <3>2, <4>2, <5>1
        <5>3. (Sent \o g) \o z = Sent \o (g \o z)
          <6>1. Assoc(Sent, g, z)
            BY <5>2, CatAssoc
          <6> QED
            BY <6>1 DEF Assoc
        <5> QED
          BY <3>3, <4>3, <4>4, <5>1, <5>3
      <4>6. Len(Sent') = Len(v) + 1 /\ Sent'[Len(v) + 1] = End
        BY <4>3, <4>4, <4>5, CatType, CatAt
      <4> QED
        BY <4>6, <4>5 DEF Ended
    <3>9. FrameInv'
      BY <1>1, <1>2, <1>4, <2>1, <3>8 DEF IndInv, CallInv, FrameInv
    <3> QED
      BY <3>7, <3>9
  <2> QED
    BY <1>1, <1>4, <2>5, <2>6, <2>7 DEF IndInv, Clean
<1> QED
  BY <1>3, <1>5, <1>6

-----------------------------------------------------------------------------
LEMMA NextInd == IndInv /\ [Next]_vars => IndInv'
<1> SUFFICES ASSUME IndInv, [Next]_vars PROVE IndInv'
  OBVIOUS
<1>1. ASSUME NEW n \in 0..MaxBytes, Compress(n) PROVE IndInv'
  BY <1>1, CompressInd
<1>2. ASSUME Flush \/ Close PROVE IndInv'
  BY <1>2, FlushInd, CloseInd
<1>3. ASSUME compressStream PROVE IndInv'
  BY <1>3, NativeBeginInd, NativeLoadInd, NativeFlushInd, NativeResultInd
     DEF compressStream, ZSTD_compressStream2
<1>4. ASSUME Step PROVE IndInv'
  BY <1>3, <1>4, CompressLoopInd, RoomInd, CompressedSomeInd, NativeDoneInd, FlushedMoreInd,
     FlushedDoneInd, ReleaseInd DEF Step
<1>5. ASSUME InitError \/ NoRoom \/ FlushedNoRoom \/ NativeError PROVE IndInv'
  BY <1>5, InitErrorInd, NoRoomInd, FlushedNoRoomInd, NativeErrorInd
<1>6. ASSUME UNCHANGED vars PROVE IndInv'
  <2>1. Sent' = Sent /\ Whole' = Whole
    BY <1>6, Quiet DEF vars, native
  <2>2. TypeInv' /\ TodoInv' /\ CallInv'
    BY <1>6 DEF vars, native, java, app, fate, IndInv, TypeInv, TypeOK, EncoderTypeOK, TodoInv, CallInv
  <2>3. Clean'
    BY <1>6, <2>1 DEF vars, native, java, app, fate, IndInv, Clean, FrameInv
  <2> QED
    BY <2>2, <2>3 DEF IndInv
<1> QED
  BY <1>1, <1>2, <1>4, <1>5, <1>6 DEF Next

LEMMA Invariance == Spec => []IndInv
  BY InitInd, NextInd, PTL DEF Spec

-----------------------------------------------------------------------------
(***************************************************************************)
(* The theorems                                                            *)
(***************************************************************************)
\* Every variable has its type, the target buffer is never overrun, and close() frees the
\* native stream once, whatever was thrown before.
THEOREM DirectTypeCorrect == Spec => []TypeOK
<1>1. IndInv => TypeOK
  BY DEF IndInv, TypeInv
<1> QED
  BY <1>1, Invariance, PTL

\* Between calls of compress(), flush() and close() every byte is in exactly one place, also
\* after a flushBuffer() that made no room and an exception.
THEOREM DirectConserves == Spec => []BytesConserved
<1>1. IndInv => BytesConserved
  <2> SUFFICES ASSUME IndInv, ~broken PROVE Decodes(Output \o outBuff \o inBuff \o todo, accepted)
    BY DEF BytesConserved
  <2>1. /\ sink \in Seq(Units) /\ dst \in Seq(Units) /\ outBuff \in Seq(Units)
        /\ inBuff \in Seq(Units) /\ todo \in Seq(Units) /\ Sent \in Seq(Units)
    BY SentTypes
  <2>2. (sink \o dst) \o outBuff = Sent
    <3>1. Assoc(sink, dst, outBuff)
      BY <2>1, CatAssoc
    <3> QED
      BY <3>1 DEF Assoc, Sent, Made
  <2>3. (Sent \o inBuff) \o todo = Whole
    <3>1. Assoc(Sent, inBuff, todo)
      BY <2>1, CatAssoc
    <3> QED
      BY <3>1 DEF Assoc, Whole, Rest
  <2> QED
    BY <2>2, <2>3 DEF Output, IndInv, Clean
<1> QED
  BY <1>1, Invariance, PTL

\* A close() that returns has put a complete frame of all bytes into the targets.
THEOREM DirectCloses == Spec => []CloseCompletes
<1>1. IndInv => CloseCompletes
  <2> SUFFICES ASSUME IndInv, outcome = "closed", ~broken
               PROVE  IF compressed THEN Output # <<>> /\ Ended(Output) /\ Decodes(Output, accepted)
                      ELSE Output = <<>>
    BY DEF CloseCompletes
  <2>1. /\ FrameInv /\ Decodes(Whole, accepted) /\ outBuff = <<>> /\ (frameEnded \/ ~compressed)
    BY DEF IndInv, Clean, FrameInv
  <2>2. Sent = Output /\ Output \in Seq(Units)
    BY <2>1, SentTypes, CatEmpty DEF Sent, Made, Output
  <2>3. CASE compressed
    <3>1. inBuff = <<>> /\ todo = <<>> /\ Sent # <<>> /\ Ended(Sent)
      BY <2>1, <2>3 DEF FrameInv
    <3>2. Whole = Sent
      BY <3>1, SentTypes, CatEmpty DEF Whole, Rest
    <3> QED
      BY <2>1, <2>2, <2>3, <3>1, <3>2
  <2>4. CASE ~compressed
    BY <2>1, <2>4, SentTypes, CatEmpty DEF FrameInv, Output
  <2> QED
    BY <2>3, <2>4
<1> QED
  BY <1>1, Invariance, PTL
=============================================================================
