---------------------------- MODULE ReaderProofs ----------------------------
(***************************************************************************)
(* Proofs about jsp_reader, for every block size, every buffer that holds  *)
(* at least one block, and every way read(2) can answer.                   *)
(***************************************************************************)
EXTENDS MCReader, SequenceTheorems, TLAPS

\* The part of the stream that the buffer's first len octets repeat starts at
\* stream_offset - buf_offset.
Base == stream_offset - buf_offset

Mirror ==
  /\ Base >= 0
  /\ Base + len = Len(stream)
  /\ \A i \in 0 .. len - 1 : buf[i] = stream[Base + i + 1]

\* Inside the read loop the buffer is compacted, open and short of a block.
InLoop == pc = "reading" => ~done /\ buf_offset = 0 /\ len < BlockSize

\* Until the reader is done, whole blocks were handed out and nothing else.
WholeBlocks == ~done => \E k \in 0 .. Len(stream) : stream_offset = k * BlockSize

\* The last slice lies just before buf_offset.
LastSlice ==
  HandedOut =>
    /\ pc = "idle"
    /\ result.ptr + result.len = buf_offset
    /\ result.offset + result.len = stream_offset
    /\ \E k \in 0 .. Len(stream) : result.offset = k * BlockSize
    /\ result.len \in 1 .. BlockSize
    /\ result.len < BlockSize => done
    /\ result.ptr + BlockSize <= Cap

\* The reader is done only once everything was handed out.
AtEnd ==
  /\ done => stream_offset = Len(stream)
  /\ result.status = "END" => done

\* A call that is inside the read loop has no answer yet.
Waiting == pc = "reading" => result.status = "PENDING"

IInv ==
  TypeOK /\ Mirror /\ InLoop /\ WholeBlocks /\ LastSlice /\ AtEnd /\ Waiting

-----------------------------------------------------------------------------

\* One block further is the next multiple of the block size.
LEMMA NextMultiple ==
  ASSUME NEW k \in Nat
  PROVE  /\ k + 1 \in Nat
         /\ (k + 1) * BlockSize = k * BlockSize + BlockSize
         /\ k <= k * BlockSize
<1>1. BlockSize \in Nat /\ BlockSize >= 1
  BY BlockSizeAssumption
<1>2. (k + 1) * BlockSize = k * BlockSize + BlockSize
  BY <1>1
<1>3. k * BlockSize = k + k * (BlockSize - 1) /\ k * (BlockSize - 1) >= 0
  BY <1>1
<1> QED
  BY <1>1, <1>2, <1>3

\* A chunk that a read returns is a sequence of octets.
LEMMA ChunkIsSeq ==
  ASSUME NEW chunk \in Chunk, stream \in Seq(Octet)
  PROVE  chunk \in Seq(Octet) /\ Len(chunk) \in Nat
<1>1. PICK n \in 1 .. MaxStream - Len(stream) : chunk \in [1 .. n -> Octet]
  BY DEF Chunk
<1>2. n \in Nat
  BY <1>1, MaxStreamAssumption, LenProperties
<1>3. chunk \in Seq(Octet)
  <2>1. Seq(Octet) = UNION {[1 .. m -> Octet] : m \in Nat}
    BY SeqDef
  <2> QED
    BY <1>1, <1>2, <2>1
<1> QED
  BY <1>3, LenProperties

\* The invariant holds before the first call.
LEMMA InitInv == Init => IInv
<1> SUFFICES ASSUME Init PROVE IInv
  OBVIOUS
<1> USE BlockSizeAssumption, CapAssumption DEF Init, Answer
<1>1. Len(stream) = 0 /\ stream \in Seq(Octet)
  BY EmptySeq
<1>2. TypeOK
  <2>1. result \in [status : Status, ptr : Nat, len : Nat, offset : Nat]
    BY DEF Status
  <2>2. /\ buf \in [Index -> Octet]
        /\ pc \in {"idle", "reading"}
        /\ done \in BOOLEAN
    OBVIOUS
  <2>3. len \in 0 .. Cap /\ buf_offset \in 0 .. len /\ stream_offset \in Nat
    OBVIOUS
  <2> QED
    BY <1>1, <2>1, <2>2, <2>3 DEF TypeOK
<1>3. Mirror
  BY <1>1 DEF Mirror, Base
<1>4. WholeBlocks
  <2>1. 0 \in 0 .. Len(stream) /\ stream_offset = 0 * BlockSize
    BY <1>1
  <2> QED
    BY <2>1 DEF WholeBlocks
<1>5. InLoop /\ LastSlice /\ AtEnd /\ Waiting
  BY DEF InLoop, LastSlice, AtEnd, HandedOut, Waiting
<1> QED
  BY <1>2, <1>3, <1>4, <1>5 DEF IInv

-----------------------------------------------------------------------------
(* One lemma per action: each keeps the inductive invariant. *)

\* At the end the reader stays there.
LEMMA NextDoneInv ==
  ASSUME IInv, NextDone PROVE IInv'
<1> USE DEF NextDone, Answer
<1>1. TypeOK'
  BY DEF IInv, TypeOK, Index, Status
<1>2. Mirror' /\ InLoop' /\ WholeBlocks'
  BY DEF IInv, TypeOK, Mirror, Base, InLoop, WholeBlocks
<1>3. LastSlice' /\ AtEnd' /\ Waiting'
  BY DEF IInv, LastSlice, AtEnd, HandedOut, Waiting
<1> QED
  BY <1>1, <1>2, <1>3 DEF IInv

\* A whole block in the buffer is the stream's next.
LEMMA NextBufferedInv ==
  ASSUME IInv, NextBuffered PROVE IInv'
<1> USE BlockSizeAssumption, CapAssumption DEF NextBuffered, BlockLeft, Yield
<1>1. /\ stream \in Seq(Octet) /\ Len(stream) \in Nat
      /\ len \in 0 .. Cap /\ buf_offset \in 0 .. len /\ stream_offset \in Nat
  BY LenProperties DEF IInv, TypeOK
<1>2. TypeOK'
  BY <1>1 DEF IInv, TypeOK, Index, Status
<1>3. Mirror' /\ InLoop'
  <2>1. Base' = Base
    BY <1>1 DEF Base
  <2>2. Mirror'
    BY <1>1, <2>1 DEF IInv, Mirror
  <2>3. InLoop'
    BY DEF InLoop
  <2> QED
    BY <2>2, <2>3
<1>4. PICK k \in 0 .. Len(stream) : stream_offset = k * BlockSize
  BY DEF IInv, WholeBlocks
<1>5. stream_offset + BlockSize <= Len(stream)
  BY <1>1 DEF IInv, Mirror, Base
<1>6. /\ k \in 0 .. Len(stream)
      /\ k + 1 \in 0 .. Len(stream)
      /\ stream_offset' = (k + 1) * BlockSize
  <2>1. stream_offset' = (k + 1) * BlockSize
    BY <1>4, NextMultiple
  <2>2. k <= stream_offset /\ k + 1 <= stream_offset + BlockSize
    BY <1>1, <1>4, NextMultiple
  <2> QED
    BY <1>1, <1>5, <2>1, <2>2
<1>7. WholeBlocks'
  BY <1>6 DEF WholeBlocks
<1>8. LastSlice'
  BY <1>1, <1>4, <1>6 DEF LastSlice, HandedOut
<1>9. AtEnd' /\ Waiting'
  BY DEF IInv, AtEnd, Waiting
<1> QED
  BY <1>2, <1>3, <1>7, <1>8, <1>9 DEF IInv

\* Compaction moves octets, not the stream.
LEMMA NextCompactInv ==
  ASSUME IInv, NextCompact PROVE IInv'
<1> USE BlockSizeAssumption, CapAssumption DEF NextCompact, BlockLeft, LenCompacted, Answer
<1>1. /\ stream \in Seq(Octet) /\ Len(stream) \in Nat
      /\ buf \in [Index -> Octet]
      /\ len \in 0 .. Cap /\ buf_offset \in 0 .. len /\ stream_offset \in Nat
  BY LenProperties DEF IInv, TypeOK
<1>2. buf' \in [Index -> Octet]
  BY <1>1 DEF Compacted, Index
<1>3. \A i \in 0 .. len' - 1 : buf'[i] = buf[i + buf_offset]
  BY <1>1 DEF Compacted, Index
<1>4. TypeOK'
  BY <1>1, <1>2 DEF IInv, TypeOK, Status
<1>5. Mirror'
  <2>1. Base' = stream_offset /\ Base' + len' = Len(stream')
    BY <1>1 DEF IInv, Mirror, Base
  <2>2. ASSUME NEW i \in 0 .. len' - 1
        PROVE  buf'[i] = stream'[Base' + i + 1]
    <3>1. i + buf_offset \in 0 .. len - 1
      BY <1>1, <2>2
    <3>2. buf[i + buf_offset] = stream[Base + (i + buf_offset) + 1]
      BY <3>1 DEF IInv, Mirror
    <3> QED
      BY <1>1, <1>3, <2>1, <2>2, <3>2 DEF Base
  <2> QED
    BY <1>1, <2>1, <2>2 DEF Mirror
<1>6. InLoop' /\ WholeBlocks'
  BY <1>1 DEF IInv, InLoop, WholeBlocks
<1>7. LastSlice' /\ AtEnd' /\ Waiting'
  BY DEF IInv, LastSlice, AtEnd, HandedOut, Waiting
<1> QED
  BY <1>4, <1>5, <1>6, <1>7 DEF IInv

\* A read that fails leaves the buffer as it is.
LEMMA ReadErrorInv ==
  ASSUME IInv, ReadError PROVE IInv'
<1> USE DEF ReadError, Answer
<1>1. TypeOK'
  BY DEF IInv, TypeOK, Index, Status
<1>2. Mirror' /\ InLoop' /\ WholeBlocks'
  BY DEF IInv, Mirror, Base, InLoop, WholeBlocks
<1>3. LastSlice' /\ AtEnd' /\ Waiting'
  BY DEF IInv, LastSlice, AtEnd, HandedOut, Waiting
<1> QED
  BY <1>1, <1>2, <1>3 DEF IInv

\* At the end of the stream the rest is the last block.
LEMMA ReadNothingInv ==
  ASSUME IInv, ReadNothing PROVE IInv'
<1> USE BlockSizeAssumption, CapAssumption DEF ReadNothing, Yield, Answer
<1>1. /\ stream \in Seq(Octet) /\ Len(stream) \in Nat
      /\ len \in 0 .. Cap /\ stream_offset \in Nat
      /\ buf_offset = 0 /\ len < BlockSize /\ ~done
      /\ stream_offset + len = Len(stream)
  BY LenProperties DEF IInv, TypeOK, InLoop, Mirror, Base
<1>2. PICK k \in 0 .. Len(stream) : stream_offset = k * BlockSize
  BY <1>1 DEF IInv, WholeBlocks
<1>3. TypeOK'
  BY <1>1 DEF IInv, TypeOK, Index, Status
<1>4. Mirror' /\ WholeBlocks'
  BY <1>1 DEF IInv, Mirror, Base, WholeBlocks
<1>5. InLoop'
  BY <1>1 DEF InLoop
<1>6. LastSlice'
  BY <1>1, <1>2 DEF LastSlice, HandedOut
<1>7. AtEnd' /\ Waiting'
  BY <1>1 DEF AtEnd, Waiting
<1> QED
  BY <1>3, <1>4, <1>5, <1>6, <1>7 DEF IInv

\* What is read joins the buffer and the stream alike.
LEMMA ReadSomeInv ==
  ASSUME IInv, NEW chunk \in Chunk, ReadSome(chunk) PROVE IInv'
<1> USE BlockSizeAssumption, CapAssumption
<1>1. /\ stream \in Seq(Octet) /\ Len(stream) \in Nat
      /\ buf \in [Index -> Octet]
      /\ len \in 0 .. Cap /\ stream_offset \in Nat
      /\ buf_offset = 0 /\ len < BlockSize /\ ~done
      /\ stream_offset + len = Len(stream)
  BY LenProperties DEF IInv, TypeOK, InLoop, Mirror, Base, ReadSome
<1>2. chunk \in Seq(Octet) /\ Len(chunk) \in Nat
  BY <1>1, ChunkIsSeq
<1>a. /\ pc = "reading" /\ Len(chunk) >= 1 /\ Len(chunk) <= Cap - len
      /\ len' = len + Len(chunk) /\ done' = done
  BY DEF ReadSome
<1>b. \/ /\ len' >= BlockSize
         /\ result' = [status |-> "BLOCK", ptr |-> 0, len |-> BlockSize,
                       offset |-> stream_offset]
         /\ buf_offset' = BlockSize /\ stream_offset' = stream_offset + BlockSize
         /\ pc' = "idle"
      \/ /\ len' < BlockSize
         /\ UNCHANGED <<buf_offset, stream_offset, pc, result>>
  BY <1>1, <1>2, <1>a DEF ReadSome, Yield
<1>3. \A i \in 1 .. Len(chunk) : chunk[i] \in Octet
  BY <1>2, ElementOfSeq
<1>4. /\ stream' \in Seq(Octet)
      /\ Len(stream') = Len(stream) + Len(chunk)
      /\ \A i \in 1 .. Len(stream) + Len(chunk) :
            stream'[i] = IF i <= Len(stream) THEN stream[i]
                                             ELSE chunk[i - Len(stream)]
  BY <1>1, <1>2, ConcatProperties DEF ReadSome
<1>5. buf' \in [Index -> Octet]
  BY <1>1, <1>2, <1>3 DEF Filled, Index, ReadSome
<1>6. \A i \in 0 .. len' - 1 :
         buf'[i] = IF i >= len THEN chunk[i - len + 1] ELSE buf[i]
  BY <1>1, <1>2, <1>a DEF Filled, Index, ReadSome
<1>7. Len(stream') \in Nat /\ len' \in 0 .. Cap
  BY <1>1, <1>2, <1>4, <1>a
<1>8. TypeOK'
  <2>1. buf_offset' \in 0 .. len' /\ stream_offset' \in Nat
    BY <1>1, <1>2, <1>a, <1>b
  <2>2. pc' \in {"idle", "reading"} /\ done' \in BOOLEAN
    BY <1>a, <1>b DEF IInv, TypeOK
  <2>3. result' \in [status : Status, ptr : Nat, len : Nat, offset : Nat]
    BY <1>1, <1>b DEF IInv, TypeOK, Status
  <2> QED
    BY <1>4, <1>5, <1>7, <2>1, <2>2, <2>3 DEF TypeOK
<1>9. Mirror'
  <2>1. Base' = stream_offset /\ Base' + len' = Len(stream')
    BY <1>1, <1>2, <1>4, <1>a, <1>b DEF Base
  <2>2. ASSUME NEW i \in 0 .. len' - 1
        PROVE  buf'[i] = stream'[Base' + i + 1]
    <3>1. CASE i >= len
      <4>1. /\ stream_offset + i + 1 \in 1 .. Len(stream) + Len(chunk)
            /\ stream_offset + i + 1 > Len(stream)
            /\ stream_offset + i + 1 - Len(stream) = i - len + 1
        BY <1>1, <1>2, <1>a, <2>2, <3>1
      <4>2. stream'[stream_offset + i + 1] = chunk[i - len + 1]
        BY <1>1, <1>4, <4>1
      <4> QED
        BY <1>6, <2>1, <2>2, <3>1, <4>2
    <3>2. CASE i < len
      <4>1. buf[i] = stream[stream_offset + i + 1]
        BY <1>1, <3>2, <2>2 DEF IInv, Mirror, Base
      <4>2. stream'[stream_offset + i + 1] = stream[stream_offset + i + 1]
        BY <1>1, <1>2, <1>4, <2>2, <3>2
      <4> QED
        BY <1>1, <1>6, <2>1, <2>2, <3>2, <4>1, <4>2
    <3> QED
      BY <1>1, <1>7, <2>2, <3>1, <3>2
  <2> QED
    BY <1>1, <2>1, <2>2 DEF Mirror
<1>10. PICK k \in 0 .. Len(stream) : stream_offset = k * BlockSize
  BY <1>1 DEF IInv, WholeBlocks
<1>11. k \in 0 .. Len(stream')
  BY <1>1, <1>2, <1>4, <1>10
<1>12. CASE len' >= BlockSize
  <2>1. stream_offset + BlockSize <= Len(stream')
    BY <1>1, <1>2, <1>4, <1>a, <1>12
  <2>2. (k + 1) * BlockSize = k * BlockSize + BlockSize /\ k <= k * BlockSize
    BY <1>10, <1>1, NextMultiple
  <2>3. k + 1 \in 0 .. Len(stream') /\ stream_offset' = (k + 1) * BlockSize
    BY <1>1, <1>10, <1>12, <1>7, <1>b, <2>1, <2>2
  <2>4. WholeBlocks'
    BY <2>3 DEF WholeBlocks
  <2>5. LastSlice'
    BY <1>1, <1>7, <1>10, <1>11, <1>12, <1>b DEF LastSlice, HandedOut
  <2>6. InLoop' /\ AtEnd' /\ Waiting'
    BY <1>1, <1>7, <1>12, <1>a, <1>b DEF InLoop, AtEnd, Waiting
  <2> QED
    BY <1>8, <1>9, <2>4, <2>5, <2>6 DEF IInv
<1>13. CASE len' < BlockSize
  <2>1. WholeBlocks'
    BY <1>1, <1>7, <1>10, <1>11, <1>13, <1>b DEF WholeBlocks
  <2>2. result.status # "BLOCK" /\ result.status # "END"
    BY <1>1, <1>a DEF IInv, LastSlice, AtEnd, HandedOut
  <2>3. InLoop' /\ LastSlice' /\ AtEnd' /\ Waiting'
    BY <1>1, <1>7, <1>13, <1>a, <1>b, <2>2
       DEF IInv, InLoop, LastSlice, AtEnd, HandedOut, Waiting
  <2> QED
    BY <1>8, <1>9, <2>1, <2>3 DEF IInv
<1> QED
  BY <1>7, <1>12, <1>13

-----------------------------------------------------------------------------

\* Every step keeps the inductive invariant.
LEMMA NextInv == IInv /\ [Next]_vars => IInv'
<1> SUFFICES ASSUME IInv, [Next]_vars PROVE IInv'
  OBVIOUS
<1>1. CASE NextDone
  BY <1>1, NextDoneInv
<1>2. CASE NextBuffered
  BY <1>2, NextBufferedInv
<1>3. CASE NextCompact
  BY <1>3, NextCompactInv
<1>4. CASE ReadError
  BY <1>4, ReadErrorInv
<1>5. CASE ReadNothing
  BY <1>5, ReadNothingInv
<1>6. CASE ReadAny
  BY <1>6, ReadSomeInv DEF ReadAny
<1>7. CASE ReadInterrupted \/ UNCHANGED vars
  <2>1. UNCHANGED vars
    BY <1>7 DEF ReadInterrupted
  <2> QED
    BY <2>1 DEF vars, IInv, TypeOK, Mirror, Base, InLoop, WholeBlocks,
                LastSlice, AtEnd, Waiting, HandedOut, Index
<1> QED
  BY <1>1, <1>2, <1>3, <1>4, <1>5, <1>6, <1>7 DEF Next

\* The invariant holds of every behaviour.
LEMMA InvHolds == Spec => []IInv
<1> QED
  BY InitInv, NextInv, PTL DEF Spec

\* The reader's variables keep their types; in particular buf_offset never
\* passes buf.len, nor buf.len buf.cap, whatever read(2) returns.
THEOREM ReaderTypeOK == Spec => []TypeOK
<1>1. IInv => TypeOK
  BY DEF IInv
<1> QED
  BY <1>1, InvHolds, PTL

\* The invariant relates the slice to the stream.
LEMMA BlockIsStreamFromInv == IInv => BlockIsStream
<1> SUFFICES ASSUME IInv, HandedOut PROVE
      /\ result.offset + result.len = stream_offset
      /\ stream_offset <= Len(stream)
      /\ Block = [i \in 1 .. result.len |-> stream[result.offset + i]]
  BY DEF BlockIsStream
<1>1. /\ Len(stream) \in Nat /\ len \in 0 .. Cap /\ buf_offset \in 0 .. len
      /\ stream_offset \in Nat /\ Cap \in Nat /\ buf_offset \in Nat
      /\ result.ptr \in Nat /\ result.len \in Nat /\ result.offset \in Nat
  BY LenProperties, CapAssumption DEF IInv, TypeOK
<1>2. /\ result.ptr + result.len = buf_offset
      /\ result.offset + result.len = stream_offset
  BY DEF IInv, LastSlice
<1>3. stream_offset <= Len(stream)
  BY <1>1 DEF IInv, Mirror, Base
<1>4. ASSUME NEW i \in 1 .. result.len
      PROVE  buf[result.ptr + i - 1] = stream[result.offset + i]
  <2>1. result.ptr + i - 1 \in 0 .. len - 1
    BY <1>1, <1>2, <1>4
  <2>2. Base + (result.ptr + i - 1) + 1 = result.offset + i
    <3>1. \A so, bo, p, n, o, j \in Int :
             p + n = bo /\ o + n = so => (so - bo) + (p + j - 1) + 1 = o + j
      OBVIOUS
    <3>2. i \in Int /\ result.len \in Int /\ stream_offset \in Int
          /\ buf_offset \in Int /\ result.ptr \in Int /\ result.offset \in Int
      BY <1>1, <1>4
    <3> QED
      BY <1>2, <3>1, <3>2 DEF Base
  <2>3. buf[result.ptr + i - 1] = stream[Base + (result.ptr + i - 1) + 1]
    BY <2>1 DEF IInv, Mirror
  <2> QED
    BY <2>2, <2>3
<1>5. Block = [i \in 1 .. result.len |-> stream[result.offset + i]]
  BY <1>4 DEF Block
<1> QED
  BY <1>2, <1>3, <1>5

\* The slice a call hands out shows the stream's octets at the reported offset,
\* for every block size, capacity and cut of the stream into reads.
THEOREM ReaderBlockIsStream == Spec => []BlockIsStream
<1> QED
  BY BlockIsStreamFromInv, InvHolds, PTL

\* Blocks start at multiples of the block size, and only the last is short.
THEOREM ReaderBlocksAligned == Spec => []BlocksAligned
<1>1. IInv => BlocksAligned
  BY DEF IInv, LastSlice, AtEnd, BlocksAligned
<1> QED
  BY <1>1, InvHolds, PTL

\* A stage may read BlockSize octets of any block without leaving the buffer,
\* even when Cap is no multiple of BlockSize.
THEOREM ReaderFullWidth == Spec => []FullWidthReadable
<1>1. IInv => FullWidthReadable
  BY DEF IInv, LastSlice, FullWidthReadable
<1> QED
  BY <1>1, InvHolds, PTL

\* No read asks for zero octets, so a zero from read(2) is the end.
THEOREM ReaderReadsHaveRoom == Spec => []ReadsHaveRoom
<1>1. IInv => ReadsHaveRoom
  BY BlockSizeAssumption, CapAssumption DEF IInv, TypeOK, InLoop, ReadsHaveRoom
<1> QED
  BY <1>1, InvHolds, PTL

\* The end is reported only once every octet was handed out.
THEOREM ReaderEndIsComplete == Spec => []EndIsComplete
<1>1. IInv => EndIsComplete
  BY DEF IInv, AtEnd, EndIsComplete
<1> QED
  BY <1>1, InvHolds, PTL

\* Blocks show the stream's own octets, sit where whole blocks do, and no octet
\* is left when the end is reported.
THEOREM ReaderBlocksAreStream == Spec => []BlocksAreStream
BY ReaderBlockIsStream, ReaderBlocksAligned, ReaderEndIsComplete, PTL
   DEF BlocksAreStream

-----------------------------------------------------------------------------
(* The reader implements the abstract block source. *)

\* What the caller holds, as in SeenAnswer, says the same before and after a
\* step that leaves the reader's variables alone.
LEMMA InitRefines == Init => Abstract!SInit
<1> QED
  BY DEF Init, Abstract!SInit, Abstract!NoBlock, SeenAnswer, HandedOut, Answer

\* A step that hands out a block: the abstract answer is the stream's octets.
LEMMA HandRefines ==
  ASSUME IInv, IInv', NEW n, HandedOut',
         result'.offset = stream_offset, result'.len = n,
         stream_offset' = stream_offset + n
  PROVE  Abstract!Hand(n)
<1>1. BlockIsStream'
  BY BlockIsStreamFromInv, PTL
<1>2. /\ stream_offset' <= Len(stream')
      /\ Block' = [i \in 1 .. n |-> stream'[stream_offset + i]]
  BY <1>1 DEF BlockIsStream
<1>3. SeenAnswer' = [status |-> "BLOCK",
                     octets |-> [i \in 1 .. n |-> stream'[stream_offset + i]],
                     offset |-> stream_offset]
  BY <1>2 DEF SeenAnswer, HandedOut
<1> QED
  BY <1>2, <1>3 DEF Abstract!Hand

\* Every step is an abstract step or leaves the abstract variables alone.
LEMMA NextRefines ==
  IInv /\ IInv' /\ [Next]_vars => [Abstract!SNext]_(Abstract!svars)
<1> SUFFICES ASSUME IInv, IInv', [Next]_vars
             PROVE  Abstract!SNext \/ UNCHANGED Abstract!svars
  BY DEF Abstract!svars
<1>1. CASE NextDone
  <2>1. Abstract!End
    BY <1>1 DEF NextDone, Answer, Abstract!End, Abstract!NoBlock, SeenAnswer,
                HandedOut, IInv, AtEnd
  <2> QED
    BY <2>1 DEF Abstract!SNext
<1>2. CASE NextBuffered
  <2>1. Abstract!Hand(BlockSize)
    BY <1>2, HandRefines DEF NextBuffered, BlockLeft, Yield, HandedOut
  <2>2. Abstract!FullBlock
    BY <1>2, <2>1, LenProperties
       DEF NextBuffered, BlockLeft, Abstract!FullBlock, Abstract!Arrive, IInv, TypeOK
  <2> QED
    BY <2>2 DEF Abstract!SNext
<1>3. CASE NextCompact
  <2>1. Abstract!Ask
    BY <1>3 DEF NextCompact, BlockLeft, LenCompacted, Answer, Abstract!Ask, Abstract!NoBlock, SeenAnswer,
                HandedOut
  <2> QED
    BY <2>1 DEF Abstract!SNext
<1>4. CASE ReadError
  <2>1. Abstract!Fail
    BY <1>4 DEF ReadError, Answer, Abstract!Fail, Abstract!NoBlock, SeenAnswer,
                HandedOut, IInv, InLoop
  <2> QED
    BY <2>1 DEF Abstract!SNext
<1>5. CASE ReadNothing
  <2>1. /\ Len(stream) - stream_offset = len /\ len \in Nat /\ len < BlockSize
        /\ ~done /\ buf_offset = 0 /\ stream_offset \in Nat
    BY <1>5, LenProperties, CapAssumption
       DEF ReadNothing, IInv, TypeOK, Mirror, Base, InLoop
  <2>2. CASE len = 0
    <3>1. Abstract!End
      BY <1>5, <2>1, <2>2, LenProperties
         DEF ReadNothing, Answer, Abstract!End, Abstract!NoBlock, SeenAnswer,
             HandedOut, IInv, TypeOK
    <3> QED
      BY <3>1 DEF Abstract!SNext
  <2>3. CASE len # 0
    <3>1. Abstract!Hand(len)
      BY <1>5, <2>1, <2>3, HandRefines DEF ReadNothing, Yield, HandedOut
    <3>2. Abstract!LastBlock
      BY <1>5, <2>1, <2>3, <3>1, BlockSizeAssumption
         DEF ReadNothing, Abstract!LastBlock
    <3> QED
      BY <3>2 DEF Abstract!SNext
  <2> QED
    BY <2>2, <2>3
<1>6. CASE ReadAny
  <2>1. PICK chunk \in Chunk : ReadSome(chunk)
    BY <1>6 DEF ReadAny
  <2>2. stream \in Seq(Octet) /\ chunk \in Seq(Octet)
    BY ChunkIsSeq DEF IInv, TypeOK
  <2>3. Abstract!Arrive
    <3>1. stream' = stream \o chunk
      BY <2>1 DEF ReadSome
    <3>2. Len(stream) \in Nat /\ Len(chunk) \in Nat
      BY <2>2, LenProperties
    <3>3. /\ Len(stream') = Len(stream) + Len(chunk)
          /\ \A i \in 1 .. Len(stream) : stream'[i] = stream[i]
      BY <2>2, <3>1, <3>2, ConcatProperties
    <3> QED
      BY <3>2, <3>3 DEF Abstract!Arrive
  <2>4. CASE len + Len(chunk) >= BlockSize
    <3>1. Abstract!Hand(BlockSize)
      BY <2>1, <2>4, HandRefines DEF ReadSome, Yield, HandedOut
    <3>2. Abstract!FullBlock
      BY <2>1, <2>3, <3>1
         DEF ReadSome, Abstract!FullBlock, IInv, InLoop
    <3> QED
      BY <3>2 DEF Abstract!SNext
  <2>5. CASE ~(len + Len(chunk) >= BlockSize)
    <3>1. result.status = "PENDING"
      BY <2>1 DEF ReadSome, IInv, Waiting
    <3>2. Abstract!Wait
      BY <2>1, <2>3, <2>5, <3>1
         DEF ReadSome, Abstract!Wait, SeenAnswer, HandedOut
    <3> QED
      BY <3>2 DEF Abstract!SNext
  <2> QED
    BY <2>4, <2>5
<1>7. CASE ReadInterrupted \/ UNCHANGED vars
  <2>1. UNCHANGED vars
    BY <1>7 DEF ReadInterrupted
  <2> QED
    BY <2>1 DEF vars, Abstract!svars, SeenAnswer, HandedOut, Block
<1> QED
  BY <1>1, <1>2, <1>3, <1>4, <1>5, <1>6, <1>7 DEF Next

\* The reader, with its buffer, compaction, short reads and retries, implements
\* the abstract source of consecutive blocks.
THEOREM ReaderImplementsBlockSource == Spec => ImplementsBlockSource
<1>1. Init => Abstract!SInit
  BY InitRefines
<1>2. IInv /\ IInv' /\ [Next]_vars => [Abstract!SNext]_(Abstract!svars)
  BY NextRefines
<1> QED
  BY <1>1, <1>2, InvHolds, PTL DEF Spec, ImplementsBlockSource, Abstract!SSpec
=============================================================================
