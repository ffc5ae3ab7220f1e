------------------------------- MODULE Reader -------------------------------
(***************************************************************************)
(* jsp_reader: cuts the octets of a descriptor into blocks of BlockSize    *)
(* octets, inside one buffer of Cap octets that is compacted when no whole *)
(* block is left in it.                                                    *)
(*                                                                         *)
(* One call of jsp_reader_next is one step while the buffer holds a whole  *)
(* block.  Otherwise it compacts and then calls read(2) until the call can *)
(* be answered: every read(2) is a step of its own, with the outcome the   *)
(* kernel chooses.                                                         *)
(***************************************************************************)
EXTENDS Integers, Sequences

CONSTANTS
  Octet,      \* what one octet of the stream or of the buffer may be
  BlockSize,  \* block_size
  Cap,        \* buf.cap
  MaxStream   \* bound of the exploration: octets the descriptor supplies

ASSUME BlockSizeAssumption == BlockSize \in Nat \ {0}
ASSUME CapAssumption == Cap \in Nat /\ Cap >= BlockSize
ASSUME MaxStreamAssumption == MaxStream \in Nat

VARIABLES
  stream,         \* ghost: every octet read(2) has returned so far, in order
  buf,            \* buf.ptr: the buffer's octets, at 0 .. Cap - 1
  len,            \* buf.len
  buf_offset,     \* into buf; zeroed by compaction
  stream_offset,  \* into the stream; never reset
  done,           \* the trailing partial block, if any, has been returned
  pc,             \* "reading" inside the loop around read(2), else "idle"
  result          \* the last jsp_reader_result

vars == <<stream, buf, len, buf_offset, stream_offset, done, pc, result>>

Index == 0 .. Cap - 1

Status == {"NONE", "PENDING", "BLOCK", "END", "ERROR"}

\* ptr is the block's place in buf.  NONE is before the first call and PENDING
\* while a call is inside its read loop.
Answer(status) == [status |-> status, ptr |-> 0, len |-> 0, offset |-> 0]

Init ==
  /\ stream = <<>>
  /\ buf \in [Index -> Octet]
  /\ len = 0
  /\ buf_offset = 0
  /\ stream_offset = 0
  /\ done = FALSE
  /\ pc = "idle"
  /\ result = Answer("NONE")

\* Hands out n octets at ptr and moves both offsets past them; from is the
\* buf_offset the code holds when it gets here.
Yield(ptr, n, from) ==
  /\ result' = [status |-> "BLOCK", ptr |-> ptr, len |-> n,
                offset |-> stream_offset]
  /\ buf_offset' = from + n
  /\ stream_offset' = stream_offset + n
  /\ pc' = "idle"

\* A call after the end.
NextDone ==
  /\ pc = "idle"
  /\ done
  /\ result' = Answer("END")
  /\ UNCHANGED <<stream, buf, len, buf_offset, stream_offset, done, pc>>

\* Fault: a block short of one octet counts as whole.
BlockLeftOffByOne == buf_offset + BlockSize <= len + 1

\* Fault: any octet, or none, is taken for a block.
OctetLeft == buf_offset <= len

\* Whether a whole block of the buffer is left.
BlockLeft == buf_offset + BlockSize <= len

\* A call that a whole block of the buffer answers, with no read.
NextBuffered ==
  /\ pc = "idle"
  /\ ~done
  /\ BlockLeft
  /\ Yield(buf_offset, BlockSize, buf_offset)
  /\ UNCHANGED <<stream, buf, len, done>>

\* Fault: the move stops one octet early.
CompactedShort(b, from, n) ==
  [i \in Index |-> IF i + 1 < n - from THEN b[i + from] ELSE b[i]]

\* memmove to the front of the octets not handed out; the ones past them stay.
Compacted(b, from, n) ==
  [i \in Index |-> IF i < n - from THEN b[i + from] ELSE b[i]]

\* Fault: the octets moved away still count.
LenKept == len

\* What compaction leaves in the buffer.
LenCompacted == len - buf_offset

\* A call that needs more octets: it compacts and enters the read loop.
NextCompact ==
  /\ pc = "idle"
  /\ ~done
  /\ ~BlockLeft
  /\ buf' = Compacted(buf, buf_offset, len)
  /\ len' = LenCompacted
  /\ buf_offset' = 0
  /\ pc' = "reading"
  /\ result' = Answer("PENDING")
  /\ UNCHANGED <<stream, stream_offset, done>>

\* read(2) fails with EINTR and is retried.
ReadInterrupted ==
  /\ pc = "reading"
  /\ UNCHANGED vars

\* read(2) fails; the call is over and a later one may try again.
ReadError ==
  /\ pc = "reading"
  /\ pc' = "idle"
  /\ result' = Answer("ERROR")
  /\ UNCHANGED <<stream, buf, len, buf_offset, stream_offset, done>>

\* Fault: the octets short of a block are dropped at the end.
ReadNothingDropping ==
  /\ pc = "reading"
  /\ done' = TRUE
  /\ pc' = "idle"
  /\ result' = Answer("END")
  /\ UNCHANGED <<stream, buf, len, buf_offset, stream_offset>>

\* read(2) returns 0: at the end of the stream, and also whenever it was asked
\* for no octets at all.
ReadNothing ==
  /\ pc = "reading"
  /\ done' = TRUE
  /\ IF len = 0
       THEN /\ pc' = "idle"
            /\ result' = Answer("END")
            /\ UNCHANGED <<buf_offset, stream_offset>>
       ELSE Yield(0, len, buf_offset)
  /\ UNCHANGED <<stream, buf, len>>

\* What buf holds once read(2) stored chunk at at.
Filled(b, at, chunk) ==
  [i \in Index |-> IF i >= at /\ i < at + Len(chunk) THEN chunk[i - at + 1]
                                                     ELSE b[i]]

\* Fault: the call answers with what one read brought, a block or not.
ReadSomeEager(chunk) ==
  /\ pc = "reading"
  /\ Len(chunk) \in 1 .. Cap - len
  /\ stream' = stream \o chunk
  /\ buf' = Filled(buf, len, chunk)
  /\ len' = len + Len(chunk)
  /\ Yield(0, IF len' >= BlockSize THEN BlockSize ELSE len', buf_offset)
  /\ UNCHANGED done

\* read(2) returns some octets, at most the room left: they may make up a block
\* (and more), or the loop reads on.
ReadSome(chunk) ==
  /\ pc = "reading"
  /\ Len(chunk) >= 1
  /\ Len(chunk) <= Cap - len
  /\ stream' = stream \o chunk
  /\ buf' = Filled(buf, len, chunk)
  /\ len' = len + Len(chunk)
  /\ IF len + Len(chunk) >= BlockSize
       THEN Yield(0, BlockSize, buf_offset)
       ELSE UNCHANGED <<buf_offset, stream_offset, pc, result>>
  /\ UNCHANGED done

\* The chunks one read may return within the bound of the exploration.
Chunk ==
  UNION {[1 .. n -> Octet] : n \in 1 .. MaxStream - Len(stream)}

ReadAny == \E chunk \in Chunk : ReadSome(chunk)

Call == NextDone \/ NextBuffered \/ NextCompact

Read == ReadError \/ ReadNothing \/ ReadAny

Next ==
  \/ NextDone
  \/ NextBuffered
  \/ NextCompact
  \/ ReadInterrupted
  \/ ReadError
  \/ ReadNothing
  \/ ReadAny

Spec == Init /\ [][Next]_vars

\* The caller is jsp_run's loop through jsp_scan_next, which calls again until
\* it is told of the end, and a read(2) is not interrupted for ever.
FairSpec == Spec /\ WF_vars(Call) /\ WF_vars(Read)

-----------------------------------------------------------------------------
(* Properties *)

\* Every variable has its type, and buf_offset <= buf.len <= buf.cap.
TypeOK ==
  /\ stream \in Seq(Octet)
  /\ buf \in [Index -> Octet]
  /\ len \in 0 .. Cap
  /\ buf_offset \in 0 .. len
  /\ stream_offset \in Nat
  /\ done \in BOOLEAN
  /\ pc \in {"idle", "reading"}
  /\ result \in [status : Status, ptr : Nat, len : Nat, offset : Nat]

HandedOut == result.status = "BLOCK"

\* The octets a caller reads through the slice it was handed.
Block == [i \in 1 .. result.len |-> buf[result.ptr + i - 1]]

\* The slice of the last call shows the stream's own octets from the offset
\* reported with it, whatever compaction moved before, and it ends where the
\* next block starts: no octet is lost, repeated or out of order.
BlockIsStream ==
  HandedOut =>
    /\ result.offset + result.len = stream_offset
    /\ stream_offset <= Len(stream)
    /\ Block = [i \in 1 .. result.len |-> stream[result.offset + i]]

\* Blocks sit at multiples of BlockSize in the stream, however the reads cut
\* it, and only the last one is short; none is empty.
BlocksAligned ==
  HandedOut =>
    /\ \E k \in 0 .. Len(stream) : result.offset = k * BlockSize
    /\ result.len \in 1 .. BlockSize
    /\ result.len < BlockSize => done /\ stream_offset = Len(stream)

\* A stage that takes the full width of any block, the short one included,
\* stays inside the buffer.
FullWidthReadable == HandedOut => result.ptr + BlockSize <= Cap

\* read(2) is never asked for zero octets: its answer, 0, would be taken for
\* the end of the stream.
ReadsHaveRoom == pc = "reading" => len < Cap

\* END, and the done flag, come only when every octet was handed out.
EndIsComplete ==
  done \/ result.status = "END" => stream_offset = Len(stream)

\* The blocks are the stream: each shows its own octets, at its place in a row of
\* whole blocks, and the end comes after the last one.
BlocksAreStream == BlockIsStream /\ BlocksAligned /\ EndIsComplete

\* Every octet read is handed out, unless a read fails.
EveryOctetDelivered ==
  \A k \in 1 .. MaxStream :
    Len(stream) >= k ~> (stream_offset >= k \/ result.status = "ERROR")
=============================================================================
