----------------------------- MODULE ScanReader -----------------------------
(***************************************************************************)
(* jsp_scan over jsp_reader: both stand on one buffer.  A view is the      *)
(* sequence of the buffer's addresses that it covers: the window is one,   *)
(* and so is every token, and none of them holds an octet of its own.  A   *)
(* call of jsp_reader_next moves the octets below them.                    *)
(*                                                                         *)
(* A call of jsp_scan_next is one step, or several when the reader needs   *)
(* octets: one per read(2).  The caller makes the next call once it is     *)
(* through with the token, and none after END or ERROR.  Nothing is        *)
(* traced here: module Scan has the trace.                                 *)
(***************************************************************************)
EXTENDS Masks

CONSTANTS
  StreamOctet,  \* what one octet of the stream may be
  KindOf,       \* what each is to the scan
  Nul,          \* what calloc fills the buffer with
  Cap,          \* octets in the buffer
  MaxStream     \* bound of the exploration: octets the descriptor supplies

ASSUME KindAssumption == KindOf \in [StreamOctet -> Kind]
ASSUME NulAssumption == Nul \in StreamOctet /\ KindOf[Nul] = "text"
ASSUME WholeBlocksAssumption == Cap \in Nat /\ Cap >= WordWidth
ASSUME MaxStreamAssumption == MaxStream \in Nat

VARIABLES
  stream, buf, len, buf_offset, stream_offset, done, pc,  \* the reader's own
  block,   \* the last jsp_reader_result
  carry,   \* jsp_scan_carry
  window,  \* jsp_scan_window
  answer,  \* jsp_scan_status of the last call
  token,   \* the last token
  held     \* the caller is not through with it

reader == <<stream, buf, len, buf_offset, stream_offset, done, pc, block>>
scan == <<carry, window, answer, token, held>>

R == INSTANCE Reader
       WITH Octet <- StreamOctet, BlockSize <- WordWidth, result <- block

KInit ==
  /\ buf = [i \in R!Index |-> Nul]
  /\ R!Init
  /\ carry = [in_string |-> FALSE, trailing_backslash_unpaired |-> FALSE]
  /\ window = [rest |-> <<>>, mask |-> {}, offset |-> 0]
  /\ answer = "NONE"
  /\ token = [kind |-> "BYTES", bytes |-> <<>>, offset |-> 0]
  /\ held = FALSE

-----------------------------------------------------------------------------
(* jsp_scan_next *)

\* The addresses of n octets from at.
View(at, n) == [i \in 1 .. n |-> at + i - 1]

\* Hands out window w's first token.
HandView(w) ==
  LET n == IF Edge(w) > 0 THEN Edge(w) ELSE 1
  IN /\ token' = [kind |-> IF Edge(w) > 0 THEN "BYTES" ELSE "STRUCTURAL",
                  bytes |-> SubSeq(w.rest, 1, n),
                  offset |-> w.offset]
     /\ window' = WindowAfter(w, n)
     /\ answer' = "TOKEN"
     /\ held' = TRUE

WindowSpent == window.rest = <<>>

\* Fault: the caller asks for a token and goes on with the last one.
AskingWhileHeld == answer \in {"NONE", "TOKEN"}

\* The caller may ask for a token.
Asking == ~held /\ answer \in {"NONE", "TOKEN"}

\* A call inside a block.
NextInBlock ==
  /\ Asking
  /\ ~WindowSpent
  /\ HandView(window)
  /\ UNCHANGED <<reader, carry>>

\* Fault: the block's place in the buffer is taken for its place in the stream.
BlockPlace == block'.ptr

\* Where the reader's answer stands in the stream.
BlockOffset == block'.offset

\* The reader's answer is a block: its whole width is classified.  (\E over a
\* single value has TLC evaluate it once.)
TakeBlock ==
  \E octets \in {[i \in 1 .. WordWidth |-> KindOf[buf'[block'.ptr + i - 1]]]} :
    LET structure == Structure(octets, carry)
    IN /\ carry' = structure.carry
       /\ \E w \in {[rest |-> View(block'.ptr, block'.len),
                    mask |-> Trimmed(structure.mask, block'.len),
                    offset |-> BlockOffset]} : HandView(w)

\* A call, or a further step of one, that reaches for the reader's next block:
\* the reader steps, and where this step is its answer the call ends with it.
Fetch(readerStep) ==
  /\ Asking
  /\ WindowSpent
  /\ readerStep
  /\ CASE block'.status = "BLOCK" -> TakeBlock
       [] block'.status \in {"END", "ERROR"} ->
            answer' = block'.status /\ UNCHANGED <<carry, window, token, held>>
       [] block'.status = "PENDING" -> UNCHANGED scan

FetchBuffered == Fetch(R!NextDone \/ R!NextBuffered \/ R!NextCompact)

FetchFails == Fetch(R!ReadError)

FetchEnd == Fetch(R!ReadNothing)

FetchSome(chunk) == Fetch(R!ReadSome(chunk))

\* The caller is through with the token.
Release ==
  /\ held
  /\ held' = FALSE
  /\ UNCHANGED <<reader, carry, window, answer, token>>

KNext ==
  \/ NextInBlock
  \/ FetchBuffered
  \/ FetchFails
  \/ FetchEnd
  \/ \E chunk \in R!Chunk : FetchSome(chunk)
  \/ Release

kvars == <<reader, scan>>

KSpec == KInit /\ [][KNext]_kvars

-----------------------------------------------------------------------------
(* Properties *)

\* The octets that are at the addresses of a view now.
Through(view) == [i \in 1 .. Len(view) |-> buf[view[i]]]

\* The octets of the stream from offset on.
InStream(offset, n) == SubSeq(stream, offset + 1, offset + n)

\* Whoever holds a view reads the stream through it, at the offset that came
\* with it: the window whenever a call may use it, and the token until the caller
\* asks for the next, though the reader's calls in between move the octets.
ViewsAreStream ==
  /\ Through(window.rest) = InStream(window.offset, Len(window.rest))
  /\ held => Through(token.bytes) = InStream(token.offset, Len(token.bytes))

Kinds(octets) == [i \in 1 .. Len(octets) |-> KindOf[octets[i]]]

\* The reader of single octets after the stream's first n.
TextAt(n) == PastFirst(StartOfText, Kinds(stream), n)

AbstractScan ==
  INSTANCE Scan
    WITH MaxBlocks <- MaxStream \div WordWidth + 1,
         trace_mode <- "NONE",
         lines <- <<>>,
         window <- [window EXCEPT !.rest = Kinds(Through(@))],
         blocks <- (stream_offset + WordWidth - 1) \div WordWidth,
         ended <- stream_offset % WordWidth # 0,
         status <- answer,
         token <- [token EXCEPT !.bytes =
                     Kinds(InStream(token.offset, Len(@)))],
         text <- TextAt(window.offset),
         before <- TextAt(token.offset),
         wellescaped <- \A i \in 1 .. window.offset :
           KindOf[stream[i]] = "backslash" => TextAt(i - 1).in_string

\* The scan keeps on the reader's moving buffer what it promises over blocks
\* that stand still: tokens and masks never depend on how reads fall.
ImplementsScan == AbstractScan!Spec
=============================================================================
