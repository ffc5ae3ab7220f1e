----------------------------- MODULE BlockSource -----------------------------
(***************************************************************************)
(* What jsp_reader promises its caller, with no buffer in it: a growing    *)
(* source cut into consecutive blocks of BlockSize octets, of which only   *)
(* the last one of a finished source may be shorter.                       *)
(***************************************************************************)
EXTENDS Integers, Sequences

CONSTANTS Octet, BlockSize

VARIABLES
  source,  \* every octet that arrived
  taken,   \* how many of them were handed out
  closed,  \* the source is finished
  answer   \* what the caller holds: a block and its offset, or why none

svars == <<source, taken, closed, answer>>

NoBlock(status) == [status |-> status, octets |-> <<>>, offset |-> 0]

SInit ==
  /\ source = <<>>
  /\ taken = 0
  /\ closed = FALSE
  /\ answer = NoBlock("NONE")

\* More octets, or none, arrive behind the ones there are.
Arrive ==
  /\ Len(source') >= Len(source)
  /\ \A i \in 1 .. Len(source) : source'[i] = source[i]

\* The caller asks and has to wait.
Ask ==
  /\ ~closed
  /\ answer' = NoBlock("PENDING")
  /\ UNCHANGED <<source, taken, closed>>

Wait ==
  /\ answer.status = "PENDING"
  /\ Arrive
  /\ UNCHANGED <<taken, closed, answer>>

\* The next n octets are the answer.
Hand(n) ==
  /\ taken + n <= Len(source')
  /\ taken' = taken + n
  /\ answer' = [status |-> "BLOCK",
                octets |-> [i \in 1 .. n |-> source'[taken + i]],
                offset |-> taken]

FullBlock ==
  /\ ~closed
  /\ Arrive
  /\ Hand(BlockSize)
  /\ UNCHANGED closed

\* What is left of a source that turns out to be finished.
LastBlock ==
  /\ ~closed
  /\ Len(source) - taken \in 1 .. BlockSize - 1
  /\ Hand(Len(source) - taken)
  /\ closed' = TRUE
  /\ UNCHANGED source

End ==
  /\ taken = Len(source)
  /\ closed' = TRUE
  /\ answer' = NoBlock("END")
  /\ UNCHANGED <<source, taken>>

Fail ==
  /\ ~closed
  /\ answer' = NoBlock("ERROR")
  /\ UNCHANGED <<source, taken, closed>>

SNext == Ask \/ Wait \/ FullBlock \/ LastBlock \/ End \/ Fail

SSpec == SInit /\ [][SNext]_svars
=============================================================================
