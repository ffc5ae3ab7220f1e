------------------------------ MODULE WriteAll ------------------------------
(***************************************************************************)
(* jsp_write_all: hands a whole buffer to write(2), going on after a short *)
(* write or an interrupted one, until all of it is out or a write fails.   *)
(* Every write(2) is a step, with the outcome the kernel chooses.          *)
(***************************************************************************)
EXTENDS Integers, SequencesExt

CONSTANTS
  AnyOctet,  \* what an octet may be
  MaxLen     \* bound of the exploration: octets in the buffer

ASSUME MaxLenAssumption == MaxLen \in Nat

VARIABLES
  buf,       \* the buffer
  written,   \* how much of it went out, as the code counts
  returned,  \* "pending", then 0 or -1
  sent       \* ghost: what the descriptor took

wvars == <<buf, written, returned, sent>>

WInit ==
  /\ buf \in BoundedSeq(AnyOctet, MaxLen)
  /\ written = 0
  /\ returned = "pending"
  /\ sent = <<>>

\* Fault: one octet too many is offered for.
MoreOrEqual == written <= Len(buf)

\* The loop's condition.
More == written < Len(buf)

\* Fault: every write starts at the buffer's front.
OfferedFromFront == SubSeq(buf, 1, Len(buf) - written)

\* What the next write(2) is offered.
Offered == SubSeq(buf, written + 1, Len(buf))

\* write(2) takes the first n octets of what it is offered, perhaps none.
WriteSome(n) ==
  /\ returned = "pending"
  /\ More
  /\ n \in 0 .. Len(Offered)
  /\ sent' = sent \o SubSeq(Offered, 1, n)
  /\ written' = written + n
  /\ UNCHANGED <<buf, returned>>

\* A signal came before anything was taken: EINTR, and the loop goes on.
WriteInterrupted ==
  /\ returned = "pending"
  /\ More
  /\ UNCHANGED wvars

WriteFails ==
  /\ returned = "pending"
  /\ More
  /\ returned' = "-1"
  /\ UNCHANGED <<buf, written, sent>>

ReturnResult ==
  /\ returned = "pending"
  /\ ~More
  /\ returned' = "0"
  /\ UNCHANGED <<buf, written, sent>>

WNext ==
  \/ \E n \in 0 .. MaxLen : WriteSome(n)
  \/ WriteInterrupted
  \/ WriteFails
  \/ ReturnResult

\* A write that takes part of what is offered.
WriteAdvances == \E n \in 1 .. MaxLen : WriteSome(n)

\* write(2) waits rather than answer 0 or EINTR without end, and the process
\* goes on running.
WSpec == WInit /\ [][WNext]_wvars /\ WF_wvars(WriteAdvances) /\ WF_wvars(ReturnResult)

-----------------------------------------------------------------------------
(* Properties *)

\* Whatever the sizes write(2) takes, what went out is the buffer's own octets
\* once and in order: all of them when 0 is returned, and a strict part of them
\* when -1 is, so a caller that is told of no failure has lost nothing.
AllOrFailure ==
  /\ IsPrefix(sent, buf)
  /\ returned = "0" => sent = buf
  /\ returned = "-1" => sent # buf

\* The call returns, however often it is interrupted or a write is short.
CallReturns == <>(returned # "pending")
=============================================================================
