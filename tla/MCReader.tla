------------------------------ MODULE MCReader ------------------------------
(***************************************************************************)
(* Model-checking instance of Reader, and the refinement of BlockSource.   *)
(***************************************************************************)
EXTENDS Reader

\* What the caller of the reader sees, as the abstract answer.
SeenAnswer ==
  [status |-> result.status,
   octets |-> IF HandedOut THEN Block ELSE <<>>,
   offset |-> result.offset]

Abstract == INSTANCE BlockSource
              WITH source <- stream, taken <- stream_offset, closed <- done,
                   answer <- SeenAnswer

\* The reader, with its buffer, its compaction and its short reads, hands out
\* what the abstract block source hands out.
ImplementsBlockSource == Abstract!SSpec
=============================================================================
