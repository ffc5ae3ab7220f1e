------------------------------ MODULE BitsCheck ------------------------------
(***************************************************************************)
(* Every word, with every state that the word before it may have left,     *)
(* through the tricks of module Bits.  A step hands the next word over     *)
(* with the top bits that the tricks give for this one.                    *)
(***************************************************************************)
EXTENDS Bits

VARIABLES
  word,      \* the argument: a mask of backslashes, or of quotes
  inverted,  \* starts_inverted: a run's odd bit stands at the top before it
  on         \* starts_on: a span is open before it

BInit ==
  /\ word \in Word
  /\ inverted = FALSE
  /\ on = FALSE

NextWord(w) ==
  /\ word' = w
  /\ inverted' = (WordWidth - 1 \in RunParity(word, inverted))
  /\ on' = (WordWidth - 1 \in PrefixXor(word, on))

BNext == \E w \in Word : NextWord(w)

BSpec == BInit /\ [][BNext]_<<word, inverted, on>>

-----------------------------------------------------------------------------
(* Properties *)

\* One addition per parity of start marks every run's odd bits, for runs that
\* start at either parity, touch either end of the word or fill it, and for a
\* run that goes on from the word before.
RunParityIsOddOfRuns == RunParity(word, inverted) = OddOfRuns(word, inverted)

\* The doubling shifts reach every bit: a span is open where an odd number of
\* toggles, the one the word before left open included, stands at or below.
PrefixXorIsSpans == PrefixXor(word, on) = Spans(word, on)

\* Both tricks compute what they are meant to.
TricksWork == RunParityIsOddOfRuns /\ PrefixXorIsSpans
=============================================================================
