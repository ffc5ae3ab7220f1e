------------------------------- MODULE Nesting -------------------------------
(***************************************************************************)
(* jsp_nesting over jsp_bitstack: the open containers of a JSON stream, as *)
(* one bit each in a word and a depth.  A word is the set of its set bits' *)
(* positions.  Popping leaves the bit in the word.                         *)
(*                                                                         *)
(* Operators only: jsp_pluck carries a state of this kind in its own.      *)
(***************************************************************************)
EXTENDS Integers

CONSTANT JSP_MAX_DEPTH  \* JSP_BITSTACK_CAPACITY, the width of the word

ASSUME DepthAssumption == JSP_MAX_DEPTH \in Nat \ {0}

Opening == {"lbrace", "lbracket"}
Closing == {"rbrace", "rbracket"}
Quote == "quote"

\* { } [ ] : , and the quote, as jsp_scan leaves them, each under its name.
Structural == Opening \cup Closing \cup {"colon", "comma", Quote}

BitStack == [bits : SUBSET (0 .. JSP_MAX_DEPTH - 1), depth : 0 .. JSP_MAX_DEPTH]

EmptyStack == [bits |-> {}, depth |-> 0]

Empty(s) == s.depth = 0

\* Fault: one container more than the word has bits.
FullOffByOne(s) == s.depth = JSP_MAX_DEPTH + 1

Full(s) == s.depth = JSP_MAX_DEPTH

\* Fault: the bit that an earlier pop left is not cleared.
PushOver(s, b) ==
  [bits |-> IF b THEN s.bits \cup {s.depth} ELSE s.bits,
   depth |-> s.depth + 1]

\* The new bit goes to position depth; every other bit stays.
Push(s, b) ==
  [bits |-> IF b THEN s.bits \cup {s.depth} ELSE s.bits \ {s.depth},
   depth |-> s.depth + 1]

\* The popped bit stays in the word, for the next push to overwrite.
Pop(s) == [s EXCEPT !.depth = @ - 1]

Top(s) == s.depth - 1 \in s.bits

At(s, i) == i \in s.bits

InnermostIsObject(s) == ~Empty(s) /\ Top(s)

OutermostIsArray(s) == ~Empty(s) /\ ~At(s, 0)

Verdicts == {"OK", "OVERFLOW", "UNBALANCED", "MISMATCH"}

\* What jsp_nesting_step answers for one structural character.
Verdict(s, c) ==
  CASE c \in Opening /\ Full(s) -> "OVERFLOW"
    [] c \in Closing /\ Empty(s) -> "UNBALANCED"
    [] c \in Closing /\ ~Empty(s) /\ Top(s) # (c = "rbrace") -> "MISMATCH"
    [] OTHER -> "OK"

\* The state it leaves: on an error, the one it was given.
Step(s, c) ==
  CASE Verdict(s, c) # "OK" -> s
    [] Verdict(s, c) = "OK" /\ c \in Opening -> Push(s, c = "lbrace")
    [] Verdict(s, c) = "OK" /\ c \in Closing -> Pop(s)
    [] OTHER -> s
=============================================================================
