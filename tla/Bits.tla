-------------------------------- MODULE Bits --------------------------------
(***************************************************************************)
(* jsp_bits: bit tricks over one word.  A word is the set of the positions *)
(* of its set bits, so that & is \cap and | is \cup; addition ripples its  *)
(* carry through the word and drops it past the top.  WordWidth is 64 in   *)
(* the code.                                                               *)
(***************************************************************************)
EXTENDS Integers, FiniteSets

CONSTANT WordWidth

ASSUME WordWidthAssumption == WordWidth \in Nat \ {0}

Bit == 0 .. WordWidth - 1

Word == SUBSET Bit

Not(a) == Bit \ a

Xor(a, b) == (a \ b) \cup (b \ a)

ShiftLeft(a, n) == {i \in Bit : i - n \in a}

ShiftRight(a, n) == {i \in Bit : i + n \in a}

Plus(a, b) ==
  LET carry[i \in 0 .. WordWidth] ==
        i > 0 /\ \/ i - 1 \in a \cap b
                 \/ i - 1 \in a \cup b /\ carry[i - 1]
  IN {i \in Bit : (i \in Xor(a, b)) # carry[i]}

LowMask(n) == ShiftRight(Bit, WordWidth - n)

TrailingZeros(a) ==
  IF a = {} THEN WordWidth ELSE CHOOSE i \in a : \A j \in a : i <= j

EvenBits == {i \in Bit : i % 2 = 0}

OddBits == {i \in Bit : i % 2 = 1}

\* Adding a run's first bit ripples through the run, so what changes within the
\* word is the run; the runs are told apart by where they start.
RunParity(bits, starts_inverted) ==
  LET start == bits \cap Not(ShiftLeft(bits, 1))
      run(starts) == bits \cap Xor(Plus(bits, start \cap starts), bits)
      parity == (run(EvenBits) \cap EvenBits) \cup (run(OddBits) \cap OddBits)
      first == ShiftRight(Bit, WordWidth - TrailingZeros(Not(bits)))
  IN IF starts_inverted /\ 0 \in bits THEN Xor(parity, first) ELSE parity

\* How many bits up a toggle is felt after k lines, which is what the next line
\* shifts by: 1, 2, 4 ...
Reach[k \in 0 .. WordWidth] == IF k = 0 THEN 1 ELSE 2 * Reach[k - 1]

\* How many lines reach across the word: 6 for 64 bits.
Doublings == CHOOSE k \in 0 .. WordWidth : Reach[k] >= WordWidth
                       /\ \A l \in 0 .. k - 1 : Reach[l] < WordWidth

\* Fault: the widest shift is left out.
PrefixXorShort(toggles, starts_on) ==
  LET v[k \in 0 .. Doublings] ==
        IF k = 0 THEN toggles
                 ELSE Xor(v[k - 1], ShiftLeft(v[k - 1], Reach[k - 1]))
      narrow == v[Doublings - 1]
  IN IF starts_on THEN Not(narrow) ELSE narrow

PrefixXor(toggles, starts_on) ==
  LET v[k \in 0 .. Doublings] ==
        IF k = 0 THEN toggles
                 ELSE Xor(v[k - 1], ShiftLeft(v[k - 1], Reach[k - 1]))
  IN IF starts_on THEN Not(v[Doublings]) ELSE v[Doublings]

-----------------------------------------------------------------------------
(* What they are meant to compute *)

\* Where the run of set bits that i belongs to starts.
RunStart(bits, i) ==
  CHOOSE j \in 0 .. i : (j .. i) \subseteq bits /\ j - 1 \notin bits

\* The 1st, 3rd, 5th ... bit of every run; of a run that the word before began
\* and left inverted, the 2nd, 4th ...
OddOfRuns(bits, inverted) ==
  {i \in bits : LET j == RunStart(bits, i)
                IN ((i - j) % 2 = 0) # (inverted /\ j = 0)}

\* From each toggle that opens a span up to the one that closes it.
Spans(toggles, on) ==
  {i \in Bit : (Cardinality({t \in toggles : t <= i}) % 2 = 1) # on}
=============================================================================
