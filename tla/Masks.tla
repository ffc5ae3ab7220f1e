------------------------------- MODULE Masks -------------------------------
(***************************************************************************)
(* What jsp_scan and jsp_trace compute of one block: the mask of its       *)
(* octets that are structure, the window that is walked over it, and its   *)
(* trace lines; and beside them the reader of single octets that the masks *)
(* are to agree with.                                                      *)
(***************************************************************************)
EXTENDS Bits, Sequences, SequencesExt

\* What an octet is to the scan; Classify shows how the program finds out.
Kind == {"quote", "backslash", "bracket", "text"}

-----------------------------------------------------------------------------
(* A reader of single octets, which the masks are to agree with *)

StartOfText == [in_string |-> FALSE, escaped |-> FALSE]

\* Past octet o: only a quote that nothing escapes bounds a string, and a
\* backslash that nothing escapes escapes the next octet.
Past(t, o) ==
  [in_string |-> t.in_string # (o = "quote" /\ ~t.escaped),
   escaped |-> o = "backslash" /\ ~t.escaped]

PastFirst(t, octets, n) == FoldLeft(Past, t, SubSeq(octets, 1, n))

\* Whether octet o is structure: a structural character outside strings, or a
\* string's own quote.
IsStructure(t, o) ==
  \/ o \in {"quote", "bracket"} /\ ~t.in_string
  \/ o = "quote" /\ ~t.escaped

-----------------------------------------------------------------------------
(* structural_mask *)

\* The classifier's mask: the octets of a whole block that are of some kinds.
Masked(octets, kinds) == {i \in Bit : octets[i + 1] \in kinds}

\* Fault: the escape that the block before left open is lost.
EscapedInBlock(parity, c) == ShiftLeft(parity, 1)

\* Each escaping bit, moved onto the octet it escapes.
Escaped(parity, c) ==
  ShiftLeft(parity, 1) \cup (IF c.trailing_backslash_unpaired THEN {0} ELSE {})

\* What a block's octets are to JSON, given what the block before left; and
\* what it leaves itself, as if it were a full one.
Structure(octets, c) ==
  LET parity == RunParity(Masked(octets, {"backslash"}),
                          c.trailing_backslash_unpaired)
      quotes == Masked(octets, {"quote"}) \ Escaped(parity, c)
      spans == PrefixXor(quotes, c.in_string)
      inside == spans \ quotes
  IN [mask |-> Masked(octets, {"quote", "bracket"}) \ inside,
      carry |-> [in_string |-> WordWidth - 1 \in spans,
                 trailing_backslash_unpaired |-> WordWidth - 1 \in parity]]

\* Without the octets past a short block's length.
Trimmed(mask, n) == mask \cap LowMask(n)

-----------------------------------------------------------------------------
(* jsp_trace_block *)

\* The mask after each line, which clears its lowest bit.
Remaining(mask) ==
  LET left[k \in 0 .. Cardinality(mask)] ==
        IF k = 0 THEN mask ELSE left[k - 1] \ {TrailingZeros(left[k - 1])}
  IN left

\* Fault: the offsets start over with every block.
OffsetsInBlock(offset, octets, mask) ==
  LET bit(k) == TrailingZeros(Remaining(mask)[k - 1])
  IN [k \in 1 .. Cardinality(mask) |-> <<bit(k), octets[bit(k) + 1]>>]

\* A line per set bit, lowest first.
Offsets(offset, octets, mask) ==
  LET bit(k) == TrailingZeros(Remaining(mask)[k - 1])
  IN [k \in 1 .. Cardinality(mask) |-> <<offset + bit(k), octets[bit(k) + 1]>>]

\* The lines of a block; a mask's is there whatever the mask.
Traced(mode, offset, octets, mask) ==
  CASE mode = "NONE" -> <<>>
    [] mode = "OFFSETS" -> Offsets(offset, octets, mask)
    [] mode = "MASKS" -> <<<<offset, mask>>>>

-----------------------------------------------------------------------------
(* The window over a block *)

\* Fault: the mask stays where it is.
WindowAfterUnshifted(w, n) ==
  [rest |-> SubSeq(w.rest, n + 1, Len(w.rest)),
   mask |-> w.mask,
   offset |-> w.offset + n]

\* Fault: the offset stays where it is.
WindowAfterStill(w, n) ==
  [rest |-> SubSeq(w.rest, n + 1, Len(w.rest)),
   mask |-> IF n < WordWidth THEN ShiftRight(w.mask, n) ELSE {},
   offset |-> w.offset]

\* The window past its first n octets.
WindowAfter(w, n) ==
  [rest |-> SubSeq(w.rest, n + 1, Len(w.rest)),
   mask |-> IF n < WordWidth THEN ShiftRight(w.mask, n) ELSE {},
   offset |-> w.offset + n]

\* Octets up to the next set bit, or to the window's end when none is left.
Edge(w) == IF w.mask = {} THEN Len(w.rest) ELSE TrailingZeros(w.mask)
=============================================================================
