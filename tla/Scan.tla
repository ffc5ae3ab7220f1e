-------------------------------- MODULE Scan --------------------------------
(***************************************************************************)
(* jsp_scan: turns the reader's blocks into tokens.  A block is classified *)
(* whole, into a mask of the octets that are structure; the mask is then   *)
(* walked from one set bit to the next, a token per call.                  *)
(*                                                                         *)
(* The reader is what module BlockSource promises: blocks of WordWidth     *)
(* octets one after the other, the last one perhaps shorter.  The octets   *)
(* past a short block's length are whatever the buffer held.  The          *)
(* classifier is exact: it tells quotes, backslashes, the other structural *)
(* characters and the rest apart.  The caller stops at END or ERROR.       *)
(***************************************************************************)
EXTENDS Masks

CONSTANT MaxBlocks  \* bound of the exploration: blocks in the stream

ASSUME MaxBlocksAssumption == MaxBlocks \in Nat

VARIABLES
  trace_mode,  \* jsp_trace_mode
  carry,       \* jsp_scan_carry
  window,      \* jsp_scan_window: the octets left, their mask, their offset
  blocks,      \* blocks that the reader handed out
  ended,       \* the last of them was short
  status,      \* jsp_scan_status of the last call
  token,       \* the last token
  lines,       \* trace lines of the block being walked
  text,        \* ghost: a reader of single octets, at the window's first
  before,      \* ghost: the same reader, at the last token's first
  wellescaped  \* ghost: every backslash so far stood in a string

ghosts == <<text, before, wellescaped>>
vars == <<trace_mode, carry, window, blocks, ended, status, token, lines, ghosts>>

-----------------------------------------------------------------------------
(* jsp_scan_next *)

Init ==
  /\ trace_mode \in {"NONE", "OFFSETS", "MASKS"}
  /\ carry = [in_string |-> FALSE, trailing_backslash_unpaired |-> FALSE]
  /\ window = [rest |-> <<>>, mask |-> {}, offset |-> 0]
  /\ blocks = 0
  /\ ended = FALSE
  /\ status = "NONE"
  /\ token = [kind |-> "BYTES", bytes |-> <<>>, offset |-> 0]
  /\ lines = <<>>
  /\ text = StartOfText
  /\ before = StartOfText
  /\ wellescaped = TRUE

\* Hands out window w's first token.
HandOut(w) ==
  LET n == IF Edge(w) > 0 THEN Edge(w) ELSE 1
      bytes == SubSeq(w.rest, 1, n)
  IN /\ token' = [kind |-> IF Edge(w) > 0 THEN "BYTES" ELSE "STRUCTURAL",
                  bytes |-> bytes,
                  offset |-> w.offset]
     /\ window' = WindowAfter(w, n)
     /\ status' = "TOKEN"
     /\ before' = text
     /\ text' = PastFirst(text, bytes, Len(bytes))
     /\ wellescaped' =
          (wellescaped /\ \A i \in 1 .. Len(bytes) :
             bytes[i] = "backslash" => PastFirst(text, bytes, i - 1).in_string)

Running == status \in {"NONE", "TOKEN"}

\* A call with octets of the block left.
ScanOn ==
  /\ Running
  /\ window.rest # <<>>
  /\ HandOut(window)
  /\ UNCHANGED <<trace_mode, carry, blocks, ended, lines>>

\* A call that takes the next block of n octets: the octets past them are in the
\* buffer, and classified with the block.  A trace line may fail to go out.
ScanBlock(octets, n) ==
  LET offset == blocks * WordWidth
      structure == Structure(octets, carry)
      w == [rest |-> SubSeq(octets, 1, n),
            mask |-> Trimmed(structure.mask, n),
            offset |-> offset]
      due == Traced(trace_mode, offset, octets, w.mask)
  IN /\ Running
     /\ window.rest = <<>>
     /\ ~ended
     /\ blocks' = blocks + 1
     /\ ended' = (n < WordWidth)
     /\ carry' = structure.carry
     /\ \/ lines' = due /\ HandOut(w)
        \/ /\ \E k \in 0 .. Len(due) - 1 : lines' = SubSeq(due, 1, k)
           /\ window' = w
           /\ status' = "ERROR"
           /\ UNCHANGED <<token, ghosts>>
     /\ UNCHANGED trace_mode

ScanAnyBlock ==
  /\ blocks < MaxBlocks
  /\ \E octets \in [1 .. WordWidth -> Kind], n \in 1 .. WordWidth :
       ScanBlock(octets, n)

\* The reader is at the end, or its read(2) failed.
ScanStops ==
  /\ Running
  /\ window.rest = <<>>
  /\ status' \in IF ended THEN {"END"} ELSE {"END", "ERROR"}
  /\ UNCHANGED <<trace_mode, carry, window, blocks, ended, token, lines, ghosts>>

Next == ScanOn \/ ScanAnyBlock \/ ScanStops

Spec == Init /\ [][Next]_vars

-----------------------------------------------------------------------------
(* Properties *)

\* Bit i of the mask describes the window's octet i: it is set exactly where a
\* reader of single octets finds structure, whatever the blocks before left
\* open, wherever runs of backslashes were cut, and whatever the buffer holds
\* past a short block.
WindowMatchesText ==
  window.mask =
    {i \in 0 .. Len(window.rest) - 1 :
       IsStructure(PastFirst(text, window.rest, i), window.rest[i + 1])}

\* What a full block leaves for the next is where the reader of single octets
\* stands at its end.
CarryMatchesText ==
  ~ended =>
    LET end == PastFirst(text, window.rest, Len(window.rest))
    IN /\ carry.in_string = end.in_string
       /\ carry.trailing_backslash_unpaired = end.escaped

\* A STRUCTURAL token is one octet of structure and a BYTES token holds none.
TokenIsText ==
  status = "TOKEN" =>
    IF token.kind = "STRUCTURAL"
      THEN Len(token.bytes) = 1 /\ IsStructure(before, token.bytes[1])
      ELSE \A i \in 1 .. Len(token.bytes) :
             ~IsStructure(PastFirst(before, token.bytes, i - 1), token.bytes[i])

\* Masks, carry and tokens agree with the reader of single octets.
ScanMatchesText == WindowMatchesText /\ CarryMatchesText /\ TokenIsText

\* As long as backslashes stand in strings only, no structural token but the
\* closing quote comes out of a string, and a quote always starts or ends one:
\* what jsp_pluck relies on.
StringsEndAtQuotes ==
  status = "TOKEN" /\ wellescaped /\ token.kind = "STRUCTURAL" =>
    /\ before.in_string => token.bytes[1] = "quote"
    /\ text.in_string = (before.in_string # (token.bytes[1] = "quote"))

\* Every octet comes out once and in order, across blocks too: a token starts
\* where the one before it ended, and is never empty.
TokensTile ==
  [][token' # token =>
       /\ token'.offset = token.offset + Len(token.bytes)
       /\ token'.bytes # <<>>]_vars

\* The offsets trace, whose walk over the mask is a copy of the scan's, shows
\* for a block the structural tokens that come out of it, in their order.
TraceShowsTokens ==
  trace_mode = "OFFSETS" /\ status = "TOKEN" =>
    /\ \A k \in 1 .. Len(lines) - 1 : lines[k][1] < lines[k + 1][1]
    /\ {lines[k] : k \in {l \in 1 .. Len(lines) : lines[l][1] >= token.offset}} =
         {<<window.offset + i, window.rest[i + 1]>> : i \in window.mask}
           \cup (IF token.kind = "STRUCTURAL"
                   THEN {<<token.offset, token.bytes[1]>>} ELSE {})
=============================================================================
