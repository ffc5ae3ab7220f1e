----------------------------- MODULE ScanProofs -----------------------------
(***************************************************************************)
(* Proofs about jsp_scan, for words of any width, streams of any length    *)
(* and octets of any kind, in short and in full blocks.                    *)
(***************************************************************************)
EXTENDS Scan, SharedLemmas

Window == [rest : Seq(Kind), mask : Word, offset : Nat]

Token == [kind : {"BYTES", "STRUCTURAL"}, bytes : Seq(Kind), offset : Nat]

TypeInv ==
  /\ carry \in Carry
  /\ window \in Window
  /\ Len(window.rest) <= WordWidth
  /\ blocks \in Nat
  /\ ended \in BOOLEAN
  /\ token \in Token
  /\ text \in TextStates
  /\ before \in TextStates
  /\ wellescaped \in BOOLEAN

\* The mask of window w is that of a reader who stands at its first octet as t.
Matches(w, t) ==
  w.mask = {i \in 0 .. Len(w.rest) - 1 :
              IsStructure(PastFirst(t, w.rest, i), w.rest[i + 1])}

\* Whoever is past the last token is the reader at the window's first octet, and
\* has nothing escaped outside strings as long as backslashes stand in strings.
TextInv ==
  /\ status = "TOKEN" => text = PastFirst(before, token.bytes, Len(token.bytes))
  /\ wellescaped => /\ text.escaped => text.in_string
                    /\ before.escaped => before.in_string

\* The window goes on where the token ended, up to the end of the last block.
OffsetInv ==
  /\ token.offset + Len(token.bytes) = window.offset
  /\ ~ended => window.offset + Len(window.rest) = blocks * WordWidth

ScanInv == TypeInv /\ ScanMatchesText /\ TextInv /\ OffsetInv

-----------------------------------------------------------------------------
(* A token *)

\* The edge is the window's first octet of structure, or its end.
LEMMA EdgeIs ==
  ASSUME NEW w \in Window, NEW t \in TextStates, Len(w.rest) <= WordWidth, Matches(w, t),
         w.rest # <<>>
  PROVE  /\ Edge(w) \in 0 .. Len(w.rest)
         /\ \A i \in 0 .. Edge(w) - 1 : ~IsStructure(PastFirst(t, w.rest, i), w.rest[i + 1])
         /\ Edge(w) = 0 => IsStructure(t, w.rest[1])
<1>1. /\ w.rest \in Seq(Kind) /\ Len(w.rest) \in Nat /\ Len(w.rest) > 0
      /\ w.mask \in Word
  BY LenProperties, EmptySeq DEF Window
<1>2. CASE w.mask = {}
  <2>1. Edge(w) = Len(w.rest)
    BY <1>2 DEF Edge
  <2> QED
    BY <1>1, <1>2, <2>1 DEF Matches
<1>3. CASE w.mask # {}
  <2>1. /\ Edge(w) \in w.mask
        /\ \A j \in w.mask : Edge(w) <= j
    BY <1>1, <1>3, TrailingZerosIs DEF Edge
  <2> DEFINE n == Edge(w)
  <2>2. n \in 0 .. Len(w.rest) - 1
    BY <2>1 DEF Matches
  <2>3. IsStructure(PastFirst(t, w.rest, n), w.rest[n + 1])
    BY <2>1 DEF Matches
  <2> HIDE DEF n
  <2>4. ASSUME NEW i \in 0 .. n - 1
        PROVE  ~IsStructure(PastFirst(t, w.rest, i), w.rest[i + 1])
    <3>1. i \in 0 .. Len(w.rest) - 1 /\ ~(n <= i)
      BY <1>1, <2>2
    <3>2. i \notin w.mask
      BY <2>1, <3>1 DEF n
    <3> QED
      BY <3>1, <3>2 DEF Matches
  <2>5. n = 0 => IsStructure(t, w.rest[1])
    <3>1. PastFirst(t, w.rest, 0) = t
      BY <1>1, PastFirstNext
    <3> QED
      BY <2>3, <3>1
  <2> QED
    BY <1>1, <2>2, <2>4, <2>5 DEF n
<1> QED
  BY <1>2, <1>3

\* Past its first n octets, a window describes the octets that are left to the
\* reader that went past them too.
LEMMA WindowAfterMatches ==
  ASSUME NEW w \in Window, NEW t \in TextStates, Len(w.rest) <= WordWidth, Matches(w, t),
         NEW n \in 1 .. Len(w.rest)
  PROVE  LET v == WindowAfter(w, n)
             u == PastFirst(t, w.rest, n)
         IN /\ v \in Window
            /\ Len(v.rest) = Len(w.rest) - n
            /\ v.offset = w.offset + n
            /\ u \in TextStates
            /\ Matches(v, u)
            /\ PastFirst(u, v.rest, Len(v.rest)) = PastFirst(t, w.rest, Len(w.rest))
<1> DEFINE v == WindowAfter(w, n)
           u == PastFirst(t, w.rest, n)
<1>1. /\ w.rest \in Seq(Kind) /\ Len(w.rest) \in Nat /\ w.mask \in Word /\ w.offset \in Nat
      /\ WordWidth \in Nat /\ n \in Nat /\ n \in 0 .. Len(w.rest)
  BY LenProperties, WordWidthAssumption DEF Window
<1>2. /\ v.rest = SubSeq(w.rest, n + 1, Len(w.rest))
      /\ v.mask = IF n < WordWidth THEN ShiftRight(w.mask, n) ELSE {}
      /\ v.offset = w.offset + n
  BY DEF WindowAfter
<1>3. /\ v.rest \in Seq(Kind) /\ Len(v.rest) = Len(w.rest) - n
      /\ \A i \in 1 .. Len(w.rest) - n : v.rest[i] = w.rest[n + i]
  <2>1. /\ SubSeq(w.rest, n + 1, Len(w.rest)) \in Seq(Kind)
        /\ Len(SubSeq(w.rest, n + 1, Len(w.rest))) = Len(w.rest) - n
        /\ \A i \in 1 .. Len(w.rest) - n :
             SubSeq(w.rest, n + 1, Len(w.rest))[i] = w.rest[n + i]
    BY <1>1, OctetsAfter
  <2> QED
    BY <1>2, <2>1
<1>4. v \in Window
  <2>1. v.mask \in Word
    BY <1>2 DEF ShiftRight, Word
  <2>2. v.rest \in Seq(Kind) /\ v.offset \in Nat
    BY <1>1, <1>2, <1>3
  <2> QED
    BY <2>1, <2>2 DEF Window, WindowAfter
<1>5. u \in TextStates /\ \A i \in 0 .. Len(w.rest) - n : PastFirst(u, v.rest, i) = PastFirst(t, w.rest, n + i)
  <2>1. u \in TextStates
    BY <1>1, PastFirstNext
  <2>2. ASSUME NEW i \in 0 .. Len(w.rest) - n
        PROVE  PastFirst(u, v.rest, i) = PastFirst(t, w.rest, n + i)
    BY <1>1, <1>2, PastFirstAfter
  <2> QED
    BY <2>1, <2>2
<1> HIDE DEF v, u
<1>6. ASSUME NEW i PROVE i \in v.mask <=> i \in 0 .. Len(v.rest) - 1 /\ n + i \in w.mask
  <2>1. w.mask \subseteq 0 .. Len(w.rest) - 1
    BY DEF Matches
  <2>2. CASE n < WordWidth
    <3>1. i \in v.mask <=> i \in Bit /\ i + n \in w.mask
      BY <1>2, <2>2 DEF ShiftRight
    <3>2. i \in Bit => i + n = n + i
      BY <1>1 DEF Bit
    <3>3. i \in Bit /\ n + i \in w.mask => i \in 0 .. Len(v.rest) - 1
      BY <1>1, <1>3, <2>1 DEF Bit
    <3>4. i \in 0 .. Len(v.rest) - 1 => i \in Bit
      BY <1>1, <1>3 DEF Bit
    <3> QED
      BY <3>1, <3>2, <3>3, <3>4
  <2>3. CASE ~(n < WordWidth)
    <3>1. Len(v.rest) = 0 /\ 0 .. Len(v.rest) - 1 = {}
      BY <1>1, <1>3, <2>3
    <3> QED
      BY <1>2, <2>3, <3>1
  <2> QED
    BY <2>2, <2>3
<1>7. ASSUME NEW i \in 0 .. Len(v.rest) - 1
      PROVE  n + i \in w.mask <=> IsStructure(PastFirst(u, v.rest, i), v.rest[i + 1])
  <2>1. /\ n + i \in 0 .. Len(w.rest) - 1 /\ i \in 0 .. Len(w.rest) - n
        /\ i + 1 \in 1 .. Len(w.rest) - n /\ n + (i + 1) = (n + i) + 1
    BY <1>1, <1>3
  <2>2. PastFirst(u, v.rest, i) = PastFirst(t, w.rest, n + i) /\ v.rest[i + 1] = w.rest[(n + i) + 1]
    BY <1>3, <1>5, <2>1
  <2> QED
    BY <2>1, <2>2 DEF Matches
<1>8. Matches(v, u)
  BY <1>6, <1>7 DEF Matches
<1>9. PastFirst(u, v.rest, Len(v.rest)) = PastFirst(t, w.rest, Len(w.rest))
  <2>1. Len(v.rest) \in 0 .. Len(w.rest) - n /\ n + Len(v.rest) = Len(w.rest)
    BY <1>1, <1>3
  <2> QED
    BY <1>5, <2>1
<1> QED
  BY <1>2, <1>3, <1>4, <1>5, <1>8, <1>9 DEF v, u

\* A call that hands out the first token of a window that describes its octets
\* leaves one that does, and a token that does.
LEMMA HandOutKeeps ==
  ASSUME TextInv, text \in TextStates, wellescaped \in BOOLEAN,
         NEW w \in Window, Len(w.rest) <= WordWidth, w.rest # <<>>, Matches(w, text),
         HandOut(w)
  PROVE  /\ window' \in Window
         /\ Len(window'.rest) < Len(w.rest)
         /\ window'.offset + Len(window'.rest) = w.offset + Len(w.rest)
         /\ token' \in Token
         /\ token'.offset = w.offset
         /\ token'.bytes # <<>>
         /\ token'.offset + Len(token'.bytes) = window'.offset
         /\ text' \in TextStates
         /\ before' = text
         /\ wellescaped' \in BOOLEAN
         /\ Matches(window', text')
         /\ PastFirst(text', window'.rest, Len(window'.rest)) =
              PastFirst(text, w.rest, Len(w.rest))
         /\ TokenIsText'
         /\ TextInv'
<1> DEFINE n == IF Edge(w) > 0 THEN Edge(w) ELSE 1
           bytes == SubSeq(w.rest, 1, n)
<1>1. /\ w.rest \in Seq(Kind) /\ Len(w.rest) \in Nat /\ Len(w.rest) > 0 /\ w.offset \in Nat
  BY LenProperties, EmptySeq DEF Window
<1>2. /\ Edge(w) \in 0 .. Len(w.rest)
      /\ \A i \in 0 .. Edge(w) - 1 :
           ~IsStructure(PastFirst(text, w.rest, i), w.rest[i + 1])
      /\ Edge(w) = 0 => IsStructure(text, w.rest[1])
  BY EdgeIs
<1>3. n \in 1 .. Len(w.rest) /\ n \in 0 .. Len(w.rest) /\ (Edge(w) > 0 => n = Edge(w))
      /\ (~(Edge(w) > 0) => n = 1 /\ Edge(w) = 0)
  BY <1>1, <1>2
<1>4. /\ token' = [kind |-> IF Edge(w) > 0 THEN "BYTES" ELSE "STRUCTURAL",
                   bytes |-> bytes, offset |-> w.offset]
      /\ window' = WindowAfter(w, n)
      /\ status' = "TOKEN"
      /\ before' = text
      /\ text' = PastFirst(text, bytes, Len(bytes))
      /\ wellescaped' = (wellescaped /\ \A i \in 1 .. Len(bytes) :
           bytes[i] = "backslash" => PastFirst(text, bytes, i - 1).in_string)
  BY DEF HandOut
<1> HIDE DEF n
<1>5. /\ bytes \in Seq(Kind) /\ Len(bytes) = n
      /\ \A i \in 1 .. n : bytes[i] = w.rest[i]
      /\ \A i \in 0 .. n : PastFirst(text, bytes, i) = PastFirst(text, w.rest, i)
  BY <1>1, <1>3, FirstOctets, PastFirstWithin
<1> HIDE DEF bytes
<1>6. /\ token'.kind = (IF Edge(w) > 0 THEN "BYTES" ELSE "STRUCTURAL")
      /\ token'.bytes = bytes
      /\ token'.offset = w.offset
      /\ token' \in Token
  BY <1>1, <1>4, <1>5 DEF Token
<1>7. text' = PastFirst(text, w.rest, n) /\ n \in 0 .. n
  BY <1>3, <1>4, <1>5
<1>8. /\ window' \in Window
      /\ Len(window'.rest) = Len(w.rest) - n
      /\ window'.offset = w.offset + n
      /\ text' \in TextStates
      /\ Matches(window', text')
      /\ PastFirst(text', window'.rest, Len(window'.rest)) =
           PastFirst(text, w.rest, Len(w.rest))
  BY <1>3, <1>4, <1>7, WindowAfterMatches
<1>9. TokenIsText'
  <2>1. CASE Edge(w) > 0
    <3>1. ASSUME NEW i \in 1 .. Len(bytes)
          PROVE  ~IsStructure(PastFirst(text, bytes, i - 1), bytes[i])
      <4>1. i - 1 \in 0 .. Edge(w) - 1 /\ i - 1 \in 0 .. n /\ i \in 1 .. n /\ (i - 1) + 1 = i
        BY <1>2, <1>3, <1>5, <2>1
      <4> QED
        BY <1>2, <1>5, <4>1
    <3>2. token'.kind # "STRUCTURAL"
      BY <1>6, <2>1
    <3> QED
      BY <1>4, <1>6, <3>1, <3>2 DEF TokenIsText
  <2>2. CASE ~(Edge(w) > 0)
    <3>1. Len(bytes) = 1 /\ bytes[1] = w.rest[1] /\ IsStructure(text, w.rest[1])
      BY <1>2, <1>3, <1>5, <2>2
    <3> QED
      BY <1>4, <1>6, <2>2, <3>1 DEF TokenIsText
  <2> QED
    BY <2>1, <2>2
<1>10. TextInv'
  <2>1. text' = PastFirst(before', token'.bytes, Len(token'.bytes))
    BY <1>4, <1>6
  <2>2. ASSUME wellescaped', text'.escaped PROVE text'.in_string
    <3>1. n \in 1 .. Len(bytes) /\ n - 1 \in 0 .. Len(bytes)
      BY <1>1, <1>3, <1>5
    <3> DEFINE t == PastFirst(text, bytes, n - 1)
    <3>2. text' = Past(t, bytes[n]) /\ t \in TextStates
      BY <1>4, <1>5, <3>1, PastFirstNext
    <3>3. bytes[n] = "backslash" => t.in_string
      BY <1>4, <2>2, <3>1
    <3> HIDE DEF t
    <3>4. bytes[n] = "backslash" /\ t.in_string
      BY <2>2, <3>2, <3>3, PastIs
    <3>5. text'.in_string <=> t.in_string # (bytes[n] = "quote" /\ ~t.escaped)
      BY <3>2, PastIs
    <3> QED
      BY <3>2, <3>4, <3>5 DEF TextStates
  <2>3. wellescaped' => wellescaped
    BY <1>4
  <2> QED
    BY <1>4, <2>1, <2>2, <2>3 DEF TextInv
<1>11. token'.bytes # <<>>
  BY <1>1, <1>3, <1>5, <1>6, EmptySeq
<1>12. wellescaped' \in BOOLEAN
  BY <1>4
<1>13. Len(window'.rest) \in Nat /\ n \in Nat
  BY <1>1, <1>3, <1>8
<1> QED
  BY <1>1, <1>3, <1>4, <1>5, <1>6, <1>8, <1>9, <1>10, <1>11, <1>12, <1>13

-----------------------------------------------------------------------------
(* A block *)

\* The window over a block that follows what the scan has left.
LEMMA BlockMatches ==
  ASSUME NEW octets \in [1 .. WordWidth -> Kind], NEW c \in Carry, NEW n \in 1 .. WordWidth,
         NEW offset \in Nat
  PROVE  LET w == [rest |-> SubSeq(octets, 1, n),
                   mask |-> Trimmed(Structure(octets, c).mask, n),
                   offset |-> offset]
         IN /\ w \in Window
            /\ Len(w.rest) = n
            /\ Matches(w, Resumed(c))
            /\ n = WordWidth => Resumed(Structure(octets, c).carry) =
                                  PastFirst(Resumed(c), w.rest, Len(w.rest))
<1> DEFINE w == [rest |-> SubSeq(octets, 1, n),
                 mask |-> Trimmed(Structure(octets, c).mask, n),
                 offset |-> offset]
           t == Resumed(c)
<1>1. /\ WordWidth \in Nat /\ n \in 0 .. WordWidth
      /\ octets \in Seq(Kind) /\ Len(octets) = WordWidth
  BY WordWidthAssumption, SeqDef, LenProperties
<1>2. t \in TextStates
  BY DEF Carry, Resumed, TextStates
<1>3. /\ w.rest \in Seq(Kind) /\ Len(w.rest) = n
      /\ \A i \in 1 .. n : w.rest[i] = octets[i]
      /\ \A i \in 0 .. n : PastFirst(t, w.rest, i) = PastFirst(t, octets, i)
  BY <1>1, <1>2, FirstOctets, PastFirstWithin
<1>4. LowMask(n) = 0 .. n - 1
  BY <1>1 DEF LowMask, ShiftRight, Bit
<1>5. /\ Structure(octets, c).mask =
           {i \in Bit : IsStructure(PastFirst(t, octets, i), octets[i + 1])}
      /\ Resumed(Structure(octets, c).carry) = PastFirst(t, octets, WordWidth)
  BY StructureIs
<1> HIDE DEF t
<1>6. w.mask = {i \in 0 .. n - 1 : IsStructure(PastFirst(t, octets, i), octets[i + 1])}
  <2>1. w.mask = Structure(octets, c).mask \cap (0 .. n - 1)
    BY <1>4 DEF Trimmed
  <2>2. 0 .. n - 1 \subseteq Bit
    BY <1>1 DEF Bit
  <2> QED
    BY <1>5, <2>1, <2>2
<1>7. Matches(w, t)
  <2>1. \A i \in 0 .. n - 1 : /\ i \in 0 .. n /\ i + 1 \in 1 .. n
    BY <1>1
  <2> QED
    BY <1>3, <1>6, <2>1 DEF Matches
<1>8. w \in Window
  <2>1. w.mask \in Word
    BY <1>1, <1>6 DEF Word, Bit
  <2> QED
    BY <1>3, <2>1 DEF Window
<1>9. n = WordWidth => Resumed(Structure(octets, c).carry) = PastFirst(t, w.rest, Len(w.rest))
  BY <1>1, <1>3, <1>5
<1> QED
  BY <1>3, <1>7, <1>8, <1>9 DEF t

\* Where the reader of single octets stands at the end of all that was handed
\* out is what the carry says.
LEMMA CarryIs ==
  ASSUME NEW c \in Carry, NEW t \in TextStates
  PROVE  Resumed(c) = t <=> c.in_string = t.in_string /\ c.trailing_backslash_unpaired = t.escaped
<1>1. t = [in_string |-> t.in_string, escaped |-> t.escaped]
  BY DEF TextStates
<1> QED
  BY <1>1 DEF Resumed

-----------------------------------------------------------------------------
(* The invariant *)

\* Before the first block there is nothing to classify.
LEMMA InitInv == Init => ScanInv
<1> SUFFICES ASSUME Init PROVE ScanInv
  OBVIOUS
<1>1. <<>> \in Seq(Kind) /\ Len(<<>>) = 0 /\ StartOfText \in TextStates /\ WordWidth \in Nat
  BY WordWidthAssumption, EmptySeq DEF StartOfText, TextStates
<1>2. TypeInv
  <2>1. window.rest = <<>> /\ window.mask = {} /\ window.offset = 0
    BY DEF Init
  <2>2. window \in Window /\ token \in Token /\ carry \in Carry
    BY <1>1 DEF Init, Window, Token, Carry, Word
  <2>3. Len(window.rest) <= WordWidth
    BY <1>1, <2>1
  <2> QED
    BY <1>1, <2>2, <2>3 DEF Init, TypeInv
<1>3. ScanMatchesText
  <2>1. WindowMatchesText
    BY <1>1 DEF Init, WindowMatchesText
  <2>2. PastFirst(StartOfText, <<>>, 0) = StartOfText
    BY <1>1, PastFirstNext
  <2>3. /\ PastFirst(text, window.rest, Len(window.rest)) = StartOfText
        /\ carry = [in_string |-> FALSE, trailing_backslash_unpaired |-> FALSE]
    BY <1>1, <2>2 DEF Init
  <2>4. CarryMatchesText
    BY <2>3 DEF CarryMatchesText, StartOfText
  <2> QED
    BY <2>1, <2>4 DEF Init, ScanMatchesText, TokenIsText
<1>4. TextInv
  BY DEF Init, TextInv, StartOfText
<1>5. OffsetInv
  BY <1>1, WordWidthAssumption DEF Init, OffsetInv
<1> QED
  BY <1>2, <1>3, <1>4, <1>5 DEF ScanInv

\* A block whose octets follow the ones handed out: the window over it, and the
\* carry past it, are what the reader of single octets finds in it.
LEMMA BlockFollows ==
  ASSUME ScanInv, NEW octets \in [1 .. WordWidth -> Kind], NEW n \in 1 .. WordWidth,
         ScanBlock(octets, n)
  PROVE  \E w \in Window :
           /\ w.rest = SubSeq(octets, 1, n)
           /\ Len(w.rest) = n
           /\ Matches(w, text)
           /\ w.offset = blocks * WordWidth
           /\ token.offset + Len(token.bytes) = w.offset
           /\ blocks' = blocks + 1
           /\ ended' \in BOOLEAN
           /\ ~ended' => n = WordWidth
           /\ carry' \in Carry
           /\ n = WordWidth => Resumed(carry') = PastFirst(text, w.rest, Len(w.rest))
           /\ \/ /\ lines' = Traced(trace_mode, w.offset, octets, w.mask)
                 /\ HandOut(w)
              \/ window' = w /\ status' = "ERROR" /\ UNCHANGED <<token, ghosts>>
<1> DEFINE offset == blocks * WordWidth
           w == [rest |-> SubSeq(octets, 1, n),
                 mask |-> Trimmed(Structure(octets, carry).mask, n),
                 offset |-> offset]
           due == Traced(trace_mode, offset, octets, w.mask)
<1>1. /\ window \in Window /\ window.rest \in Seq(Kind) /\ window.offset \in Nat
      /\ text \in TextStates /\ carry \in Carry /\ blocks \in Nat /\ WordWidth \in Nat
      /\ CarryMatchesText /\ OffsetInv
  BY WordWidthAssumption DEF ScanInv, TypeInv, ScanMatchesText, Window
<1>2. /\ window.rest = <<>> /\ ~ended
      /\ blocks' = blocks + 1 /\ ended' = (n < WordWidth) /\ carry' = Structure(octets, carry).carry
      /\ \/ lines' = due /\ HandOut(w)
         \/ window' = w /\ status' = "ERROR" /\ UNCHANGED <<token, ghosts>>
  <2> HIDE DEF due
  <2> QED
    BY DEF ScanBlock, due
<1>3. Len(window.rest) = 0 /\ PastFirst(text, window.rest, Len(window.rest)) = text
  BY <1>1, <1>2, EmptySeq, PastFirstNext
<1>4. Resumed(carry) = text
  BY <1>1, <1>2, <1>3, CarryIs DEF CarryMatchesText
<1>5. window.offset = offset /\ offset \in Nat /\ token.offset + Len(token.bytes) = offset
  BY <1>1, <1>2, <1>3 DEF OffsetInv
<1>6. /\ w.offset = offset /\ w.rest = SubSeq(octets, 1, n)
      /\ due = Traced(trace_mode, w.offset, octets, w.mask)
  OBVIOUS
<1>7. /\ w \in Window /\ Len(w.rest) = n /\ Matches(w, Resumed(carry))
      /\ n = WordWidth => Resumed(Structure(octets, carry).carry) =
                            PastFirst(Resumed(carry), w.rest, Len(w.rest))
  <2> HIDE DEF offset
  <2> QED
    BY <1>1, <1>5, BlockMatches
<1>8. Structure(octets, carry).carry \in Carry
  BY <1>1, StructureIs
<1> HIDE DEF w, due
<1>9. ended' \in BOOLEAN /\ (~ended' => n = WordWidth)
  <2>1. ended' = (n < WordWidth)
    BY <1>2
  <2>2. ended' \in BOOLEAN
    BY <2>1
  <2>3. ~ended' => ~(n < WordWidth)
    BY <2>1
  <2> QED
    BY <1>1, <2>2, <2>3
<1> QED
  BY <1>2, <1>4, <1>5, <1>6, <1>7, <1>8, <1>9

\* Every call keeps mask, carry and token in step with the reader of octets.
LEMMA NextInv == ScanInv /\ [Next]_vars => ScanInv'
<1> SUFFICES ASSUME ScanInv, [Next]_vars PROVE ScanInv'
  OBVIOUS
<1>1. /\ TypeInv /\ WindowMatchesText /\ CarryMatchesText /\ TokenIsText
      /\ TextInv /\ OffsetInv
  BY DEF ScanInv, ScanMatchesText
<1>2. /\ WordWidth \in Nat \ {0} /\ window.rest \in Seq(Kind) /\ window \in Window
      /\ Len(window.rest) \in Nat /\ window.offset \in Nat
      /\ text \in TextStates /\ carry \in Carry /\ wellescaped \in BOOLEAN /\ blocks \in Nat
      /\ Matches(window, text) /\ Len(window.rest) <= WordWidth
  BY <1>1, WordWidthAssumption, LenProperties
     DEF TypeInv, Window, Matches, WindowMatchesText
<1>3. CASE ScanOn
  <2>1. HandOut(window) /\ window.rest # <<>> /\ UNCHANGED <<carry, blocks, ended>>
    BY <1>3 DEF ScanOn
  <2>2. /\ window' \in Window
        /\ Len(window'.rest) < Len(window.rest)
        /\ window'.offset + Len(window'.rest) = window.offset + Len(window.rest)
        /\ token' \in Token
        /\ token'.offset + Len(token'.bytes) = window'.offset
        /\ text' \in TextStates
        /\ before' = text
        /\ wellescaped' \in BOOLEAN
        /\ Matches(window', text')
        /\ PastFirst(text', window'.rest, Len(window'.rest)) =
             PastFirst(text, window.rest, Len(window.rest))
        /\ TokenIsText'
        /\ TextInv'
    BY <1>1, <1>2, <2>1, HandOutKeeps
  <2>3. Len(window'.rest) \in Nat
    BY <2>2, LenProperties DEF Window
  <2>4. TypeInv'
    BY <1>1, <1>2, <2>1, <2>2, <2>3 DEF TypeInv
  <2>5. ScanMatchesText'
    BY <1>1, <2>1, <2>2
       DEF ScanMatchesText, WindowMatchesText, CarryMatchesText, Matches
  <2>6. OffsetInv'
    BY <1>1, <2>1, <2>2 DEF OffsetInv
  <2> QED
    BY <2>2, <2>4, <2>5, <2>6 DEF ScanInv
<1>4. ASSUME NEW octets \in [1 .. WordWidth -> Kind], NEW n \in 1 .. WordWidth,
             ScanBlock(octets, n)
      PROVE  ScanInv'
  <2>1. PICK w \in Window :
          /\ Len(w.rest) = n
          /\ Matches(w, text)
          /\ w.offset = blocks * WordWidth
          /\ token.offset + Len(token.bytes) = w.offset
          /\ blocks' = blocks + 1
          /\ ended' \in BOOLEAN
          /\ ~ended' => n = WordWidth
          /\ carry' \in Carry
          /\ n = WordWidth => Resumed(carry') = PastFirst(text, w.rest, Len(w.rest))
          /\ \/ HandOut(w)
             \/ window' = w /\ status' = "ERROR" /\ UNCHANGED <<token, ghosts>>
    BY <1>4, BlockFollows
  <2>2. /\ window' \in Window
        /\ Len(window'.rest) <= n
        /\ window'.offset + Len(window'.rest) = blocks * WordWidth + n
        /\ token' \in Token
        /\ token'.offset + Len(token'.bytes) = window'.offset
        /\ text' \in TextStates
        /\ before' \in TextStates
        /\ wellescaped' \in BOOLEAN
        /\ Matches(window', text')
        /\ PastFirst(text', window'.rest, Len(window'.rest)) =
             PastFirst(text, w.rest, Len(w.rest))
        /\ TokenIsText'
        /\ TextInv'
    <3>1. CASE HandOut(w)
      <4>1. w.rest # <<>> /\ Len(w.rest) <= WordWidth
        BY <2>1, EmptySeq
      <4>2. /\ window' \in Window
            /\ Len(window'.rest) < Len(w.rest)
            /\ window'.offset + Len(window'.rest) = w.offset + Len(w.rest)
            /\ token' \in Token
            /\ token'.offset + Len(token'.bytes) = window'.offset
            /\ text' \in TextStates
            /\ before' = text
            /\ wellescaped' \in BOOLEAN
            /\ Matches(window', text')
            /\ PastFirst(text', window'.rest, Len(window'.rest)) =
                 PastFirst(text, w.rest, Len(w.rest))
            /\ TokenIsText'
            /\ TextInv'
        BY <1>1, <1>2, <2>1, <3>1, <4>1, HandOutKeeps
      <4>3. Len(window'.rest) \in Nat
        BY <4>2, LenProperties DEF Window
      <4> QED
        BY <1>2, <2>1, <4>2, <4>3
    <3>2. CASE window' = w /\ status' = "ERROR" /\ UNCHANGED <<token, ghosts>>
      <4>1. /\ token' = token /\ text' = text /\ before' = before
            /\ wellescaped' = wellescaped
        BY <3>2 DEF ghosts
      <4>2. TokenIsText' /\ TextInv'
        BY <1>1, <3>2, <4>1 DEF TokenIsText, TextInv
      <4>3. token \in Token /\ before \in TextStates /\ token.offset + Len(token.bytes) = w.offset
        BY <1>1, <2>1 DEF TypeInv, OffsetInv
      <4> QED
        BY <1>2, <2>1, <3>2, <4>1, <4>2, <4>3
    <3> QED
      BY <2>1, <3>1, <3>2
  <2>3. Len(window'.rest) \in Nat
    BY <2>2, LenProperties DEF Window
  <2>4. TypeInv'
    BY <1>2, <2>1, <2>2, <2>3 DEF TypeInv
  <2>5. WindowMatchesText'
    BY <2>2 DEF WindowMatchesText, Matches
  <2>6. CarryMatchesText'
    <3> SUFFICES ASSUME ~ended'
                 PROVE  LET end == PastFirst(text', window'.rest, Len(window'.rest))
                        IN /\ carry'.in_string = end.in_string
                           /\ carry'.trailing_backslash_unpaired = end.escaped
      BY DEF CarryMatchesText
    <3>1. n = WordWidth
      BY <2>1
    <3>2. carry' \in Carry /\ Resumed(carry') = PastFirst(text', window'.rest, Len(window'.rest))
      BY <2>1, <2>2, <3>1
    <3>3. PastFirst(text', window'.rest, Len(window'.rest)) \in TextStates
      BY <2>2, <2>3, PastFirstNext DEF Window
    <3> QED
      BY <3>2, <3>3, CarryIs
  <2>7. OffsetInv'
    <3>1. blocks * WordWidth + WordWidth = (blocks + 1) * WordWidth
      BY <1>2
    <3> QED
      BY <2>1, <2>2, <3>1 DEF OffsetInv
  <2> QED
    BY <2>2, <2>4, <2>5, <2>6, <2>7 DEF ScanInv, ScanMatchesText
<1>5. CASE ScanStops
  <2>1. status' # "TOKEN" /\ UNCHANGED <<carry, window, blocks, ended, token, text, before, wellescaped>>
    BY <1>5 DEF ScanStops, ghosts
  <2> QED
    BY <1>1, <2>1 DEF ScanInv, ScanMatchesText, TypeInv, WindowMatchesText, CarryMatchesText,
                      TokenIsText, TextInv, OffsetInv
<1>6. CASE UNCHANGED vars
  BY <1>1, <1>6 DEF vars, ghosts, ScanInv, ScanMatchesText, TypeInv, WindowMatchesText,
                    CarryMatchesText, TokenIsText, TextInv, OffsetInv
<1> QED
  BY <1>3, <1>4, <1>5, <1>6 DEF Next, ScanAnyBlock

\* The invariant holds of every behaviour.
LEMMA ScanInvHolds == Spec => []ScanInv
  BY InitInv, NextInv, PTL DEF Spec

-----------------------------------------------------------------------------
(* The theorems *)

\* Masks, carry and tokens agree with a reader of single octets, whatever the
\* octets, the width of a word, the blocks before and the octets past a short one.
THEOREM MasksMatchText == Spec => []ScanMatchesText
<1>1. ScanInv => ScanMatchesText
  BY DEF ScanInv
<1> QED
  BY <1>1, ScanInvHolds, PTL

\* As long as backslashes stand in strings only, a structural token out of a
\* string is its closing quote, and a quote starts or ends a string.
THEOREM QuotesBoundStrings == Spec => []StringsEndAtQuotes
<1>1. ScanInv => StringsEndAtQuotes
  <2> SUFFICES ASSUME ScanInv, status = "TOKEN", wellescaped, token.kind = "STRUCTURAL"
               PROVE  /\ before.in_string => token.bytes[1] = "quote"
                      /\ text.in_string = (before.in_string # (token.bytes[1] = "quote"))
    BY DEF StringsEndAtQuotes
  <2>1. Len(token.bytes) = 1 /\ IsStructure(before, token.bytes[1])
    BY DEF ScanInv, ScanMatchesText, TokenIsText
  <2>2. /\ text = PastFirst(before, token.bytes, Len(token.bytes))
        /\ before.escaped => before.in_string
        /\ before \in TextStates /\ text \in TextStates /\ token.bytes \in Seq(Kind)
    BY DEF ScanInv, TextInv, TypeInv, Token
  <2>3. text = Past(before, token.bytes[1])
    <3>1. 1 \in 1 .. Len(token.bytes) /\ 1 - 1 = 0
      BY <2>1
    <3>2. PastFirst(before, token.bytes, 0) = before
      BY <2>2, PastFirstNext
    <3>3. PastFirst(before, token.bytes, 1) =
            Past(PastFirst(before, token.bytes, 1 - 1), token.bytes[1])
      BY <2>2, <3>1, PastFirstNext
    <3> QED
      BY <2>1, <2>2, <3>1, <3>2, <3>3
  <2>4. text.in_string <=>
          before.in_string # (token.bytes[1] = "quote" /\ ~before.escaped)
    BY <2>2, <2>3, PastIs
  <2>5. token.bytes[1] = "quote" => ~before.escaped
    BY <2>1, <2>2 DEF IsStructure
  <2>6. before.in_string => token.bytes[1] = "quote"
    BY <2>1 DEF IsStructure
  <2> QED
    BY <2>2, <2>4, <2>5, <2>6 DEF TextStates
<1> QED
  BY <1>1, ScanInvHolds, PTL

\* Every octet comes out once and in order: a token starts where the one before
\* it ended, across blocks too, and is never empty.
THEOREM TokensFollowOneAnother == Spec => TokensTile
<1>1. ScanInv /\ [Next]_vars =>
        [token' # token => /\ token'.offset = token.offset + Len(token.bytes)
                           /\ token'.bytes # <<>>]_vars
  <2> SUFFICES ASSUME ScanInv, Next, token' # token
               PROVE  token'.offset = token.offset + Len(token.bytes) /\ token'.bytes # <<>>
    BY DEF vars
  <2>1. /\ TextInv /\ text \in TextStates /\ wellescaped \in BOOLEAN
        /\ window \in Window /\ window.rest \in Seq(Kind) /\ Len(window.rest) <= WordWidth
        /\ Matches(window, text) /\ token.offset + Len(token.bytes) = window.offset
        /\ carry \in Carry /\ blocks \in Nat /\ WordWidth \in Nat
    BY WordWidthAssumption
       DEF ScanInv, TypeInv, OffsetInv, ScanMatchesText, WindowMatchesText, Matches, Window
  <2>2. CASE ScanOn
    <3>1. HandOut(window) /\ window.rest # <<>>
      BY <2>2 DEF ScanOn
    <3> QED
      BY <2>1, <3>1, HandOutKeeps
  <2>3. ASSUME NEW octets \in [1 .. WordWidth -> Kind], NEW n \in 1 .. WordWidth,
               ScanBlock(octets, n)
        PROVE  token'.offset = token.offset + Len(token.bytes) /\ token'.bytes # <<>>
    <3>1. PICK w \in Window :
            /\ Len(w.rest) = n
            /\ Matches(w, text)
            /\ token.offset + Len(token.bytes) = w.offset
            /\ HandOut(w)
      BY <2>3, BlockFollows
    <3>2. w.rest # <<>> /\ Len(w.rest) <= WordWidth
      BY <2>1, <3>1, EmptySeq
    <3> QED
      BY <2>1, <3>1, <3>2, HandOutKeeps
  <2>4. ~ScanStops
    BY DEF ScanStops
  <2> QED
    BY <2>2, <2>3, <2>4 DEF Next, ScanAnyBlock
<1> QED
  BY <1>1, ScanInvHolds, PTL DEF Spec, TokensTile

-----------------------------------------------------------------------------
(* The trace *)

\* The lines from octet at on, and the lines that a window's mask asks for.
Shown(at) == {lines[k] : k \in {l \in 1 .. Len(lines) : lines[l][1] >= at}}

Entries(w) == {<<w.offset + i, w.rest[i + 1]>> : i \in w.mask}

\* While there are tokens to come, the lines from the window on are its mask's.
TraceInv ==
  trace_mode = "OFFSETS" /\ Running =>
    /\ Len(lines) \in Nat
    /\ \A k \in 1 .. Len(lines) : lines[k][1] \in Nat
    /\ \A k \in 1 .. Len(lines) - 1 : lines[k][1] < lines[k + 1][1]
    /\ Shown(window.offset) = Entries(window)

\* The first token of a window whose lines are shown is, and so is the rest.
LEMMA HandOutTraced ==
  ASSUME text \in TextStates,
         NEW w \in Window, Len(w.rest) <= WordWidth, w.rest # <<>>, Matches(w, text),
         HandOut(w),
         Len(lines)' \in Nat,
         \A k \in 1 .. Len(lines)' : lines'[k][1] \in Nat,
         {lines'[k] : k \in {l \in 1 .. Len(lines') : lines'[l][1] >= w.offset}} = Entries(w)
  PROVE  /\ Shown(window.offset)' = Entries(window)'
         /\ Shown(token.offset)' =
              Entries(window)' \cup (IF token'.kind = "STRUCTURAL"
                                       THEN {<<token'.offset, token'.bytes[1]>>} ELSE {})
<1> DEFINE n == IF Edge(w) > 0 THEN Edge(w) ELSE 1
           ls == lines'
           v == WindowAfter(w, n)
           first == IF Edge(w) > 0 THEN {} ELSE {<<w.offset, w.rest[1]>>}
<1>1. /\ w.rest \in Seq(Kind) /\ Len(w.rest) \in Nat /\ Len(w.rest) > 0 /\ w.offset \in Nat
  BY LenProperties, EmptySeq DEF Window
<1>2. /\ Edge(w) \in 0 .. Len(w.rest)
      /\ \A i \in 0 .. Edge(w) - 1 :
           ~IsStructure(PastFirst(text, w.rest, i), w.rest[i + 1])
      /\ Edge(w) = 0 => IsStructure(text, w.rest[1])
  BY EdgeIs
<1>3. n \in 1 .. Len(w.rest) /\ n \in 0 .. Len(w.rest)
      /\ (Edge(w) > 0 => n = Edge(w)) /\ (~(Edge(w) > 0) => n = 1 /\ Edge(w) = 0)
  BY <1>1, <1>2
<1>4. window' = v /\ token'.offset = w.offset
      /\ token'.kind = (IF Edge(w) > 0 THEN "BYTES" ELSE "STRUCTURAL")
      /\ token'.bytes = SubSeq(w.rest, 1, n)
  BY DEF HandOut
<1> HIDE DEF n
<1>5. /\ v \in Window /\ Len(v.rest) = Len(w.rest) - n /\ v.offset = w.offset + n
      /\ v.rest = SubSeq(w.rest, n + 1, Len(w.rest))
      /\ v.mask = IF n < WordWidth THEN ShiftRight(w.mask, n) ELSE {}
  BY <1>3, WindowAfterMatches DEF WindowAfter
<1>6. \A i \in 1 .. Len(w.rest) - n : v.rest[i] = w.rest[n + i]
  <2>1. \A i \in 1 .. Len(w.rest) - n :
          SubSeq(w.rest, n + 1, Len(w.rest))[i] = w.rest[n + i]
    BY <1>1, <1>3, OctetsAfter
  <2> QED
    BY <1>5, <2>1
<1> HIDE DEF v
<1>7. /\ w.mask \subseteq 0 .. Len(w.rest) - 1
      /\ WordWidth \in Nat
      /\ \A i \in w.mask : i < n => i = 0 /\ ~(Edge(w) > 0)
      /\ ~(Edge(w) > 0) => 0 \in w.mask
  <2>1. ASSUME NEW i \in w.mask, i < n PROVE i = 0 /\ ~(Edge(w) > 0)
    <3>1. i \in 0 .. Len(w.rest) - 1 /\ IsStructure(PastFirst(text, w.rest, i), w.rest[i + 1])
      BY DEF Matches
    <3> QED
      BY <1>1, <1>2, <1>3, <2>1, <3>1
  <2>2. ASSUME ~(Edge(w) > 0) PROVE 0 \in w.mask
    <3>1. PastFirst(text, w.rest, 0) = text /\ Edge(w) = 0
      BY <1>1, <1>3, <2>2, PastFirstNext
    <3> QED
      BY <1>1, <1>2, <3>1 DEF Matches
  <2> QED
    BY <2>1, <2>2, WordWidthAssumption DEF Matches
<1>8. \A i \in v.mask : i \in Nat /\ i + n \in w.mask /\ i + 1 \in 1 .. Len(w.rest) - n
  <2> SUFFICES ASSUME NEW i \in v.mask
               PROVE  i \in Nat /\ i + n \in w.mask /\ i + 1 \in 1 .. Len(w.rest) - n
    OBVIOUS
  <2>1. i \in Bit /\ i + n \in w.mask
    BY <1>5 DEF ShiftRight
  <2>2. i \in Nat /\ i + n \in 0 .. Len(w.rest) - 1
    BY <1>7, <2>1 DEF Bit
  <2> QED
    BY <1>1, <1>3, <2>1, <2>2
<1>9. \A i \in w.mask : i >= n => i - n \in v.mask
  <2> SUFFICES ASSUME NEW i \in w.mask, i >= n PROVE i - n \in v.mask
    OBVIOUS
  <2>1. n < WordWidth /\ i - n \in Bit /\ (i - n) + n = i
    BY <1>1, <1>3, <1>7 DEF Bit
  <2> QED
    BY <1>5, <2>1 DEF ShiftRight
<1>10. ASSUME NEW x
       PROVE  x \in Entries(v) <=> x \in Entries(w) /\ x[1] >= v.offset
  <2>1. ASSUME x \in Entries(v) PROVE x \in Entries(w) /\ x[1] >= v.offset
    <3>1. PICK i \in v.mask : x = <<v.offset + i, v.rest[i + 1]>>
      BY <2>1 DEF Entries
    <3>2. i \in Nat /\ i + n \in w.mask /\ i + 1 \in 1 .. Len(w.rest) - n
      BY <1>8
    <3>3. /\ v.rest[i + 1] = w.rest[(i + n) + 1]
          /\ v.offset + i = w.offset + (i + n) /\ v.offset + i >= v.offset
      <4>1. v.rest[i + 1] = w.rest[n + (i + 1)] /\ n + (i + 1) = (i + n) + 1
        <5>1. n \in Nat /\ i \in Nat /\ n + (i + 1) = (i + n) + 1
          BY <1>1, <1>3, <3>2
        <5> QED
          BY <1>6, <3>2, <5>1
      <4> QED
        BY <1>1, <1>3, <1>5, <3>2, <4>1
    <3> QED
      BY <3>1, <3>2, <3>3 DEF Entries
  <2>2. ASSUME x \in Entries(w), x[1] >= v.offset PROVE x \in Entries(v)
    <3>1. PICK i \in w.mask : x = <<w.offset + i, w.rest[i + 1]>>
      BY <2>2 DEF Entries
    <3>2. i \in 0 .. Len(w.rest) - 1 /\ w.offset + i >= w.offset + n
      BY <1>5, <1>7, <2>2, <3>1
    <3>3. i >= n
      BY <1>1, <1>3, <3>2
    <3>4. i - n \in v.mask
      BY <1>9, <3>3
    <3>5. /\ v.offset + (i - n) = w.offset + i
          /\ v.rest[(i - n) + 1] = w.rest[i + 1]
      <4>1. (i - n) + 1 \in 1 .. Len(w.rest) - n /\ n + ((i - n) + 1) = i + 1
        BY <1>1, <1>3, <3>2, <3>3
      <4>2. v.rest[(i - n) + 1] = w.rest[i + 1]
        BY <1>6, <4>1
      <4> QED
        BY <1>1, <1>3, <1>5, <3>2, <4>2
    <3> QED
      BY <3>1, <3>4, <3>5 DEF Entries
  <2> QED
    BY <2>1, <2>2
<1>11. Entries(w) = Entries(v) \cup first
  <2>1. ASSUME NEW x \in Entries(w), x \notin Entries(v) PROVE x \in first
    <3>1. PICK i \in w.mask : x = <<w.offset + i, w.rest[i + 1]>>
      BY DEF Entries
    <3>2. i \in Nat /\ ~(w.offset + i >= v.offset)
      BY <1>7, <1>10, <2>1, <3>1
    <3>3. i < n
      BY <1>1, <1>3, <1>5, <3>2
    <3> QED
      BY <1>1, <1>7, <3>1, <3>3
  <2>2. ASSUME NEW x \in first PROVE x \in Entries(w)
    <3>1. ~(Edge(w) > 0) /\ x = <<w.offset, w.rest[1]>> /\ 0 \in w.mask
      BY <1>7
    <3>2. x = <<w.offset + 0, w.rest[0 + 1]>>
      BY <1>1, <3>1
    <3> QED
      BY <3>1, <3>2 DEF Entries
  <2> QED
    BY <1>10, <2>1, <2>2
<1>12. Shown(token.offset)' = Entries(w)
  BY <1>4 DEF Shown
<1>13. Shown(window.offset)' = {x \in Entries(w) : x[1] >= v.offset}
  <2>1. Shown(window.offset)' = {ls[k] : k \in {l \in 1 .. Len(ls) : ls[l][1] >= v.offset}}
    BY <1>4 DEF Shown
  <2>2. \A l \in 1 .. Len(ls) : ls[l][1] >= v.offset => ls[l][1] >= w.offset
    BY <1>1, <1>3, <1>5
  <2> QED
    BY <2>1, <2>2
<1>14. Shown(window.offset)' = Entries(v)
  <2>1. \A x \in Entries(v) : x \in Entries(w) /\ x[1] >= v.offset
    BY <1>10
  <2>2. \A x \in Entries(w) : x[1] >= v.offset => x \in Entries(v)
    BY <1>10
  <2> QED
    BY <1>13, <2>1, <2>2
<1>15. Entries(window)' = Entries(v)
  BY <1>4 DEF Entries
<1>16. first = IF token'.kind = "STRUCTURAL"
                 THEN {<<token'.offset, token'.bytes[1]>>} ELSE {}
  <2>1. SubSeq(w.rest, 1, n)[1] = w.rest[1]
    BY <1>1, <1>3, FirstOctets
  <2> QED
    BY <1>4, <2>1
<1> QED
  BY <1>11, <1>12, <1>14, <1>15, <1>16

\* The trace of a block is that of its window.
LEMMA BlockTraced ==
  ASSUME NEW octets \in [1 .. WordWidth -> Kind], NEW n \in 1 .. WordWidth,
         NEW w \in Window, Len(w.rest) = n,
         w.rest = SubSeq(octets, 1, n), w.mask \subseteq 0 .. n - 1
  PROVE  LET due == Offsets(w.offset, octets, w.mask)
         IN /\ Len(due) \in Nat
            /\ \A k \in 1 .. Len(due) : due[k][1] \in Nat
            /\ \A k \in 1 .. Len(due) - 1 : due[k][1] < due[k + 1][1]
            /\ {due[k] : k \in {l \in 1 .. Len(due) : due[l][1] >= w.offset}} = Entries(w)
<1> DEFINE due == Offsets(w.offset, octets, w.mask)
<1>1. w.mask \in Word /\ w.offset \in Nat /\ WordWidth \in Nat /\ octets \in Seq(Kind) /\ Len(octets) = WordWidth
  BY WordWidthAssumption, SeqDef, LenProperties DEF Window
<1>2. /\ Len(due) \in Nat
      /\ {due[k] : k \in 1 .. Len(due)} = {<<w.offset + i, octets[i + 1]>> : i \in w.mask}
      /\ \A k \in 1 .. Len(due) - 1 : due[k][1] < due[k + 1][1]
  BY <1>1, OffsetsAre
<1> HIDE DEF due
<1>3. ASSUME NEW i \in w.mask PROVE octets[i + 1] = w.rest[i + 1] /\ i \in Nat
  <2>1. i + 1 \in 1 .. n /\ n \in 0 .. Len(octets)
    BY <1>1
  <2>2. \A j \in 1 .. n : SubSeq(octets, 1, n)[j] = octets[j]
    BY <1>1, <2>1, FirstOctets
  <2> QED
    BY <2>1, <2>2
<1>4. {due[k] : k \in 1 .. Len(due)} = Entries(w)
  BY <1>2, <1>3 DEF Entries
<1>5. ASSUME NEW k \in 1 .. Len(due) PROVE due[k][1] \in Nat /\ due[k][1] >= w.offset
  <2>1. PICK i \in w.mask : due[k] = <<w.offset + i, octets[i + 1]>>
    BY <1>2
  <2> QED
    BY <1>1, <1>3, <2>1
<1> QED
  BY <1>2, <1>4, <1>5 DEF due

\* Before the first block there is nothing to trace.
LEMMA TraceInvInit == Init => TraceInv /\ TraceShowsTokens
<1> SUFFICES ASSUME Init PROVE TraceInv /\ TraceShowsTokens
  OBVIOUS
<1>1. lines = <<>> /\ window.mask = {} /\ status = "NONE" /\ Len(lines) = 0
  BY DEF Init
<1> QED
  BY <1>1 DEF TraceInv, TraceShowsTokens, Shown, Entries

\* The block's lines are fixed when it is taken; calls inside it use them up.
LEMMA TraceInvNext ==
  ScanInv /\ TraceInv /\ TraceShowsTokens /\ [Next]_vars => TraceInv' /\ TraceShowsTokens'
<1> SUFFICES ASSUME ScanInv, TraceInv, TraceShowsTokens, [Next]_vars
             PROVE  TraceInv' /\ TraceShowsTokens'
  OBVIOUS
<1>1. /\ text \in TextStates /\ window \in Window /\ Len(window.rest) <= WordWidth
      /\ Matches(window, text) /\ blocks \in Nat /\ WordWidth \in Nat
  BY WordWidthAssumption
     DEF ScanInv, TypeInv, ScanMatchesText, WindowMatchesText, Matches
<1>2. ASSUME NEW w \in Window, Len(w.rest) <= WordWidth, w.rest # <<>>, Matches(w, text),
             HandOut(w), trace_mode' = trace_mode,
             trace_mode = "OFFSETS" =>
               /\ Len(lines)' \in Nat
               /\ \A k \in 1 .. Len(lines)' : lines'[k][1] \in Nat
               /\ \A k \in 1 .. Len(lines)' - 1 : lines'[k][1] < lines'[k + 1][1]
               /\ {lines'[k] : k \in {l \in 1 .. Len(lines') : lines'[l][1] >= w.offset}}
                    = Entries(w)
      PROVE  TraceInv' /\ TraceShowsTokens'
  <2> SUFFICES ASSUME trace_mode = "OFFSETS" PROVE TraceInv' /\ TraceShowsTokens'
    BY <1>2 DEF TraceInv, TraceShowsTokens
  <2>1. /\ Shown(window.offset)' = Entries(window)'
        /\ Shown(token.offset)' =
             Entries(window)' \cup (IF token'.kind = "STRUCTURAL"
                                      THEN {<<token'.offset, token'.bytes[1]>>} ELSE {})
    BY <1>1, <1>2, HandOutTraced
  <2> QED
    BY <1>2, <2>1 DEF TraceInv, TraceShowsTokens, Shown, Entries
<1>3. CASE ScanOn
  <2>1. /\ HandOut(window) /\ window.rest # <<>> /\ Running
        /\ trace_mode' = trace_mode /\ lines' = lines
    BY <1>3 DEF ScanOn
  <2>2. trace_mode = "OFFSETS" =>
          /\ Len(lines)' \in Nat
          /\ \A k \in 1 .. Len(lines)' : lines'[k][1] \in Nat
          /\ \A k \in 1 .. Len(lines)' - 1 : lines'[k][1] < lines'[k + 1][1]
          /\ {lines'[k] : k \in {l \in 1 .. Len(lines') : lines'[l][1] >= window.offset}}
               = Entries(window)
    BY <2>1 DEF TraceInv, Shown
  <2> QED
    BY <1>1, <1>2, <2>1, <2>2
<1>4. ASSUME NEW octets \in [1 .. WordWidth -> Kind], NEW n \in 1 .. WordWidth,
             ScanBlock(octets, n)
      PROVE  TraceInv' /\ TraceShowsTokens'
  <2>1. PICK w \in Window :
          /\ w.rest = SubSeq(octets, 1, n)
          /\ Len(w.rest) = n
          /\ Matches(w, text)
          /\ w.offset = blocks * WordWidth
          /\ \/ /\ lines' = Traced(trace_mode, w.offset, octets, w.mask)
                /\ HandOut(w)
             \/ status' = "ERROR"
    BY <1>4, BlockFollows
  <2>2. trace_mode' = trace_mode
    BY <1>4 DEF ScanBlock
  <2>3. CASE status' = "ERROR"
    BY <2>3 DEF TraceInv, TraceShowsTokens, Running
  <2>4. CASE lines' = Traced(trace_mode, w.offset, octets, w.mask) /\ HandOut(w)
    <3>1. trace_mode = "OFFSETS" => lines' = Offsets(w.offset, octets, w.mask)
      BY <2>4 DEF Traced
    <3>2. w.mask \subseteq 0 .. n - 1 /\ w.offset \in Nat
      BY <2>1 DEF Matches, Window
    <3>3. trace_mode = "OFFSETS" =>
            /\ Len(lines)' \in Nat
            /\ \A k \in 1 .. Len(lines)' : lines'[k][1] \in Nat
            /\ \A k \in 1 .. Len(lines)' - 1 : lines'[k][1] < lines'[k + 1][1]
            /\ {lines'[k] : k \in {l \in 1 .. Len(lines') : lines'[l][1] >= w.offset}}
                 = Entries(w)
      <4> DEFINE due == Offsets(w.offset, octets, w.mask)
      <4>1. /\ Len(due) \in Nat
            /\ \A k \in 1 .. Len(due) : due[k][1] \in Nat
            /\ \A k \in 1 .. Len(due) - 1 : due[k][1] < due[k + 1][1]
            /\ {due[k] : k \in {l \in 1 .. Len(due) : due[l][1] >= w.offset}} = Entries(w)
        BY <2>1, <3>2, BlockTraced
      <4> HIDE DEF due
      <4>2. trace_mode = "OFFSETS" => lines' = due
        BY <3>1 DEF due
      <4> QED
        BY <4>1, <4>2
    <3>4. w.rest # <<>> /\ Len(w.rest) <= WordWidth
      BY <1>1, <2>1, EmptySeq
    <3> QED
      BY <1>2, <2>1, <2>2, <2>4, <3>3, <3>4
  <2> QED
    BY <2>1, <2>3, <2>4
<1>5. CASE ScanStops
  BY <1>5 DEF ScanStops, TraceInv, TraceShowsTokens, Running
<1>6. CASE UNCHANGED vars
  <2>1. UNCHANGED <<trace_mode, window, status, token, lines>>
    BY <1>6 DEF vars
  <2>2. /\ Shown(window.offset)' = Shown(window.offset)
        /\ Entries(window)' = Entries(window)
    BY <2>1 DEF Shown, Entries
  <2> QED
    BY <2>1, <2>2 DEF TraceInv, TraceShowsTokens, Running
<1> QED
  BY <1>3, <1>4, <1>5, <1>6 DEF Next, ScanAnyBlock

\* The offsets trace shows for a block the structural tokens that come out of
\* it, in their order, though its walk over the mask is not the scan's.
THEOREM TraceIsOfTokens == Spec => []TraceShowsTokens
  BY ScanInvHolds, TraceInvInit, TraceInvNext, PTL DEF Spec
=============================================================================
