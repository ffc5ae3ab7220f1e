----------------------------- MODULE PartsProofs ------------------------------
(***************************************************************************)
(* Proofs about the parts that keep no state of another one: the tricks on *)
(* a word of any width, the classifier on any octets, the open containers  *)
(* at any depth, the writing of any buffer; and the command line, for any  *)
(* arguments, any sizes of int and size_t that the assumption allows, and  *)
(* paths of any text and any bound of segments.                            *)
(***************************************************************************)
EXTENDS Parts, CommandLine, SharedLemmas

-----------------------------------------------------------------------------
(* The tricks on a word *)

\* Both tricks of jsp_bits.h give, for a word of any width and every state that
\* the word before it may leave, what their comments say they compute.
THEOREM TricksWorkForEveryWord == BSpec => []TricksWork
<1> DEFINE Inv == word \in Word /\ inverted \in BOOLEAN /\ on \in BOOLEAN
<1>1. BInit => Inv
  BY DEF BInit
<1>2. Inv /\ [BNext]_<<word, inverted, on>> => Inv'
  <2> SUFFICES ASSUME Inv, [BNext]_<<word, inverted, on>> PROVE Inv'
    OBVIOUS
  <2>1. ASSUME NEW w \in Word, NextWord(w) PROVE Inv'
    BY <2>1 DEF NextWord
  <2>2. CASE UNCHANGED <<word, inverted, on>>
    BY <2>2
  <2> QED
    BY <2>1, <2>2 DEF BNext
<1>3. Inv => TricksWork
  BY RunParityIs, PrefixXorIs DEF TricksWork, RunParityIsOddOfRuns, PrefixXorIsSpans
<1> QED
  BY <1>1, <1>2, <1>3, PTL DEF BSpec

-----------------------------------------------------------------------------
(* The classifier *)

\* The nibbles of an octet, and the octet again.
LEMMA Nibbles ==
  ASSUME NEW c \in Uint8
  PROVE  /\ c % 16 \in Nibble
         /\ c \div 16 \in Nibble
         /\ c = 16 * (c \div 16) + (c % 16)
  BY DEF Uint8, Nibble

\* The eight characters that have a tag.
LEMMA TagsListed ==
  Tag = {"LBRACE", "RBRACE", "LBRACKET", "RBRACKET",
         "COLON", "COMMA", "QUOTE", "BACKSLASH"}
  BY DEF Tag, Char

\* Two nibbles have a bit in common when they are both the same character's.
LEMMA TagBits ==
  ASSUME NEW l \in Nibble, NEW h \in Nibble
  PROVE  LowNibbleTable[l] \cap HighNibbleTable[h] = OwnTag(16 * h + l)
  <1>1. \A t \in Tag : /\ LowRow[t] \in Nibble
                       /\ HighRow[t] \in Nibble
                       /\ Char[t] = 16 * HighRow[t] + LowRow[t]
    BY TagsListed DEF Char, LowRow, HighRow, Nibble
  <1>2. \A a, b \in Nibble : 16 * a + b = 16 * h + l <=> a = h /\ b = l
    BY DEF Nibble
  <1>3. \A t \in Tag : LowRow[t] = l /\ HighRow[t] = h <=> Char[t] = 16 * h + l
    BY <1>1, <1>2
  <1>. QED  BY <1>3 DEF LowNibbleTable, HighNibbleTable, OwnTag

\* NEON's two lookups give an octet its own tag or none.
LEMMA Tag16IsOwn ==
  ASSUME NEW c \in Uint8
  PROVE  Tag16(c) = OwnTag(c)
  BY Nibbles, TagBits DEF Tag16

-----------------------------------------------------------------------------
(* The 16-bit lanes of AVX2 *)

\* The neighbour's bits are all above an octet's own high nibble.
LEMMA HighNibbleIsOwn ==
  ASSUME NEW p \in Block, NEW x \in Place
  PROVE  HighNibble(p, x) = p[x] \div 16
  <1>1. CASE x % 2 = 0
    <2>1. x - (x % 2) = x /\ x + 1 \in Place
      BY <1>1 DEF Place
    <2>2. \A a, b \in Uint8 :
            (((a + 256 * b) \div 16) % 256) % 16 = a \div 16
      BY DEF Uint8
    <2>. QED  BY <1>1, <2>1, <2>2 DEF HighNibble, ShiftedPair, Block
  <1>2. CASE x % 2 = 1
    <2>1. x - (x % 2) \in Place /\ x - (x % 2) + 1 = x
      BY <1>2 DEF Place
    <2>2. \A a, b \in Uint8 :
            (((a + 256 * b) \div 16) \div 256) % 16 = b \div 16
      BY DEF Uint8
    <2>. QED  BY <1>2, <2>1, <2>2 DEF HighNibble, ShiftedPair, Block
  <1>. QED  BY <1>1, <1>2 DEF Place

\* So do AVX2's, whatever the shift brings in from the octet next to it.
LEMMA Tag32IsOwn ==
  ASSUME NEW p \in Block, NEW x \in Place
  PROVE  Tag32(p, x) = OwnTag(p[x])
  <1>1. p[x] \in Uint8
    BY DEF Block
  <1>2. \A n \in Nibble : ~(n >= 128) /\ n % 16 = n
    BY DEF Nibble
  <1>3. ASSUME NEW table, NEW n \in Nibble
        PROVE  Shuffled(table, n) = table[n]
    BY <1>2 DEF Shuffled
  <1>4. Tag32(p, x) = Shuffled(LowNibbleTable, p[x] % 16)
                        \cap Shuffled(HighNibbleTable, p[x] \div 16)
    BY HighNibbleIsOwn DEF Tag32
  <1>5. Tag32(p, x) = Tag16(p[x])
    BY <1>1, <1>3, <1>4, Nibbles DEF Tag16
  <1>. QED  BY <1>1, <1>5, Tag16IsOwn

-----------------------------------------------------------------------------
(* movemask16 *)

\* What three rounds of adding neighbours leave of eight octets.
Total(a, b, c, d, e, f, g, h) ==
  OctetSum(OctetSum(OctetSum(a, b), OctetSum(c, d)),
           OctetSum(OctetSum(e, f), OctetSum(g, h)))

\* Eight lanes of weights: each is there or not.
Weighted(a, b, c, d, e, f, g, h) ==
  /\ a \in {0, 1} /\ b \in {0, 2} /\ c \in {0, 4} /\ d \in {0, 8}
  /\ e \in {0, 16} /\ f \in {0, 32} /\ g \in {0, 64} /\ h \in {0, 128}

\* An octet that adds up distinct weights has just their bits.
LEMMA WeightsAddUp ==
  ASSUME NEW a, NEW b, NEW c, NEW d, NEW e, NEW f, NEW g, NEW h,
         Weighted(a, b, c, d, e, f, g, h)
  PROVE  LET total == Total(a, b, c, d, e, f, g, h)
         IN /\ (total \div 1) % 2 = 1 <=> a # 0
            /\ (total \div 2) % 2 = 1 <=> b # 0
            /\ (total \div 4) % 2 = 1 <=> c # 0
            /\ (total \div 8) % 2 = 1 <=> d # 0
            /\ (total \div 16) % 2 = 1 <=> e # 0
            /\ (total \div 32) % 2 = 1 <=> f # 0
            /\ (total \div 64) % 2 = 1 <=> g # 0
            /\ (total \div 128) % 2 = 1 <=> h # 0
  BY DEF Total, OctetSum, Weighted

\* A lane of the pairwise addition is the sum of its two.
LEMMA PairedTwo ==
  ASSUME NEW u, NEW k \in 0 .. 7
  PROVE  Paired(u)[k] = OctetSum(u[2 * k], u[2 * k + 1])
  <1>1. k \in Lane16 /\ k % 8 = k
    BY DEF Lane16
  <1>. QED  BY <1>1 DEF Paired

\* The two octets that movemask16 puts together.
LEMMA PairedThrice ==
  ASSUME NEW w
  PROVE  LET sums == Paired(Paired(Paired(w)))
         IN /\ sums[0] = Total(w[0], w[1], w[2], w[3], w[4], w[5], w[6], w[7])
            /\ sums[1] = Total(w[8], w[9], w[10], w[11], w[12], w[13], w[14], w[15])
  <1>1. \A u : /\ Paired(u)[0] = OctetSum(u[0], u[1])
               /\ Paired(u)[1] = OctetSum(u[2], u[3])
               /\ Paired(u)[2] = OctetSum(u[4], u[5])
               /\ Paired(u)[3] = OctetSum(u[6], u[7])
               /\ Paired(u)[4] = OctetSum(u[8], u[9])
               /\ Paired(u)[5] = OctetSum(u[10], u[11])
               /\ Paired(u)[6] = OctetSum(u[12], u[13])
               /\ Paired(u)[7] = OctetSum(u[14], u[15])
    BY PairedTwo
  <1>. QED  BY <1>1 DEF Total

\* NEON's movemask has a bit where the lane is all ones.
LEMMA MovemaskIsHits ==
  ASSUME NEW u \in [Lane16 -> {0, 255}]
  PROVE  Movemask16(u) = {x \in Lane16 : u[x] = 255}
  <1>. DEFINE w == [x \in Lane16 |-> IF u[x] = 255 THEN BitWeight[x] ELSE 0]
              sums == Paired(Paired(Paired(w)))
              bit(x) == ((IF x < 8 THEN sums[0] ELSE sums[1]) \div BitWeight[x]) % 2 = 1
  <1>1. /\ BitWeight[0] = 1 /\ BitWeight[8] = 1
        /\ BitWeight[1] = 2 /\ BitWeight[9] = 2
        /\ BitWeight[2] = 4 /\ BitWeight[10] = 4
        /\ BitWeight[3] = 8 /\ BitWeight[11] = 8
        /\ BitWeight[4] = 16 /\ BitWeight[12] = 16
        /\ BitWeight[5] = 32 /\ BitWeight[13] = 32
        /\ BitWeight[6] = 64 /\ BitWeight[14] = 64
        /\ BitWeight[7] = 128 /\ BitWeight[15] = 128
    BY DEF BitWeight, Lane16
  <1>2. \A x \in Lane16 : w[x] = IF u[x] = 255 THEN BitWeight[x] ELSE 0
    OBVIOUS
  <1>. HIDE DEF w
  <1>3. /\ bit(0) <=> u[0] = 255
        /\ bit(1) <=> u[1] = 255
        /\ bit(2) <=> u[2] = 255
        /\ bit(3) <=> u[3] = 255
        /\ bit(4) <=> u[4] = 255
        /\ bit(5) <=> u[5] = 255
        /\ bit(6) <=> u[6] = 255
        /\ bit(7) <=> u[7] = 255
    <2>1. Weighted(w[0], w[1], w[2], w[3], w[4], w[5], w[6], w[7])
      BY <1>1, <1>2 DEF Lane16, Weighted
    <2>2. \A x \in 0 .. 7 : w[x] # 0 <=> u[x] = 255
      BY <1>1, <1>2 DEF Lane16
    <2>3. sums[0] = Total(w[0], w[1], w[2], w[3], w[4], w[5], w[6], w[7])
      BY PairedThrice
    <2>. HIDE DEF sums
    <2>4. /\ (sums[0] \div 1) % 2 = 1 <=> w[0] # 0
          /\ (sums[0] \div 2) % 2 = 1 <=> w[1] # 0
          /\ (sums[0] \div 4) % 2 = 1 <=> w[2] # 0
          /\ (sums[0] \div 8) % 2 = 1 <=> w[3] # 0
          /\ (sums[0] \div 16) % 2 = 1 <=> w[4] # 0
          /\ (sums[0] \div 32) % 2 = 1 <=> w[5] # 0
          /\ (sums[0] \div 64) % 2 = 1 <=> w[6] # 0
          /\ (sums[0] \div 128) % 2 = 1 <=> w[7] # 0
      BY <2>1, <2>3, WeightsAddUp
    <2>. QED  BY <1>1, <2>2, <2>4
  <1>4. /\ bit(8) <=> u[8] = 255
        /\ bit(9) <=> u[9] = 255
        /\ bit(10) <=> u[10] = 255
        /\ bit(11) <=> u[11] = 255
        /\ bit(12) <=> u[12] = 255
        /\ bit(13) <=> u[13] = 255
        /\ bit(14) <=> u[14] = 255
        /\ bit(15) <=> u[15] = 255
    <2>1. Weighted(w[8], w[9], w[10], w[11], w[12], w[13], w[14], w[15])
      BY <1>1, <1>2 DEF Lane16, Weighted
    <2>2. \A x \in 8 .. 15 : w[x] # 0 <=> u[x] = 255
      BY <1>1, <1>2 DEF Lane16
    <2>3. sums[1] = Total(w[8], w[9], w[10], w[11], w[12], w[13], w[14], w[15])
      BY PairedThrice
    <2>. HIDE DEF sums
    <2>4. /\ (sums[1] \div 1) % 2 = 1 <=> w[8] # 0
          /\ (sums[1] \div 2) % 2 = 1 <=> w[9] # 0
          /\ (sums[1] \div 4) % 2 = 1 <=> w[10] # 0
          /\ (sums[1] \div 8) % 2 = 1 <=> w[11] # 0
          /\ (sums[1] \div 16) % 2 = 1 <=> w[12] # 0
          /\ (sums[1] \div 32) % 2 = 1 <=> w[13] # 0
          /\ (sums[1] \div 64) % 2 = 1 <=> w[14] # 0
          /\ (sums[1] \div 128) % 2 = 1 <=> w[15] # 0
      BY <2>1, <2>3, WeightsAddUp
    <2>. QED  BY <1>1, <2>2, <2>4
  <1>5. \A x \in Lane16 : bit(x) <=> u[x] = 255
    <2>. HIDE DEF bit
    <2>. QED  BY <1>3, <1>4 DEF Lane16
  <1>6. Movemask16(u) = {x \in Lane16 : bit(x)}
    BY DEF Movemask16, BitsOf, w
  <1>. QED  BY <1>5, <1>6

-----------------------------------------------------------------------------
(* The backends *)

\* A character's tag and its kind say the same.
LEMMA TagsAndKinds ==
  ASSUME NEW c \in Uint8
  PROVE  /\ OwnTag(c) \cap StructuralBits # {} <=> KindOf(c) \in {"quote", "bracket"}
         /\ OwnTag(c) \cap {"QUOTE"} # {} <=> KindOf(c) = "quote"
         /\ OwnTag(c) \cap {"BACKSLASH"} # {} <=> KindOf(c) = "backslash"
         /\ IsStructural(c) <=> KindOf(c) \in {"quote", "bracket"}
  <1>1. StructuralBits = {"LBRACE", "RBRACE", "LBRACKET", "RBRACKET",
                          "COLON", "COMMA", "QUOTE"}
    BY TagsListed DEF StructuralBits
  <1>2. IsStructural(c) <=> c \in {123, 125, 91, 93, 58, 44, 34}
    BY <1>1 DEF IsStructural, Char
  <1>3. OwnTag(c) \cap StructuralBits # {} <=> IsStructural(c)
    BY DEF OwnTag, IsStructural, StructuralBits
  <1>4. "QUOTE" \in OwnTag(c) <=> c = 34
    BY TagsListed DEF OwnTag, Char
  <1>5. "BACKSLASH" \in OwnTag(c) <=> c = 92
    BY TagsListed DEF OwnTag, Char
  <1>6. KindOf(c) \in {"quote", "bracket"} <=> c \in {123, 125, 91, 93, 58, 44, 34}
    BY DEF KindOf
  <1>7. KindOf(c) = "quote" <=> c = 34
    BY DEF KindOf
  <1>8. KindOf(c) = "backslash" <=> c = 92
    BY DEF KindOf
  <1>. QED  BY <1>2, <1>3, <1>4, <1>5, <1>6, <1>7, <1>8

\* The scalar backend.
THEOREM ScalarIsKinds ==
  ASSUME NEW p \in Block
  PROVE  ScalarMasks(p) = KindMasks(p)
  <1>1. \A x \in Place : p[x] \in Uint8
    BY DEF Block
  <1>2. \A c \in Uint8 : /\ c = Char["QUOTE"] <=> KindOf(c) = "quote"
                         /\ c = Char["BACKSLASH"] <=> KindOf(c) = "backslash"
    BY DEF Char, KindOf
  <1>. QED  BY <1>1, <1>2, TagsAndKinds DEF ScalarMasks, KindMasks, OfKind

\* Three sets of bits, one for each mask: octets' tags say the same as their kinds.
LEMMA TagSets ==
  ASSUME NEW p \in Block
  PROVE  /\ {x \in Place : OwnTag(p[x]) \cap StructuralBits # {}} = OfKind(p, {"quote", "bracket"})
         /\ {x \in Place : OwnTag(p[x]) \cap {"QUOTE"} # {}} = OfKind(p, {"quote"})
         /\ {x \in Place : OwnTag(p[x]) \cap {"BACKSLASH"} # {}} = OfKind(p, {"backslash"})
  <1>1. \A x \in Place : p[x] \in Uint8
    BY DEF Block
  <1>2. {x \in Place : OwnTag(p[x]) \cap StructuralBits # {}} = OfKind(p, {"quote", "bracket"})
    BY <1>1, TagsAndKinds DEF OfKind
  <1>3. {x \in Place : OwnTag(p[x]) \cap {"QUOTE"} # {}} = OfKind(p, {"quote"})
    BY <1>1, TagsAndKinds DEF OfKind
  <1>4. {x \in Place : OwnTag(p[x]) \cap {"BACKSLASH"} # {}} = OfKind(p, {"backslash"})
    BY <1>1, TagsAndKinds DEF OfKind
  <1>. QED  BY <1>2, <1>3, <1>4

\* The AVX2 backend: no lane takes anything from its neighbour.
THEOREM Avx2IsKinds ==
  ASSUME NEW p \in Block
  PROVE  Avx2Masks(p) = KindMasks(p)
  <1>1. \A x \in Place : p[x] \in Uint8 /\ Tag32(p, x) = OwnTag(p[x])
    BY Tag32IsOwn DEF Block
  <1>2. ASSUME NEW bits
        PROVE  Avx2Mask(p, bits) = {x \in Place : OwnTag(p[x]) \cap bits # {}}
    BY <1>1 DEF Avx2Mask, Nonzero
  <1>. QED  BY <1>2, TagSets DEF Avx2Masks, KindMasks

\* The NEON backend: no weight carries into another lane's bit.
THEOREM NeonIsKinds ==
  ASSUME NEW p \in Block
  PROVE  NeonMasks(p) = KindMasks(p)
  <1>1. \A x \in Place : p[x] \in Uint8
    BY DEF Block
  <1>2. ASSUME NEW bits
        PROVE  NeonMask(p, bits) = {x \in Place : OwnTag(p[x]) \cap bits # {}}
    <2>. DEFINE hit(lane) ==
                  [k \in Lane16 |-> Nonzero(Tag16(p[16 * lane + k]) \cap bits)]
                quarter(lane) ==
                  {k \in Lane16 : OwnTag(p[16 * lane + k]) \cap bits # {}}
    <2>1. ASSUME NEW lane \in 0 .. 3
          PROVE  Movemask16(hit(lane)) = quarter(lane)
      <3>1. hit(lane) \in [Lane16 -> {0, 255}]
        BY DEF Nonzero
      <3>2. \A k \in Lane16 : 16 * lane + k \in Place
        BY DEF Lane16, Place
      <3>3. \A k \in Lane16 :
              hit(lane)[k] = 255 <=> OwnTag(p[16 * lane + k]) \cap bits # {}
        BY <1>1, <3>2, Tag16IsOwn DEF Nonzero
      <3>. HIDE DEF hit
      <3>. QED  BY <3>1, <3>3, MovemaskIsHits
    <2>2. NeonMask(p, bits) =
            UNION {{16 * lane + k : k \in quarter(lane)} : lane \in 0 .. 3}
      <3>1. NeonMask(p, bits) =
              UNION {{16 * lane + k : k \in Movemask16(hit(lane))} : lane \in 0 .. 3}
        BY DEF NeonMask
      <3>. HIDE DEF hit, quarter
      <3>. QED  BY <2>1, <3>1
    <2>3. \A x \in Place : /\ x \div 16 \in 0 .. 3
                          /\ x % 16 \in Lane16
                          /\ x = 16 * (x \div 16) + (x % 16)
      BY DEF Place, Lane16
    <2>4. \A lane \in 0 .. 3, k \in Lane16 : 16 * lane + k \in Place
      BY DEF Lane16, Place
    <2>. QED  BY <2>2, <2>3, <2>4
  <1>. QED  BY <1>2, TagSets DEF NeonMasks, KindMasks

-----------------------------------------------------------------------------
(* The specification *)

CTypeOK == backend \in Backend /\ block \in Block

\* The build never changes, and a block holds octets.
THEOREM CTyped == CSpec => []CTypeOK
  <1>1. CInit => CTypeOK
    BY FillersAssumption DEF CInit, CTypeOK, Throughout, Block
  <1>2. CTypeOK /\ [CNext]_cvars => CTypeOK'
    BY PlacesAssumption DEF CTypeOK, CNext, ReadOctetAt, cvars, Block
  <1>. QED  BY <1>1, <1>2, PTL DEF CSpec

\* Every build finds the masks that the scan asks for, in every block.
THEOREM EveryBackendFindsKinds == CSpec => []MasksAreKinds
  <1>1. CTypeOK => MasksAreKinds
    BY ScalarIsKinds, NeonIsKinds, Avx2IsKinds DEF CTypeOK, MasksAreKinds, Masks64, Backend
  <1>. QED  BY <1>1, CTyped, PTL

\* The nibble tables recover a character's own bit, and none from other octets.
THEOREM TablesFindOwnTag == CSpec => []TagsAreOwn
  <1>1. CTypeOK => TagsAreOwn
    BY Tag16IsOwn DEF CTypeOK, TagsAreOwn, Block
  <1>. QED  BY <1>1, CTyped, PTL

-----------------------------------------------------------------------------
(* The open containers *)

\* A character that is refused leaves the state alone; the others push, pop or
\* change nothing, within the word.
LEMMA StepType ==
  ASSUME NEW s \in BitStack, NEW c \in Structural
  PROVE  Step(s, c) \in BitStack /\ Verdict(s, c) \in Verdicts
<1> USE DepthAssumption
<1>1. CASE Verdict(s, c) # "OK"
  BY <1>1 DEF Step, Verdict, Verdicts
<1>2. CASE Verdict(s, c) = "OK" /\ c \in Opening
  <2>1. ~Full(s) /\ Step(s, c) = Push(s, c = "lbrace")
    BY <1>2 DEF Step, Verdict, Opening, Closing
  <2>2. s.depth + 1 \in 0 .. JSP_MAX_DEPTH /\ s.depth \in 0 .. JSP_MAX_DEPTH - 1
    <3>1. s.depth \in 0 .. JSP_MAX_DEPTH /\ s.depth # JSP_MAX_DEPTH
      BY <2>1 DEF BitStack, Full
    <3> QED
      BY <3>1
  <2>3. Push(s, c = "lbrace") \in BitStack
    BY <2>2 DEF BitStack, Push
  <2> QED
    BY <1>2, <2>1, <2>3 DEF Verdicts
<1>3. CASE Verdict(s, c) = "OK" /\ c \in Closing
  <2>1. ~Empty(s) /\ Step(s, c) = Pop(s)
    BY <1>3 DEF Step, Verdict, Opening, Closing
  <2>2. s.depth - 1 \in 0 .. JSP_MAX_DEPTH
    BY <2>1 DEF BitStack, Empty
  <2>3. Pop(s) \in BitStack
    BY <2>2 DEF BitStack, Pop
  <2> QED
    BY <1>3, <2>1, <2>3 DEF Verdicts
<1>4. CASE Verdict(s, c) = "OK" /\ c \notin Opening /\ c \notin Closing
  BY <1>4 DEF Step, Verdicts
<1> QED
  BY <1>1, <1>2, <1>3, <1>4

\* The depth never leaves the word, for any characters in any order.
THEOREM NestingTypes == NSpec => []NestingTypeOK
<1>1. NInit => NestingTypeOK
  BY DepthAssumption
     DEF NInit, NestingTypeOK, EmptyStack, BitStack, Verdicts
<1>2. NestingTypeOK /\ [NNext]_nvars => NestingTypeOK'
  BY StepType DEF NestingTypeOK, NNext, NStep, nvars
<1> QED
  BY <1>1, <1>2, PTL DEF NSpec

-----------------------------------------------------------------------------

\* The container a bit stands for.
KindAt(s, x) == IF At(s, x - 1) THEN "object" ELSE "array"

\* A push adds its kind on top and disturbs none below.
LEMMA PushKinds ==
  ASSUME NEW s \in BitStack, NEW b \in BOOLEAN, ~Full(s)
  PROVE  /\ Push(s, b).depth = s.depth + 1
         /\ KindAt(Push(s, b), s.depth + 1) = IF b THEN "object" ELSE "array"
         /\ \A x \in 1 .. s.depth : KindAt(Push(s, b), x) = KindAt(s, x)
<1>1. s.depth \in Nat /\ s.bits \subseteq Int
  BY DepthAssumption DEF BitStack
<1>2. /\ Push(s, b).depth = s.depth + 1
      /\ Push(s, b).bits = IF b THEN s.bits \cup {s.depth} ELSE s.bits \ {s.depth}
  BY DEF Push
<1>3. (s.depth + 1) - 1 = s.depth
  BY <1>1
<1>4. \A x \in 1 .. s.depth : x - 1 # s.depth
  BY <1>1
<1>5. s.depth \in Push(s, b).bits <=> b
  BY <1>2
<1>6. \A x \in 1 .. s.depth : (x - 1 \in Push(s, b).bits) = (x - 1 \in s.bits)
  BY <1>2, <1>4
<1> QED
  BY <1>2, <1>3, <1>5, <1>6 DEF KindAt, At

\* A pop takes the top away and disturbs none below.
LEMMA PopKinds ==
  ASSUME NEW s \in BitStack, ~Empty(s)
  PROVE  /\ Pop(s).depth = s.depth - 1
         /\ \A x \in 1 .. s.depth - 1 : KindAt(Pop(s), x) = KindAt(s, x)
BY DEF BitStack, Pop, KindAt, At

\* The stack of containers, as the refinement names it.
LEMMA OpenContainersIs ==
  ASSUME nesting \in BitStack
  PROVE  /\ OpenContainers \in Seq({"object", "array"})
         /\ OpenContainers = [x \in 1 .. nesting.depth |-> KindAt(nesting, x)]
         /\ Len(OpenContainers) = nesting.depth
         /\ OpenContainers = <<>> <=> Empty(nesting)
<1>1. nesting.depth \in Nat
  BY DepthAssumption DEF BitStack
<1>2. OpenContainers = [x \in 1 .. nesting.depth |-> KindAt(nesting, x)]
  BY DEF OpenContainers, KindAt
<1>3. OpenContainers \in Seq({"object", "array"})
      /\ Len(OpenContainers) = nesting.depth
  BY <1>1, <1>2 DEF KindAt
<1> QED
  BY <1>1, <1>2, <1>3 DEF Empty

\* Appending, by its elements.
LEMMA AppendIs ==
  ASSUME NEW S, NEW s \in Seq(S), NEW e \in S, NEW t \in Seq(S),
         Len(t) = Len(s) + 1,
         \A x \in 1 .. Len(s) : t[x] = s[x],
         t[Len(s) + 1] = e
  PROVE  t = Append(s, e)
<1>1. /\ Append(s, e) \in Seq(S)
      /\ Len(Append(s, e)) = Len(s) + 1
      /\ \A x \in 1 .. Len(s) : Append(s, e)[x] = s[x]
      /\ Append(s, e)[Len(s) + 1] = e
  BY AppendProperties
<1>2. Len(s) \in Nat
  BY LenProperties
<1>3. \A x \in 1 .. Len(t) : t[x] = Append(s, e)[x]
  <2> SUFFICES ASSUME NEW x \in 1 .. Len(t) PROVE t[x] = Append(s, e)[x]
    OBVIOUS
  <2>1. x \in 1 .. Len(s) \/ x = Len(s) + 1
    BY <1>2
  <2> QED
    BY <1>1, <2>1
<1>4. Len(t) = Len(Append(s, e))
  BY <1>1
<1> QED
  BY <1>1, <1>3, <1>4, SeqEqual

\* Every step of the walk is a step of the stack of containers.
LEMMA StepRefines ==
  ASSUME NestingTypeOK, NestingTypeOK', NEW c \in Structural, NStep(c)
  PROVE  Stack!CNext
<1>0. PICK kind \in {"object", "array"} :
        kind = "object" <=> c \in {"lbrace", "rbrace"}
  OBVIOUS
<1>1. nesting \in BitStack /\ nesting' \in BitStack /\ nesting.depth \in Nat
  BY DepthAssumption DEF NestingTypeOK, BitStack
<1>2. /\ OpenContainers \in Seq({"object", "array"})
      /\ OpenContainers = [x \in 1 .. nesting.depth |-> KindAt(nesting, x)]
      /\ Len(OpenContainers) = nesting.depth
      /\ OpenContainers = <<>> <=> Empty(nesting)
  BY <1>1, OpenContainersIs
<1>3. OpenContainers' = [x \in 1 .. nesting'.depth |-> KindAt(nesting', x)]
  BY DEF OpenContainers, KindAt, At
<1>4. kind \in Stack!Kind /\ last' = c
  BY <1>0 DEF Stack!Kind, NStep
<1>8. /\ c \in Opening => c = Stack!Opener[kind]
      /\ c \in Closing => c = Stack!Closer[kind]
  BY <1>0 DEF Opening, Closing, Stack!Opener, Stack!Closer
<1>5. CASE c \in Opening
  <2>1. CASE Full(nesting)
    <3>1. result' = "OVERFLOW" /\ nesting' = nesting
      BY <1>5, <2>1 DEF NStep, Verdict, Step, Opening, Closing
    <3>2. Stack!TooDeep
      BY <1>2, <1>3, <1>4, <1>5, <2>1, <3>1 DEF Stack!TooDeep, Full, Opening
    <3> QED
      BY <3>2 DEF Stack!CNext
  <2>2. CASE ~Full(nesting)
    <3>1. result' = "OK" /\ nesting' = Push(nesting, c = "lbrace")
      BY <1>5, <2>2 DEF NStep, Verdict, Step, Opening, Closing
    <3>2. /\ nesting'.depth = nesting.depth + 1
          /\ KindAt(nesting', nesting.depth + 1) = kind
          /\ \A x \in 1 .. nesting.depth : KindAt(nesting', x) = KindAt(nesting, x)
      <4>1. (c = "lbrace") \in BOOLEAN /\ (kind = IF c = "lbrace" THEN "object" ELSE "array")
        BY <1>0, <1>5 DEF Opening
      <4> QED
        BY <1>1, <2>2, <3>1, <4>1, PushKinds
    <3>3. OpenContainers' = Append(OpenContainers, kind)
      <4>1. nesting'.depth \in Nat
        BY <1>1, <3>2
      <4>2. OpenContainers' \in Seq({"object", "array"})
            /\ Len(OpenContainers') = nesting'.depth
        <5>1. \A x \in 1 .. nesting'.depth :
                 KindAt(nesting', x) \in {"object", "array"}
          BY DEF KindAt
        <5> QED
          BY <1>3, <4>1, <5>1
      <4>3. \A x \in 1 .. nesting.depth : OpenContainers'[x] = OpenContainers[x]
        BY <1>1, <1>2, <1>3, <3>2, <4>1
      <4>4. OpenContainers'[nesting.depth + 1] = kind
        BY <1>1, <1>3, <3>2, <4>1
      <4>5. /\ OpenContainers \in Seq(Stack!Kind) /\ OpenContainers' \in Seq(Stack!Kind)
            /\ Len(OpenContainers') = Len(OpenContainers) + 1
            /\ \A x \in 1 .. Len(OpenContainers) : OpenContainers'[x] = OpenContainers[x]
            /\ OpenContainers'[Len(OpenContainers) + 1] = kind
        BY <1>2, <3>2, <4>2, <4>3, <4>4 DEF Stack!Kind
      <4> PICK s, u : s = OpenContainers /\ u = OpenContainers'
        OBVIOUS
      <4>6. /\ s \in Seq(Stack!Kind) /\ u \in Seq(Stack!Kind) /\ Len(u) = Len(s) + 1
            /\ \A x \in 1 .. Len(s) : u[x] = s[x]
            /\ u[Len(s) + 1] = kind
        BY <4>5
      <4>7. u = Append(s, kind)
        BY <1>4, <4>6, AppendIs
      <4> QED
        BY <4>7
    <3>4. Len(OpenContainers) < JSP_MAX_DEPTH
      BY <1>1, <1>2, <2>2, DepthAssumption DEF Full, BitStack
    <3>5. Stack!Open(kind)
      BY <1>4, <1>5, <1>8, <3>1, <3>3, <3>4 DEF Stack!Open
    <3> QED
      BY <1>4, <3>5 DEF Stack!CNext
  <2> QED
    BY <2>1, <2>2
<1>6. CASE c \in Closing
  <2>1. CASE Empty(nesting)
    <3>1. result' = "UNBALANCED" /\ nesting' = nesting
      BY <1>6, <2>1 DEF NStep, Verdict, Step, Opening, Closing
    <3>2. Stack!NothingToClose
      BY <1>2, <1>3, <1>4, <1>6, <2>1, <3>1 DEF Stack!NothingToClose, Closing
    <3> QED
      BY <3>2 DEF Stack!CNext
  <2>2. CASE ~Empty(nesting)
    <3>1. /\ nesting.depth \in 1 .. nesting.depth
          /\ OpenContainers[nesting.depth] =
               IF Top(nesting) THEN "object" ELSE "array"
      BY <1>1, <1>2, <2>2 DEF Empty, KindAt, At, Top
    <3>2. kind = IF c = "rbrace" THEN "object" ELSE "array"
      BY <1>0, <1>6 DEF Closing
    <3>3. CASE Top(nesting) # (c = "rbrace")
      <4>1. result' = "MISMATCH" /\ nesting' = nesting
        BY <1>6, <2>2, <3>3 DEF NStep, Verdict, Step, Opening, Closing
      <4>2. OpenContainers[Len(OpenContainers)] # kind
        <5>1. Top(nesting) \in BOOLEAN
          BY DEF Top
        <5>2. (Top(nesting) /\ c # "rbrace") \/ (~Top(nesting) /\ c = "rbrace")
          BY <3>3, <5>1
        <5> QED
          BY <1>2, <3>1, <3>2, <5>2
      <4>3. Stack!WrongClose(kind)
        BY <1>2, <1>3, <1>4, <1>6, <1>8, <2>2, <4>1, <4>2 DEF Stack!WrongClose
      <4> QED
        BY <1>4, <4>3 DEF Stack!CNext
    <3>4. CASE Top(nesting) = (c = "rbrace")
      <4>1. result' = "OK" /\ nesting' = Pop(nesting)
        BY <1>6, <2>2, <3>4 DEF NStep, Verdict, Step, Opening, Closing
      <4>2. OpenContainers[Len(OpenContainers)] = kind
        BY <1>2, <3>1, <3>2, <3>4
      <4>3. OpenContainers' = [x \in 1 .. nesting.depth - 1 |-> OpenContainers[x]]
        BY <1>1, <1>2, <1>3, <2>2, <4>1, PopKinds
      <4>4. Stack!Close(kind)
        BY <1>2, <1>4, <1>6, <1>8, <2>2, <4>1, <4>2, <4>3 DEF Stack!Close
      <4> QED
        BY <1>4, <4>4 DEF Stack!CNext
    <3> QED
      BY <3>3, <3>4
  <2> QED
    BY <2>1, <2>2
<1>7. CASE c \notin Opening /\ c \notin Closing
  <2>1. result' = "OK" /\ nesting' = nesting
    BY <1>7 DEF NStep, Verdict, Step
  <2>2. Stack!Other
    BY <1>2, <1>3, <1>4, <1>7, <2>1 DEF Stack!Other, Structural, Quote
  <2> QED
    BY <2>2 DEF Stack!CNext
<1> QED
  BY <1>5, <1>6, <1>7

\* One bit per container and a depth implement a stack of containers.
THEOREM NestingImplementsStack == NSpec => ImplementsStack
<1>1. NInit => Stack!CInit
  BY DEF NInit, EmptyStack, OpenContainers, Stack!CInit
<1>2. NestingTypeOK /\ NestingTypeOK' /\ [NNext]_nvars
        => [Stack!CNext]_(Stack!cvars)
  <2>1. ASSUME NestingTypeOK, NestingTypeOK', NNext PROVE Stack!CNext
    BY <2>1, StepRefines DEF NNext
  <2>2. UNCHANGED nvars => UNCHANGED Stack!cvars
    BY DEF nvars, Stack!cvars, OpenContainers, At
  <2> QED
    BY <2>1, <2>2
<1> QED
  BY <1>1, <1>2, NestingTypes, PTL DEF NSpec, ImplementsStack, Stack!CSpec

\* The outermost container's kind holds as long as it is open.
THEOREM OutermostKindStays == NSpec => OutermostStays
<1>1. NestingTypeOK /\ NestingTypeOK' /\ [NNext]_nvars
        => [nesting.depth > 0 /\ nesting'.depth > 0
              => OutermostIsArray(nesting') = OutermostIsArray(nesting)]_nvars
  <2> SUFFICES ASSUME NestingTypeOK, NEW c \in Structural, NStep(c),
                      nesting.depth > 0, nesting'.depth > 0
               PROVE  OutermostIsArray(nesting') = OutermostIsArray(nesting)
    BY DEF NNext
  <2>1. nesting.depth \in Nat /\ nesting \in BitStack
    BY DepthAssumption DEF NestingTypeOK, BitStack
  <2>2. nesting' = nesting \/ nesting'.bits = nesting.bits
        \/ nesting'.bits = nesting.bits \cup {nesting.depth}
        \/ nesting'.bits = nesting.bits \ {nesting.depth}
    BY <2>1 DEF NStep, Step, Push, Pop, BitStack
  <2>3. 0 \in nesting'.bits <=> 0 \in nesting.bits
    BY <2>1, <2>2
  <2> QED
    BY <2>1, <2>3 DEF OutermostIsArray, Empty, At
<1> QED
  BY <1>1, NestingTypes, PTL DEF NSpec, OutermostStays

-----------------------------------------------------------------------------
(* The writing of a buffer *)

\* The code's count is right: exactly the buffer's first written octets are
\* out, none are left when 0 is returned, and some are when -1 is.
WInv ==
  /\ buf \in Seq(AnyOctet)
  /\ written \in 0 .. Len(buf)
  /\ sent = SubSeq(buf, 1, written)
  /\ returned \in {"pending", "0", "-1"}
  /\ returned = "0" => written = Len(buf)
  /\ returned = "-1" => written < Len(buf)

\* Two neighbouring parts of a sequence, one after the other.
LEMMA PartsJoin ==
  ASSUME NEW S, NEW s \in Seq(S), NEW m \in 0 .. Len(s), NEW n \in 0 .. Len(s) - m
  PROVE  SubSeq(s, 1, m) \o SubSeq(SubSeq(s, m + 1, Len(s)), 1, n)
           = SubSeq(s, 1, m + n)
  <1>1. SubSeq(SubSeq(s, m + 1, Len(s)), 1, n) = SubSeq(s, m + 1, m + n)
    OBVIOUS
  <1>. QED  BY <1>1

\* Nothing went out before the first write.
LEMMA WInitInv == WInit => WInv
  <1>. SUFFICES ASSUME WInit  PROVE WInv
    OBVIOUS
  <1>1. buf \in Seq(AnyOctet)
    <2>1. PICK n \in 0 .. MaxLen : buf \in [1 .. n -> AnyOctet]
      BY DEF WInit, BoundedSeq, SeqOf
    <2>. QED  BY <2>1, MaxLenAssumption
  <1>2. sent = SubSeq(buf, 1, 0)
    BY <1>1 DEF WInit
  <1>. QED  BY <1>1, <1>2 DEF WInit, WInv

\* What write(2) takes is the buffer's next, whatever it answers.
LEMMA WNextInv == WInv /\ [WNext]_wvars => WInv'
  <1>. SUFFICES ASSUME WInv, [WNext]_wvars  PROVE WInv'
    OBVIOUS
  <1>. USE DEF WInv
  <1>1. CASE \E n \in 0 .. MaxLen : WriteSome(n)
    <2>1. PICK n \in 0 .. MaxLen : WriteSome(n)
      BY <1>1
    <2>2. n \in 0 .. Len(buf) - written
      BY <2>1 DEF WriteSome, Offered, More
    <2>3. sent' = SubSeq(buf, 1, written + n)
      BY <2>1, <2>2, PartsJoin DEF WriteSome, Offered
    <2>. QED  BY <2>1, <2>2, <2>3 DEF WriteSome
  <1>2. CASE WriteInterrupted
    BY <1>2 DEF WriteInterrupted, wvars
  <1>3. CASE WriteFails
    BY <1>3 DEF WriteFails, More
  <1>4. CASE ReturnResult
    BY <1>4 DEF ReturnResult, More
  <1>5. CASE UNCHANGED wvars
    BY <1>5 DEF wvars
  <1>. QED  BY <1>1, <1>2, <1>3, <1>4, <1>5 DEF WNext

\* The invariant says what the caller of write_all relies on.
LEMMA WInvImplies == WInv => AllOrFailure
  <1>. SUFFICES ASSUME WInv  PROVE AllOrFailure
    OBVIOUS
  <1>1. Len(sent) = written
    BY DEF WInv
  <1>2. IsPrefix(sent, buf)
    BY <1>1 DEF WInv, IsPrefix
  <1>3. returned = "0" => sent = buf
    BY DEF WInv
  <1>. QED  BY <1>1, <1>2, <1>3 DEF WInv, AllOrFailure

\* jsp_write_all returns 0 exactly when all of the buffer is out, in order and
\* once, for every buffer and every sequence of short and interrupted writes.
THEOREM WriteAllOrFailure == WSpec => []AllOrFailure
  <1>. QED  BY WInitInv, WNextInv, WInvImplies, PTL DEF WSpec

-----------------------------------------------------------------------------
(* The arguments in their order *)

\* jsp_settings, with a size from the command line.
Parsed ==
  [buf_size : 1 .. INT_MAX, output : {"SINK", "PLUCK"},
   trace : {"NONE", "OFFSETS", "MASKS"}, path : Paths \cup {<<>>},
   framing : {"none", "array", "lines"}, scalars_only : BOOLEAN]

\* A size from the command line is positive and fits an int, and jsp_run rounds
\* it within size_t.
SInv ==
  /\ argv \in Seq(Args)
  /\ i \in Nat \ {0}
  /\ pc = "digits" => i <= Len(argv)
  /\ settings \in Parsed
  /\ lines \in BOOLEAN
  /\ at \in Nat
  /\ exact \in Nat
  /\ Saturates
  /\ CapIsSmallest

\* The test before each digit decides as exact arithmetic would.
LEMMA ShiftedSaturates ==
  ASSUME NEW e \in Nat, NEW d \in 0 .. 9
  PROVE  Shifted(IF e <= INT_MAX THEN e ELSE INT_MAX, d)
           = IF e * 10 + d <= INT_MAX THEN e * 10 + d ELSE INT_MAX
  <1>1. \A u \in Nat : u <= (INT_MAX - d) \div 10 <=> u * 10 + d <= INT_MAX
    BY IntAssumption
  <1>2. e > INT_MAX => ~(INT_MAX <= (INT_MAX - d) \div 10)
    BY IntAssumption, <1>1
  <1>. QED  BY <1>1, <1>2, IntAssumption DEF Shifted

\* Where n and what rounding adds fit size_t, nothing wraps.
LEMMA RoundsUp ==
  ASSUME NEW n \in Nat, n + JSP_SCAN_BLOCK <= SIZE_MAX
  PROVE  LET rounded == RoundUpTo(n, JSP_SCAN_BLOCK)
         IN /\ rounded % JSP_SCAN_BLOCK = 0
            /\ rounded >= JSP_SCAN_BLOCK
            /\ rounded >= n
            /\ rounded > JSP_SCAN_BLOCK => rounded - JSP_SCAN_BLOCK < n
  <1>. DEFINE up == ((n + 63) \div 64) * 64
  <1>1. up \in Nat /\ up <= n + 63 /\ up >= n /\ up % 64 = 0
    OBVIOUS
  <1>2. \A k \in 0 .. SIZE_MAX : SizeT(k) = k
    BY IntAssumption DEF SizeT
  <1>3. n + 64 - 1 \in 0 .. SIZE_MAX /\ n + 64 - 1 = n + 63 /\ up \in 0 .. SIZE_MAX
    BY <1>1, IntAssumption DEF JSP_SCAN_BLOCK
  <1>4. n >= 64 => RoundUpTo(n, 64) = up
    BY <1>2, <1>3 DEF RoundUpTo
  <1>5. n < 64 => RoundUpTo(n, 64) = 64
    BY DEF RoundUpTo
  <1>. HIDE DEF up
  <1>. QED  BY <1>1, <1>4, <1>5 DEF JSP_SCAN_BLOCK

\* Before the first argument nothing is set.
LEMMA SInitInv == SInit => SInv
  <1>. SUFFICES ASSUME SInit  PROVE SInv
    OBVIOUS
  <1>1. argv \in Seq(Args)
    BY ArgsAssumption DEF SInit
  <1>2. settings \in Parsed
    BY IntAssumption DEF SInit, Parsed
  <1>3. Saturates
    BY IntAssumption DEF SInit, Saturates
  <1>4. CapIsSmallest
    BY DEF SInit, CapIsSmallest
  <1>5. i \in Nat \ {0} /\ at \in Nat /\ exact \in Nat /\ pc # "digits"
    BY DEF SInit
  <1>6. lines \in BOOLEAN
    BY DEF SInit
  <1>. QED  BY <1>1, <1>2, <1>3, <1>4, <1>5, <1>6 DEF SInv

\* No argument breaks the settings' invariant.
LEMMA SNextInv == SInv /\ [SNext]_svars => SInv'
  <1>. SUFFICES ASSUME SInv, [SNext]_svars  PROVE SInv'
    OBVIOUS
  <1>. USE IntAssumption DEF SInv, Saturates, CapIsSmallest
  <1>1. CASE Help
    BY <1>1 DEF Help, Exits
  <1>2. CASE Unrecognized
    BY <1>2 DEF Unrecognized, Exits
  <1>3. CASE Trace("offsets", "OFFSETS") \/ Trace("masks", "MASKS")
    <2>1. settings' \in Parsed
      BY <1>3 DEF Trace, Parsed
    <2>. QED  BY <1>3, <2>1 DEF Trace, NextArg, Arg
  <1>4. CASE OnLines
    BY <1>4 DEF OnLines, NextArg, Arg
  <1>5. CASE SecondPath \/ InvalidPath
    BY <1>5 DEF SecondPath, InvalidPath, Exits
  <1>6. CASE FirstPath
    <2>1. settings' \in Parsed
      BY <1>6 DEF FirstPath, Parsed
    <2>. QED  BY <1>6, <2>1 DEF FirstPath, NextArg, Arg
  <1>7. CASE BufSize
    BY <1>7 DEF BufSize, Arg
  <1>8. CASE Digit
    <2>1. argv[i].value \in Seq(Nat)
      BY <1>8, ArgsAssumption DEF Digit
    <2>2. Text[at + 1] - 48 \in 0 .. 9
      <3>1. at + 1 \in 1 .. Len(argv[i].value)
        BY <1>8, <2>1 DEF Digit, AtDigit, Text
      <3>2. argv[i].value[at + 1] \in Nat
        BY <2>1, <3>1
      <3>3. Text[at + 1] \in Nat /\ Text[at + 1] >= 48 /\ Text[at + 1] <= 57
        BY <1>8, <3>2 DEF Digit, AtDigit, Text
      <3>4. \A c \in Nat : c >= 48 /\ c <= 57 => c - 48 \in 0 .. 9
        OBVIOUS
      <3>. HIDE DEF SInv, Saturates, CapIsSmallest
      <3>. QED  BY <3>3, <3>4
    <2>. DEFINE d == Text[at + 1] - 48
    <2>3. v' = IF exact * 10 + d <= INT_MAX THEN exact * 10 + d ELSE INT_MAX
      BY <1>8, <2>2, ShiftedSaturates DEF Digit
    <2>. HIDE DEF d
    <2>4. d \in 0 .. 9 /\ exact' = exact * 10 + d
      BY <1>8, <2>2 DEF Digit, d
    <2>. QED  BY <1>8, <2>3, <2>4 DEF Digit
  <1>9. CASE BufSizeParsed
    <2>1. v \in 1 .. INT_MAX
      BY <1>9 DEF BufSizeParsed, Valid
    <2>2. settings' \in Parsed
      BY <1>9, <2>1 DEF BufSizeParsed, Parsed
    <2>. QED  BY <1>9, <2>2 DEF BufSizeParsed, NextArg
  <1>10. CASE BufSizeInvalid
    BY <1>10 DEF BufSizeInvalid, Exits
  <1>11. CASE Return
    <2>1. settings' \in Parsed
      BY <1>11 DEF Return, Framed, Parsed
    <2>. QED  BY <1>11, <2>1 DEF Return
  <1>12. CASE SizeBuffer
    <2>1. settings.buf_size \in Nat /\ settings.buf_size + JSP_SCAN_BLOCK <= SIZE_MAX
      BY DEF JSP_SCAN_BLOCK, Parsed
    <2>. QED  BY <1>12, <2>1, RoundsUp DEF SizeBuffer
  <1>13. CASE UNCHANGED svars
    BY <1>13 DEF svars
  <1>. QED
    BY <1>1, <1>2, <1>3, <1>4, <1>5, <1>6, <1>7, <1>8, <1>9, <1>10, <1>11, <1>12,
       <1>13 DEF SNext

\* Whatever jsp_settings_parse has taken of any command line, what it keeps is
\* what the arguments so far ask for, in its types and bounds.
THEOREM SettingsInvariant == SSpec => []SInv
  BY SInitInv, SNextInv, PTL DEF SSpec

\* --buf-size is its exact value or INT_MAX, after every digit, for every int.
THEOREM SizeSaturates == SSpec => []Saturates
  <1>1. SInv => Saturates
    BY DEF SInv
  <1>. QED  BY <1>1, SettingsInvariant, PTL

\* No size from the command line wraps: the buffer is the smallest whole number
\* of blocks that holds it.
THEOREM BufferHoldsSize == SSpec => []CapIsSmallest
  <1>1. SInv => CapIsSmallest
    BY DEF SInv
  <1>. QED  BY <1>1, SettingsInvariant, PTL

-----------------------------------------------------------------------------
(* The number that digits spell *)

\* What the first n octets of s spell.
SpelledFirst(s, n) == FoldLeft(LAMBDA m, c : m * 10 + (c - 48), 0, SubSeq(s, 1, n))

\* 0 is a number: what the induction over integers starts from.
LEMMA ZeroIsInt == 0 \in Int
OBVIOUS

\* Whatever starts at 0 and takes one octet after the other as a digit is what
\* the fold spells.
LEMMA SpelledFollows ==
  ASSUME NEW s \in Seq(Nat), NEW n \in 0 .. Len(s),
         NEW p, p[0] = 0, \A k \in 1 .. n : p[k] = p[k - 1] * 10 + (s[k] - 48)
  PROVE  SpelledFirst(s, n) = p[n]
<1> DEFINE u == SubSeq(s, 1, n)
           Folds(g) == [S \in SUBSET DOMAIN u |->
                          IF S = {} THEN 0
                          ELSE g[S \ {Max(S)}] * 10 + (u[Max(S)] - 48)]
           g == CHOOSE g : g = Folds(g)
           op == [k \in 1 .. n |-> [x \in Int |-> x * 10 + (s[k] - 48)]]
<1>1. n \in Nat /\ DOMAIN u = 1 .. n /\ \A k \in 1 .. n : u[k] = s[k]
  BY FirstOctets, LenProperties
<1>2. SpelledFirst(s, n) = g[DOMAIN u]
  BY DEF SpelledFirst, FoldLeft, MapThenFoldSet, Max
<1> HIDE DEF u
<1>3. op \in Steps(n, Int)
  <2>1. \A k \in 1 .. n : s[k] \in Nat
    BY <1>1, ElementOfSeq
  <2> QED
    BY <2>1 DEF Steps
<1>4. \E h : h = Folds(h)
  <2>1. PICK h : FollowsSets(h, n, Int, 0, op)
    <3> HIDE DEF op
    <3> QED
      BY <1>1, <1>3, ZeroIsInt, FoldExists
  <2>2. ASSUME NEW S \in SUBSET (1 .. n), S # {}
        PROVE  h[S] = h[S \ {Max(S)}] * 10 + (u[Max(S)] - 48)
    <3>1. Max(S) \in 1 .. n
      <4>1. n \in Nat
        BY <1>1
      <4> HIDE DEF op, Folds
      <4> QED
        BY <2>2, <4>1, MaxIsIn
    <3>2. h[S] = op[Max(S)][h[S \ {Max(S)}]] /\ h[S \ {Max(S)}] \in Int
      <4>1. S \ {Max(S)} \in SUBSET (1 .. n)
        OBVIOUS
      <4> HIDE DEF op, Folds
      <4> QED
        BY <2>1, <2>2, <4>1 DEF FollowsSets
    <3>3. op[Max(S)][h[S \ {Max(S)}]] = h[S \ {Max(S)}] * 10 + (s[Max(S)] - 48)
      BY <3>1, <3>2
    <3> QED
      BY <1>1, <3>1, <3>2, <3>3
  <2>3. h[{}] = 0 /\ h = [S \in SUBSET (1 .. n) |-> h[S]]
    <3>1. {} \in SUBSET (1 .. n)
      OBVIOUS
    <3> HIDE DEF op
    <3> QED
      BY <2>1, <3>1 DEF FollowsSets
  <2>4. h = Folds(h)
    <3> HIDE DEF op
    <3> QED
      BY <1>1, <2>2, <2>3, Zenon
  <2> QED
    BY <2>4
<1>5. g = Folds(g)
  BY <1>4, Zenon
<1> HIDE DEF g
<1>6. \A k \in 0 .. n : (1 .. k) \in SUBSET (1 .. n)
  BY <1>1
<1>7. g[1 .. 0] = 0
  <2>1. 1 .. 0 = {} /\ 0 \in 0 .. n
    BY <1>1
  <2> QED
    BY <1>1, <1>5, <1>6, <2>1
<1>8. ASSUME NEW k \in 1 .. n PROVE g[1 .. k] = g[1 .. k - 1] * 10 + (s[k] - 48)
  <2>1. k \in Nat \ {0} /\ k \in 0 .. n
    BY <1>1
  <2>2. Max(1 .. k) = k /\ (1 .. k) \ {k} = 1 .. k - 1 /\ 1 .. k # {}
    BY <2>1, MaxUpTo
  <2>3. g[1 .. k] = IF 1 .. k = {} THEN 0
                    ELSE g[(1 .. k) \ {Max(1 .. k)}] * 10 + (u[Max(1 .. k)] - 48)
    BY <1>1, <1>5, <1>6, <2>1
  <2> QED
    BY <1>1, <2>2, <2>3
<1> DEFINE S == {k \in 0 .. n : p[k] = g[1 .. k]}
<1>9. \A k \in 0 .. n : k \in S
  <2>1. 0 \in S
    BY <1>1, <1>7
  <2>2. ASSUME NEW k \in 0 .. n - 1, k \in S PROVE k + 1 \in S
    <3>1. k + 1 \in 1 .. n /\ k + 1 \in 0 .. n /\ (k + 1) - 1 = k
      BY <1>1
    <3>2. p[k] = g[1 .. k]
      BY <2>2
    <3>3. /\ p[k + 1] = p[k] * 10 + (s[k + 1] - 48)
          /\ g[1 .. k + 1] = g[1 .. k] * 10 + (s[k + 1] - 48)
      BY <1>8, <3>1
    <3> QED
      BY <3>1, <3>2, <3>3
  <2> HIDE DEF S
  <2> QED
    BY <1>1, <2>1, <2>2, UpTo
<1> QED
  BY <1>1, <1>2, <1>9

\* One octet after the other.
LEMMA SpelledNext ==
  ASSUME NEW s \in Seq(Nat)
  PROVE  /\ SpelledFirst(s, 0) = 0
         /\ \A n \in 1 .. Len(s) :
              SpelledFirst(s, n) = SpelledFirst(s, n - 1) * 10 + (s[n] - 48)
<1> DEFINE N == Len(s)
           op == [k \in 1 .. N |-> [x \in Int |-> x * 10 + (s[k] - 48)]]
<1>1. N \in Nat /\ \A k \in 1 .. N : s[k] \in Nat
  BY LenProperties, ElementOfSeq
<1> HIDE DEF N
<1>2. PICK p : Follows(p, N, Int, 0, op)
  <2>1. op \in Steps(N, Int)
    BY <1>1 DEF Steps
  <2> HIDE DEF op
  <2> QED
    BY <1>1, <2>1, ZeroIsInt, RecursionExists
<1>3. p \in [0 .. N -> Int] /\ p[0] = 0
  BY <1>2 DEF Follows
<1>4. ASSUME NEW k \in 1 .. N PROVE p[k] = p[k - 1] * 10 + (s[k] - 48)
  <2>1. p[k] = op[k][p[k - 1]]
    <3> HIDE DEF op
    <3> QED
      BY <1>2 DEF Follows
  <2>2. p[k - 1] \in Int
    BY <1>1, <1>3
  <2> QED
    BY <2>1, <2>2
<1>5. ASSUME NEW n \in 0 .. N PROVE SpelledFirst(s, n) = p[n]
  <2>1. \A k \in 1 .. n : p[k] = p[k - 1] * 10 + (s[k] - 48)
    BY <1>1, <1>4
  <2> QED
    BY <1>3, <2>1, SpelledFollows DEF N
<1>6. SpelledFirst(s, 0) = 0
  BY <1>1, <1>3, <1>5
<1>7. ASSUME NEW n \in 1 .. N
      PROVE  SpelledFirst(s, n) = SpelledFirst(s, n - 1) * 10 + (s[n] - 48)
  <2>1. n \in 0 .. N /\ n - 1 \in 0 .. N
    BY <1>1
  <2> QED
    BY <1>4, <1>5, <2>1
<1> QED
  BY <1>6, <1>7 DEF N

\* A size spells what its octets do.
LEMMA SizeIs ==
  ASSUME NEW arg, arg.value \in Seq(Nat)
  PROVE  LET n == SpelledFirst(arg.value, Len(arg.value))
         IN Size(arg) = IF n <= INT_MAX THEN n ELSE INT_MAX
<1>1. SubSeq(arg.value, 1, Len(arg.value)) = arg.value
  OBVIOUS
<1> QED
  BY <1>1 DEF Size, SpelledFirst

-----------------------------------------------------------------------------
(* What the arguments so far ask for *)

\* Which of the first n arguments are option opt.
Among(opt, n) == {k \in 1 .. n : argv[k].opt = opt}

TracesAmong(n) == Among("offsets", n) \cup Among("masks", n)

\* What the first n arguments ask for.
SizeAsked(n) ==
  IF Among("buf_size", n) = {} THEN JSP_DEFAULT_BUF_SIZE
  ELSE Size(argv[Max(Among("buf_size", n))])

OutputAsked(n) == IF Among("path", n) = {} THEN "SINK" ELSE "PLUCK"

TraceAsked(n) ==
  IF TracesAmong(n) = {} THEN "NONE"
  ELSE IF argv[Max(TracesAmong(n))].opt = "masks" THEN "MASKS" ELSE "OFFSETS"

PathAsked(n) ==
  IF Among("path", n) = {} THEN <<>> ELSE argv[Max(Among("path", n))].path

\* The settings are what the first n arguments ask for, with no framing yet.
Unframed(n) ==
  /\ settings.buf_size = SizeAsked(n)
  /\ settings.output = OutputAsked(n)
  /\ settings.trace = TraceAsked(n)
  /\ settings.path = PathAsked(n)
  /\ settings.framing = "none"
  /\ settings.scalars_only = FALSE

\* One argument is in parse_uint: its octets so far are digits, and what they
\* spell is nothing as long as all of them are '0'.
InDigits ==
  /\ i <= Len(argv)
  /\ argv[i].opt = "buf_size"
  /\ at <= Len(Text)
  /\ \A k \in 1 .. at : Text[k] \in 48 .. 57
  /\ exact = SpelledFirst(Text, at)
  /\ exact = 0 <=> \A k \in 1 .. at : Text[k] = 48

\* Every argument before the next one has been obeyed, and ended nothing.
LineInv ==
  /\ i <= Len(argv) + 1
  /\ \A k \in 1 .. i - 1 : k \notin Ending
  /\ have_path <=> Among("path", i - 1) # {}
  /\ lines <=> Among("lines", i - 1) # {}
  /\ pc \in {"args", "digits", "return", "run", "exit"}
  /\ pc \in {"args", "digits"} => Unframed(i - 1)
  /\ pc = "digits" => InDigits
  /\ pc \in {"return", "run"} => i = Len(argv) + 1 /\ SettingsAreAsked
  /\ pc = "exit" => i \in Ending /\ exit = IF argv[i].opt = "help" THEN 0 ELSE 1

\* A greatest element above all others.
LEMMA MaxIs ==
  ASSUME NEW S \in SUBSET Int, NEW n \in S, \A k \in S : k <= n
  PROVE  Max(S) = n
<1>1. \A x \in S : (\A y \in S : x >= y) => x = n
  OBVIOUS
<1> QED
  BY <1>1 DEF Max

\* One more argument is one of its own option only, and then the last of those.
LEMMA AmongNext ==
  ASSUME NEW n \in Nat \ {0}, NEW opt
  PROVE  /\ argv[n].opt = opt => n \in Among(opt, n) /\ Max(Among(opt, n)) = n
         /\ argv[n].opt # opt => Among(opt, n) = Among(opt, n - 1)
<1>1. Among(opt, n) \in SUBSET Int /\ \A k \in Among(opt, n) : k <= n
  BY DEF Among
<1>2. argv[n].opt = opt => n \in Among(opt, n)
  BY DEF Among
<1>3. argv[n].opt # opt => Among(opt, n) = Among(opt, n - 1)
  BY DEF Among
<1> QED
  BY <1>1, <1>2, <1>3, MaxIs

\* The last trace option among n arguments is the n-th, or the one before it.
LEMMA TracesNext ==
  ASSUME NEW n \in Nat \ {0}
  PROVE  /\ argv[n].opt \in {"offsets", "masks"} =>
              n \in TracesAmong(n) /\ Max(TracesAmong(n)) = n
         /\ argv[n].opt \notin {"offsets", "masks"} => TracesAmong(n) = TracesAmong(n - 1)
<1>1. TracesAmong(n) \in SUBSET Int /\ \A k \in TracesAmong(n) : k <= n
  BY DEF TracesAmong, Among
<1>2. argv[n].opt \in {"offsets", "masks"} => n \in TracesAmong(n)
  BY DEF TracesAmong, Among
<1>3. argv[n].opt \notin {"offsets", "masks"} => TracesAmong(n) = TracesAmong(n - 1)
  BY DEF TracesAmong, Among
<1> QED
  BY <1>1, <1>2, <1>3, MaxIs

\* What one more argument asks for: each option changes its own part.
LEMMA AskedNext ==
  ASSUME NEW n \in Nat \ {0}
  PROVE  LET opt == argv[n].opt
         IN /\ SizeAsked(n) = IF opt = "buf_size" THEN Size(argv[n]) ELSE SizeAsked(n - 1)
            /\ OutputAsked(n) = IF opt = "path" THEN "PLUCK" ELSE OutputAsked(n - 1)
            /\ TraceAsked(n) = IF opt = "masks" THEN "MASKS"
                               ELSE IF opt = "offsets" THEN "OFFSETS"
                               ELSE TraceAsked(n - 1)
            /\ PathAsked(n) = IF opt = "path" THEN argv[n].path ELSE PathAsked(n - 1)
<1> DEFINE opt == argv[n].opt
<1>1. /\ opt # "path" => Among("path", n) = Among("path", n - 1)
      /\ opt = "path" => n \in Among("path", n) /\ Max(Among("path", n)) = n
  BY AmongNext
<1>2. /\ opt # "buf_size" => Among("buf_size", n) = Among("buf_size", n - 1)
      /\ opt = "buf_size" => n \in Among("buf_size", n) /\ Max(Among("buf_size", n)) = n
  BY AmongNext
<1>3. /\ opt \notin {"offsets", "masks"} => TracesAmong(n) = TracesAmong(n - 1)
      /\ opt \in {"offsets", "masks"} => n \in TracesAmong(n) /\ Max(TracesAmong(n)) = n
  BY TracesNext
<1>4. SizeAsked(n) = IF opt = "buf_size" THEN Size(argv[n]) ELSE SizeAsked(n - 1)
  BY <1>2 DEF SizeAsked
<1>5. /\ OutputAsked(n) = IF opt = "path" THEN "PLUCK" ELSE OutputAsked(n - 1)
      /\ PathAsked(n) = IF opt = "path" THEN argv[n].path ELSE PathAsked(n - 1)
  BY <1>1 DEF OutputAsked, PathAsked
<1>6. TraceAsked(n) = IF opt = "masks" THEN "MASKS"
                      ELSE IF opt = "offsets" THEN "OFFSETS"
                      ELSE TraceAsked(n - 1)
  BY <1>3 DEF TraceAsked
<1> QED
  BY <1>4, <1>5, <1>6

\* With no argument read yet, nothing is asked for.
LEMMA NothingAsked ==
  /\ \A opt : Among(opt, 0) = {}
  /\ SizeAsked(0) = JSP_DEFAULT_BUF_SIZE
  /\ OutputAsked(0) = "SINK"
  /\ TraceAsked(0) = "NONE"
  /\ PathAsked(0) = <<>>
<1>1. \A opt : Among(opt, 0) = {}
  BY DEF Among
<1> QED
  BY <1>1 DEF SizeAsked, OutputAsked, TraceAsked, PathAsked, TracesAmong

\* The whole line, once all of its arguments are read.
LEMMA AskedByAll ==
  ASSUME SInv
  PROVE  \A opt : Those(opt) = Among(opt, Len(argv))
BY DEF SInv, Those, Among

\* No argument taken is obeyed as a line without any.
LEMMA LineInitInv == SInit => LineInv
<1> SUFFICES ASSUME SInit PROVE LineInv
  OBVIOUS
<1>1. Len(argv) \in Nat
  BY ArgsAssumption, LenProperties DEF SInit
<1>2. i - 1 = 0 /\ i = 1 /\ pc = "args" /\ have_path = FALSE /\ lines = FALSE
  BY DEF SInit
<1>3. Unframed(i - 1) /\ \A opt : Among(opt, i - 1) = {}
  BY <1>2, NothingAsked DEF SInit, Unframed
<1> QED
  BY <1>1, <1>2, <1>3 DEF LineInv

\* An argument that ends nothing is left behind.
LEMMA NextArgKeeps ==
  ASSUME SInv, LineInv, i <= Len(argv), i \notin Ending, i' = i + 1, argv' = argv,
         pc' = "args", Unframed(i - 1)',
         have_path' <=> Among("path", i) # {}, lines' <=> Among("lines", i) # {}
  PROVE  LineInv'
<1>1. i \in Nat /\ Len(argv) \in Nat /\ i' - 1 = i
  BY LenProperties DEF SInv
<1>2. \A k \in 1 .. i : k \notin Ending
  BY <1>1 DEF LineInv
<1>3. /\ Ending' = Ending
      /\ \A opt, n : Among(opt, n)' = Among(opt, n)
  BY DEF Ending, Those, Among
<1> QED
  BY <1>1, <1>2, <1>3 DEF LineInv

\* An argument that ends the program is the next one.
LEMMA ExitsKeeps ==
  ASSUME SInv, LineInv, NEW n, Exits(n), i \in Ending,
         n = IF argv[i].opt = "help" THEN 0 ELSE 1
  PROVE  LineInv'
<1>1. /\ Ending' = Ending
      /\ \A opt, m : Among(opt, m)' = Among(opt, m)
  BY DEF Exits, Ending, Those, Among
<1>2. argv' = argv /\ i' = i /\ have_path' = have_path /\ lines' = lines /\ pc' = "exit" /\ exit' = n
  BY DEF Exits
<1> QED
  BY <1>1, <1>2 DEF LineInv

\* The settings after an argument, part by part.
LEMMA UnframedNext ==
  ASSUME SInv, i <= Len(argv), i' = i + 1, argv' = argv
  PROVE  LET opt == argv[i].opt
         IN (/\ settings'.buf_size = IF opt = "buf_size" THEN Size(argv[i])
                                     ELSE SizeAsked(i - 1)
             /\ settings'.output = IF opt = "path" THEN "PLUCK" ELSE OutputAsked(i - 1)
             /\ settings'.trace = IF opt = "masks" THEN "MASKS"
                                  ELSE IF opt = "offsets" THEN "OFFSETS"
                                  ELSE TraceAsked(i - 1)
             /\ settings'.path = IF opt = "path" THEN argv[i].path ELSE PathAsked(i - 1)
             /\ settings'.framing = "none"
             /\ settings'.scalars_only = FALSE) => Unframed(i - 1)'
<1>1. i \in Nat \ {0} /\ (i - 1)' = i
  BY DEF SInv
<1>2. Unframed(i - 1)' <=>
        /\ settings'.buf_size = SizeAsked(i)
        /\ settings'.output = OutputAsked(i)
        /\ settings'.trace = TraceAsked(i)
        /\ settings'.path = PathAsked(i)
        /\ settings'.framing = "none"
        /\ settings'.scalars_only = FALSE
  <2>1. Unframed(i - 1)' <=>
          /\ settings'.buf_size = SizeAsked(i - 1)'
          /\ settings'.output = OutputAsked(i - 1)'
          /\ settings'.trace = TraceAsked(i - 1)'
          /\ settings'.path = PathAsked(i - 1)'
          /\ settings'.framing = "none"
          /\ settings'.scalars_only = FALSE
    BY DEF Unframed
  <2>2. /\ SizeAsked(i - 1)' = SizeAsked(i)
        /\ OutputAsked(i - 1)' = OutputAsked(i)
        /\ TraceAsked(i - 1)' = TraceAsked(i)
        /\ PathAsked(i - 1)' = PathAsked(i)
    BY <1>1 DEF SizeAsked, OutputAsked, TraceAsked, PathAsked, TracesAmong, Among
  <2> QED
    BY <2>1, <2>2
<1> QED
  BY <1>1, <1>2, AskedNext

\* The arguments that end nothing leave the line obeyed as far as it was read.
LEMMA OptionKeeps ==
  ASSUME SInv, LineInv,
         Trace("offsets", "OFFSETS") \/ Trace("masks", "MASKS") \/ OnLines \/ FirstPath
  PROVE  LineInv'
<1>1. /\ i <= Len(argv) /\ i' = i + 1 /\ argv' = argv /\ pc' = "args" /\ pc = "args"
      /\ Unframed(i - 1)
  BY DEF Trace, OnLines, FirstPath, Arg, NextArg, LineInv
<1>2. i \in Nat \ {0} /\ i \in DOMAIN argv
  BY <1>1, LenProperties DEF SInv
<1>3. have_path' <=> Among("path", i) # {}
  BY <1>2, AmongNext DEF Trace, OnLines, FirstPath, Arg, LineInv
<1>4. lines' <=> Among("lines", i) # {}
  BY <1>2, AmongNext DEF Trace, OnLines, FirstPath, Arg, LineInv
<1>5. i \notin Ending
  <2>1. ~Refused(argv[i])
    BY DEF Trace, OnLines, FirstPath, Arg, Refused
  <2>2. ASSUME argv[i].opt = "path" PROVE ~\E l \in Those("path") : l < i
    <3>1. Among("path", i - 1) = {}
      BY <2>2 DEF Trace, OnLines, FirstPath, Arg, LineInv
    <3> QED
      BY <1>2, <3>1 DEF Those, Among, SInv
  <2> QED
    BY <2>1, <2>2 DEF Ending, Those
<1>6. Unframed(i - 1)'
  <2>1. CASE Trace("offsets", "OFFSETS") \/ Trace("masks", "MASKS")
    BY <1>1, <2>1, UnframedNext DEF Trace, Arg, Unframed, Parsed, SInv
  <2>2. CASE OnLines
    BY <1>1, <2>2, UnframedNext DEF OnLines, Arg, Unframed
  <2>3. CASE FirstPath
    BY <1>1, <2>3, UnframedNext DEF FirstPath, Arg, Unframed, Parsed, SInv
  <2> QED
    BY <2>1, <2>2, <2>3
<1> QED
  BY <1>1, <1>3, <1>4, <1>5, <1>6, NextArgKeeps

\* What ends the program there is the first argument that has to.
LEMMA ExitKeeps ==
  ASSUME SInv, LineInv, Help \/ Unrecognized \/ SecondPath \/ InvalidPath
  PROVE  LineInv'
<1>1. i \in DOMAIN argv /\ i \in Nat \ {0}
  BY LenProperties DEF SInv, Help, Unrecognized, SecondPath, InvalidPath, Arg
<1>2. CASE Help
  BY <1>1, <1>2, ExitsKeeps DEF Help, Arg, Ending, Refused
<1>3. CASE Unrecognized
  BY <1>1, <1>3, ExitsKeeps DEF Unrecognized, Arg, Ending, Refused
<1>4. CASE InvalidPath
  BY <1>1, <1>4, ExitsKeeps DEF InvalidPath, Arg, Ending, Refused
<1>5. CASE SecondPath
  <2>1. PICK l \in Among("path", i - 1) : TRUE
    BY <1>5 DEF SecondPath, LineInv
  <2>2. l \in Those("path") /\ l < i /\ i \in Those("path")
    BY <1>1, <1>5, <2>1 DEF Among, Those, SecondPath, Arg, SInv
  <2>3. i \in Ending
    BY <1>1, <2>2 DEF Ending
  <2> QED
    BY <1>5, <2>3, ExitsKeeps DEF SecondPath, Arg
<1> QED
  BY <1>2, <1>3, <1>4, <1>5

\* The octets of a size's argument.
LEMMA TextType ==
  ASSUME SInv, i <= Len(argv)
  PROVE  /\ i \in DOMAIN argv
         /\ argv[i].value \in Seq(Nat)
         /\ DOMAIN argv[i].value = 1 .. Len(argv[i].value)
         /\ Len(argv[i].value) \in Nat
<1>1. i \in 1 .. Len(argv) /\ DOMAIN argv = 1 .. Len(argv)
  BY LenProperties DEF SInv
<1>2. argv[i] \in Args
  BY <1>1, ElementOfSeq DEF SInv
<1> QED
  BY <1>1, <1>2, ArgsAssumption, LenProperties

\* One more digit.
LEMMA DigitKeeps ==
  ASSUME SInv, LineInv, Digit
  PROVE  LineInv'
<1>1. /\ pc = "digits" /\ AtDigit /\ InDigits /\ i <= Len(argv)
      /\ exact' = exact * 10 + (Text[at + 1] - 48)
      /\ at' = at + 1
      /\ UNCHANGED <<argv, i, settings, have_path, lines, pc, exit>>
  BY DEF Digit, LineInv, InDigits
<1>2. /\ Text \in Seq(Nat) /\ Len(Text) \in Nat /\ at \in Nat /\ exact \in Nat
  BY <1>1, TextType DEF SInv, Text
<1>3. at + 1 \in 1 .. Len(Text) /\ Text[at + 1] \in 48 .. 57
  <2>1. at + 1 \in 1 .. Len(Text)
    BY <1>1, <1>2 DEF AtDigit
  <2>2. Text[at + 1] \in Nat
    BY <1>2, <2>1, ElementOfSeq
  <2>3. Text[at + 1] >= 48 /\ Text[at + 1] <= 57
    BY <1>1 DEF AtDigit
  <2>4. \A c \in Nat : c >= 48 /\ c <= 57 => c \in 48 .. 57
    OBVIOUS
  <2> QED
    BY <2>1, <2>2, <2>3, <2>4
<1> DEFINE spelling == Text
           c == spelling[at + 1]
<1> HIDE DEF spelling
<1>4. SpelledFirst(spelling, at + 1) = SpelledFirst(spelling, at) * 10 + (c - 48)
  <2>1. \A n \in 1 .. Len(spelling) :
          SpelledFirst(spelling, n) = SpelledFirst(spelling, n - 1) * 10 + (spelling[n] - 48)
    BY <1>2, SpelledNext DEF spelling
  <2>2. at + 1 \in 1 .. Len(spelling) /\ (at + 1) - 1 = at
    BY <1>2, <1>3 DEF spelling
  <2> QED
    BY <2>1, <2>2
<1>5. /\ at <= Len(spelling) /\ (\A k \in 1 .. at : spelling[k] \in 48 .. 57)
      /\ exact = SpelledFirst(spelling, at)
      /\ (exact = 0 <=> \A k \in 1 .. at : spelling[k] = 48)
      /\ argv[i].opt = "buf_size"
  BY <1>1 DEF InDigits, spelling
<1>6. Text' = spelling
  BY <1>1 DEF Text, spelling
<1>7. c \in 48 .. 57 /\ exact' = exact * 10 + (c - 48) /\ at + 1 <= Len(spelling)
  BY <1>1, <1>3 DEF spelling
<1> HIDE DEF c
<1>8. c = spelling[at + 1]
  BY DEF c
<1>9. \A k \in 1 .. at + 1 : k \in 1 .. at \/ k = at + 1
  BY <1>2
<1>10. \A k \in 1 .. at + 1 : spelling[k] \in 48 .. 57
  BY <1>5, <1>7, <1>8, <1>9
<1>11. exact' = SpelledFirst(spelling, at + 1)
  BY <1>4, <1>5, <1>7, <1>8 DEF c
<1>12. exact' = 0 <=> exact = 0 /\ c = 48
  BY <1>2, <1>7
<1>13. exact' = 0 <=> \A k \in 1 .. at + 1 : spelling[k] = 48
  <2>1. at + 1 \in 1 .. at + 1 /\ \A k \in 1 .. at : k \in 1 .. at + 1
    BY <1>2
  <2> QED
    BY <1>5, <1>8, <1>9, <1>12, <2>1
<1>14. InDigits'
  BY <1>1, <1>5, <1>6, <1>7, <1>10, <1>11, <1>13 DEF InDigits
<1>15. Ending' = Ending /\ \A opt, m : Among(opt, m)' = Among(opt, m)
  BY <1>1 DEF Ending, Those, Among
<1>16. Unframed(i - 1)'
  BY <1>1 DEF LineInv, Unframed, SizeAsked, OutputAsked, TraceAsked, PathAsked,
              TracesAmong, Among
<1> QED
  BY <1>1, <1>14, <1>15, <1>16 DEF LineInv

\* A size that is a number and not 0.
LEMMA SizeKeeps ==
  ASSUME SInv, LineInv, BufSizeParsed
  PROVE  LineInv'
<1>1. /\ pc = "digits" /\ ~AtDigit /\ Valid /\ InDigits /\ i <= Len(argv) /\ Unframed(i - 1)
      /\ i' = i + 1 /\ argv' = argv /\ pc' = "args"
      /\ settings' = [settings EXCEPT !.buf_size = v]
      /\ UNCHANGED <<have_path, lines>>
  BY DEF BufSizeParsed, NextArg, LineInv, InDigits
<1>2. /\ argv[i].opt = "buf_size" /\ i \in DOMAIN argv /\ argv[i].value = Text
      /\ Text \in Seq(Nat) /\ DOMAIN Text = 1 .. Len(Text) /\ Len(Text) \in Nat
      /\ i \in Nat \ {0} /\ exact \in Nat /\ at = Len(Text)
  BY <1>1, TextType DEF SInv, InDigits, Text, Valid
<1>3. i \notin Ending
  <2>1. \A k \in DOMAIN Text : Text[k] \in 48 .. 57
    BY <1>1, <1>2 DEF InDigits
  <2>2. exact # 0
    BY <1>1, <1>2, IntAssumption DEF Valid, SInv, Saturates
  <2>3. ~\A k \in DOMAIN Text : Text[k] = 48
    BY <1>1, <1>2, <2>2 DEF InDigits
  <2> QED
    BY <1>2, <2>1, <2>3 DEF Ending, Refused, Those
<1>4. v = Size(argv[i])
  <2>1. exact = SpelledFirst(Text, Len(Text))
    BY <1>1, <1>2 DEF InDigits
  <2> QED
    BY <1>2, <2>1, SizeIs DEF SInv, Saturates
<1>5. Unframed(i - 1)'
  BY <1>1, <1>2, <1>4, UnframedNext DEF Unframed, Parsed, SInv
<1>6. have_path' <=> Among("path", i) # {}
  BY <1>1, <1>2, AmongNext DEF LineInv
<1>7. lines' <=> Among("lines", i) # {}
  BY <1>1, <1>2, AmongNext DEF LineInv
<1> QED
  BY <1>1, <1>3, <1>5, <1>6, <1>7, NextArgKeeps

\* A size that is none ends the program.
LEMMA NoSizeKeeps ==
  ASSUME SInv, LineInv, BufSizeInvalid
  PROVE  LineInv'
<1>1. pc = "digits" /\ ~AtDigit /\ ~Valid /\ Exits(1) /\ InDigits /\ i <= Len(argv)
  BY DEF BufSizeInvalid, LineInv, InDigits
<1>2. /\ argv[i].opt = "buf_size" /\ i \in DOMAIN argv /\ argv[i].value = Text
      /\ Text \in Seq(Nat) /\ DOMAIN Text = 1 .. Len(Text) /\ Len(Text) \in Nat
      /\ exact \in Nat /\ at \in Nat /\ at <= Len(Text)
  BY <1>1, TextType DEF SInv, InDigits, Text
<1>3. i \in Ending
  <2>1. CASE at < Len(Text)
    <3>1. at + 1 \in DOMAIN Text /\ Text[at + 1] \in Nat
      BY <1>2, <2>1, ElementOfSeq
    <3>2. Text[at + 1] \notin 48 .. 57
      BY <1>1, <2>1, <3>1 DEF AtDigit
    <3> QED
      BY <1>2, <3>1, <3>2 DEF Ending, Refused
  <2>2. CASE at = Len(Text)
    <3>1. exact = 0
      BY <1>1, <1>2, <2>2, IntAssumption DEF Valid, SInv, Saturates
    <3>2. \A k \in DOMAIN Text : Text[k] = 48
      BY <1>1, <1>2, <2>2, <3>1 DEF InDigits
    <3> QED
      BY <1>2, <3>2 DEF Ending, Refused
  <2>3. at < Len(Text) \/ at = Len(Text)
    <3> DEFINE m == Len(Text)
    <3>1. at \in Nat /\ m \in Nat /\ at <= m
      BY <1>2
    <3> HIDE DEF m
    <3>2. at < m \/ at = m
      BY <3>1
    <3> QED
      BY <3>2 DEF m
  <2> QED
    BY <2>1, <2>2, <2>3
<1> QED
  BY <1>1, <1>2, <1>3, ExitsKeeps

\* A size begins with no digit.
LEMMA BeginsKeeps ==
  ASSUME SInv, LineInv, BufSize
  PROVE  LineInv'
<1>1. /\ i <= Len(argv) /\ argv[i].opt = "buf_size" /\ pc = "args" /\ pc' = "digits"
      /\ at' = 0 /\ exact' = 0
      /\ UNCHANGED <<argv, i, settings, have_path, lines, exit>>
  BY DEF BufSize, Arg
<1>2. Text' = Text /\ Text \in Seq(Nat) /\ Len(Text) \in Nat
  BY <1>1, TextType DEF Text
<1>3. SpelledFirst(Text, 0) = 0
  BY <1>2, SpelledNext
<1>4. InDigits'
  BY <1>1, <1>2, <1>3 DEF InDigits
<1>5. Ending' = Ending /\ \A opt, m : Among(opt, m)' = Among(opt, m)
  BY <1>1 DEF Ending, Those, Among
<1>6. Unframed(i - 1)'
  BY <1>1 DEF LineInv, Unframed, SizeAsked, OutputAsked, TraceAsked, PathAsked,
              TracesAmong, Among
<1> QED
  BY <1>1, <1>4, <1>5, <1>6 DEF LineInv

\* Past the last argument the framing is chosen, and with it all that was asked.
LEMMA ReturnKeeps ==
  ASSUME SInv, LineInv, Return
  PROVE  LineInv'
<1>1. /\ pc = "args" /\ i = Len(argv) + 1 /\ settings' = Framed /\ pc' = "return"
      /\ UNCHANGED <<argv, i, have_path, lines>>
      /\ Unframed(i - 1)
  BY LenProperties DEF Return, LineInv, SInv
<1>2. i - 1 = Len(argv) /\ \A opt : Those(opt) = Among(opt, i - 1)
  <2>1. i - 1 = Len(argv)
    BY <1>1, LenProperties DEF SInv
  <2> QED
    BY <2>1, AskedByAll
<1>3. Framed.scalars_only = (have_path /\ lines) /\ Framed \in Parsed
  <2>1. CASE have_path
    <3>1. Framed = [settings EXCEPT !.framing = IF lines THEN "lines" ELSE "array",
                                    !.scalars_only = lines]
      BY <2>1 DEF Framed
    <3>2. lines \in BOOLEAN
      BY DEF SInv
    <3> QED
      BY <2>1, <3>1, <3>2 DEF Parsed, SInv
  <2>2. CASE ~have_path
    BY <1>1, <2>2 DEF Framed, Unframed, Parsed, SInv
  <2> QED
    BY <2>1, <2>2
<1>4. /\ Framed.buf_size = settings.buf_size
      /\ Framed.output = settings.output
      /\ Framed.trace = settings.trace
      /\ Framed.path = settings.path
      /\ Framed.framing = IF ~have_path THEN "none" ELSE IF lines THEN "lines" ELSE "array"
  BY <1>1 DEF Framed, Parsed, Unframed, SInv
<1>5. Framed = [buf_size |-> Framed.buf_size, output |-> Framed.output,
                trace |-> Framed.trace, path |-> Framed.path,
                framing |-> Framed.framing, scalars_only |-> Framed.scalars_only]
  BY <1>3 DEF Parsed
<1>6. /\ have_path <=> Those("path") # {}
      /\ lines <=> Those("lines") # {}
  BY <1>2 DEF LineInv
<1>7. SettingsAreAsked'
  <2>1. \A opt : Those(opt)' = Those(opt)
    BY <1>1 DEF Those
  <2>2. /\ Framed.buf_size = IF Those("buf_size") = {} THEN JSP_DEFAULT_BUF_SIZE
                             ELSE Size(argv[Max(Those("buf_size"))])
        /\ Framed.output = IF Those("path") = {} THEN "SINK" ELSE "PLUCK"
        /\ Framed.trace = LET traces == Those("offsets") \cup Those("masks")
                          IN IF traces = {} THEN "NONE"
                             ELSE IF argv[Max(traces)].opt = "masks" THEN "MASKS"
                             ELSE "OFFSETS"
        /\ Framed.path = IF Those("path") = {} THEN <<>>
                         ELSE argv[Max(Those("path"))].path
    BY <1>1, <1>2, <1>4
       DEF Unframed, SizeAsked, OutputAsked, TraceAsked, PathAsked, TracesAmong
  <2>3. Framed.framing = IF Those("path") = {} THEN "none"
                         ELSE IF Those("lines") = {} THEN "array" ELSE "lines"
    BY <1>4, <1>6
  <2>4. Framed.scalars_only = (Those("path") # {} /\ Those("lines") # {})
    BY <1>3, <1>6
  <2>5. Framed =
      [buf_size |-> IF Those("buf_size") = {} THEN JSP_DEFAULT_BUF_SIZE
                    ELSE Size(argv[Max(Those("buf_size"))]),
       output |-> IF Those("path") = {} THEN "SINK" ELSE "PLUCK",
       trace |-> LET traces == Those("offsets") \cup Those("masks")
                 IN IF traces = {} THEN "NONE"
                    ELSE IF argv[Max(traces)].opt = "masks" THEN "MASKS" ELSE "OFFSETS",
       path |-> IF Those("path") = {} THEN <<>> ELSE argv[Max(Those("path"))].path,
       framing |-> IF Those("path") = {} THEN "none"
                   ELSE IF Those("lines") = {} THEN "array" ELSE "lines",
       scalars_only |-> Those("path") # {} /\ Those("lines") # {}]
    BY <1>5, <2>2, <2>3, <2>4, Zenon
  <2> QED
    BY <1>1, <2>1, <2>5 DEF SettingsAreAsked
<1>8. Ending' = Ending /\ \A opt, m : Among(opt, m)' = Among(opt, m)
  BY <1>1 DEF Ending, Those, Among
<1> QED
  BY <1>1, <1>7, <1>8 DEF LineInv

\* What follows changes nothing of the line or of the settings.
LEMMA RunKeeps ==
  ASSUME SInv, LineInv, SizeBuffer \/ UNCHANGED svars
  PROVE  LineInv'
<1>1. /\ UNCHANGED <<argv, i, settings, have_path, lines, at, exit, exact>>
      /\ (pc' = pc) \/ (pc = "return" /\ pc' = "run")
  BY DEF SizeBuffer, svars
<1>2. Ending' = Ending /\ \A opt, m : Among(opt, m)' = Among(opt, m)
  BY <1>1 DEF Ending, Those, Among
<1>3. Unframed(i - 1)' <=> Unframed(i - 1)
  BY <1>1 DEF LineInv, Unframed, SizeAsked, OutputAsked, TraceAsked, PathAsked,
              TracesAmong, Among
<1>4. InDigits' <=> InDigits
  BY <1>1 DEF InDigits, Text
<1>5. \A opt : Those(opt)' = Those(opt)
  BY <1>1 DEF Those
<1>6. LineInv => (pc' \in {"return", "run"} /\ SettingsAreAsked => SettingsAreAsked')
  BY <1>1, <1>5 DEF SettingsAreAsked
<1> QED
  BY <1>1, <1>2, <1>3, <1>4, <1>6 DEF LineInv

\* What is proved of the line is what it has to be.
LEMMA LineInvImplies ==
  ASSUME SInv, LineInv
  PROVE  LineIsObeyed
<1>1. Len(argv) \in Nat /\ DOMAIN argv = 1 .. Len(argv) /\ i \in Nat \ {0}
  BY LenProperties DEF SInv
<1>2. \A k \in Ending : k \in 1 .. Len(argv) /\ k >= i
  BY <1>1 DEF LineInv, Ending
<1>3. ASSUME pc = "exit"
      PROVE  Ending # {} /\ i = Min(Ending) /\ exit = IF argv[i].opt = "help" THEN 0 ELSE 1
  <2>1. i \in Ending /\ exit = IF argv[i].opt = "help" THEN 0 ELSE 1
    BY <1>3 DEF LineInv
  <2>2. \A x \in Ending : (\A y \in Ending : x <= y) => x = i
    BY <1>1, <1>2, <2>1
  <2>3. i = Min(Ending)
    BY <1>2, <2>1, <2>2 DEF Min
  <2> QED
    BY <2>1, <2>3
<1>4. pc \in {"return", "run"} => Ending = {}
  BY <1>1, <1>2 DEF LineInv
<1>5. SettingsAreAsked
  BY DEF LineInv, SettingsAreAsked
<1> QED
  BY <1>3, <1>4, <1>5 DEF LineIsObeyed, EndsWhenDue

\* An argument more is obeyed, or the line stops at it.
LEMMA LineNextInv == SInv /\ LineInv /\ [SNext]_svars => LineInv'
<1> SUFFICES ASSUME SInv, LineInv, [SNext]_svars PROVE LineInv'
  OBVIOUS
<1>1. CASE Help \/ Unrecognized \/ SecondPath \/ InvalidPath
  BY <1>1, ExitKeeps
<1>2. CASE Trace("offsets", "OFFSETS") \/ Trace("masks", "MASKS") \/ OnLines \/ FirstPath
  BY <1>2, OptionKeeps
<1>3. CASE BufSize
  BY <1>3, BeginsKeeps
<1>4. CASE Digit
  BY <1>4, DigitKeeps
<1>5. CASE BufSizeParsed
  BY <1>5, SizeKeeps
<1>6. CASE BufSizeInvalid
  BY <1>6, NoSizeKeeps
<1>7. CASE Return
  BY <1>7, ReturnKeeps
<1>8. CASE SizeBuffer \/ UNCHANGED svars
  BY <1>8, RunKeeps
<1> QED
  BY <1>1, <1>2, <1>3, <1>4, <1>5, <1>6, <1>7, <1>8 DEF SNext

\* Every command line is obeyed as a whole, in any order of its arguments, or
\* refused at the first argument that is at fault, and nowhere else.
THEOREM CommandLineIsObeyed == SSpec => []LineIsObeyed
<1>1. SInv /\ LineInv => LineIsObeyed
  BY LineInvImplies
<1> QED
  BY <1>1, SInitInv, SNextInv, LineInitInv, LineNextInv, PTL DEF SSpec

-----------------------------------------------------------------------------
(* The path *)

\* Entry k of dots is a dot with a name's octet after it, and nothing but the
\* name up to before end.
Opens(k, end) ==
  /\ dots[k] \in 0 .. end - 2
  /\ Octet(dots[k]) = Dot
  /\ \A o \in dots[k] + 1 .. end - 1 : Octet(o) # Dot

\* What the loop holds to: between two entries lies a name, and after the last
\* one, as far as the loop has come.
YInv ==
  /\ text \in Seq(PathOctet)
  /\ pos \in 0 .. Len(text)
  /\ segments \in 0 .. JSP_PATH_MAX_SEGMENTS
  /\ dots \in Seq(Int)
  /\ Len(dots) = segments + IF verdict = "yes" THEN 1 ELSE 0
  /\ \A k \in 1 .. segments - 1 : Opens(k, dots[k + 1])
  /\ segments > 0 =>
       /\ dots[segments] \in 0 .. pos - 1
       /\ dots[segments] + 1 < Len(text)
       /\ Octet(dots[segments]) = Dot
       /\ Octet(dots[segments] + 1) # Dot
       /\ \A o \in dots[segments] + 1 .. pos - 1 : Octet(o) # Dot
  /\ segments = 0 => pos = 0
  /\ pos > 0 => Len(text) > 1
  /\ verdict = "yes" =>
       /\ dots[segments + 1] = Len(text)
       /\ segments > 0 => pos = Len(text)

\* jsp_path_parse's array is empty before the text's first octet.
LEMMA YInitInv == YInit => YInv
  <1>. SUFFICES ASSUME YInit  PROVE YInv
    OBVIOUS
  <1>1. text \in Seq(PathOctet)
    BY MaxTextAssumption DEF YInit
  <1>. QED  BY <1>1, SegmentsAssumption DEF YInit, YInv

\* No step of jsp_path_parse leaves the text or the array.
LEMMA YNextInv == YInv /\ [YNext]_pathvars => YInv'
  <1>. SUFFICES ASSUME YInv, [YNext]_pathvars  PROVE YInv'
    OBVIOUS
  <1>. USE SegmentsAssumption
  <1>1. CASE RejectStart \/ RejectDot
    BY <1>1 DEF YInv, RejectStart, RejectDot, Passing, Rejects, Opens, Octet
  <1>2. CASE PassOctet
    <2>1. segments > 0 => pos > 0
      BY DEF YInv
    <2>2. segments > 0
      BY <1>2 DEF YInv, PassOctet, Passing, Starts, Octet
    <2>3. \A o \in dots[segments] + 1 .. pos : Octet(o) # Dot
      BY <1>2, <2>2 DEF YInv, PassOctet
    <2>. QED  BY <1>2, <2>2, <2>3 DEF YInv, PassOctet, Passing, Opens, Octet
  <1>3. CASE PassDot
    <2>1. /\ dots' \in Seq(Int)
          /\ Len(dots') = segments + 1
          /\ dots'[segments + 1] = pos
          /\ \A k \in 1 .. segments : dots'[k] = dots[k]
      BY <1>3 DEF YInv, PassDot, Passing
    <2>2. /\ segments' \in 0 .. JSP_PATH_MAX_SEGMENTS
          /\ pos + 1 < Len(text)
          /\ Octet(pos) = Dot
          /\ Octet(pos + 1) # Dot
      BY <1>3 DEF YInv, PassDot, OpensSegment, Passing
    <2>3. segments > 0 => dots[segments] \in 0 .. pos - 2
      BY <2>2, <1>3 DEF YInv, PassDot
    <2>4. ASSUME NEW k \in 1 .. segments
          PROVE  Opens(k, dots[k + 1])'
      <3>1. CASE k = segments
        <4>1. dots'[k + 1] = pos /\ dots'[k] = dots[k]
          BY <3>1, <2>1
        <4>2. \A o \in dots[k] + 1 .. pos - 1 : Octet(o) # Dot
          BY <3>1 DEF YInv
        <4>3. Octet(dots[k]) = Dot
          BY <3>1 DEF YInv
        <4>. QED  BY <4>1, <4>2, <4>3, <3>1, <2>3, <1>3 DEF Opens, Octet, PassDot
      <3>2. CASE k \in 1 .. segments - 1
        <4>1. dots'[k + 1] = dots[k + 1] /\ dots'[k] = dots[k]
          BY <3>2, <2>1 DEF YInv
        <4>2. Opens(k, dots[k + 1])
          BY <3>2 DEF YInv
        <4>. QED  BY <4>1, <4>2, <1>3 DEF Opens, Octet, PassDot
      <3>. QED  BY <3>1, <3>2 DEF YInv
    <2>5. /\ text' = text /\ text \in Seq(PathOctet)
          /\ pos' = pos + 1 /\ segments' = segments + 1
          /\ verdict' = "pending" /\ verdict = "pending"
          /\ pos \in 0 .. Len(text)
      BY <1>3 DEF YInv, PassDot, Passing
    <2>6. \A k \in 1 .. segments' - 1 : Opens(k, dots[k + 1])'
      BY <2>4, <2>5 DEF YInv
    <2>7. segments' > 0 =>
            /\ dots'[segments'] \in 0 .. pos' - 1
            /\ dots'[segments'] + 1 < Len(text')
            /\ text'[dots'[segments'] + 1] = Dot
            /\ text'[(dots'[segments'] + 1) + 1] # Dot
            /\ \A o \in dots'[segments'] + 1 .. pos' - 1 : text'[o + 1] # Dot
      BY <2>1, <2>2, <2>5 DEF Octet
    <2>8. segments' > 0 /\ pos' > 0 /\ Len(text') > 1
      BY <2>2, <2>5 DEF YInv
    <2>. QED  BY <2>1, <2>2, <2>5, <2>6, <2>7, <2>8 DEF YInv, Octet
  <1>4. CASE Accept
    <2>1. /\ dots' \in Seq(Int)
          /\ Len(dots') = segments + 1
          /\ dots'[segments + 1] = Len(text)
          /\ \A k \in 1 .. segments : dots'[k] = dots[k]
      BY <1>4 DEF YInv, Accept
    <2>2. ASSUME NEW k \in 1 .. segments - 1
          PROVE  Opens(k, dots[k + 1])'
      <3>. k \in 1 .. segments /\ k + 1 \in 1 .. segments
        BY DEF YInv
      <3>1. dots'[k + 1] = dots[k + 1] /\ dots'[k] = dots[k]
        BY <2>1
      <3>2. Opens(k, dots[k + 1])
        BY DEF YInv
      <3>. QED  BY <3>1, <3>2, <1>4 DEF Opens, Octet, Accept
    <2>3. segments > 0 => pos = Len(text)
      BY <1>4 DEF YInv, Accept
    <2>4. segments > 0 => dots'[segments] = dots[segments]
      BY <2>1 DEF YInv
    <2>5. text' = text /\ pos' = pos /\ segments' = segments /\ verdict' = "yes"
      BY <1>4 DEF Accept
    <2>6. segments > 0 =>
            /\ dots'[segments] \in 0 .. pos - 1
            /\ dots'[segments] + 1 < Len(text)
            /\ text'[dots'[segments] + 1] = Dot
            /\ text'[(dots'[segments] + 1) + 1] # Dot
            /\ \A o \in dots'[segments] + 1 .. pos - 1 : text'[o + 1] # Dot
      BY <2>4, <2>5 DEF YInv, Octet
    <2>. QED  BY <2>1, <2>2, <2>3, <2>5, <2>6 DEF YInv, Octet
  <1>5. CASE UNCHANGED pathvars
    BY <1>5 DEF YInv, pathvars, Opens, Octet
  <1>. QED  BY <1>1, <1>2, <1>3, <1>4, <1>5 DEF YNext

\* For a text of any length, jsp_path_parse's position, segments and dots stay in
\* the text and in the array.
THEOREM PathTyped == YSpec => []YInv
  BY YInitInv, YNextInv, PTL DEF YSpec

\* Every segment of an accepted path is cut from its text.
LEMMA DotsAreCut == YInv => DotsCutText
  <1>. SUFFICES ASSUME YInv  PROVE DotsCutText
    OBVIOUS
  <1>1. ASSUME verdict = "yes", NEW k \in 1 .. segments
        PROVE  /\ dots[k] + 1 < dots[k + 1]
               /\ Octet(dots[k]) = Dot
               /\ \A o \in dots[k] + 1 .. dots[k + 1] - 1 : Octet(o) # Dot
    <2>1. CASE k = segments
      BY <1>1, <2>1 DEF YInv
    <2>2. CASE k \in 1 .. segments - 1
      <3>1. Opens(k, dots[k + 1]) /\ dots[k + 1] \in Int
        BY <2>2 DEF YInv
      <3>. QED  BY <3>1 DEF Opens
    <2>. QED  BY <2>1, <2>2 DEF YInv
  <1>. QED  BY <1>1, SegmentsAssumption DEF YInv, DotsCutText

\* No write leaves the array, and every segment of an accepted path is a span of
\* its text with an octet at least and no dot.
THEOREM SegmentsLieInText == YSpec => []DotsCutText
  BY DotsAreCut, PathTyped, PTL

-----------------------------------------------------------------------------
(* The text that names spell *)

\* Texts of a path's octets, and what the first n of the names segs spell.
Texts == Seq(PathOctet)

Joined(segs, n) == FoldLeft(LAMBDA t, s : Append(t, Dot) \o s, <<>>, SubSeq(segs, 1, n))

\* A dot after a text, and a text after it, is a text.
LEMMA DotAppends ==
  ASSUME NEW t \in Texts, NEW s \in Texts
  PROVE  Append(t, Dot) \o s \in Texts
BY DotAssumption DEF Texts

\* Whatever starts empty and takes a dot and a name after the other is what
\* the fold spells.
LEMMA JoinedFollows ==
  ASSUME NEW segs \in Seq(Texts), NEW n \in 0 .. Len(segs),
         NEW p, p[0] = <<>>, \A k \in 1 .. n : p[k] = Append(p[k - 1], Dot) \o segs[k]
  PROVE  Joined(segs, n) = p[n]
<1> DEFINE u == SubSeq(segs, 1, n)
           Folds(g) == [S \in SUBSET DOMAIN u |->
                          IF S = {} THEN <<>>
                          ELSE Append(g[S \ {Max(S)}], Dot) \o u[Max(S)]]
           g == CHOOSE g : g = Folds(g)
           op == [k \in 1 .. n |-> [x \in Texts |-> Append(x, Dot) \o segs[k]]]
<1>1. n \in Nat /\ DOMAIN u = 1 .. n /\ \A k \in 1 .. n : u[k] = segs[k]
  BY FirstOctets, LenProperties
<1>2. Joined(segs, n) = g[DOMAIN u]
  BY DEF Joined, FoldLeft, MapThenFoldSet, Max
<1> HIDE DEF u
<1>3. op \in Steps(n, Texts) /\ <<>> \in Texts
  <2>1. \A k \in 1 .. n : segs[k] \in Texts
    BY <1>1, ElementOfSeq
  <2>2. <<>> \in Texts
    BY DEF Texts
  <2>3. \A k \in 1 .. n : \A x \in Texts : Append(x, Dot) \o segs[k] \in Texts
    BY <2>1, DotAppends
  <2> QED
    BY <2>2, <2>3 DEF Steps
<1>4. \E h : h = Folds(h)
  <2>1. PICK h : FollowsSets(h, n, Texts, <<>>, op)
    <3> HIDE DEF op
    <3> QED
      BY <1>1, <1>3, FoldExists
  <2>2. ASSUME NEW S \in SUBSET (1 .. n), S # {}
        PROVE  h[S] = Append(h[S \ {Max(S)}], Dot) \o u[Max(S)]
    <3>1. Max(S) \in 1 .. n
      <4>1. n \in Nat
        BY <1>1
      <4> HIDE DEF op, Folds
      <4> QED
        BY <2>2, <4>1, MaxIsIn
    <3>2. h[S] = op[Max(S)][h[S \ {Max(S)}]] /\ h[S \ {Max(S)}] \in Texts
      <4>1. S \ {Max(S)} \in SUBSET (1 .. n)
        OBVIOUS
      <4> HIDE DEF op, Folds
      <4> QED
        BY <2>1, <2>2, <4>1 DEF FollowsSets
    <3>3. op[Max(S)][h[S \ {Max(S)}]] = Append(h[S \ {Max(S)}], Dot) \o segs[Max(S)]
      BY <3>1, <3>2
    <3> QED
      BY <1>1, <3>1, <3>2, <3>3
  <2>3. h[{}] = <<>> /\ h = [S \in SUBSET (1 .. n) |-> h[S]]
    <3>1. {} \in SUBSET (1 .. n)
      OBVIOUS
    <3> HIDE DEF op
    <3> QED
      BY <2>1, <3>1 DEF FollowsSets
  <2>4. h = Folds(h)
    <3> HIDE DEF op
    <3> QED
      BY <1>1, <2>2, <2>3, Zenon
  <2> QED
    BY <2>4
<1>5. g = Folds(g)
  BY <1>4, Zenon
<1> HIDE DEF g
<1>6. \A k \in 0 .. n : (1 .. k) \in SUBSET (1 .. n)
  BY <1>1
<1>7. g[1 .. 0] = <<>>
  <2>1. 1 .. 0 = {} /\ 0 \in 0 .. n
    BY <1>1
  <2> QED
    BY <1>1, <1>5, <1>6, <2>1
<1>8. ASSUME NEW k \in 1 .. n PROVE g[1 .. k] = Append(g[1 .. k - 1], Dot) \o segs[k]
  <2>1. k \in Nat \ {0} /\ k \in 0 .. n
    BY <1>1
  <2>2. Max(1 .. k) = k /\ (1 .. k) \ {k} = 1 .. k - 1 /\ 1 .. k # {}
    BY <2>1, MaxUpTo
  <2>3. g[1 .. k] = IF 1 .. k = {} THEN <<>>
                    ELSE Append(g[(1 .. k) \ {Max(1 .. k)}], Dot) \o u[Max(1 .. k)]
    BY <1>1, <1>5, <1>6, <2>1
  <2> QED
    BY <1>1, <2>2, <2>3
<1> DEFINE S == {k \in 0 .. n : p[k] = g[1 .. k]}
<1>9. \A k \in 0 .. n : k \in S
  <2>1. 0 \in S
    BY <1>1, <1>7
  <2>2. ASSUME NEW k \in 0 .. n - 1, k \in S PROVE k + 1 \in S
    <3>1. k + 1 \in 1 .. n /\ k + 1 \in 0 .. n /\ (k + 1) - 1 = k
      BY <1>1
    <3>2. p[k] = g[1 .. k]
      BY <2>2
    <3>3. /\ p[k + 1] = Append(p[k], Dot) \o segs[k + 1]
          /\ g[1 .. k + 1] = Append(g[1 .. k], Dot) \o segs[k + 1]
      BY <1>8, <3>1
    <3> QED
      BY <3>1, <3>2, <3>3
  <2> HIDE DEF S
  <2> QED
    BY <1>1, <2>1, <2>2, UpTo
<1> QED
  BY <1>1, <1>2, <1>9

\* One name after the other.
LEMMA JoinedNext ==
  ASSUME NEW segs \in Seq(Texts)
  PROVE  /\ Joined(segs, 0) = <<>>
         /\ \A n \in 1 .. Len(segs) :
              Joined(segs, n) = Append(Joined(segs, n - 1), Dot) \o segs[n]
         /\ \A n \in 0 .. Len(segs) : Joined(segs, n) \in Texts
<1> DEFINE N == Len(segs)
           op == [k \in 1 .. N |-> [x \in Texts |-> Append(x, Dot) \o segs[k]]]
<1>1. N \in Nat /\ \A k \in 1 .. N : segs[k] \in Texts
  BY LenProperties, ElementOfSeq
<1> HIDE DEF N
<1>2. PICK p : Follows(p, N, Texts, <<>>, op)
  <2>1. op \in Steps(N, Texts)
    <3>1. \A k \in 1 .. N : \A x \in Texts : Append(x, Dot) \o segs[k] \in Texts
      BY <1>1, DotAppends
    <3> QED
      BY <3>1 DEF Steps
  <2>2. <<>> \in Texts
    BY DEF Texts
  <2> HIDE DEF op
  <2> QED
    BY <1>1, <2>1, <2>2, RecursionExists
<1>3. p \in [0 .. N -> Texts] /\ p[0] = <<>>
  BY <1>2 DEF Follows
<1>4. ASSUME NEW k \in 1 .. N PROVE p[k] = Append(p[k - 1], Dot) \o segs[k]
  <2>1. p[k] = op[k][p[k - 1]]
    <3> HIDE DEF op
    <3> QED
      BY <1>2 DEF Follows
  <2>2. p[k - 1] \in Texts
    BY <1>1, <1>3
  <2> QED
    BY <2>1, <2>2
<1>5. ASSUME NEW n \in 0 .. N PROVE Joined(segs, n) = p[n]
  <2>1. \A k \in 1 .. n : p[k] = Append(p[k - 1], Dot) \o segs[k]
    <3>1. \A k \in 1 .. n : k \in 1 .. N
      BY <1>1
    <3> QED
      BY <1>4, <3>1
  <2> QED
    BY <1>3, <2>1, JoinedFollows DEF N
<1>6. Joined(segs, 0) = <<>>
  BY <1>1, <1>3, <1>5
<1>7. ASSUME NEW n \in 1 .. N
      PROVE  Joined(segs, n) = Append(Joined(segs, n - 1), Dot) \o segs[n]
  <2>1. n \in 0 .. N /\ n - 1 \in 0 .. N
    BY <1>1
  <2> QED
    BY <1>4, <1>5, <2>1
<1>8. \A n \in 0 .. N : Joined(segs, n) \in Texts
  BY <1>3, <1>5
<1> QED
  BY <1>6, <1>7, <1>8 DEF N

\* Names, one at least, spell what all of them join to.
LEMMA SpelledIs ==
  ASSUME NEW segs \in Seq(Texts), segs # <<>>
  PROVE  Spelled(segs) = Joined(segs, Len(segs))
<1>1. SubSeq(segs, 1, Len(segs)) = segs
  OBVIOUS
<1> QED
  BY <1>1 DEF Spelled, Joined

\* Where the n-th name starts: at its dot.
Start(segs, n) == Len(Joined(segs, n - 1))

\* A text with a dot and a name after it.
LEMMA DotAndName ==
  ASSUME NEW t \in Texts, NEW s \in Texts
  PROVE  LET w == Append(t, Dot) \o s
         IN /\ Len(w) = Len(t) + 1 + Len(s)
            /\ \A k \in 1 .. Len(t) : w[k] = t[k]
            /\ w[Len(t) + 1] = Dot
            /\ \A k \in 1 .. Len(s) : w[Len(t) + 1 + k] = s[k]
BY DotAssumption DEF Texts

\* What the first names spell stands at the front of what all of them do.
LEMMA JoinedWithin ==
  ASSUME NEW segs \in Seq(Texts), NEW n \in 0 .. Len(segs), NEW m \in 0 .. n
  PROVE  /\ Len(Joined(segs, m)) <= Len(Joined(segs, n))
         /\ \A k \in 1 .. Len(Joined(segs, m)) : Joined(segs, n)[k] = Joined(segs, m)[k]
<1> DEFINE Goes(j) == /\ Len(Joined(segs, m)) <= Len(Joined(segs, m + j))
                      /\ \A k \in 1 .. Len(Joined(segs, m)) :
                           Joined(segs, m + j)[k] = Joined(segs, m)[k]
           S == {j \in 0 .. n - m : Goes(j)}
<1>1. Len(segs) \in Nat /\ n \in Nat /\ m \in Nat /\ n - m \in Nat
  BY LenProperties
<1>2. \A j \in 0 .. Len(segs) : Joined(segs, j) \in Texts /\ Len(Joined(segs, j)) \in Nat
  BY JoinedNext, LenProperties DEF Texts
<1>3. 0 \in S
  BY <1>1, <1>2
<1>4. ASSUME NEW j \in 0 .. n - m - 1, j \in S PROVE j + 1 \in S
  <2>1. /\ m + j \in 0 .. Len(segs) /\ m + (j + 1) \in 1 .. Len(segs)
        /\ m + (j + 1) - 1 = m + j /\ m \in 0 .. Len(segs)
    BY <1>1
  <2>2. Goes(j)
    BY <1>4
  <2> DEFINE t == Joined(segs, m + j)
             s == segs[m + (j + 1)]
             w == Joined(segs, m + (j + 1))
             f == Joined(segs, m)
  <2>3. w = Append(t, Dot) \o s
    <3>1. \A q \in 1 .. Len(segs) :
            Joined(segs, q) = Append(Joined(segs, q - 1), Dot) \o segs[q]
      BY JoinedNext
    <3> DEFINE q == m + (j + 1)
    <3>2. q \in 1 .. Len(segs) /\ q - 1 = m + j
      BY <2>1
    <3> HIDE DEF q
    <3>3. Joined(segs, q) = Append(Joined(segs, m + j), Dot) \o segs[q]
      BY <3>1, <3>2
    <3> QED
      BY <3>3 DEF q
  <2>4. t \in Texts /\ s \in Texts /\ Len(t) \in Nat /\ Len(f) \in Nat /\ Len(s) \in Nat
    BY <1>2, <2>1, ElementOfSeq, LenProperties DEF Texts
  <2>5. Len(f) <= Len(t) /\ \A k \in 1 .. Len(f) : t[k] = f[k]
    BY <2>2
  <2> HIDE DEF t, s, w, f
  <2>6. Len(w) = Len(t) + 1 + Len(s) /\ \A k \in 1 .. Len(t) : w[k] = t[k]
    BY <2>3, <2>4, DotAndName
  <2>7. Len(f) <= Len(w) /\ \A k \in 1 .. Len(f) : w[k] = f[k]
    BY <2>4, <2>5, <2>6
  <2>8. Goes(j + 1)
    BY <2>7 DEF w, f
  <2>9. j + 1 \in 0 .. n - m
    BY <1>1
  <2> HIDE DEF Goes
  <2> QED
    BY <2>8, <2>9
<1>5. n - m \in S
  <2> HIDE DEF S
  <2>1. \A j \in 0 .. n - m : j \in S
    BY <1>1, <1>3, <1>4, UpTo
  <2> QED
    BY <1>1, <2>1
<1>6. Goes(n - m) /\ m + (n - m) = n
  BY <1>1, <1>5
<1> QED
  BY <1>6

\* A spelled text is its names, each after its dot.
LEMMA SpelledText ==
  ASSUME NEW segs \in Seq(Texts), NEW n \in 1 .. Len(segs)
  PROVE  LET w == Joined(segs, Len(segs))
             o == Start(segs, n)
         IN /\ o \in Nat
            /\ n = 1 => o = 0
            /\ o + 1 + Len(segs[n]) <= Len(w)
            /\ w[o + 1] = Dot
            /\ \A k \in 1 .. Len(segs[n]) : w[o + 1 + k] = segs[n][k]
            /\ n < Len(segs) => Start(segs, n + 1) = o + 1 + Len(segs[n])
            /\ n = Len(segs) => Len(w) = o + 1 + Len(segs[n])
<1> DEFINE w == Joined(segs, Len(segs))
           t == Joined(segs, n - 1)
           f == Joined(segs, n)
           s == segs[n]
<1>1. /\ Len(segs) \in Nat /\ n \in Nat /\ n - 1 \in 0 .. Len(segs) /\ n \in 0 .. Len(segs)
      /\ Len(segs) \in 0 .. Len(segs)
      /\ n = 1 => n - 1 = 0
  BY LenProperties
<1>2. /\ f = Append(t, Dot) \o s /\ t \in Texts /\ s \in Texts /\ f \in Texts /\ w \in Texts
      /\ n = 1 => t = <<>>
  <2>1. f = Append(t, Dot) \o s
    BY <1>1, JoinedNext
  <2>2. t \in Texts /\ f \in Texts /\ w \in Texts
    BY <1>1, JoinedNext
  <2>3. s \in Texts
    BY <1>1, ElementOfSeq
  <2>4. n = 1 => t = <<>>
    BY <1>1, JoinedNext
  <2> QED
    BY <2>1, <2>2, <2>3, <2>4
<1>3. Len(t) \in Nat /\ Len(s) \in Nat /\ Len(w) \in Nat /\ Len(f) \in Nat
  BY <1>2, LenProperties DEF Texts
<1>4. Len(f) <= Len(w) /\ \A k \in 1 .. Len(f) : w[k] = f[k]
  BY <1>1, JoinedWithin
<1>5. n = 1 => Len(t) = 0
  BY <1>2
<1>6. n < Len(segs) => Start(segs, n + 1) = Len(f)
  <2>1. (n + 1) - 1 = n
    BY <1>1
  <2> QED
    BY <2>1 DEF Start
<1>7. n = Len(segs) => w = f
  OBVIOUS
<1>8. Start(segs, n) = Len(t)
  BY DEF Start
<1> HIDE DEF w, t, f, s
<1>9. /\ Len(f) = Len(t) + 1 + Len(s)
      /\ f[Len(t) + 1] = Dot
      /\ \A k \in 1 .. Len(s) : f[Len(t) + 1 + k] = s[k]
  BY <1>2, DotAndName
<1>10. w[Len(t) + 1] = Dot
  BY <1>3, <1>4, <1>9
<1>11. \A k \in 1 .. Len(s) : w[Len(t) + 1 + k] = s[k]
  BY <1>3, <1>4, <1>9
<1> QED
  BY <1>3, <1>4, <1>5, <1>6, <1>7, <1>8, <1>9, <1>10, <1>11 DEF w, s

-----------------------------------------------------------------------------
(* A path is its segments *)

\* What YInv leaves out: all entries lie in the text, the first segment starts at
\* the front, and a text is refused for what stands at its front or at a dot.
CutInv ==
  /\ \A k \in 1 .. Len(dots) : dots[k] \in 0 .. Len(text)
  /\ segments > 0 => dots[1] = 0
  /\ verdict = "yes" => Starts /\ (segments = 0 => Len(text) = 1)
  /\ verdict = "no" =>
       \/ ~Starts
       \/ Len(text) > 1 /\ pos < Len(text) /\ Octet(pos) = Dot /\ ~OpensSegment

\* Nothing is cut before the first octet.
LEMMA CutInitInv == YInit => CutInv
BY DEF YInit, CutInv

\* Every octet that is read is in a segment or is the dot after one.
LEMMA CutNextInv == YInv /\ CutInv /\ [YNext]_pathvars => CutInv'
<1> SUFFICES ASSUME YInv, CutInv, [YNext]_pathvars PROVE CutInv'
  OBVIOUS
<1>1. CASE RejectStart
  BY <1>1 DEF CutInv, RejectStart, Rejects, Starts, Octet
<1>2. CASE RejectDot
  BY <1>2 DEF CutInv, RejectDot, Passing, Rejects, Starts, OpensSegment, Octet
<1>3. CASE PassOctet
  BY <1>3 DEF CutInv, PassOctet, Passing
<1>4. CASE PassDot
  <2>1. dots' = Append(dots, pos) /\ segments' = segments + 1 /\ verdict' = "pending"
        /\ Len(dots) = segments /\ segments \in Nat
    BY <1>4, SegmentsAssumption DEF YInv, PassDot, Passing
  <2>2. dots'[1] = IF segments = 0 THEN pos ELSE dots[1]
    BY <2>1 DEF YInv
  <2>3. \A k \in 1 .. Len(dots') : dots'[k] \in 0 .. Len(text')
    <3>1. pos \in 0 .. Len(text) /\ text' = text
      BY <1>4 DEF YInv, PassDot
    <3> QED
      BY <2>1, <3>1 DEF CutInv, YInv
  <2> QED
    BY <2>1, <2>2, <2>3 DEF CutInv, YInv
<1>5. CASE Accept
  <2>1. /\ dots' = Append(dots, Len(text)) /\ segments' = segments /\ verdict' = "yes"
        /\ Len(dots) = segments /\ segments \in Nat
        /\ UNCHANGED <<text, pos>>
        /\ Starts
        /\ Len(text) > 1 => pos = Len(text)
    BY <1>5, SegmentsAssumption DEF YInv, Accept
  <2>2. segments > 0 => dots'[1] = dots[1]
    BY <2>1 DEF YInv
  <2>3. segments = 0 => Len(text) = 1
    <3>1. Len(text) \in Nat /\ Len(text) # 0
      BY <2>1, LenProperties DEF YInv, Starts
    <3> QED
      BY <2>1, <3>1 DEF YInv
  <2>4. Starts'
    BY <2>1 DEF Starts, Octet
  <2>5. \A k \in 1 .. Len(dots') : dots'[k] \in 0 .. Len(text')
    <3>1. Len(text) \in 0 .. Len(text)
      BY LenProperties DEF YInv
    <3> QED
      BY <2>1, <3>1 DEF CutInv, YInv
  <2> QED
    BY <2>1, <2>2, <2>3, <2>4, <2>5 DEF CutInv
<1>6. CASE UNCHANGED pathvars
  BY <1>6 DEF CutInv, pathvars, Starts, OpensSegment, Octet
<1> QED
  BY <1>1, <1>2, <1>3, <1>4, <1>5, <1>6 DEF YNext

\* The front of a text, the octet after it and what follows.
LEMMA FrontGoesOn ==
  ASSUME NEW X, NEW s \in Seq(X), NEW a \in Nat, NEW b \in Nat, a < b, b <= Len(s)
  PROVE  Append(SubSeq(s, 1, a), s[a + 1]) \o SubSeq(s, a + 2, b) = SubSeq(s, 1, b)
OBVIOUS

\* The segments of an accepted path are names, and spell its text.
LEMMA SegmentsSpell ==
  ASSUME YInv, CutInv, DotsCutText, verdict = "yes"
  PROVE  LET found == [k \in 1 .. segments |-> Segment(k)]
         IN (\A k \in 1 .. segments : found[k] \in Name) /\ Spelled(found) = text
<1> DEFINE found == [k \in 1 .. segments |-> Segment(k)]
<1>1. /\ text \in Texts /\ text \in Seq(PathOctet) /\ Len(text) \in Nat /\ segments \in Nat
      /\ Len(dots) = segments + 1 /\ dots[segments + 1] = Len(text) /\ dots \in Seq(Int)
      /\ \A k \in 1 .. Len(text) : text[k] \in PathOctet
  BY SegmentsAssumption, LenProperties, ElementOfSeq DEF YInv, DotsCutText, Texts
<1>2. ASSUME NEW k \in 1 .. segments
      PROVE  /\ dots[k] \in Nat /\ dots[k + 1] \in Nat
             /\ dots[k] + 1 < dots[k + 1] /\ dots[k + 1] <= Len(text)
             /\ text[dots[k] + 1] = Dot
             /\ \A o \in dots[k] + 1 .. dots[k + 1] - 1 : text[o + 1] # Dot
  <2>1. /\ dots[k] + 1 < dots[k + 1]
        /\ text[dots[k] + 1] = Dot
        /\ \A o \in dots[k] + 1 .. dots[k + 1] - 1 : text[o + 1] # Dot
    BY DEF DotsCutText, Octet
  <2>2. k \in 1 .. Len(dots) /\ k + 1 \in 1 .. Len(dots)
    BY <1>1
  <2>3. dots[k] \in 0 .. Len(text) /\ dots[k + 1] \in 0 .. Len(text)
    BY <2>2 DEF CutInv
  <2> QED
    BY <1>1, <2>1, <2>3
<1>3. ASSUME NEW k \in 1 .. segments
      PROVE  /\ found[k] = SubSeq(text, dots[k] + 2, dots[k + 1])
             /\ found[k] \in Name /\ found[k] \in Texts
  <2> DEFINE a == dots[k]
             b == dots[k + 1]
             s == SubSeq(text, a + 2, b)
  <2>1. /\ a \in Nat /\ b \in Nat /\ a + 1 < b /\ b <= Len(text)
        /\ \A o \in a + 1 .. b - 1 : text[o + 1] # Dot
    BY <1>2
  <2> HIDE DEF a, b
  <2>2. /\ s \in Texts /\ Len(s) = b - a - 1
        /\ \A j \in 1 .. b - a - 1 : s[j] = text[a + 1 + j]
    <3>1. /\ a + 2 \in 1 .. Len(text) + 1 /\ b \in (a + 2) - 1 .. Len(text)
          /\ b - (a + 2) + 1 = b - a - 1
          /\ \A j \in 1 .. b - a - 1 : (a + 2) + j - 1 = a + 1 + j
      BY <1>1, <2>1
    <3>2. /\ s \in Seq(PathOctet) /\ Len(s) = b - (a + 2) + 1
          /\ \A j \in 1 .. b - (a + 2) + 1 : s[j] = text[(a + 2) + j - 1]
      <4> PICK t, m : t = text /\ m = a + 2
        BY Zenon
      <4>1. m \in Int /\ b \in Int /\ \A o \in m .. b : t[o] \in PathOctet
        <5> SUFFICES ASSUME NEW o \in m .. b PROVE t[o] \in PathOctet
          BY <2>1
        <5>1. o \in 1 .. Len(t) /\ t \in Seq(PathOctet)
          BY <1>1, <2>1
        <5> QED
          BY ONLY <5>1, ElementOfSeq
      <4>2. /\ SubSeq(t, m, b) \in Seq(PathOctet)
            /\ Len(SubSeq(t, m, b)) = IF m <= b THEN b - m + 1 ELSE 0
            /\ \A o \in 1 .. b - m + 1 : SubSeq(t, m, b)[o] = t[m + o - 1]
        BY ONLY <4>1, SubSeqProperties
      <4>3. m <= b
        BY <2>1
      <4> QED
        BY <4>2, <4>3
    <3> QED
      BY <3>1, <3>2 DEF Texts
  <2>3. \A j \in 1 .. b - a - 1 : s[j] \in PathOctet \ {Dot}
    <3> SUFFICES ASSUME NEW j \in 1 .. b - a - 1 PROVE s[j] \in PathOctet \ {Dot}
      OBVIOUS
    <3>1. /\ a + j \in a + 1 .. b - 1 /\ a + 1 + j \in 1 .. Len(text)
          /\ (a + j) + 1 = a + 1 + j
      BY <1>1, <2>1
    <3> QED
      BY <1>1, <2>1, <2>2, <3>1
  <2>4. b - a - 1 \in 1 .. Len(text)
    BY <1>1, <2>1
  <2>5. s \in [1 .. b - a - 1 -> PathOctet \ {Dot}]
    <3> HIDE DEF s
    <3>1. DOMAIN s = 1 .. b - a - 1 /\ s = [j \in DOMAIN s |-> s[j]]
      BY <2>2, LenProperties DEF Texts
    <3> QED
      BY <2>3, <3>1
  <2>6. s \in Name
    BY <2>4, <2>5 DEF Name
  <2>7. found[k] = s
    BY DEF Segment, a, b
  <2> QED
    BY <2>2, <2>6, <2>7 DEF a, b
<1>4. found \in Seq(Texts) /\ Len(found) = segments
  <2>1. found = [k \in 1 .. segments |-> found[k]]
    OBVIOUS
  <2>2. \A k \in 1 .. segments : found[k] \in Texts
    BY <1>3
  <2> HIDE DEF found
  <2>3. found \in [1 .. segments -> Texts]
    BY <2>1, <2>2
  <2> QED
    BY <1>1, <2>3
<1>5. CASE segments = 0
  <2>1. found = <<>>
    BY <1>5, <1>4
  <2>2. text = <<Dot>>
    BY <1>1, <1>5 DEF CutInv, Starts, Octet
  <2> HIDE DEF found
  <2> QED
    BY <1>3, <2>1, <2>2 DEF Spelled, found
<1>6. CASE segments > 0
  <2> DEFINE S == {k \in 0 .. segments : Joined(found, k) = SubSeq(text, 1, dots[k + 1])}
  <2> HIDE DEF found
  <2>1. 0 \in S
    <3>0. Joined(found, 0) = <<>>
      BY <1>4, JoinedNext
    <3>1. dots[1] = 0 /\ Joined(found, 0) = <<>> /\ 0 \in 0 .. segments /\ 0 + 1 = 1
      BY <1>1, <1>6, <3>0 DEF CutInv
    <3>2. SubSeq(text, 1, 0) = <<>>
      BY <1>1
    <3> QED
      BY <3>1, <3>2
  <2>2. ASSUME NEW j \in 0 .. segments - 1, j \in S PROVE j + 1 \in S
    <3> DEFINE k == j + 1
    <3>1. k \in 1 .. segments /\ k - 1 = j /\ j \in 0 .. segments
      BY <1>1
    <3>2. Joined(found, j) = SubSeq(text, 1, dots[j + 1])
      BY <2>2
    <3> HIDE DEF k
    <3>3. \A q \in 1 .. segments : Joined(found, q) = Append(Joined(found, q - 1), Dot) \o found[q]
      BY <1>4, JoinedNext
    <3>4. Joined(found, k) = Append(Joined(found, j), Dot) \o found[k]
      BY <3>1, <3>3
    <3>5. Joined(found, j) = SubSeq(text, 1, dots[k])
      BY <3>2 DEF k
    <3> DEFINE a == dots[k]
               b == dots[k + 1]
    <3>6. /\ a \in Nat /\ b \in Nat /\ a < b /\ b <= Len(text) /\ text[a + 1] = Dot
          /\ found[k] = SubSeq(text, a + 2, b)
      <4>1. \A q \in 1 .. segments :
              /\ dots[q] \in Nat /\ dots[q + 1] \in Nat
              /\ dots[q] + 1 < dots[q + 1] /\ dots[q + 1] <= Len(text)
              /\ text[dots[q] + 1] = Dot
        BY <1>2
      <4>2. \A q \in 1 .. segments : found[q] = SubSeq(text, dots[q] + 2, dots[q + 1])
        BY <1>3
      <4>3. found[k] = SubSeq(text, a + 2, b)
        BY <3>1, <4>2
      <4>4. a \in Nat /\ b \in Nat /\ a + 1 < b /\ b <= Len(text) /\ text[a + 1] = Dot
        BY <3>1, <4>1
      <4> HIDE DEF a, b
      <4> QED
        BY <4>3, <4>4
    <3>7. Joined(found, k) = Append(SubSeq(text, 1, a), text[a + 1]) \o SubSeq(text, a + 2, b)
      BY <3>4, <3>5, <3>6
    <3> HIDE DEF a, b
    <3>8. Joined(found, k) = SubSeq(text, 1, b)
      BY <1>1, <3>6, <3>7, FrontGoesOn
    <3>9. j + 1 \in 0 .. segments
      BY <1>1
    <3> QED
      BY <3>8, <3>9 DEF b, k
  <2>3. segments \in S
    <3> HIDE DEF S
    <3>1. \A k \in 0 .. segments : k \in S
      BY <1>1, <2>1, <2>2, UpTo
    <3> QED
      BY <1>1, <3>1
  <2>4. Joined(found, segments) = text
    BY <1>1, <2>3
  <2>5. Spelled(found) = Joined(found, segments)
    BY <1>4, <1>6, SpelledIs
  <2> QED
    BY <1>3, <2>4, <2>5 DEF found
<1> QED
  BY <1>1, <1>5, <1>6

\* Names, by their octets.
LEMMA NameIs ==
  ASSUME NEW s \in Name
  PROVE  /\ s \in Texts /\ Len(s) \in Nat /\ Len(s) >= 1
         /\ \A k \in 1 .. Len(s) : s[k] # Dot
<1>1. PICK m \in 1 .. Len(text) : s \in [1 .. m -> PathOctet \ {Dot}]
  BY DEF Name
<1>2. m \in Nat
  BY <1>1
<1>3. s \in Texts /\ Len(s) = m
  BY <1>1, <1>2 DEF Texts
<1> QED
  BY <1>1, <1>2, <1>3

\* The first dot past the n-th name's own starts the next name, which there is.
LEMMA NextDot ==
  ASSUME NEW segs \in Seq(Texts), NEW n \in 1 .. Len(segs),
         \A k \in 1 .. Len(segs[n]) : segs[n][k] # Dot,
         NEW w, w = Joined(segs, Len(segs)),
         NEW d \in Nat, d < Len(w), d > Start(segs, n), w[d + 1] = Dot,
         \A o \in Start(segs, n) + 1 .. d - 1 : w[o + 1] # Dot
  PROVE  n < Len(segs) /\ d = Start(segs, n + 1)
<1> DEFINE s == segs[n]
           o == Start(segs, n)
           l == Len(s)
<1>1. /\ o \in Nat
      /\ o + 1 + l <= Len(w)
      /\ \A k \in 1 .. l : w[o + 1 + k] = s[k]
      /\ n < Len(segs) => Start(segs, n + 1) = o + 1 + l
      /\ n = Len(segs) => Len(w) = o + 1 + l
  BY SpelledText
<1>2. s \in Texts /\ l \in Nat /\ n \in Nat /\ Len(segs) \in Nat
  BY ElementOfSeq, LenProperties DEF Texts
<1>3. \A k \in 1 .. l : w[o + 1 + k] # Dot
  BY <1>1
<1>4. d > o /\ \A q \in o + 1 .. d - 1 : w[q + 1] # Dot
  OBVIOUS
<1> HIDE DEF s, o, l
<1>5. ~(d < o + 1 + l)
  <2> SUFFICES ASSUME d < o + 1 + l PROVE FALSE
    OBVIOUS
  <2>1. d - o \in 1 .. l /\ o + 1 + (d - o) = d + 1
    BY <1>1, <1>2, <1>4
  <2> QED
    BY <1>3, <2>1
<1>6. n # Len(segs)
  BY <1>1, <1>2, <1>5
<1>7. n < Len(segs) /\ Start(segs, n + 1) = o + 1 + l
  BY <1>1, <1>2, <1>6
<1>8. w[o + 1 + l + 1] = Dot
  <2>1. n + 1 \in 1 .. Len(segs)
    BY <1>2, <1>7
  <2>2. w[Start(segs, n + 1) + 1] = Dot
    BY <2>1, SpelledText
  <2> QED
    BY <1>7, <2>2
<1>9. ~(o + 1 + l < d)
  <2> SUFFICES ASSUME o + 1 + l < d PROVE FALSE
    OBVIOUS
  <2>1. o + 1 + l \in o + 1 .. d - 1
    BY <1>1, <1>2
  <2> QED
    BY <1>4, <1>8, <2>1
<1> QED
  BY <1>1, <1>2, <1>5, <1>7, <1>9

\* A text that is refused is not what any names spell, within the bound.
LEMMA RefusedSpellsNothing ==
  ASSUME YInv, CutInv, verdict = "no", NEW n \in 0 .. JSP_PATH_MAX_SEGMENTS,
         NEW segs \in [1 .. n -> Name], Spelled(segs) = text
  PROVE  FALSE
<1>1. /\ text \in Texts /\ Len(text) \in Nat /\ segments \in Nat /\ pos \in Nat /\ n \in Nat
      /\ dots \in Seq(Int) /\ Len(dots) = segments
      /\ JSP_PATH_MAX_SEGMENTS \in Nat /\ JSP_PATH_MAX_SEGMENTS # 0
  BY SegmentsAssumption, LenProperties DEF YInv, Texts
<1>2. \A k \in 1 .. n : segs[k] \in Name
  OBVIOUS
<1>3. segs \in Seq(Texts) /\ Len(segs) = n
  <2>1. \A k \in 1 .. n : segs[k] \in Texts
    BY <1>2, NameIs
  <2>2. segs \in [1 .. n -> Texts]
    BY <2>1
  <2> QED
    BY <1>1, <2>2
<1>4. n # 0
  <2> SUFFICES ASSUME n = 0 PROVE FALSE
    OBVIOUS
  <2>1. segs = <<>>
    BY <1>3
  <2>2. text = <<Dot>>
    BY <2>1 DEF Spelled
  <2> QED
    BY <2>2 DEF CutInv, Starts, Octet
<1>5. text = Joined(segs, n) /\ segs # <<>>
  <2>1. segs # <<>>
    BY <1>3, <1>4
  <2> QED
    BY <1>3, <2>1, SpelledIs
<1>6. ASSUME NEW k \in 1 .. n
      PROVE  /\ \A j \in 1 .. Len(segs[k]) : segs[k][j] # Dot
             /\ Start(segs, k) \in Nat /\ Start(segs, k) + 1 < Len(text)
             /\ text[Start(segs, k) + 1] = Dot
             /\ text[Start(segs, k) + 2] # Dot
  <2> DEFINE o == Start(segs, k)
             s == segs[k]
  <2>1. /\ o \in Nat
        /\ o + 1 + Len(s) <= Len(text)
        /\ text[o + 1] = Dot
        /\ \A j \in 1 .. Len(s) : text[o + 1 + j] = s[j]
    <3> DEFINE w == Joined(segs, Len(segs))
    <3>1. k \in 1 .. Len(segs) /\ text = w
      BY <1>3, <1>5
    <3>2. /\ o \in Nat
          /\ o + 1 + Len(s) <= Len(w)
          /\ w[o + 1] = Dot
          /\ \A j \in 1 .. Len(s) : w[o + 1 + j] = s[j]
      BY <1>3, <3>1, SpelledText
    <3> HIDE DEF w
    <3> QED
      BY <3>1, <3>2
  <2>2. Len(s) \in Nat /\ Len(s) >= 1 /\ \A j \in 1 .. Len(s) : s[j] # Dot
    BY <1>2, NameIs
  <2> HIDE DEF o, s
  <2>3. 1 \in 1 .. Len(s) /\ o + 1 + 1 = o + 2
    BY <2>1, <2>2
  <2>4. text[o + 2] # Dot
    BY <2>1, <2>2, <2>3
  <2>5. o + 1 < Len(text)
    BY <1>1, <2>1, <2>2
  <2> QED
    BY <2>1, <2>2, <2>4, <2>5 DEF o, s
<1>7. 1 \in 1 .. n /\ Start(segs, 1) = 0
  <2>1. 1 \in 1 .. n
    BY <1>1, <1>4
  <2> QED
    BY <1>3, <2>1, SpelledText
<1>8. Len(text) > 1 /\ pos < Len(text) /\ Octet(pos) = Dot /\ ~OpensSegment
  <2>1. Starts
    <3>1. text[0 + 1] = Dot /\ Len(text) > 1
      BY <1>1, <1>6, <1>7
    <3> QED
      BY <3>1 DEF Starts, Octet
  <2> QED
    BY <2>1 DEF CutInv
<1>9. \A k \in 1 .. n : \A d \in Nat :
        d < Len(text) /\ d > Start(segs, k) /\ text[d + 1] = Dot
          /\ (\A o \in Start(segs, k) + 1 .. d - 1 : text[o + 1] # Dot)
        => k < n /\ d = Start(segs, k + 1)
  BY <1>3, <1>5, <1>6, NextDot
<1>10. PICK q \in 1 .. n : q = segments + 1 /\ pos = Start(segs, q)
  <2>1. CASE segments = 0
    <3>1. pos = 0 /\ segments + 1 = 1
      BY <2>1 DEF YInv
    <3> QED
      BY <1>7, <3>1
  <2>2. CASE segments > 0
    <3> DEFINE S == {j \in 0 .. segments - 1 :
                       j + 1 \in 1 .. n /\ dots[j + 1] = Start(segs, j + 1)}
    <3>1. segments - 1 \in Nat
      BY <1>1, <2>2
    <3>2. 0 \in S
      BY <1>7, <2>2, <3>1 DEF CutInv
    <3>3. ASSUME NEW j \in 0 .. segments - 1 - 1, j \in S PROVE j + 1 \in S
      <4> DEFINE k == j + 1
                 d == dots[k + 1]
      <4>1. /\ k \in 1 .. n /\ dots[k] = Start(segs, k)
            /\ k \in 1 .. segments - 1 /\ k + 1 \in 1 .. segments
        BY <1>1, <3>3
      <4> HIDE DEF k
      <4>2. /\ dots[k] \in 0 .. d - 2
            /\ \A o \in dots[k] + 1 .. d - 1 : text[o + 1] # Dot
        BY <4>1 DEF YInv, Opens, Octet
      <4>3. d \in Nat /\ d < Len(text) /\ text[d + 1] = Dot
        <5>1. d \in Int
          BY <1>1, <4>1
        <5>2. CASE k + 1 = segments
          BY <5>1, <5>2, <1>1, <2>2 DEF YInv, Octet
        <5>3. CASE k + 1 \in 1 .. segments - 1
          <6>1. Opens(k + 1, dots[k + 2]) /\ k + 2 \in 1 .. Len(dots)
            <7>1. (k + 1) + 1 = k + 2
              BY <4>1
            <7> QED
              BY <1>1, <5>3, <7>1 DEF YInv
          <6>2. dots[k + 2] \in 0 .. Len(text)
            BY <6>1 DEF CutInv
          <6> QED
            BY <1>1, <6>1, <6>2 DEF Opens, Octet
        <5> QED
          BY <1>1, <4>1, <5>2, <5>3
      <4>4. d > Start(segs, k)
        BY <4>1, <4>2, <4>3
      <4>5. k < n /\ d = Start(segs, k + 1)
        BY <1>9, <4>1, <4>2, <4>3, <4>4
      <4>6. k + 1 \in 1 .. n /\ j + 1 \in 0 .. segments - 1
        BY <1>1, <3>1, <4>1, <4>5
      <4> QED
        BY <4>5, <4>6 DEF k
    <3>4. segments - 1 \in S
      <4> HIDE DEF S
      <4>1. \A j \in 0 .. segments - 1 : j \in S
        BY <3>1, <3>2, <3>3, UpTo
      <4> QED
        BY <3>1, <4>1
    <3>5. segments \in 1 .. n /\ dots[segments] = Start(segs, segments)
      <4>1. (segments - 1) + 1 = segments
        BY <1>1
      <4> QED
        BY <3>4, <4>1
    <3>6. /\ pos > Start(segs, segments) /\ text[pos + 1] = Dot
          /\ \A o \in Start(segs, segments) + 1 .. pos - 1 : text[o + 1] # Dot
      BY <1>1, <1>8, <2>2, <3>5 DEF YInv, Octet
    <3>7. segments < n /\ pos = Start(segs, segments + 1)
      BY <1>1, <1>8, <1>9, <3>5, <3>6
    <3> QED
      BY <1>1, <3>7
  <2> QED
    BY <1>1, <2>1, <2>2
<1>11. pos + 1 < Len(text) /\ text[pos + 2] # Dot
  BY <1>6, <1>10
<1>12. segments # JSP_PATH_MAX_SEGMENTS
  BY <1>1, <1>10
<1>13. OpensSegment
  <2>1. (pos + 1) + 1 = pos + 2
    BY <1>1
  <2> QED
    BY <1>1, <1>11, <1>12, <2>1 DEF OpensSegment, Octet
<1> QED
  BY <1>8, <1>13

\* A text is a path exactly when names spell it, as many as the bound allows; and
\* the places of the dots give those names back, for any text and any bound.
THEOREM PathSpellsItsSegments == YSpec => []PathIsItsSegments
<1>1. YInv /\ CutInv /\ DotsCutText => PathIsItsSegments
  BY SegmentsSpell, RefusedSpellsNothing DEF PathIsItsSegments
<1> QED
  BY <1>1, CutInitInv, CutNextInv, PathTyped, SegmentsLieInText, PTL DEF YSpec

-----------------------------------------------------------------------------
(* The two together *)

\* The line with its path starts as both of its parts.
LEMMA LInitInv == LInit => SInit /\ YInv /\ CutInv
<1>1. LInit => YInv
  BY SegmentsAssumption DEF LInit, YInv
<1>2. LInit => CutInv
  BY DEF LInit, CutInv
<1> QED
  BY <1>1, <1>2 DEF LInit

\* The line's steps keep what is known of the path that is being parsed.
LEMMA LNextInv ==
  ASSUME SInv, YInv, CutInv, [LNext]_<<svars, pathvars>>
  PROVE  YInv' /\ CutInv'
<1>1. CASE CallPathParse
  <2>1. i \in DOMAIN argv /\ argv[i] \in Args
    BY <1>1, LenProperties, ElementOfSeq DEF CallPathParse, Arg, SInv
  <2>2. /\ text' \in Seq(PathOctet) /\ pos' = 0 /\ segments' = 0 /\ dots' = <<>>
        /\ verdict' = "pending" /\ Len(text') \in Nat
    BY <1>1, <2>1, PathsAreTexts, LenProperties DEF CallPathParse
  <2>3. YInv'
    BY <2>2, SegmentsAssumption DEF YInv
  <2>4. CutInv'
    BY <2>2 DEF CutInv
  <2> QED
    BY <2>3, <2>4
<1>2. CASE InPathParse
  BY <1>2, YNextInv, CutNextInv DEF InPathParse
<1>3. CASE PathParsed \/ Elsewhere \/ UNCHANGED <<svars, pathvars>>
  BY <1>3, YNextInv, CutNextInv DEF PathParsed, Elsewhere
<1> QED
  BY <1>1, <1>2, <1>3 DEF LNext

\* Calling jsp_path_parse, and its steps, leave the line as it is.
LEMMA LineSteps == [LNext]_<<svars, pathvars>> => [SNext]_svars
<1>1. CallPathParse \/ InPathParse => UNCHANGED svars
  BY DEF CallPathParse, InPathParse
<1>2. PathParsed => SNext
  BY DEF PathParsed, SNext
<1>3. Elsewhere => SNext
  BY DEF Elsewhere, SNext
<1> QED
  BY <1>1, <1>2, <1>3 DEF LNext

\* With the parser of paths in it, jsp_settings_parse goes through the line as
\* Settings has it, which knows of a path only whether it is one.
LEMMA LineImplementsSettings == LSpec => SSpec
BY LInitInv, LineSteps, PTL DEF LSpec, SSpec

\* Together they obey every command line, and cut its path at its dots.
THEOREM WholeLineIsObeyed == LSpec => [](LineIsObeyed /\ DotsCutText /\ PathIsItsSegments)
<1>1. LSpec => []SInv
  BY LineImplementsSettings, SettingsInvariant, PTL
<1>2. LSpec => [](YInv /\ CutInv)
  BY <1>1, LInitInv, LNextInv, PTL DEF LSpec
<1>3. YInv => DotsCutText
  BY DotsAreCut
<1>4. YInv /\ CutInv /\ DotsCutText => PathIsItsSegments
  BY SegmentsSpell, RefusedSpellsNothing DEF PathIsItsSegments
<1> QED
  BY <1>2, <1>3, <1>4, LineImplementsSettings, CommandLineIsObeyed, PTL
===============================================================================
