------------------------------ MODULE Classify ------------------------------
(***************************************************************************)
(* jsp_classify: which of a block's 64 octets are structural, quotes or    *)
(* backslashes, by each of the three backends that a build chooses from.   *)
(* A tag is the set of its bits' names; a mask is the set of the positions *)
(* of its set bits.                                                        *)
(***************************************************************************)
EXTENDS Integers

CONSTANTS
  Fillers,  \* bound of the exploration: what a block is full of at first
  Places    \* bound of the exploration: where one octet of it is replaced

Uint8 == 0 .. 255

ASSUME FillersAssumption == Fillers \subseteq Uint8

Place == 0 .. 63

ASSUME PlacesAssumption == Places \subseteq Place

Block == [Place -> Uint8]

\* The characters that JSON's structure is made of, and the one that escapes.
Char ==
  [LBRACE |-> 123, RBRACE |-> 125, LBRACKET |-> 91, RBRACKET |-> 93,
   COLON |-> 58, COMMA |-> 44, QUOTE |-> 34, BACKSLASH |-> 92]

Tag == DOMAIN Char

StructuralBits == Tag \ {"BACKSLASH"}

-----------------------------------------------------------------------------
(* The scalar backend *)

IsStructural(c) == \E t \in StructuralBits : c = Char[t]

ScalarMasks(p) ==
  [structural |-> {i \in Place : IsStructural(p[i])},
   quote |-> {i \in Place : p[i] = Char["QUOTE"]},
   backslash |-> {i \in Place : p[i] = Char["BACKSLASH"]}]

-----------------------------------------------------------------------------
(* The nibble tables *)

Nibble == 0 .. 15

\* The row of each character's bit in JSP_LOW_NIBBLE_TABLE.
LowRow ==
  [LBRACE |-> 11, RBRACE |-> 13, LBRACKET |-> 11, RBRACKET |-> 13,
   COLON |-> 10, COMMA |-> 12, QUOTE |-> 2, BACKSLASH |-> 12]

\* And in JSP_HIGH_NIBBLE_TABLE.
HighRow ==
  [LBRACE |-> 7, RBRACE |-> 7, LBRACKET |-> 5, RBRACKET |-> 5,
   COLON |-> 3, COMMA |-> 2, QUOTE |-> 2, BACKSLASH |-> 5]

LowNibbleTable == [n \in Nibble |-> {t \in Tag : LowRow[t] = n}]

HighNibbleTable == [n \in Nibble |-> {t \in Tag : HighRow[t] = n}]

\* One lane of is_nonzero16 and is_nonzero32: all of its bits, or none.
Nonzero(tag) == IF tag = {} THEN 0 ELSE 255

-----------------------------------------------------------------------------
(* The NEON backend: 16 lanes of one octet *)

Lane16 == 0 .. 15

\* classify_tag16, for the lane that holds c.
Tag16(c) == LowNibbleTable[c % 16] \cap HighNibbleTable[c \div 16]

BitWeight == [i \in Lane16 |-> <<1, 2, 4, 8, 16, 32, 64, 128>>[(i % 8) + 1]]

\* An octet's sum wraps.
OctetSum(a, b) == (a + b) % 256

\* vpaddq_u8 of v with itself.
Paired(v) == [i \in Lane16 |-> OctetSum(v[2 * (i % 8)], v[2 * (i % 8) + 1])]

\* The set bits of two octets side by side, lo's first.
BitsOf(hi, lo) ==
  {i \in Lane16 : ((IF i < 8 THEN lo ELSE hi) \div BitWeight[i]) % 2 = 1}

\* movemask16: v's lanes hold 0 or 255, and & with a weight is all of it or none.
Movemask16(v) ==
  LET weighted == [i \in Lane16 |-> IF v[i] = 255 THEN BitWeight[i] ELSE 0]
      sums == Paired(Paired(Paired(weighted)))
  IN BitsOf(sums[1], sums[0])

\* The 16-octet parts of the block, each mask moved to the part's place.
NeonMask(p, bits) ==
  LET hit(lane) ==
        [k \in Lane16 |-> Nonzero(Tag16(p[16 * lane + k]) \cap bits)]
  IN UNION {{16 * lane + k : k \in Movemask16(hit(lane))} : lane \in 0 .. 3}

NeonMasks(p) ==
  [structural |-> NeonMask(p, StructuralBits),
   quote |-> NeonMask(p, {"QUOTE"}),
   backslash |-> NeonMask(p, {"BACKSLASH"})]

-----------------------------------------------------------------------------
(* The AVX2 backend: 32 lanes of one octet, shifted as 16 lanes of two *)

\* Octet i after the shift, with what its neighbour's low bits put into it: the
\* lanes are little-endian.
ShiftedPair(p, i) ==
  LET even == i - (i % 2)
      word == (p[even] + 256 * p[even + 1]) \div 16
  IN IF i % 2 = 0 THEN word % 256 ELSE word \div 256

\* Fault: what the neighbour puts into an octet stays in it.
HighNibbleLeaking(p, i) == ShiftedPair(p, i)

HighNibble(p, i) == ShiftedPair(p, i) % 16

\* _mm256_shuffle_epi8: an index with its top bit set gives no bits.
Shuffled(table, index) == IF index >= 128 THEN {} ELSE table[index % 16]

\* classify_tag32, for lane i.
Tag32(p, i) ==
  Shuffled(LowNibbleTable, p[i] % 16) \cap Shuffled(HighNibbleTable, HighNibble(p, i))

\* The 32-octet parts of the block, each moved to its place in the mask:
\* _mm256_movemask_epi8 takes each lane's top bit.
Avx2Mask(p, bits) == {i \in Place : Nonzero(Tag32(p, i) \cap bits) >= 128}

Avx2Masks(p) ==
  [structural |-> Avx2Mask(p, StructuralBits),
   quote |-> Avx2Mask(p, {"QUOTE"}),
   backslash |-> Avx2Mask(p, {"BACKSLASH"})]

-----------------------------------------------------------------------------
(* jsp_classify_masks64 *)

Backend == {"scalar", "neon", "avx2"}

Masks64(b, p) ==
  CASE b = "scalar" -> ScalarMasks(p)
    [] b = "neon" -> NeonMasks(p)
    [] b = "avx2" -> Avx2Masks(p)

VARIABLES
  backend,  \* what the build chose
  block     \* the octets to classify

cvars == <<backend, block>>

Throughout(o) == [i \in Place |-> o]

\* A block of one octet throughout, as it is before octets are read into it.
CInit ==
  /\ backend \in Backend
  /\ block \in {Throughout(o) : o \in Fillers}

\* Another octet is read into the block.
ReadOctetAt(i, c) ==
  /\ block' = [block EXCEPT ![i] = c]
  /\ UNCHANGED backend

\* Within the bound, one octet of a block is replaced.
CNext ==
  /\ block \in {Throughout(o) : o \in Fillers}
  /\ \E i \in Places, c \in Uint8 : ReadOctetAt(i, c)

CSpec == CInit /\ [][CNext]_cvars

-----------------------------------------------------------------------------
(* Properties *)

\* What the scan takes an octet for.
KindOf(c) ==
  CASE c = 34 -> "quote"
    [] c = 92 -> "backslash"
    [] c \in {44, 58, 91, 93, 123, 125} -> "bracket"
    [] c \notin {34, 92, 44, 58, 91, 93, 123, 125} -> "text"

OfKind(p, kinds) == {i \in Place : KindOf(p[i]) \in kinds}

KindMasks(p) ==
  [structural |-> OfKind(p, {"quote", "bracket"}),
   quote |-> OfKind(p, {"quote"}),
   backslash |-> OfKind(p, {"backslash"})]

\* Whatever a block holds, every build finds the same three masks in it, bit by
\* bit the octets of each kind: no lane shows in another one's bit.
MasksAreKinds == Masks64(backend, block) = KindMasks(block)

\* The two tables' bits in common are the character's own bit, and none for an
\* octet that is no such character.
OwnTag(c) == {t \in Tag : Char[t] = c}

TagsAreOwn == \A i \in Place : Tag16(block[i]) = OwnTag(block[i])
=============================================================================
