----------------------------- MODULE SharedLemmas -----------------------------
(***************************************************************************)
(* The lemmas that the proofs of several components rest on: induction     *)
(* over naturals and over data, where a property is the set of the         *)
(* naturals that have it and a recursion is a function that takes one      *)
(* value to the next; and what the operators of Bits and Masks compute for *)
(* words of any width, a block's mask being what a reader of single octets *)
(* finds.                                                                  *)
(***************************************************************************)
EXTENDS Masks, FiniteSetTheorems, SequenceTheorems, WellFoundedInduction, TLAPS

-----------------------------------------------------------------------------
(* Induction *)

\* Every nonempty set of naturals has a least element.
LEMMA LeastNatural ==
  ASSUME NEW T \in SUBSET Nat, T # {}
  PROVE  \E x \in T : \A y \in T : x <= y
<1>1. PICK x \in T : \A y \in T : ~ (<<y, x>> \in OpToRel(<, Nat))
  BY NatLessThanWellFounded, WFMin
<1>2. ASSUME NEW y \in T PROVE x <= y
  <2>1. x \in Nat /\ y \in Nat
    OBVIOUS
  <2>2. ~ (y < x)
    BY <1>1, <2>1 DEF OpToRel
  <2> QED
    BY <2>1, <2>2
<1> QED
  BY <1>2

\* What holds of 0, and of a number's successor with the number, holds up to n.
LEMMA UpTo ==
  ASSUME NEW n \in Nat, NEW S,
         0 \in S,
         \A i \in 0 .. n - 1 : i \in S => i + 1 \in S
  PROVE  \A i \in 0 .. n : i \in S
<1> DEFINE T == {i \in 0 .. n : i \notin S}
<1> SUFFICES ASSUME T # {} PROVE FALSE
  OBVIOUS
<1>1. T \in SUBSET Nat
  OBVIOUS
<1>2. PICK x \in T : \A y \in T : x <= y
  <2> HIDE DEF T
  <2> QED
    BY <1>1, LeastNatural
<1>3. x - 1 \in 0 .. n - 1 /\ x - 1 \notin T
  BY <1>2
<1>4. (x - 1) + 1 \in S
  BY <1>3
<1> QED
  BY <1>2, <1>3, <1>4

\* And of every natural.
LEMMA EveryNatural ==
  ASSUME NEW S, 0 \in S, \A i \in Nat : i \in S => i + 1 \in S
  PROVE  Nat \subseteq S
<1> SUFFICES ASSUME NEW n \in Nat PROVE n \in S
  OBVIOUS
<1>1. \A i \in 0 .. n : i \in S
  BY UpTo
<1> QED
  BY <1>1

\* The n steps of a recursion over values in T.
Steps(n, T) == [1 .. n -> [T -> T]]

\* g is the values of a recursion, from base on.
Follows(g, n, T, base, op) ==
  /\ g \in [0 .. n -> T]
  /\ g[0] = base
  /\ \A i \in 1 .. n : g[i] = op[i][g[i - 1]]

\* A recursion of n steps defines a function.
LEMMA RecursionExists ==
  ASSUME NEW T, NEW base \in T, NEW n \in Nat, NEW op \in Steps(n, T)
  PROVE  \E g : Follows(g, n, T, base, op)
<1> USE DEF Steps
<1> DEFINE Good(m, g) == /\ g[0] = base
                         /\ \A i \in 1 .. m : g[i] = op[i][g[i - 1]]
           S == {m \in 0 .. n : \E g \in [0 .. m -> T] : Good(m, g)}
<1>1. 0 \in S
  <2> DEFINE g == [i \in 0 .. 0 |-> base]
  <2>1. g \in [0 .. 0 -> T] /\ Good(0, g)
    OBVIOUS
  <2> HIDE DEF g, Good
  <2> QED
    BY <2>1
<1>2. ASSUME NEW m \in 0 .. n - 1, m \in S PROVE m + 1 \in S
  <2>1. PICK g \in [0 .. m -> T] : Good(m, g)
    BY <1>2
  <2> DEFINE h == [i \in 0 .. m + 1 |-> IF i <= m THEN g[i] ELSE op[m + 1][g[m]]]
  <2>2. op[m + 1] \in [T -> T] /\ g[m] \in T
    OBVIOUS
  <2>3. h \in [0 .. m + 1 -> T]
    BY <2>2
  <2>4. Good(m + 1, h)
    <3>1. h[0] = base
      BY <2>1
    <3>2. ASSUME NEW i \in 1 .. m + 1 PROVE h[i] = op[i][h[i - 1]]
      BY <2>1
    <3> QED
      BY <3>1, <3>2
  <2> HIDE DEF h, Good
  <2> QED
    BY <2>3, <2>4
<1>3. n \in S
  <2> HIDE DEF S
  <2>1. \A m \in 0 .. n : m \in S
    BY <1>1, <1>2, UpTo
  <2> QED
    BY <2>1
<1>4. PICK g \in [0 .. n -> T] : Good(n, g)
  BY <1>3
<1> QED
  BY <1>4 DEF Follows

\* The greatest number up to i, and the numbers below it.
LEMMA MaxUpTo ==
  ASSUME NEW i \in Nat \ {0}
  PROVE  Max(1 .. i) = i /\ (1 .. i) \ {i} = 1 .. i - 1 /\ 1 .. i # {}
<1>1. i \in 1 .. i /\ \A y \in 1 .. i : i >= y
  OBVIOUS
<1>2. \A x \in 1 .. i : (\A y \in 1 .. i : x >= y) => x = i
  BY <1>1
<1> QED
  BY <1>1, <1>2 DEF Max

\* A set of numbers up to m that is not empty has a greatest one.
LEMMA MaxIsIn ==
  ASSUME NEW m \in Nat, NEW S \in SUBSET (1 .. m), S # {}
  PROVE  Max(S) \in S
<1> DEFINE V == {k \in 0 .. m : m - k \in S}
<1>1. V \in SUBSET Nat /\ \A y \in S : m - y \in V
  OBVIOUS
<1>2. PICK v \in V : \A w \in V : v <= w
  <2> HIDE DEF V
  <2> QED
    BY <1>1, LeastNatural
<1>3. v \in 0 .. m /\ m - v \in S
  OBVIOUS
<1>4. ASSUME NEW y \in S PROVE m - v >= y
  <2>1. y \in 1 .. m /\ v <= m - y
    BY <1>1, <1>2
  <2> QED
    BY <1>3, <2>1
<1> QED
  BY <1>3, <1>4 DEF Max

\* g is the values of a fold over sets, each made of that of the set without its
\* greatest element, as the community modules define it.
FollowsSets(g, n, T, base, op) ==
  /\ g \in [SUBSET (1 .. n) -> T]
  /\ \A S \in SUBSET (1 .. n) :
       g[S] = IF S = {} THEN base ELSE op[Max(S)][g[S \ {Max(S)}]]

\* A fold over n elements defines a function.
LEMMA FoldExists ==
  ASSUME NEW T, NEW base \in T, NEW n \in Nat, NEW op \in Steps(n, T)
  PROVE  \E g : FollowsSets(g, n, T, base, op)
<1> USE DEF Steps
<1> DEFINE Good(m, g) ==
             \A S \in SUBSET (1 .. m) :
               g[S] = IF S = {} THEN base ELSE op[Max(S)][g[S \ {Max(S)}]]
           Has(m) == \E g \in [SUBSET (1 .. m) -> T] : Good(m, g)
           N == {m \in 0 .. n : Has(m)}
<1>1. 0 \in N
  <2> DEFINE g == [S \in SUBSET (1 .. 0) |-> base]
  <2>1. \A S \in SUBSET (1 .. 0) : S = {}
    OBVIOUS
  <2>2. g \in [SUBSET (1 .. 0) -> T] /\ Good(0, g)
    BY <2>1
  <2> HIDE DEF g, Good
  <2>3. Has(0)
    BY <2>2
  <2> HIDE DEF Has
  <2> QED
    BY <2>3
<1>2. ASSUME NEW m \in 0 .. n - 1, m \in N PROVE m + 1 \in N
  <2>1. PICK g \in [SUBSET (1 .. m) -> T] : Good(m, g)
    BY <1>2
  <2> DEFINE h == [S \in SUBSET (1 .. m + 1) |->
                     IF m + 1 \in S THEN op[m + 1][g[S \ {m + 1}]] ELSE g[S]]
  <2>2. ASSUME NEW S \in SUBSET (1 .. m + 1)
        PROVE  /\ S \ {m + 1} \in SUBSET (1 .. m)
               /\ m + 1 \in S => Max(S) = m + 1
               /\ m + 1 \notin S => S \in SUBSET (1 .. m)
    <3>1. S \ {m + 1} \in SUBSET (1 .. m)
      OBVIOUS
    <3>2. ASSUME m + 1 \in S PROVE Max(S) = m + 1
      <4>1. \A y \in S : m + 1 >= y
        OBVIOUS
      <4>2. \A x \in S : (\A y \in S : x >= y) => x = m + 1
        BY <3>2, <4>1
      <4> QED
        BY <3>2, <4>1, <4>2 DEF Max
    <3>3. m + 1 \notin S => S \in SUBSET (1 .. m)
      OBVIOUS
    <3> QED
      BY <3>1, <3>2, <3>3
  <2>3. op[m + 1] \in [T -> T]
    OBVIOUS
  <2>4. h \in [SUBSET (1 .. m + 1) -> T]
    BY <2>2, <2>3
  <2>5. \A S \in SUBSET (1 .. m) : S # {} => Max(S) \in S
    <3>1. m \in Nat
      OBVIOUS
    <3> QED
      BY <3>1, MaxIsIn
  <2>6. Good(m + 1, h)
    <3> SUFFICES ASSUME NEW S \in SUBSET (1 .. m + 1)
                 PROVE  h[S] = IF S = {} THEN base ELSE op[Max(S)][h[S \ {Max(S)}]]
      OBVIOUS
    <3>1. CASE m + 1 \in S
      <4>1. Max(S) = m + 1 /\ S # {}
        BY <2>2, <3>1
      <4>2. h[S \ {m + 1}] = g[S \ {m + 1}]
        OBVIOUS
      <4> QED
        BY <3>1, <4>1, <4>2
    <3>2. CASE m + 1 \notin S
      <4>1. S \in SUBSET (1 .. m) /\ h[S] = g[S]
        BY <2>2, <3>2
      <4>2. S # {} => S \ {Max(S)} \in SUBSET (1 .. m + 1) /\ h[S \ {Max(S)}] = g[S \ {Max(S)}]
        BY <3>2
      <4> QED
        BY <2>1, <4>1, <4>2
    <3> QED
      BY <3>1, <3>2
  <2> HIDE DEF h, Good
  <2> QED
    BY <2>4, <2>6
<1>3. n \in N
  <2> HIDE DEF N
  <2>1. \A m \in 0 .. n : m \in N
    BY <1>1, <1>2, UpTo
  <2> QED
    BY <2>1
<1>4. PICK g \in [SUBSET (1 .. n) -> T] : Good(n, g)
  BY <1>3
<1> QED
  BY <1>4 DEF FollowsSets

\* The first n octets of a sequence.
LEMMA FirstOctets ==
  ASSUME NEW X, NEW s \in Seq(X), NEW n \in 0 .. Len(s)
  PROVE  /\ SubSeq(s, 1, n) \in Seq(X)
         /\ Len(SubSeq(s, 1, n)) = n
         /\ DOMAIN SubSeq(s, 1, n) = 1 .. n
         /\ \A i \in 1 .. n : SubSeq(s, 1, n)[i] = s[i]
<1>1. Len(s) \in Nat
  BY LenProperties
<1>2. \A i \in 1 .. n : s[i] \in X
  BY <1>1, ElementOfSeq
<1>3. /\ SubSeq(s, 1, n) \in Seq(X)
      /\ Len(SubSeq(s, 1, n)) = IF 1 <= n THEN n - 1 + 1 ELSE 0
      /\ \A i \in 1 .. n - 1 + 1 : SubSeq(s, 1, n)[i] = s[1 + i - 1]
  BY <1>1, <1>2, SubSeqProperties
<1> QED
  BY <1>1, <1>3, LenProperties

\* Sequences over X, in whatever grouping.
Associate(X) ==
  \A s \in Seq(X), t \in Seq(X), u \in Seq(X) : (s \o t) \o u = s \o (t \o u)

\* They are the same sequence.
LEMMA AllAssociate ==
  ASSUME NEW X
  PROVE  Associate(X)
BY ConcatAssociative, SMTT(30) DEF Associate

-----------------------------------------------------------------------------
(* Addition *)

\* The carry into each bit, and the sum's bits under it.
LEMMA PlusCarries ==
  ASSUME NEW a, NEW b
  PROVE  \E carries \in [0 .. WordWidth -> BOOLEAN] :
           /\ ~carries[0]
           /\ \A i \in Bit : carries[i + 1] <=> \/ i \in a \cap b
                                                \/ i \in a \cup b /\ carries[i]
           /\ Plus(a, b) = {i \in Bit : (i \in Xor(a, b)) # carries[i]}
<1> DEFINE Into(c) == [i \in 0 .. WordWidth |->
                         i > 0 /\ \/ i - 1 \in a \cap b
                                  \/ i - 1 \in a \cup b /\ c[i - 1]]
           carries == CHOOSE c : c = Into(c)
           op == [i \in 1 .. WordWidth |-> [c \in {0, 1} |->
                    IF \/ i - 1 \in a \cap b
                       \/ i - 1 \in a \cup b /\ c = 1 THEN 1 ELSE 0]]
<1>1. \E c : c = Into(c)
  <2>1. op \in Steps(WordWidth, {0, 1})
    BY DEF Steps
  <2>2. WordWidth \in Nat /\ 0 \in {0, 1}
    BY WordWidthAssumption
  <2>3. PICK g : Follows(g, WordWidth, {0, 1}, 0, op)
    <3> HIDE DEF op
    <3> QED
      BY <2>1, <2>2, RecursionExists
  <2> DEFINE c == [i \in 0 .. WordWidth |-> g[i] = 1]
  <2>4. \A i \in 1 .. WordWidth :
          g[i] = 1 <=> \/ i - 1 \in a \cap b
                       \/ i - 1 \in a \cup b /\ g[i - 1] = 1
    <3> SUFFICES ASSUME NEW i \in 1 .. WordWidth
                 PROVE  g[i] = 1 <=> \/ i - 1 \in a \cap b
                                     \/ i - 1 \in a \cup b /\ g[i - 1] = 1
      OBVIOUS
    <3>1. i - 1 \in 0 .. WordWidth /\ g[i - 1] \in {0, 1}
      BY <2>2, <2>3 DEF Follows
    <3>2. g[i] = op[i][g[i - 1]]
      BY <2>3 DEF Follows
    <3>3. op[i][g[i - 1]] = IF \/ i - 1 \in a \cap b
                               \/ i - 1 \in a \cup b /\ g[i - 1] = 1 THEN 1 ELSE 0
      BY <3>1
    <3> QED
      BY <3>2, <3>3
  <2>5. ASSUME NEW i \in 0 .. WordWidth PROVE c[i] = Into(c)[i]
    <3>1. CASE i = 0
      <4>1. g[0] # 1
        BY <2>3 DEF Follows
      <4>2. Into(c)[i] = (i > 0 /\ \/ i - 1 \in a \cap b
                                   \/ i - 1 \in a \cup b /\ c[i - 1])
        BY <3>1
      <4>3. c[i] = FALSE
        BY <3>1, <4>1
      <4>4. ~(i > 0)
        BY <3>1
      <4> QED
        BY <4>2, <4>3, <4>4
    <3>2. CASE i # 0
      <4>1. i \in 1 .. WordWidth /\ i > 0 /\ i - 1 \in 0 .. WordWidth
        BY <2>2, <3>2
      <4>2. c[i] = (g[i] = 1) /\ c[i - 1] = (g[i - 1] = 1)
        BY <4>1
      <4> QED
        BY <2>4, <4>1, <4>2
    <3> QED
      BY <3>1, <3>2
  <2>6. c = Into(c)
    <3> HIDE DEF op
    <3> QED
      BY <2>5
  <2> QED
    BY <2>6
<1>2. carries = Into(carries)
  BY <1>1
<1>6. Plus(a, b) = {i \in Bit : (i \in Xor(a, b)) # carries[i]}
  BY DEF Plus
<1> HIDE DEF carries
<1>3. carries \in [0 .. WordWidth -> BOOLEAN]
  BY <1>2
<1>4. ~carries[0]
  <2>1. 0 \in 0 .. WordWidth /\ ~(0 > 0)
    BY WordWidthAssumption
  <2>2. Into(carries)[0] = (0 > 0 /\ \/ 0 - 1 \in a \cap b
                                     \/ 0 - 1 \in a \cup b /\ carries[0 - 1])
    BY <2>1
  <2>3. carries[0] = Into(carries)[0]
    BY <1>2
  <2> QED
    BY <2>1, <2>2, <2>3
<1>5. \A i \in Bit : carries[i + 1] <=> \/ i \in a \cap b
                                        \/ i \in a \cup b /\ carries[i]
  <2> SUFFICES ASSUME NEW i \in Bit
               PROVE  carries[i + 1] <=> \/ i \in a \cap b
                                         \/ i \in a \cup b /\ carries[i]
    OBVIOUS
  <2>1. i + 1 \in 0 .. WordWidth /\ i + 1 > 0 /\ (i + 1) - 1 = i
    BY WordWidthAssumption DEF Bit
  <2>2. carries[i + 1] = Into(carries)[i + 1]
    BY <1>2
  <2> QED
    BY <2>1, <2>2
<1> QED
  BY <1>3, <1>4, <1>5, <1>6
-----------------------------------------------------------------------------
(* Runs of set bits *)

\* j is where i's run starts.
StartsRun(bits, j, i) == j \in 0 .. i /\ (j .. i) \subseteq bits /\ j - 1 \notin bits

\* Every set bit is of a run, which starts at one place.
LEMMA RunStartIs ==
  ASSUME NEW bits \in Word, NEW i \in bits
  PROVE  /\ StartsRun(bits, RunStart(bits, i), i)
         /\ \A j : StartsRun(bits, j, i) => j = RunStart(bits, i)
<1> DEFINE T == {j \in 0 .. i : (j .. i) \subseteq bits}
<1>1. i \in Nat /\ bits \subseteq Nat
  BY WordWidthAssumption DEF Word, Bit
<1>2. T \in SUBSET Nat /\ i \in T
  BY <1>1
<1>3. PICK j \in T : \A k \in T : j <= k
  <2> HIDE DEF T
  <2> QED
    BY <1>2, LeastNatural
<1>4. j - 1 \notin bits
  <2> SUFFICES ASSUME j - 1 \in bits PROVE FALSE
    OBVIOUS
  <2>1. j - 1 \in 0 .. i /\ (j - 1 .. i) \subseteq bits
    BY <1>1, <1>3
  <2> QED
    BY <1>3, <2>1
<1>5. StartsRun(bits, j, i)
  BY <1>4 DEF StartsRun
<1>6. \A k, l : StartsRun(bits, k, i) /\ StartsRun(bits, l, i) => k = l
  <2> SUFFICES ASSUME NEW k, NEW l, StartsRun(bits, k, i), StartsRun(bits, l, i), k < l
               PROVE  FALSE
    BY <1>1 DEF StartsRun
  <2>1. l - 1 \in k .. i
    BY <1>1 DEF StartsRun
  <2> QED
    BY <2>1 DEF StartsRun
<1> QED
  BY <1>5, <1>6 DEF RunStart, StartsRun

\* Where a run starts.
RunStarts(bits) == {j \in bits : j - 1 \notin bits}

\* A bit that goes on with a run is of the run of the bit before it.
LEMMA RunGoesOn ==
  ASSUME NEW bits \in Word, NEW i \in bits
  PROVE  /\ RunStart(bits, i) \in RunStarts(bits)
         /\ i - 1 \notin bits => RunStart(bits, i) = i
         /\ i - 1 \in bits => RunStart(bits, i) = RunStart(bits, i - 1)
         /\ RunStart(bits, i) = i => i - 1 \notin bits
<1>1. i \in Nat /\ bits \subseteq Nat
  BY WordWidthAssumption DEF Word, Bit
<1>2. StartsRun(bits, RunStart(bits, i), i)
  BY RunStartIs
<1>3. RunStart(bits, i) \in RunStarts(bits)
  BY <1>1, <1>2 DEF StartsRun, RunStarts
<1>4. i - 1 \notin bits => StartsRun(bits, i, i)
  BY <1>1 DEF StartsRun
<1>5. ASSUME i - 1 \in bits PROVE StartsRun(bits, RunStart(bits, i - 1), i)
  <2>1. StartsRun(bits, RunStart(bits, i - 1), i - 1)
    BY <1>5, RunStartIs
  <2> QED
    BY <1>1, <1>5, <2>1 DEF StartsRun
<1>6. RunStart(bits, i) = i => i - 1 \notin bits
  BY <1>2 DEF StartsRun
<1> QED
  BY <1>3, <1>4, <1>5, <1>6, RunStartIs

\* Adding the starts of some runs to the word changes, within it, those runs.
LEMMA AddingStarts ==
  ASSUME NEW bits \in Word, NEW s \in SUBSET RunStarts(bits)
  PROVE  bits \cap Xor(Plus(bits, s), bits) = {i \in bits : RunStart(bits, i) \in s}
<1>1. WordWidth \in Nat /\ bits \subseteq Bit /\ s \subseteq bits
  BY WordWidthAssumption DEF Word, RunStarts
<1>2. PICK carries \in [0 .. WordWidth -> BOOLEAN] :
        /\ ~carries[0]
        /\ \A i \in Bit : carries[i + 1] <=> \/ i \in bits \cap s
                                             \/ i \in bits \cup s /\ carries[i]
        /\ Plus(bits, s) = {i \in Bit : (i \in Xor(bits, s)) # carries[i]}
  BY PlusCarries
<1> DEFINE S == {i \in 0 .. WordWidth :
                   carries[i] <=> i - 1 \in bits /\ RunStart(bits, i - 1) \in s}
<1>3. \A i \in 0 .. WordWidth : i \in S
  <2>1. 0 \in S
    BY <1>1, <1>2 DEF Bit
  <2>2. ASSUME NEW i \in 0 .. WordWidth - 1, i \in S PROVE i + 1 \in S
    <3>1. i \in Bit /\ i + 1 \in 0 .. WordWidth /\ (i + 1) - 1 = i
      BY <1>1 DEF Bit
    <3>2. carries[i + 1] <=> \/ i \in s
                             \/ i \in bits /\ carries[i]
      BY <1>1, <1>2, <3>1
    <3>3. i \in s => RunStart(bits, i) = i
      BY <1>1, RunGoesOn DEF RunStarts
    <3>4. i \in bits /\ carries[i] => RunStart(bits, i) \in s
      BY <2>2, RunGoesOn
    <3>5. ASSUME i \in bits, RunStart(bits, i) \in s, i \notin s PROVE carries[i]
      <4>1. i - 1 \in bits /\ RunStart(bits, i) = RunStart(bits, i - 1)
        BY <3>5, RunGoesOn
      <4> QED
        BY <2>2, <3>5, <4>1
    <3>6. carries[i + 1] <=> i \in bits /\ RunStart(bits, i) \in s
      BY <1>1, <3>2, <3>3, <3>4, <3>5
    <3> QED
      BY <3>1, <3>6
  <2> HIDE DEF S
  <2> QED
    BY <1>1, <2>1, <2>2, UpTo
<1>4. ASSUME NEW i \in bits
      PROVE  i \in Xor(Plus(bits, s), bits) <=> RunStart(bits, i) \in s
  <2>1. i \in Bit /\ i \in 0 .. WordWidth
    BY <1>1 DEF Bit
  <2>2. i \in Plus(bits, s) <=> (i \notin s) # carries[i]
    BY <1>2, <2>1 DEF Xor
  <2>3. i \in Xor(Plus(bits, s), bits) <=> i \notin Plus(bits, s)
    BY DEF Xor
  <2>4. CASE i \in s
    <3>1. i - 1 \notin bits /\ RunStart(bits, i) = i
      BY <2>4, RunGoesOn DEF RunStarts
    <3>2. ~carries[i]
      BY <1>3, <2>1, <3>1
    <3> QED
      BY <1>2, <2>1, <2>2, <2>3, <2>4, <3>1, <3>2
  <2>5. CASE i \notin s
    <3>1. carries[i] <=> RunStart(bits, i) \in s
      <4>1. carries[i] <=> i - 1 \in bits /\ RunStart(bits, i - 1) \in s
        BY <1>3, <2>1
      <4>2. i - 1 \notin bits => RunStart(bits, i) \notin s
        BY <2>5, RunGoesOn
      <4> QED
        BY <4>1, <4>2, RunGoesOn
    <3> QED
      BY <2>2, <2>3, <2>5, <3>1, <1>2, <2>1
  <2> QED
    BY <2>4, <2>5
<1> QED
  BY <1>4

-----------------------------------------------------------------------------
(* RunParity *)

\* The lowest bit of a word that is not empty.
LEMMA TrailingZerosIs ==
  ASSUME NEW a \in Word, a # {}
  PROVE  TrailingZeros(a) \in a /\ \A j \in a : TrailingZeros(a) <= j
<1>1. a \in SUBSET Nat
  BY WordWidthAssumption DEF Word, Bit
<1>2. PICK x \in a : \A y \in a : x <= y
  BY <1>1, LeastNatural
<1> QED
  BY <1>2 DEF TrailingZeros

\* The bits of a run that fills the word from its bottom.
LEMMA FirstRun ==
  ASSUME NEW bits \in Word, 0 \in bits
  PROVE  ShiftRight(Bit, WordWidth - TrailingZeros(Not(bits)))
           = {i \in bits : RunStart(bits, i) = 0}
<1> DEFINE z == TrailingZeros(Not(bits))
<1>1. WordWidth \in Nat /\ bits \subseteq Bit /\ Not(bits) \in Word
  BY WordWidthAssumption DEF Word, Not
<1>2. z \in 0 .. WordWidth /\ z \notin bits /\ \A j \in 0 .. z - 1 : j \in bits
  <2>1. CASE Not(bits) = {}
    <3>1. z = WordWidth
      BY <2>1 DEF TrailingZeros
    <3> HIDE DEF z
    <3>2. bits = 0 .. WordWidth - 1
      BY <1>1, <2>1 DEF Not, Bit
    <3> QED
      BY <1>1, <3>1, <3>2
  <2>2. CASE Not(bits) # {}
    <3>1. z \in Not(bits) /\ \A j \in Not(bits) : z <= j
      BY <1>1, <2>2, TrailingZerosIs
    <3> HIDE DEF z
    <3>2. z \in 0 .. WordWidth - 1 /\ z \notin bits
      <4>1. z \in Bit /\ z \notin bits
        BY <3>1 DEF Not
      <4> QED
        BY <4>1 DEF Bit
    <3>3. ASSUME NEW j \in 0 .. z - 1 PROVE j \in bits
      <4>1. j \in Bit /\ ~(z <= j)
        BY <1>1, <3>2 DEF Bit
      <4> QED
        BY <3>1, <4>1 DEF Not
    <3> QED
      BY <1>1, <3>2, <3>3
  <2> QED
    BY <2>1, <2>2
<1> HIDE DEF z
<1>3. ShiftRight(Bit, WordWidth - z) = {i \in Bit : i < z}
  BY <1>1, <1>2 DEF ShiftRight, Bit
<1>4. ASSUME NEW i \in Bit PROVE i < z <=> i \in bits /\ RunStart(bits, i) = 0
  <2>1. i < z => StartsRun(bits, 0, i) /\ i \in bits
    BY <1>1, <1>2 DEF StartsRun, Bit
  <2>2. ASSUME i \in bits, RunStart(bits, i) = 0 PROVE i < z
    <3>1. (0 .. i) \subseteq bits
      BY <2>2, RunStartIs DEF StartsRun
    <3> QED
      BY <1>1, <1>2, <3>1 DEF Bit
  <2> QED
    BY <2>1, <2>2, RunStartIs
<1> QED
  BY <1>1, <1>3, <1>4 DEF z

\* One addition per parity of start marks the odd bits of every run.
LEMMA RunParityIs ==
  ASSUME NEW bits \in Word, NEW starts_inverted \in BOOLEAN
  PROVE  RunParity(bits, starts_inverted) = OddOfRuns(bits, starts_inverted)
<1> DEFINE start == bits \cap Not(ShiftLeft(bits, 1))
           run(starts) == bits \cap Xor(Plus(bits, start \cap starts), bits)
           parity == (run(EvenBits) \cap EvenBits) \cup (run(OddBits) \cap OddBits)
           first == ShiftRight(Bit, WordWidth - TrailingZeros(Not(bits)))
<1>1. WordWidth \in Nat /\ bits \subseteq Bit
  BY WordWidthAssumption DEF Word
<1>2. start = RunStarts(bits)
  BY <1>1 DEF RunStarts, ShiftLeft, Not
<1>3. ASSUME NEW starts
      PROVE  run(starts) = {i \in bits : RunStart(bits, i) \in starts}
  <2>1. start \cap starts \in SUBSET RunStarts(bits)
    BY <1>2
  <2>2. run(starts) = {i \in bits : RunStart(bits, i) \in start \cap starts}
    <3> HIDE DEF start
    <3> QED
      BY <2>1, AddingStarts
  <2> QED
    BY <1>2, <2>2, RunGoesOn
<1>4. ASSUME NEW i \in bits
      PROVE  i \in parity <=> (i - RunStart(bits, i)) % 2 = 0
  <2> DEFINE j == RunStart(bits, i)
  <2>1. i \in Bit /\ j \in Bit /\ j \in Nat /\ i \in Nat /\ j <= i
    BY <1>1, RunStartIs DEF StartsRun, Bit
  <2> HIDE DEF j
  <2>2. i \in EvenBits <=> i % 2 = 0
    BY <2>1 DEF EvenBits
  <2>3. i \in OddBits <=> i % 2 = 1
    BY <2>1 DEF OddBits
  <2>4. j \in EvenBits <=> j % 2 = 0
    BY <2>1 DEF EvenBits
  <2>5. j \in OddBits <=> j % 2 = 1
    BY <2>1 DEF OddBits
  <2>6. i \in parity <=> (i % 2 = 0 /\ j % 2 = 0) \/ (i % 2 = 1 /\ j % 2 = 1)
    <3> HIDE DEF run
    <3> QED
      BY <1>3, <2>2, <2>3, <2>4, <2>5 DEF j
  <2>7. (i - j) % 2 = 0 <=> (i % 2 = 0 /\ j % 2 = 0) \/ (i % 2 = 1 /\ j % 2 = 1)
    BY <2>1
  <2> QED
    BY <2>6, <2>7 DEF j
<1>5. parity \subseteq bits
  OBVIOUS
<1>6. RunParity(bits, starts_inverted) = IF starts_inverted /\ 0 \in bits THEN Xor(parity, first) ELSE parity
  BY DEF RunParity
<1> HIDE DEF parity, first
<1>7. CASE starts_inverted /\ 0 \in bits
  <2>1. first = {i \in bits : RunStart(bits, i) = 0}
    BY <1>7, FirstRun DEF first
  <2> QED
    BY <1>4, <1>5, <1>6, <1>7, <2>1 DEF Xor, OddOfRuns
<1>8. CASE ~(starts_inverted /\ 0 \in bits)
  <2>1. \A i \in bits : ~(starts_inverted /\ RunStart(bits, i) = 0)
    BY <1>8, RunGoesOn DEF RunStarts
  <2> QED
    BY <1>4, <1>5, <1>6, <1>8, <2>1 DEF OddOfRuns
<1> QED
  BY <1>7, <1>8

\* The odd bits of runs, one after the other: a set bit is one unless the bit
\* before it is, and a run at the bottom starts as the word before says.
LEMMA OddOfRunsNext ==
  ASSUME NEW bits \in Word, NEW starts_inverted \in BOOLEAN, NEW i \in Bit
  PROVE  i \in OddOfRuns(bits, starts_inverted) <=>
           /\ i \in bits
           /\ ~(IF i = 0 THEN starts_inverted ELSE i - 1 \in OddOfRuns(bits, starts_inverted))
<1> SUFFICES ASSUME i \in bits
             PROVE  i \in OddOfRuns(bits, starts_inverted) <=>
                      ~(IF i = 0 THEN starts_inverted ELSE i - 1 \in OddOfRuns(bits, starts_inverted))
  BY DEF OddOfRuns
<1>1. i \in Nat /\ bits \subseteq Nat
  BY WordWidthAssumption DEF Word, Bit
<1> DEFINE j == RunStart(bits, i)
<1>2. j \in 0 .. i
  BY RunStartIs DEF StartsRun
<1>3. i \in OddOfRuns(bits, starts_inverted) <=> ((i - j) % 2 = 0) # (starts_inverted /\ j = 0)
  BY DEF OddOfRuns
<1>4. CASE i - 1 \notin bits
  <2>1. j = i
    BY <1>4, RunGoesOn
  <2>2. (i - i) % 2 = 0
    BY <1>1
  <2>3. i - 1 \notin OddOfRuns(bits, starts_inverted)
    BY <1>4 DEF OddOfRuns
  <2> QED
    BY <1>3, <2>1, <2>2, <2>3
<1>5. CASE i - 1 \in bits
  <2>1. j = RunStart(bits, i - 1) /\ i # 0
    BY <1>1, <1>5, RunGoesOn
  <2>2. i - 1 \in OddOfRuns(bits, starts_inverted) <=> (((i - 1) - j) % 2 = 0) # (starts_inverted /\ j = 0)
    BY <1>5, <2>1 DEF OddOfRuns
  <2>3. ((i - 1) - j) % 2 = 0 <=> ~((i - j) % 2 = 0)
    <3> HIDE DEF j
    <3> QED
      BY <1>1, <1>2
  <2> HIDE DEF j
  <2> QED
    BY <1>3, <2>1, <2>2, <2>3
<1> QED
  BY <1>4, <1>5

-----------------------------------------------------------------------------
(* PrefixXor *)

\* What one line of the shifts starts from is twice as far as the line before.
LEMMA ReachIs ==
  /\ Reach \in [0 .. WordWidth -> Nat]
  /\ Reach[0] = 1
  /\ \A k \in 1 .. WordWidth : Reach[k] = 2 * Reach[k - 1]
<1> DEFINE op == [k \in 1 .. WordWidth |-> [n \in Nat |-> 2 * n]]
           Lines(r) == [k \in 0 .. WordWidth |-> IF k = 0 THEN 1 ELSE 2 * r[k - 1]]
<1>1. WordWidth \in Nat /\ 1 \in Nat /\ op \in Steps(WordWidth, Nat)
  BY WordWidthAssumption DEF Steps
<1>2. PICK g : Follows(g, WordWidth, Nat, 1, op)
  <2> HIDE DEF op
  <2> QED
    BY <1>1, RecursionExists
<1>3. ASSUME NEW k \in 1 .. WordWidth PROVE g[k] = 2 * g[k - 1]
  <2> HIDE DEF op
  <2>1. k - 1 \in 0 .. WordWidth
    BY <1>1
  <2>2. g[k] = op[k][g[k - 1]] /\ g[k - 1] \in Nat
    BY <1>2, <2>1 DEF Follows
  <2>3. \A n \in Nat : op[k][n] = 2 * n
    BY DEF op
  <2> QED
    BY <2>2, <2>3
<1> HIDE DEF op
<1>4. g = Lines(g)
  <2>1. g \in [0 .. WordWidth -> Nat] /\ g[0] = 1
    <3> HIDE DEF Lines
    <3> QED
      BY <1>2 DEF Follows
  <2>2. ASSUME NEW k \in 0 .. WordWidth PROVE g[k] = Lines(g)[k]
    <3>1. k = 0 \/ k \in 1 .. WordWidth
      BY <1>1
    <3> QED
      BY <1>1, <1>3, <2>1, <3>1
  <2> QED
    BY <2>1, <2>2
<1>5. Reach = Lines(Reach)
  BY <1>4 DEF Reach
<1>6. /\ Reach[0] = 1
      /\ \A k \in 1 .. WordWidth : Reach[k] = 2 * Reach[k - 1]
  BY <1>1, <1>5
<1> DEFINE S == {k \in 0 .. WordWidth : Reach[k] \in Nat}
<1>7. \A k \in 0 .. WordWidth : k \in S
  <2>1. 0 \in S
    BY <1>1, <1>6
  <2>2. ASSUME NEW k \in 0 .. WordWidth - 1, k \in S PROVE k + 1 \in S
    <3>1. k + 1 \in 1 .. WordWidth /\ (k + 1) - 1 = k
      BY <1>1
    <3> QED
      BY <1>6, <2>2, <3>1
  <2> HIDE DEF S
  <2> QED
    BY <1>1, <2>1, <2>2, UpTo
<1> QED
  BY <1>5, <1>6, <1>7

\* There are lines enough to reach across the word.
LEMMA DoublingsReach ==
  Doublings \in 0 .. WordWidth /\ Reach[Doublings] >= WordWidth
<1>1. WordWidth \in Nat
  BY WordWidthAssumption
<1> DEFINE S == {k \in 0 .. WordWidth : Reach[k] >= k + 1}
           T == {k \in 0 .. WordWidth : Reach[k] >= WordWidth}
<1>2. \A k \in 0 .. WordWidth : k \in S
  <2>1. 0 \in S
    BY <1>1, ReachIs
  <2>2. ASSUME NEW k \in 0 .. WordWidth - 1, k \in S PROVE k + 1 \in S
    <3>1. k + 1 \in 1 .. WordWidth /\ (k + 1) - 1 = k /\ Reach[k] \in Nat
      BY <1>1, ReachIs
    <3>2. Reach[k + 1] = 2 * Reach[k]
      BY <3>1, ReachIs
    <3> QED
      BY <2>2, <3>1, <3>2
  <2> HIDE DEF S
  <2> QED
    BY <1>1, <2>1, <2>2, UpTo
<1>3. T \in SUBSET Nat /\ WordWidth \in T
  BY <1>1, <1>2, ReachIs
<1>4. PICK k \in T : \A l \in T : k <= l
  <2> HIDE DEF T
  <2> QED
    BY <1>3, LeastNatural
<1>5. \A l \in 0 .. k - 1 : Reach[l] < WordWidth
  <2> SUFFICES ASSUME NEW l \in 0 .. k - 1 PROVE Reach[l] < WordWidth
    OBVIOUS
  <2>1. l \in 0 .. WordWidth /\ ~(k <= l)
    BY <1>1
  <2>2. Reach[l] \in Nat
    BY <2>1, ReachIs
  <2> QED
    BY <1>1, <1>4, <2>1, <2>2
<1>6. k \in 0 .. WordWidth /\ Reach[k] >= WordWidth
  BY <1>4
<1> HIDE DEF T
<1> QED
  BY <1>5, <1>6 DEF Doublings

\* A word has a highest bit.
LEMMA WordIsFinite ==
  ASSUME NEW a \in Word
  PROVE  a \in SUBSET Nat /\ IsFiniteSet(a)
<1>1. 0 \in Int /\ WordWidth - 1 \in Int
  BY WordWidthAssumption
<1>2. IsFiniteSet(Bit)
  BY <1>1, FS_Interval DEF Bit
<1>3. a \in SUBSET Bit /\ Bit \in SUBSET Nat
  BY WordWidthAssumption DEF Word, Bit
<1>4. IsFiniteSet(a)
  BY <1>2, <1>3, FS_Subset
<1> QED
  BY <1>3, <1>4

\* An odd number of toggles below i.
OddBelow(toggles, i) == Cardinality({t \in toggles : t < i}) % 2 = 1

\* One bit further up, the toggles below are one more where it is one.
LEMMA OddBelowNext ==
  ASSUME NEW toggles \in Word
  PROVE  /\ ~OddBelow(toggles, 0)
         /\ \A i \in Nat : OddBelow(toggles, i + 1) <=> OddBelow(toggles, i) # (i \in toggles)
<1>1. toggles \in SUBSET Nat /\ IsFiniteSet(toggles)
  BY WordIsFinite
<1>2. ~OddBelow(toggles, 0)
  <2>1. {t \in toggles : t < 0} = {}
    <3>1. \A t \in toggles : ~(t < 0)
      BY <1>1
    <3> QED
      BY <3>1
  <2>2. Cardinality({t \in toggles : t < 0}) = 0
    BY <2>1, FS_EmptySet
  <2> QED
    BY <2>2 DEF OddBelow
<1>3. ASSUME NEW i \in Nat
      PROVE  OddBelow(toggles, i + 1) <=> OddBelow(toggles, i) # (i \in toggles)
  <2> DEFINE low == {t \in toggles : t < i}
             here == {t \in toggles : t < i + 1}
  <2>1. low \in SUBSET toggles /\ i \notin low
    BY <1>1
  <2>2. IsFiniteSet(low)
    <3> HIDE DEF low
    <3> QED
      BY <1>1, <2>1, FS_Subset
  <2>3. Cardinality(low) \in Nat /\ Cardinality(low \cup {i}) = Cardinality(low) + 1
    <3> HIDE DEF low
    <3> QED
      BY <2>1, <2>2, FS_CardinalityType, FS_AddElement
  <2>4. here = IF i \in toggles THEN low \cup {i} ELSE low
    <3>1. \A t \in toggles : t < i + 1 <=> t < i \/ t = i
      BY <1>1
    <3>2. i \in toggles => here = low \cup {i}
      BY <3>1
    <3>3. i \notin toggles => here = low
      BY <3>1
    <3> QED
      BY <3>2, <3>3
  <2>5. \A n \in Nat : (n + 1) % 2 = 1 <=> ~(n % 2 = 1)
    OBVIOUS
  <2> HIDE DEF low, here
  <2>6. CASE i \in toggles
    <3>1. Cardinality(here) = Cardinality(low) + 1
      BY <2>3, <2>4, <2>6
    <3>2. Cardinality(here) % 2 = 1 <=> ~(Cardinality(low) % 2 = 1)
      BY <2>3, <2>5, <3>1
    <3> QED
      BY <2>6, <3>2 DEF OddBelow, low, here
  <2>7. CASE i \notin toggles
    <3>1. here = low
      BY <2>4, <2>7
    <3>2. OddBelow(toggles, i + 1) <=> OddBelow(toggles, i)
      BY <3>1 DEF OddBelow, low, here
    <3> QED
      BY <2>7, <3>2 DEF OddBelow
  <2> QED
    BY <2>6, <2>7
<1> QED
  BY <1>2, <1>3

\* Which bits stand in a span: an odd number of toggles at or below.
LEMMA SpansAre ==
  ASSUME NEW toggles \in Word, NEW starts_on \in BOOLEAN
  PROVE  Spans(toggles, starts_on) = {i \in Bit : OddBelow(toggles, i + 1) # starts_on}
<1>1. ASSUME NEW i \in Bit
      PROVE  {t \in toggles : t <= i} = {t \in toggles : t < i + 1}
  <2>1. \A t \in toggles : t <= i <=> t < i + 1
    BY WordWidthAssumption DEF Word, Bit
  <2> QED
    BY <2>1
<1> QED
  BY <1>1 DEF Spans, OddBelow

\* Spans, one bit after the other: a toggle changes what the bit before it, or
\* the word before, left.
LEMMA SpansNext ==
  ASSUME NEW toggles \in Word, NEW starts_on \in BOOLEAN, NEW i \in Bit
  PROVE  i \in Spans(toggles, starts_on) <=>
           (IF i = 0 THEN starts_on ELSE i - 1 \in Spans(toggles, starts_on)) # (i \in toggles)
<1>1. i \in Nat
  BY WordWidthAssumption DEF Bit
<1>2. i \in Spans(toggles, starts_on) <=> (OddBelow(toggles, i) # (i \in toggles)) # starts_on
  <2>1. OddBelow(toggles, i + 1) <=> OddBelow(toggles, i) # (i \in toggles)
    BY <1>1, OddBelowNext
  <2>2. i \in Spans(toggles, starts_on) <=> OddBelow(toggles, i + 1) # starts_on
    BY SpansAre
  <2> QED
    BY <2>1, <2>2 DEF OddBelow
<1>3. CASE i = 0
  <2>1. ~OddBelow(toggles, i)
    BY <1>3, OddBelowNext
  <2>2. (OddBelow(toggles, i) # (i \in toggles)) <=> (i \in toggles)
    BY <2>1 DEF OddBelow
  <2>3. i \in Spans(toggles, starts_on) <=> (i \in toggles) # starts_on
    BY <1>2, <2>2 DEF OddBelow
  <2> QED
    BY <1>3, <2>3
<1>4. CASE i # 0
  <2>1. i - 1 \in Bit /\ (i - 1) + 1 = i
    BY <1>1, <1>4, WordWidthAssumption DEF Bit
  <2>2. i - 1 \in Spans(toggles, starts_on) <=> OddBelow(toggles, i) # starts_on
    BY <2>1, SpansAre
  <2> QED
    BY <1>2, <1>4, <2>2 DEF OddBelow
<1> QED
  BY <1>3, <1>4

\* The shifts have a value after every line.
LEMMA LinesExist ==
  ASSUME NEW toggles \in Word
  PROVE  \E v : v = [k \in 0 .. Doublings |->
                      IF k = 0 THEN toggles
                               ELSE Xor(v[k - 1], ShiftLeft(v[k - 1], Reach[k - 1]))]
<1> DEFINE Lines(v) == [k \in 0 .. Doublings |->
                          IF k = 0 THEN toggles
                                   ELSE Xor(v[k - 1], ShiftLeft(v[k - 1], Reach[k - 1]))]
           op == [k \in 1 .. Doublings |->
                    [w \in Word |-> Xor(w, ShiftLeft(w, Reach[k - 1]))]]
<1>1. Doublings \in Nat
  BY WordWidthAssumption, DoublingsReach
<1>2. op \in Steps(Doublings, Word)
  <2>1. ASSUME NEW w \in Word, NEW n PROVE Xor(w, ShiftLeft(w, n)) \in Word
    BY DEF Xor, ShiftLeft, Word
  <2> QED
    BY <2>1 DEF Steps
<1>3. PICK g : Follows(g, Doublings, Word, toggles, op)
  <2> HIDE DEF op
  <2> QED
    BY <1>1, <1>2, RecursionExists
<1>4. ASSUME NEW k \in 1 .. Doublings
      PROVE  g[k] = Xor(g[k - 1], ShiftLeft(g[k - 1], Reach[k - 1]))
  <2> HIDE DEF op
  <2>1. k - 1 \in 0 .. Doublings
    BY <1>1
  <2>2. g[k] = op[k][g[k - 1]] /\ g[k - 1] \in Word
    BY <1>3, <2>1 DEF Follows
  <2>3. \A w \in Word : op[k][w] = Xor(w, ShiftLeft(w, Reach[k - 1]))
    BY DEF op
  <2> QED
    BY <2>2, <2>3
<1> HIDE DEF op
<1>5. g = Lines(g)
  <2>1. g \in [0 .. Doublings -> Word] /\ g[0] = toggles
    <3> HIDE DEF Lines
    <3> QED
      BY <1>3 DEF Follows
  <2>2. ASSUME NEW k \in 0 .. Doublings PROVE g[k] = Lines(g)[k]
    <3>1. k = 0 \/ k \in 1 .. Doublings
      BY <1>1
    <3> QED
      BY <1>1, <1>4, <2>1, <3>1
  <2> QED
    BY <2>1, <2>2
<1> QED
  BY <1>5

\* The doubling shifts compute the spans.
LEMMA PrefixXorIs ==
  ASSUME NEW toggles \in Word, NEW starts_on \in BOOLEAN
  PROVE  PrefixXor(toggles, starts_on) = Spans(toggles, starts_on)
<1> DEFINE Lines(v) == [k \in 0 .. Doublings |->
                          IF k = 0 THEN toggles
                                   ELSE Xor(v[k - 1], ShiftLeft(v[k - 1], Reach[k - 1]))]
           v == CHOOSE v : v = Lines(v)
           Felt(r) == {i \in Bit : OddBelow(toggles, i + 1) # OddBelow(toggles, (i + 1) - r)}
           S == {k \in 0 .. Doublings : v[k] = Felt(Reach[k])}
<1>1. v = Lines(v)
  BY LinesExist
<1>2. PrefixXor(toggles, starts_on) = IF starts_on THEN Not(v[Doublings]) ELSE v[Doublings]
  BY DEF PrefixXor
<1> HIDE DEF v
<1>3. /\ WordWidth \in Nat /\ Bit \subseteq Nat
      /\ Doublings \in 0 .. WordWidth /\ Reach[Doublings] >= WordWidth
  BY WordWidthAssumption, DoublingsReach DEF Bit
<1>4. /\ v[0] = toggles
      /\ \A k \in 1 .. Doublings :
           v[k] = Xor(v[k - 1], ShiftLeft(v[k - 1], Reach[k - 1]))
  BY <1>1, <1>3
<1>5. ASSUME NEW m \in Int, m <= 0 PROVE ~OddBelow(toggles, m)
  <2>1. \A t \in toggles : ~(t < m)
    BY <1>3, <1>5 DEF Word
  <2>2. {t \in toggles : t < m} = {}
    BY <2>1
  <2> QED
    BY <2>2, FS_EmptySet DEF OddBelow
<1>6. \A k \in 0 .. Doublings : k \in S
  <2>1. 0 \in S
    <3>1. \A i \in Bit : i \in toggles <=> OddBelow(toggles, i + 1) # OddBelow(toggles, i)
      <4> SUFFICES ASSUME NEW i \in Bit
                   PROVE  i \in toggles <=> OddBelow(toggles, i + 1) # OddBelow(toggles, i)
        OBVIOUS
      <4>1. OddBelow(toggles, i + 1) <=> OddBelow(toggles, i) # (i \in toggles)
        BY <1>3, OddBelowNext
      <4> QED
        BY <4>1 DEF OddBelow
    <3>2. \A i \in Bit : (i + 1) - 1 = i
      BY <1>3
    <3>3. toggles = Felt(1)
      BY <3>1, <3>2 DEF Word
    <3>4. v[0] = Felt(Reach[0])
      <4> HIDE DEF Felt
      <4> QED
        BY <1>4, <3>3, ReachIs
    <3> QED
      BY <1>3, <3>4
  <2>2. ASSUME NEW k \in 0 .. Doublings - 1, k \in S PROVE k + 1 \in S
    <3> DEFINE r == Reach[k]
    <3>1. k + 1 \in 1 .. Doublings /\ k + 1 \in 1 .. WordWidth /\ k \in 0 .. WordWidth
      BY <1>3
    <3>2. (k + 1) - 1 = k
      BY <1>3
    <3>3. r \in Nat /\ Reach[k + 1] = 2 * r
      BY <3>1, <3>2, ReachIs
    <3>4. v[k + 1] = Xor(v[k], ShiftLeft(v[k], r))
      BY <1>4, <3>1, <3>2
    <3>5. v[k] = Felt(r)
      BY <2>2
    <3> HIDE DEF r
    <3>6. ASSUME NEW i \in Bit
          PROVE  i \in v[k + 1] <=>
                   OddBelow(toggles, i + 1) # OddBelow(toggles, (i + 1) - 2 * r)
      <4>1. i \in Nat /\ (i - r) + 1 = (i + 1) - r /\ ((i + 1) - r) - r = (i + 1) - 2 * r
        BY <1>3, <3>3
      <4>2. i \in v[k] <=> OddBelow(toggles, i + 1) # OddBelow(toggles, (i + 1) - r)
        BY <3>5
      <4>3. i - r \in v[k] <=>
              OddBelow(toggles, (i + 1) - r) # OddBelow(toggles, (i + 1) - 2 * r)
        <5>1. CASE i - r \in Bit
          BY <3>5, <4>1, <5>1
        <5>2. CASE i - r \notin Bit
          <6>1. (i + 1) - r \in Int /\ (i + 1) - r <= 0
            BY <1>3, <3>3, <5>2 DEF Bit
          <6>2. (i + 1) - 2 * r \in Int /\ (i + 1) - 2 * r <= 0
            BY <3>3, <4>1, <6>1
          <6>3. ~OddBelow(toggles, (i + 1) - r) /\ ~OddBelow(toggles, (i + 1) - 2 * r)
            BY <1>5, <6>1, <6>2
          <6>4. i - r \notin v[k]
            BY <3>5, <5>2
          <6> QED
            BY <6>3, <6>4 DEF OddBelow
        <5> QED
          BY <5>1, <5>2
      <4>4. i \in v[k + 1] <=> (i \in v[k]) # (i - r \in v[k])
        BY <3>4 DEF Xor, ShiftLeft
      <4> QED
        BY <4>2, <4>3, <4>4 DEF OddBelow
    <3>7. v[k + 1] \subseteq Bit
      BY <3>4, <3>5 DEF Xor, ShiftLeft
    <3>8. v[k + 1] = Felt(2 * r)
      BY <3>6, <3>7
    <3> QED
      BY <3>1, <3>3, <3>8, <1>3
  <2> HIDE DEF S
  <2> QED
    BY <1>3, <2>1, <2>2, UpTo
<1>7. v[Doublings] = {i \in Bit : OddBelow(toggles, i + 1)}
  <2>1. v[Doublings] = Felt(Reach[Doublings])
    BY <1>3, <1>6
  <2>2. ASSUME NEW i \in Bit PROVE ~OddBelow(toggles, (i + 1) - Reach[Doublings])
    <3>1. Reach[Doublings] \in Nat
      BY <1>3, ReachIs
    <3>2. /\ (i + 1) - Reach[Doublings] \in Int
          /\ (i + 1) - Reach[Doublings] <= 0
      BY <1>3, <3>1 DEF Bit
    <3> QED
      BY <1>5, <3>2
  <2> QED
    BY <2>1, <2>2 DEF OddBelow
<1>8. Spans(toggles, starts_on) = {i \in Bit : OddBelow(toggles, i + 1) # starts_on}
  BY SpansAre
<1>9. CASE starts_on
  BY <1>2, <1>7, <1>8, <1>9 DEF Not, OddBelow
<1>10. CASE ~starts_on
  BY <1>2, <1>7, <1>8, <1>10 DEF OddBelow
<1> QED
  BY <1>9, <1>10

-----------------------------------------------------------------------------
(* The reader of single octets *)

TextStates == [in_string : BOOLEAN, escaped : BOOLEAN]

\* Past an octet, a reader of single octets is one again.
LEMMA PastType ==
  ASSUME NEW t, NEW o
  PROVE  Past(t, o) \in TextStates
BY DEF Past, TextStates

\* What an octet does to whoever reads octet by octet.
LEMMA PastIs ==
  ASSUME NEW t \in TextStates, NEW o
  PROVE  /\ Past(t, o).in_string <=> t.in_string # (o = "quote" /\ ~t.escaped)
         /\ Past(t, o).escaped <=> o = "backslash" /\ ~t.escaped
<1>1. Past(t, o).in_string = (t.in_string # (o = "quote" /\ ~t.escaped))
  BY Zenon DEF Past
<1>2. Past(t, o).escaped = (o = "backslash" /\ ~t.escaped)
  BY Zenon DEF Past
<1> QED
  BY <1>1, <1>2

\* Any sequence of readers that starts at t and goes past one octet after the
\* other is where the fold over the octets stands.
LEMMA PastFollows ==
  ASSUME NEW X, NEW t \in TextStates, NEW s \in Seq(X), NEW n \in 0 .. Len(s),
         NEW p, p[0] = t, \A i \in 1 .. n : p[i] = Past(p[i - 1], s[i])
  PROVE  PastFirst(t, s, n) = p[n]
<1> DEFINE u == SubSeq(s, 1, n)
           Folds(g) == [S \in SUBSET DOMAIN u |->
                          IF S = {} THEN t ELSE Past(g[S \ {Max(S)}], u[Max(S)])]
           g == CHOOSE g : g = Folds(g)
           op == [i \in 1 .. n |-> [x \in TextStates |-> Past(x, s[i])]]
<1>1. n \in Nat /\ DOMAIN u = 1 .. n /\ \A i \in 1 .. n : u[i] = s[i]
  BY FirstOctets, LenProperties
<1>2. PastFirst(t, s, n) = g[DOMAIN u]
  BY DEF PastFirst, FoldLeft, MapThenFoldSet, Max
<1> HIDE DEF u
<1>3. op \in Steps(n, TextStates)
  BY PastType DEF Steps
<1>4. \E h : h = Folds(h)
  <2>1. PICK h : FollowsSets(h, n, TextStates, t, op)
    <3> HIDE DEF op
    <3> QED
      BY <1>1, <1>3, FoldExists
  <2>2. ASSUME NEW S \in SUBSET (1 .. n), S # {}
        PROVE  h[S] = Past(h[S \ {Max(S)}], u[Max(S)])
    <3>1. Max(S) \in 1 .. n
      <4>1. n \in Nat
        BY <1>1
      <4> HIDE DEF op, Folds
      <4> QED
        BY <2>2, <4>1, MaxIsIn
    <3>2. h[S] = op[Max(S)][h[S \ {Max(S)}]] /\ h[S \ {Max(S)}] \in TextStates
      <4>1. S \ {Max(S)} \in SUBSET (1 .. n)
        OBVIOUS
      <4> HIDE DEF op, Folds
      <4> QED
        BY <2>1, <2>2, <4>1 DEF FollowsSets
    <3>3. op[Max(S)][h[S \ {Max(S)}]] = Past(h[S \ {Max(S)}], s[Max(S)])
      BY <3>1, <3>2
    <3> QED
      BY <1>1, <3>1, <3>2, <3>3
  <2>3. h = [S \in SUBSET (1 .. n) |-> h[S]] /\ h[{}] = t
    <3> HIDE DEF op
    <3> QED
      BY <2>1 DEF FollowsSets
  <2>4. h = Folds(h)
    <3> HIDE DEF op
    <3> QED
      BY <1>1, <2>2, <2>3, Zenon
  <2> QED
    BY <2>4
<1>5. g = Folds(g)
  BY <1>4, Zenon
<1> HIDE DEF g
<1>6. \A i \in 0 .. n : (1 .. i) \in SUBSET (1 .. n)
  BY <1>1
<1>7. g[1 .. 0] = t
  <2>1. 1 .. 0 = {} /\ 0 \in 0 .. n
    BY <1>1
  <2> QED
    BY <1>1, <1>5, <1>6, <2>1
<1>8. ASSUME NEW i \in 1 .. n PROVE g[1 .. i] = Past(g[1 .. i - 1], s[i])
  <2>1. i \in Nat \ {0} /\ i \in 0 .. n
    BY <1>1
  <2>2. Max(1 .. i) = i /\ (1 .. i) \ {i} = 1 .. i - 1 /\ 1 .. i # {}
    BY <2>1, MaxUpTo
  <2>3. g[1 .. i] = IF 1 .. i = {} THEN t
                    ELSE Past(g[(1 .. i) \ {Max(1 .. i)}], u[Max(1 .. i)])
    BY <1>1, <1>5, <1>6, <2>1
  <2> QED
    BY <1>1, <2>2, <2>3
<1> DEFINE S == {i \in 0 .. n : p[i] = g[1 .. i]}
<1>9. \A i \in 0 .. n : i \in S
  <2>1. 0 \in S
    BY <1>1, <1>7
  <2>2. ASSUME NEW i \in 0 .. n - 1, i \in S PROVE i + 1 \in S
    <3>1. i + 1 \in 1 .. n /\ i + 1 \in 0 .. n /\ (i + 1) - 1 = i
      BY <1>1
    <3>2. p[i] = g[1 .. i]
      BY <2>2
    <3>3. p[i + 1] = Past(p[i], s[i + 1]) /\ g[1 .. i + 1] = Past(g[1 .. i], s[i + 1])
      BY <1>8, <3>1
    <3> QED
      BY <3>1, <3>2, <3>3
  <2> HIDE DEF S
  <2> QED
    BY <1>1, <2>1, <2>2, UpTo
<1> QED
  BY <1>1, <1>2, <1>9

\* One octet after the other.
LEMMA PastFirstNext ==
  ASSUME NEW X, NEW t \in TextStates, NEW s \in Seq(X)
  PROVE  /\ PastFirst(t, s, 0) = t
         /\ \A n \in 1 .. Len(s) : PastFirst(t, s, n) = Past(PastFirst(t, s, n - 1), s[n])
         /\ \A n \in 0 .. Len(s) : PastFirst(t, s, n) \in TextStates
<1> DEFINE N == Len(s)
           op == [i \in 1 .. N |-> [x \in TextStates |-> Past(x, s[i])]]
<1>1. N \in Nat
  BY LenProperties
<1> HIDE DEF N
<1>2. PICK p : Follows(p, N, TextStates, t, op)
  <2>1. op \in Steps(N, TextStates)
    BY PastType DEF Steps
  <2> HIDE DEF op
  <2> QED
    BY <1>1, <2>1, RecursionExists
<1>3. p \in [0 .. N -> TextStates] /\ p[0] = t
  BY <1>2 DEF Follows
<1>4. ASSUME NEW i \in 1 .. N PROVE p[i] = Past(p[i - 1], s[i])
  <2>1. p[i] = op[i][p[i - 1]]
    <3> HIDE DEF op
    <3> QED
      BY <1>2 DEF Follows
  <2>2. p[i - 1] \in TextStates
    BY <1>1, <1>3
  <2> QED
    BY <2>1, <2>2
<1>5. ASSUME NEW n \in 0 .. N PROVE PastFirst(t, s, n) = p[n]
  <2>1. \A i \in 1 .. n : p[i] = Past(p[i - 1], s[i])
    BY <1>1, <1>4
  <2> QED
    BY <1>3, <2>1, PastFollows DEF N
<1>6. PastFirst(t, s, 0) = t
  BY <1>1, <1>3, <1>5
<1>7. ASSUME NEW n \in 1 .. N PROVE PastFirst(t, s, n) = Past(PastFirst(t, s, n - 1), s[n])
  <2>1. n \in 0 .. N /\ n - 1 \in 0 .. N
    BY <1>1
  <2> QED
    BY <1>4, <1>5, <2>1
<1>8. \A n \in 0 .. N : PastFirst(t, s, n) \in TextStates
  BY <1>3, <1>5
<1> QED
  BY <1>6, <1>7, <1>8 DEF N

\* Within the first n octets.
LEMMA PastFirstWithin ==
  ASSUME NEW X, NEW t \in TextStates, NEW s \in Seq(X), NEW n \in 0 .. Len(s), NEW i \in 0 .. n
  PROVE  PastFirst(t, SubSeq(s, 1, n), i) = PastFirst(t, s, i)
<1> DEFINE u == SubSeq(s, 1, n)
           p == [j \in 0 .. i |-> PastFirst(t, s, j)]
<1>1. Len(s) \in Nat /\ n \in Nat /\ i \in Nat
  BY LenProperties
<1>2. u \in Seq(X) /\ Len(u) = n /\ \A j \in 1 .. n : u[j] = s[j]
  BY FirstOctets
<1> HIDE DEF u
<1>3. p[0] = t
  BY <1>1, PastFirstNext
<1>4. ASSUME NEW j \in 1 .. i PROVE p[j] = Past(p[j - 1], u[j])
  <2>1. j \in 0 .. i /\ j - 1 \in 0 .. i /\ j \in 1 .. n /\ j \in 1 .. Len(s)
    BY <1>1
  <2>2. PastFirst(t, s, j) = Past(PastFirst(t, s, j - 1), s[j])
    BY <2>1, PastFirstNext
  <2> QED
    BY <1>2, <2>1, <2>2
<1>5. p[i] = PastFirst(t, s, i)
  BY <1>1
<1> HIDE DEF p
<1>6. PastFirst(t, u, i) = p[i]
  <2>1. i \in 0 .. Len(u)
    BY <1>2
  <2> QED
    BY <1>2, <1>3, <1>4, <2>1, PastFollows
<1> QED
  BY <1>5, <1>6 DEF u

\* What follows the first n octets.
LEMMA OctetsAfter ==
  ASSUME NEW X, NEW s \in Seq(X), NEW n \in 0 .. Len(s)
  PROVE  /\ SubSeq(s, n + 1, Len(s)) \in Seq(X)
         /\ Len(SubSeq(s, n + 1, Len(s))) = Len(s) - n
         /\ \A i \in 1 .. Len(s) - n : SubSeq(s, n + 1, Len(s))[i] = s[n + i]
<1>1. Len(s) \in Nat
  BY LenProperties
<1>2. \A i \in n + 1 .. Len(s) : s[i] \in X
  BY <1>1, ElementOfSeq
<1>3. /\ SubSeq(s, n + 1, Len(s)) \in Seq(X)
      /\ Len(SubSeq(s, n + 1, Len(s))) =
           IF n + 1 <= Len(s) THEN Len(s) - (n + 1) + 1 ELSE 0
      /\ \A i \in 1 .. Len(s) - (n + 1) + 1 :
           SubSeq(s, n + 1, Len(s))[i] = s[(n + 1) + i - 1]
  BY <1>1, <1>2, SubSeqProperties
<1> QED
  BY <1>1, <1>3

\* Past the first n octets, and then past i of the ones that follow.
LEMMA PastFirstAfter ==
  ASSUME NEW X, NEW t \in TextStates, NEW s \in Seq(X), NEW n \in 0 .. Len(s),
         NEW i \in 0 .. Len(s) - n
  PROVE  PastFirst(PastFirst(t, s, n), SubSeq(s, n + 1, Len(s)), i) = PastFirst(t, s, n + i)
<1> DEFINE u == SubSeq(s, n + 1, Len(s))
           p == [j \in 0 .. i |-> PastFirst(t, s, n + j)]
<1>1. Len(s) \in Nat /\ n \in Nat /\ i \in Nat
  BY LenProperties
<1>2. u \in Seq(X) /\ Len(u) = Len(s) - n /\ \A j \in 1 .. Len(s) - n : u[j] = s[n + j]
  BY OctetsAfter
<1> HIDE DEF u
<1>3. p[0] = PastFirst(t, s, n)
  BY <1>1
<1>4. ASSUME NEW j \in 1 .. i PROVE p[j] = Past(p[j - 1], u[j])
  <2>1. /\ j \in 0 .. i /\ j - 1 \in 0 .. i /\ j \in 1 .. Len(s) - n
        /\ n + j \in 1 .. Len(s) /\ (n + j) - 1 = n + (j - 1)
    BY <1>1
  <2>2. PastFirst(t, s, n + j) = Past(PastFirst(t, s, (n + j) - 1), s[n + j])
    BY <2>1, PastFirstNext
  <2> QED
    BY <1>2, <2>1, <2>2
<1>5. p[i] = PastFirst(t, s, n + i)
  BY <1>1
<1>6. PastFirst(t, s, n) \in TextStates
  BY PastFirstNext
<1> HIDE DEF p
<1>7. PastFirst(PastFirst(t, s, n), u, i) = p[i]
  <2>1. i \in 0 .. Len(u)
    BY <1>2
  <2> QED
    BY <1>2, <1>3, <1>4, <1>6, <2>1, PastFollows
<1> QED
  BY <1>5, <1>7 DEF u

-----------------------------------------------------------------------------
(* The mask of a block *)

Carry == [in_string : BOOLEAN, trailing_backslash_unpaired : BOOLEAN]

\* Where a reader of single octets stands that knows what a block left.
Resumed(c) == [in_string |-> c.in_string, escaped |-> c.trailing_backslash_unpaired]

\* The masks of a block describe its octets as a reader of single octets does
\* that stands where the block before ended; and so does what the block leaves.
LEMMA StructureIs ==
  ASSUME NEW octets \in [1 .. WordWidth -> Kind], NEW c \in Carry
  PROVE  LET t == Resumed(c)
             S == Structure(octets, c)
         IN /\ S.mask = {i \in Bit : IsStructure(PastFirst(t, octets, i), octets[i + 1])}
            /\ S.carry \in Carry
            /\ Resumed(S.carry) = PastFirst(t, octets, WordWidth)
<1> DEFINE t == Resumed(c)
           at(i) == PastFirst(t, octets, i)
           backslashes == Masked(octets, {"backslash"})
           parity == RunParity(backslashes, c.trailing_backslash_unpaired)
           quotes == Masked(octets, {"quote"}) \ Escaped(parity, c)
           spans == PrefixXor(quotes, c.in_string)
<1>1. /\ WordWidth \in Nat /\ WordWidth - 1 \in Bit /\ Bit \subseteq Nat
      /\ octets \in Seq(Kind) /\ Len(octets) = WordWidth
  BY WordWidthAssumption, SeqDef, LenProperties DEF Bit
<1>2. t \in TextStates /\ c.in_string \in BOOLEAN /\ c.trailing_backslash_unpaired \in BOOLEAN
  BY DEF Carry, Resumed, TextStates
<1>3. backslashes \in Word /\ quotes \in Word
  BY DEF Masked, Word
<1>4. ASSUME NEW i \in Bit
      PROVE  i \in parity <=>
               /\ octets[i + 1] = "backslash"
               /\ ~(IF i = 0 THEN c.trailing_backslash_unpaired ELSE i - 1 \in parity)
  <2>1. parity = OddOfRuns(backslashes, c.trailing_backslash_unpaired)
    BY <1>2, <1>3, RunParityIs
  <2>2. i \in backslashes <=> octets[i + 1] = "backslash"
    BY DEF Masked
  <2> HIDE DEF backslashes, parity
  <2> QED
    BY <1>2, <1>3, <2>1, <2>2, OddOfRunsNext
<1>11. parity \subseteq Bit
  <2>1. parity = OddOfRuns(backslashes, c.trailing_backslash_unpaired)
    BY <1>2, <1>3, RunParityIs
  <2> QED
    BY <1>3, <2>1 DEF OddOfRuns, Word
<1> HIDE DEF parity
<1>5. ASSUME NEW i \in Bit
      PROVE  i \in spans <=>
               (IF i = 0 THEN c.in_string ELSE i - 1 \in spans) # (i \in quotes)
  <2>1. spans = Spans(quotes, c.in_string)
    BY <1>2, <1>3, PrefixXorIs
  <2> HIDE DEF quotes, spans
  <2> QED
    BY <1>2, <1>3, <2>1, SpansNext
<1>6. ASSUME NEW i \in Bit
      PROVE  i \in quotes <=>
               /\ octets[i + 1] = "quote"
               /\ ~(IF i = 0 THEN c.trailing_backslash_unpaired ELSE i - 1 \in parity)
  <2>1. i = 0 => i - 1 \notin parity
    BY <1>1, <1>11
  <2> QED
    BY <2>1 DEF Masked, Escaped, ShiftLeft
<1> HIDE DEF quotes, spans
<1>7. /\ at(0) = t
      /\ \A i \in Bit : at(i + 1) = Past(at(i), octets[i + 1]) /\ at(i) \in TextStates
  <2>1. ASSUME NEW i \in Bit
        PROVE  i + 1 \in 1 .. Len(octets) /\ i \in 0 .. Len(octets) /\ (i + 1) - 1 = i
    BY <1>1 DEF Bit
  <2>2. /\ PastFirst(t, octets, 0) = t
        /\ \A n \in 1 .. Len(octets) :
             PastFirst(t, octets, n) = Past(PastFirst(t, octets, n - 1), octets[n])
        /\ \A n \in 0 .. Len(octets) : PastFirst(t, octets, n) \in TextStates
    <3> HIDE DEF t
    <3> QED
      BY <1>1, <1>2, PastFirstNext
  <2> HIDE DEF t
  <2> QED
    BY <2>1, <2>2
<1> DEFINE S == {i \in 0 .. WordWidth :
                   /\ at(i).escaped <=>
                        IF i = 0 THEN c.trailing_backslash_unpaired ELSE i - 1 \in parity
                   /\ at(i).in_string <=>
                        IF i = 0 THEN c.in_string ELSE i - 1 \in spans}
<1> HIDE DEF at
<1>8. \A i \in 0 .. WordWidth : i \in S
  <2>1. 0 \in S
    BY <1>1, <1>7 DEF Resumed
  <2>2. ASSUME NEW i \in 0 .. WordWidth - 1, i \in S PROVE i + 1 \in S
    <3>1. i \in Bit /\ i + 1 \in 0 .. WordWidth /\ i + 1 # 0 /\ (i + 1) - 1 = i
      BY <1>1 DEF Bit
    <3>2. at(i + 1) = Past(at(i), octets[i + 1]) /\ at(i) \in TextStates
      BY <1>7, <3>1
    <3>3. at(i + 1).escaped <=> octets[i + 1] = "backslash" /\ ~at(i).escaped
      BY <3>2, PastIs
    <3>4. at(i + 1).in_string <=>
            at(i).in_string # (octets[i + 1] = "quote" /\ ~at(i).escaped)
      BY <3>2, PastIs
    <3>5. at(i + 1).escaped <=> i \in parity
      BY <1>4, <2>2, <3>1, <3>3
    <3>6. octets[i + 1] = "quote" /\ ~at(i).escaped <=> i \in quotes
      BY <1>6, <2>2, <3>1
    <3>7. at(i).in_string = (IF i = 0 THEN c.in_string ELSE i - 1 \in spans)
      BY <1>2, <2>2, <3>2 DEF TextStates
    <3>8. at(i + 1).in_string <=> i \in spans
      BY <1>5, <3>1, <3>4, <3>6, <3>7
    <3> QED
      BY <3>1, <3>5, <3>8
  <2> HIDE DEF S
  <2> QED
    BY <1>1, <2>1, <2>2, UpTo
<1>9. ASSUME NEW i \in Bit
      PROVE  i \in Structure(octets, c).mask <=> IsStructure(at(i), octets[i + 1])
  <2>1. i \in 0 .. WordWidth /\ at(i) \in TextStates
    BY <1>1, <1>7 DEF Bit
  <2>2. /\ at(i).escaped <=>
             IF i = 0 THEN c.trailing_backslash_unpaired ELSE i - 1 \in parity
        /\ at(i).in_string <=>
             IF i = 0 THEN c.in_string ELSE i - 1 \in spans
    BY <1>8, <2>1
  <2>3. i \in quotes <=> octets[i + 1] = "quote" /\ ~at(i).escaped
    BY <1>6, <2>2
  <2>4. at(i).in_string = (IF i = 0 THEN c.in_string ELSE i - 1 \in spans)
    BY <1>2, <2>1, <2>2 DEF TextStates
  <2>5. i \in spans <=> at(i).in_string # (i \in quotes)
    BY <1>5, <2>4
  <2>6. i \in Structure(octets, c).mask <=>
          octets[i + 1] \in {"quote", "bracket"} /\ ~(i \in spans /\ i \notin quotes)
    BY DEF Structure, Masked, spans, quotes, parity
  <2>7. i \notin quotes => (i \in spans <=> at(i).in_string)
    BY <2>1, <2>5 DEF TextStates
  <2> QED
    BY <2>3, <2>6, <2>7 DEF IsStructure
<1>10. /\ Structure(octets, c).carry \in Carry
       /\ Resumed(Structure(octets, c).carry) = at(WordWidth)
  <2>1. /\ at(WordWidth).escaped <=> WordWidth - 1 \in parity
        /\ at(WordWidth).in_string <=> WordWidth - 1 \in spans
    BY <1>1, <1>8, WordWidthAssumption
  <2>2. Structure(octets, c).carry =
          [in_string |-> WordWidth - 1 \in spans,
           trailing_backslash_unpaired |-> WordWidth - 1 \in parity]
    BY DEF Structure, spans, quotes, parity
  <2>3. at(WordWidth) \in TextStates
    BY <1>1, <1>2, PastFirstNext DEF at
  <2>4. /\ at(WordWidth).escaped = (WordWidth - 1 \in parity)
        /\ at(WordWidth).in_string = (WordWidth - 1 \in spans)
    BY <2>1, <2>3 DEF TextStates
  <2>5. at(WordWidth) = [in_string |-> at(WordWidth).in_string,
                         escaped |-> at(WordWidth).escaped]
    BY <2>3 DEF TextStates
  <2> QED
    BY <2>2, <2>4, <2>5 DEF Carry, Resumed
<1>12. Structure(octets, c).mask \subseteq Bit
  BY DEF Structure, Masked
<1> QED
  BY <1>9, <1>10, <1>12 DEF at

-----------------------------------------------------------------------------
(* The trace of a block *)

\* What is left of the mask after each line.
LEMMA RemainingIs ==
  ASSUME NEW mask \in Word
  PROVE  LET left == Remaining(mask)
             n == Cardinality(mask)
         IN /\ n \in Nat
            /\ left[0] = mask
            /\ \A k \in 1 .. n : left[k] = left[k - 1] \ {TrailingZeros(left[k - 1])}
            /\ \A k \in 0 .. n : /\ left[k] \in SUBSET mask
                                 /\ Cardinality(left[k]) = n - k
<1> DEFINE n == Cardinality(mask)
           Lines(g) == [k \in 0 .. n |-> IF k = 0 THEN mask
                                         ELSE g[k - 1] \ {TrailingZeros(g[k - 1])}]
           left == CHOOSE g : g = Lines(g)
           op == [k \in 1 .. n |-> [w \in SUBSET mask |-> w \ {TrailingZeros(w)}]]
<1>1. Remaining(mask) = left
  BY DEF Remaining
<1>2. IsFiniteSet(mask) /\ n \in Nat /\ mask \subseteq Bit
  BY WordIsFinite, FS_CardinalityType DEF Word
<1> HIDE DEF n
<1>3. PICK g : Follows(g, n, SUBSET mask, mask, op)
  <2>1. op \in Steps(n, SUBSET mask)
    BY DEF Steps
  <2> HIDE DEF op
  <2> QED
    BY <1>2, <2>1, RecursionExists
<1>4. ASSUME NEW k \in 1 .. n PROVE g[k] = g[k - 1] \ {TrailingZeros(g[k - 1])}
  <2> HIDE DEF op
  <2>1. k - 1 \in 0 .. n
    BY <1>2
  <2>2. g[k] = op[k][g[k - 1]] /\ g[k - 1] \in SUBSET mask
    BY <1>3, <2>1 DEF Follows
  <2>3. \A w \in SUBSET mask : op[k][w] = w \ {TrailingZeros(w)}
    BY DEF op
  <2> QED
    BY <2>2, <2>3
<1> HIDE DEF op
<1>5. g = Lines(g)
  <2>1. g \in [0 .. n -> SUBSET mask] /\ g[0] = mask
    <3> HIDE DEF Lines
    <3> QED
      BY <1>3 DEF Follows
  <2>2. ASSUME NEW k \in 0 .. n PROVE g[k] = Lines(g)[k]
    <3>1. k = 0 \/ k \in 1 .. n
      BY <1>2
    <3> QED
      BY <1>2, <1>4, <2>1, <3>1
  <2> QED
    BY <2>1, <2>2
<1>6. left = Lines(left)
  BY <1>5
<1> HIDE DEF left
<1>7. /\ left[0] = mask
      /\ \A k \in 1 .. n : left[k] = left[k - 1] \ {TrailingZeros(left[k - 1])}
  <2>1. left[0] = mask
    BY <1>2, <1>6
  <2>2. ASSUME NEW k \in 1 .. n PROVE left[k] = left[k - 1] \ {TrailingZeros(left[k - 1])}
    <3>1. k \in 0 .. n /\ k # 0
      BY <1>2
    <3>2. left[k] = Lines(left)[k]
      BY <1>6
    <3> QED
      BY <3>1, <3>2
  <2> QED
    BY <2>1, <2>2
<1> DEFINE S == {k \in 0 .. n : left[k] \in SUBSET mask /\ Cardinality(left[k]) = n - k}
<1>8. \A k \in 0 .. n : k \in S
  <2>1. 0 \in S
    BY <1>2, <1>7 DEF n
  <2>2. ASSUME NEW k \in 0 .. n - 1, k \in S PROVE k + 1 \in S
    <3>1. k + 1 \in 1 .. n /\ k + 1 \in 0 .. n /\ (k + 1) - 1 = k /\ n - k > 0
      BY <1>2
    <3>2. left[k + 1] = left[k] \ {TrailingZeros(left[k])}
      BY <1>7, <3>1
    <3>3. left[k] \in SUBSET mask /\ Cardinality(left[k]) = n - k
      BY <2>2
    <3>4. IsFiniteSet(left[k]) /\ left[k] # {} /\ left[k] \in Word
      BY <1>2, <3>1, <3>3, FS_Subset, FS_EmptySet DEF Word
    <3>5. TrailingZeros(left[k]) \in left[k]
      BY <3>4, TrailingZerosIs
    <3>6. Cardinality(left[k + 1]) = Cardinality(left[k]) - 1
      BY <3>2, <3>4, <3>5, FS_RemoveElement
    <3>7. (n - k) - 1 = n - (k + 1)
      BY <1>2
    <3>8. left[k + 1] \in SUBSET mask
      BY <3>2, <3>3
    <3> QED
      BY <3>1, <3>3, <3>6, <3>7, <3>8
  <2> HIDE DEF S
  <2> QED
    BY <1>2, <2>1, <2>2, UpTo
<1> QED
  BY <1>1, <1>2, <1>7, <1>8 DEF n

\* The lines of a block: one for each set bit, in their order.
LEMMA OffsetsAre ==
  ASSUME NEW mask \in Word, NEW offset \in Nat, NEW octets
  PROVE  LET shown == Offsets(offset, octets, mask)
         IN /\ DOMAIN shown = 1 .. Len(shown)
            /\ Len(shown) \in Nat
            /\ {shown[k] : k \in 1 .. Len(shown)} = {<<offset + i, octets[i + 1]>> : i \in mask}
            /\ \A k \in 1 .. Len(shown) - 1 : shown[k][1] < shown[k + 1][1]
<1> DEFINE n == Cardinality(mask)
           left == Remaining(mask)
           bit(k) == TrailingZeros(left[k - 1])
           shown == Offsets(offset, octets, mask)
<1>1. /\ n \in Nat
      /\ left[0] = mask
      /\ \A k \in 1 .. n : left[k] = left[k - 1] \ {bit(k)}
      /\ \A k \in 0 .. n : left[k] \in SUBSET mask /\ Cardinality(left[k]) = n - k
  BY RemainingIs
<1>2. shown = [k \in 1 .. n |-> <<offset + bit(k), octets[bit(k) + 1]>>]
  BY DEF Offsets
<1>3. IsFiniteSet(mask) /\ mask \subseteq Bit /\ Bit \subseteq Nat
  BY WordIsFinite, WordWidthAssumption DEF Word, Bit
<1> HIDE DEF n, left
<1>4. ASSUME NEW k \in 1 .. n
      PROVE  bit(k) \in left[k - 1] /\ bit(k) \in mask /\ \A j \in left[k - 1] : bit(k) <= j
  <2>1. k - 1 \in 0 .. n /\ n - (k - 1) > 0
    BY <1>1
  <2>2. left[k - 1] \in SUBSET mask /\ Cardinality(left[k - 1]) = n - (k - 1)
    BY <1>1, <2>1
  <2>3. left[k - 1] # {} /\ left[k - 1] \in Word
    <3>1. left[k - 1] # {}
      BY <2>1, <2>2, FS_EmptySet
    <3> QED
      BY <1>3, <2>2, <3>1 DEF Word
  <2> QED
    BY <2>2, <2>3, TrailingZerosIs
<1> HIDE DEF bit
<1>5. Len(shown) = n /\ DOMAIN shown = 1 .. n
  BY <1>1, <1>2
<1>6. ASSUME NEW k \in 1 .. n - 1 PROVE shown[k][1] < shown[k + 1][1]
  <2>1. k \in 1 .. n /\ k + 1 \in 1 .. n /\ (k + 1) - 1 = k
    BY <1>1
  <2>2. bit(k + 1) \in left[k] /\ left[k] = left[k - 1] \ {bit(k)}
    BY <1>1, <1>4, <2>1
  <2>3. bit(k) <= bit(k + 1) /\ bit(k) # bit(k + 1) /\ bit(k) \in Nat /\ bit(k + 1) \in Nat
    BY <1>3, <1>4, <2>1, <2>2
  <2>4. shown[k][1] = offset + bit(k) /\ shown[k + 1][1] = offset + bit(k + 1)
    BY <1>2, <2>1
  <2> QED
    BY <2>3, <2>4
<1> DEFINE S == {k \in 0 .. n : left[k] = {i \in mask : \A j \in 1 .. k : i # bit(j)}}
<1>7. \A k \in 0 .. n : k \in S
  <2>1. 0 \in S
    BY <1>1
  <2>2. ASSUME NEW k \in 0 .. n - 1, k \in S PROVE k + 1 \in S
    <3>1. k + 1 \in 1 .. n /\ k + 1 \in 0 .. n /\ (k + 1) - 1 = k /\ k \in Nat
      BY <1>1
    <3>2. left[k + 1] = left[k] \ {bit(k + 1)}
      BY <1>1, <3>1
    <3>3. left[k] = {i \in mask : \A j \in 1 .. k : i # bit(j)}
      BY <2>2
    <3>4. 1 .. k + 1 = (1 .. k) \cup {k + 1}
      BY <3>1
    <3>5. left[k + 1] = {i \in mask : \A j \in 1 .. k + 1 : i # bit(j)}
      BY <3>2, <3>3, <3>4
    <3> QED
      BY <3>1, <3>5
  <2> HIDE DEF S
  <2> QED
    BY <1>1, <2>1, <2>2, UpTo
<1>8. ASSUME NEW i \in mask PROVE \E k \in 1 .. n : i = bit(k)
  <2>1. left[n] = {j \in mask : \A k \in 1 .. n : j # bit(k)}
    BY <1>1, <1>7
  <2>2. Cardinality(left[n]) = 0 /\ IsFiniteSet(left[n])
    BY <1>1, <1>3, FS_Subset
  <2>3. left[n] = {}
    BY <2>2, FS_EmptySet
  <2> QED
    BY <2>1, <2>3
<1>9. {shown[k] : k \in 1 .. n} = {<<offset + i, octets[i + 1]>> : i \in mask}
  <2>1. \A k \in 1 .. n : shown[k] = <<offset + bit(k), octets[bit(k) + 1]>>
    BY <1>2
  <2> HIDE DEF shown
  <2>2. ASSUME NEW k \in 1 .. n
        PROVE  shown[k] \in {<<offset + i, octets[i + 1]>> : i \in mask}
    BY <1>4, <2>1
  <2>3. ASSUME NEW i \in mask
        PROVE  <<offset + i, octets[i + 1]>> \in {shown[k] : k \in 1 .. n}
    <3>1. PICK k \in 1 .. n : i = bit(k)
      BY <1>8
    <3>2. shown[k] = <<offset + i, octets[i + 1]>>
      BY <2>1, <3>1
    <3> QED
      BY <3>2
  <2> QED
    BY <2>2, <2>3
<1> QED
  BY <1>1, <1>5, <1>6, <1>9
=============================================================================
