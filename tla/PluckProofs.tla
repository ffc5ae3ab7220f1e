----------------------------- MODULE PluckProofs ------------------------------
(***************************************************************************)
(* Proofs about jsp_pluck, for every path and every width of the container *)
(* word: first for every order of tokens, of JSON or not; then, for a text *)
(* that is JSON, that what the walk writes, matches and stops at is what a *)
(* reader of the same text finds.                                          *)
(***************************************************************************)
EXTENDS PluckJson, SharedLemmas

-----------------------------------------------------------------------------
(* jsp_pluck *)

\* The prefix's length is one, and what follows it is shorter by it.
LEMMA PrefixType ==
  ASSUME NEW X, NEW s \in Seq(X), NEW S
  PROVE  /\ PrefixIn(s, S) \in 0 .. Len(s)
         /\ \A i \in 1 .. PrefixIn(s, S) : s[i] \in S
         /\ PrefixIn(s, S) < Len(s) => s[PrefixIn(s, S) + 1] \notin S
<1> DEFINE T == {n \in 0 .. Len(s) : n < Len(s) => s[n + 1] \notin S}
<1>1. Len(s) \in Nat
  BY LenProperties
<1>2. T \in SUBSET Nat /\ Len(s) \in T
  BY <1>1
<1>3. PICK n \in T : \A m \in T : n <= m
  <2> HIDE DEF T
  <2> QED
    BY <1>2, LeastNatural
<1>4. \A i \in 1 .. n : s[i] \in S
  <2> SUFFICES ASSUME NEW i \in 1 .. n, s[i] \notin S PROVE FALSE
    OBVIOUS
  <2>1. n \in 0 .. Len(s) /\ i - 1 \in 0 .. Len(s) /\ i - 1 < n
    BY <1>1, <1>3
  <2>2. i - 1 \in T
    BY <2>1
  <2> QED
    BY <1>3, <2>1, <2>2
<1>5. \E m \in 0 .. Len(s) : /\ \A i \in 1 .. m : s[i] \in S
                             /\ m < Len(s) => s[m + 1] \notin S
  BY <1>3, <1>4
<1> QED
  BY <1>5 DEF PrefixIn

\* What is after the first n octets.
LEMMA AfterType ==
  ASSUME NEW X, NEW s \in Seq(X), NEW n \in 0 .. Len(s)
  PROVE  /\ After(s, n) \in Seq(X)
         /\ Len(After(s, n)) = Len(s) - n
         /\ \A i \in 1 .. Len(s) - n : After(s, n)[i] = s[n + i]
<1>1. Len(s) \in Nat
  BY LenProperties
<1>2. \A i \in n + 1 .. Len(s) : s[i] \in X
  BY <1>1, ElementOfSeq
<1>3. /\ SubSeq(s, n + 1, Len(s)) \in Seq(X)
      /\ Len(SubSeq(s, n + 1, Len(s))) =
           IF n + 1 <= Len(s) THEN Len(s) - (n + 1) + 1 ELSE 0
      /\ \A i \in 1 .. Len(s) - (n + 1) + 1 :
           SubSeq(s, n + 1, Len(s))[i] = s[(n + 1) + i - 1]
  BY <1>1, <1>2, SubSeqProperties
<1> QED
  BY <1>1, <1>3 DEF After

-----------------------------------------------------------------------------
(* Nesting, as the walk sees it *)

\* Records stand at the top or one below it.
LEMMA RecordDepthType ==
  ASSUME NEW s \in BitStack
  PROVE  /\ s.depth \in Nat
         /\ RecordDepth(s) \in {0, 1}
         /\ RecordDepth(s) <= s.depth
BY DepthAssumption DEF BitStack, RecordDepth, OutermostIsArray, Empty

\* An opening bracket goes one level down.  Records stay where they are unless
\* it is the outermost bracket, and then an object's is no wrapper.
LEMMA OpenStep ==
  ASSUME NEW s \in BitStack, NEW c \in Opening, Verdict(s, c) = "OK"
  PROVE  /\ Step(s, c) \in BitStack
         /\ Step(s, c).depth = s.depth + 1
         /\ s.depth > 0 => RecordDepth(Step(s, c)) = RecordDepth(s)
         /\ s.depth = 0 /\ c = "lbrace" => RecordDepth(Step(s, c)) = 0
<1>1. s.depth # JSP_MAX_DEPTH
  BY DEF Verdict, Opening, Closing, Full
<1>2. s.depth \in 0 .. JSP_MAX_DEPTH /\ s.bits \in SUBSET (0 .. JSP_MAX_DEPTH - 1)
  BY DEF BitStack
<1>3. s.depth \in 0 .. JSP_MAX_DEPTH - 1 /\ s.depth + 1 \in 0 .. JSP_MAX_DEPTH
  BY <1>1, <1>2, DepthAssumption
<1>4. PICK word :
        /\ word \in {s.bits \cup {s.depth}, s.bits \ {s.depth}}
        /\ c = "lbrace" => word = s.bits \cup {s.depth}
        /\ Step(s, c) = [bits |-> word, depth |-> s.depth + 1]
  <2>1. CASE c = "lbrace"
    BY <2>1, <1>1 DEF Step, Push, Verdict, Opening, Closing, Full
  <2>2. CASE c # "lbrace"
    BY <2>2, <1>1 DEF Step, Push, Verdict, Opening, Closing, Full
  <2> QED
    BY <2>1, <2>2
<1>5. Step(s, c).depth = s.depth + 1
  BY <1>4
<1>6. Step(s, c).bits = word
  BY <1>4
<1>7. Step(s, c) \in BitStack
  <2>1. word \in SUBSET (0 .. JSP_MAX_DEPTH - 1)
    BY <1>2, <1>3, <1>4
  <2> QED
    BY <1>3, <1>4, <2>1 DEF BitStack
<1>8. s.depth > 0 => (0 \in Step(s, c).bits <=> 0 \in s.bits)
  <2>1. s.depth > 0 => (0 \in word <=> 0 \in s.bits)
    BY <1>3, <1>4
  <2> QED
    BY <1>6, <2>1
<1>9. s.depth = 0 /\ c = "lbrace" => 0 \in Step(s, c).bits
  BY <1>4, <1>6
<1>10. s.depth \in Nat /\ s.depth + 1 # 0
  BY <1>3
<1>11. RecordDepth(Step(s, c)) = IF 0 \notin Step(s, c).bits THEN 1 ELSE 0
  BY <1>5, <1>10 DEF RecordDepth, OutermostIsArray, Empty, At
<1>12. s.depth > 0 => RecordDepth(s) = IF 0 \notin s.bits THEN 1 ELSE 0
  BY <1>10 DEF RecordDepth, OutermostIsArray, Empty, At
<1> QED
  BY <1>5, <1>7, <1>8, <1>9, <1>11, <1>12

\* A closing bracket goes one level up; records stay where they are unless the
\* outermost container closed.
LEMMA CloseStep ==
  ASSUME NEW s \in BitStack, NEW c \in Closing, Verdict(s, c) = "OK"
  PROVE  /\ Step(s, c) \in BitStack
         /\ s.depth > 0
         /\ Step(s, c).depth = s.depth - 1
         /\ s.depth > 1 => RecordDepth(Step(s, c)) = RecordDepth(s)
         /\ s.depth = 1 => RecordDepth(Step(s, c)) = 0
<1>1. Step(s, c) = Pop(s) /\ s.depth # 0
  BY DEF Step, Verdict, Opening, Closing, Empty
<1>2. s.depth \in 0 .. JSP_MAX_DEPTH
  BY DEF BitStack
<1>3. s.depth \in Nat /\ s.depth > 0 /\ s.depth - 1 \in 0 .. JSP_MAX_DEPTH
  BY <1>1, <1>2, DepthAssumption
<1>4. Pop(s) \in BitStack /\ Pop(s).depth = s.depth - 1 /\ Pop(s).bits = s.bits
  BY <1>3 DEF Pop, BitStack
<1> QED
  BY <1>1, <1>3, <1>4 DEF RecordDepth, OutermostIsArray, Empty, At

\* Any other character leaves the containers alone.
LEMMA OtherStep ==
  ASSUME NEW s, NEW c \in Structural, c \notin Opening, c \notin Closing
  PROVE  Verdict(s, c) = "OK" /\ Step(s, c) = s
BY DEF Step, Verdict

-----------------------------------------------------------------------------
(* Writing *)

Piece == Octet \cup Structural \cup {Separator}

\* What is written is of pieces, in whole or in part.
LEMMA EmitType ==
  ASSUME NEW before \in Seq(Piece), NEW pieces \in Seq(Piece),
         Emit(before, pieces)
  PROVE  wrote' \in Seq(Piece) /\ status' \in {"OK", "WRITE_FAILED"}
<1>1. CASE wrote' = before \o pieces /\ status' = "OK"
  BY <1>1, ConcatProperties
<1>2. CASE /\ status' = "WRITE_FAILED"
           /\ \E k \in 0 .. Len(pieces) - 1 :
                wrote' = before \o SubSeq(pieces, 1, k)
  <2>1. PICK k \in 0 .. Len(pieces) - 1 : wrote' = before \o SubSeq(pieces, 1, k)
    BY <1>2
  <2>2. Len(pieces) \in Nat
    BY LenProperties
  <2>3. \A i \in 1 .. k : pieces[i] \in Piece
    BY <2>1, <2>2, ElementOfSeq
  <2>4. SubSeq(pieces, 1, k) \in Seq(Piece)
    BY <2>1, <2>2, <2>3, SubSeqProperties
  <2> QED
    BY <1>2, <2>1, <2>4, ConcatProperties
<1> QED
  BY <1>1, <1>2 DEF Emit

\* A value's first pieces are pieces, and the value counts as emitted.
LEMMA BeginType ==
  ASSUME NEW c \in Structural, BeginValue(c)
  PROVE  /\ wrote' \in Seq(Piece)
         /\ status' \in {"OK", "WRITE_FAILED"}
         /\ emitted_any' = TRUE
<1>1. SeparatorDue \in Seq(Piece) /\ <<c>> \in Seq(Piece) /\ <<>> \in Seq(Piece)
  <2>1. Separator \in Piece /\ c \in Piece
    BY DEF Piece
  <2>2. <<Separator>> \in Seq(Piece) /\ <<c>> \in Seq(Piece) /\ <<>> \in Seq(Piece)
    BY <2>1
  <2> QED
    BY <2>2 DEF SeparatorDue
<1>2. SeparatorDue \o <<c>> \in Seq(Piece)
  BY <1>1, ConcatProperties
<1> QED
  BY <1>1, <1>2, EmitType DEF BeginValue

-----------------------------------------------------------------------------
(* The inductive invariant *)

IInv ==
  /\ TypeOK
  /\ MatchesAreOpen
  /\ PhaseFitsWalk
  /\ PhaseFitsString
  /\ KeyTextIsSuffix

\* The numbers that the invariant compares.
LEMMA Numbers ==
  ASSUME TypeOK
  PROVE  /\ path \in Seq(Seq(Octet)) /\ Len(path) \in Nat
         /\ nesting \in BitStack /\ nesting.depth \in Nat
         /\ RecordDepth(nesting) \in {0, 1}
         /\ RecordDepth(nesting) <= nesting.depth
         /\ segments_matched \in Nat
         /\ ValueDepth = RecordDepth(nesting) + Len(path)
<1>1. path \in Seq(Seq(Octet))
  BY PathsAssumption DEF TypeOK
<1> QED
  BY <1>1, LenProperties, RecordDepthType DEF TypeOK, ValueDepth

\* What every structural character that nesting accepts does to the state.
ContainersWalked(c) ==
  /\ nesting' \in BitStack /\ nesting'.depth \in Nat
  /\ RecordDepth(nesting') \in {0, 1}
  /\ RecordDepth(nesting') <= nesting'.depth
  /\ c \in Opening =>
       /\ nesting'.depth = nesting.depth + 1
       /\ nesting.depth > 0 => RecordDepth(nesting') = RecordDepth(nesting)
       /\ nesting.depth = 0 /\ c = "lbrace" => RecordDepth(nesting') = 0
  /\ c \in Closing =>
       /\ nesting.depth > 0
       /\ nesting'.depth = nesting.depth - 1
       /\ nesting.depth > 1 => RecordDepth(nesting') = RecordDepth(nesting)
       /\ nesting.depth = 1 => RecordDepth(nesting') = 0
  /\ c \notin Opening /\ c \notin Closing => nesting' = nesting

TokensWalked(c) ==
  /\ in_string => c = Quote
  /\ c = Quote => (in_string' <=> ~in_string)
  /\ c # Quote => ~in_string'
  /\ in_string' \in BOOLEAN
  /\ last_structural' \in Structural
  /\ status = "OK"
  /\ rest = <<>>
  /\ path' = path /\ scalars_only' = scalars_only /\ rest' = rest

Walked(c) == ContainersWalked(c) /\ TokensWalked(c)

\* A character that nesting takes moves containers, strings and tokens together.
LEMMA AdvanceWalks ==
  ASSUME TypeOK, NEW c \in Structural, Scanned(c), Advance(c)
  PROVE  Walked(c)
<1>1. nesting \in BitStack /\ in_string \in BOOLEAN
  BY DEF TypeOK
<1>2. /\ Verdict(nesting, c) = "OK" /\ nesting' = Step(nesting, c)
      /\ last_structural' = c /\ (in_string => c = Quote)
      /\ status = "OK" /\ rest = <<>>
      /\ path' = path /\ scalars_only' = scalars_only /\ rest' = rest
  BY DEF Advance, Pushable, Scanned, config
<1>3. nesting' \in BitStack
  BY <1>1, <1>2, OpenStep, CloseStep, OtherStep
<1>4. /\ nesting'.depth \in Nat /\ RecordDepth(nesting') \in {0, 1}
      /\ RecordDepth(nesting') <= nesting'.depth
  BY <1>3, RecordDepthType
<1>5. c \in Opening =>
        /\ nesting'.depth = nesting.depth + 1
        /\ nesting.depth > 0 => RecordDepth(nesting') = RecordDepth(nesting)
        /\ nesting.depth = 0 /\ c = "lbrace" => RecordDepth(nesting') = 0
  BY <1>1, <1>2, OpenStep
<1>6. c \in Closing =>
        /\ nesting.depth > 0
        /\ nesting'.depth = nesting.depth - 1
        /\ nesting.depth > 1 => RecordDepth(nesting') = RecordDepth(nesting)
        /\ nesting.depth = 1 => RecordDepth(nesting') = 0
  BY <1>1, <1>2, CloseStep
<1>7. c \notin Opening /\ c \notin Closing => nesting' = nesting
  BY <1>2, OtherStep
<1>8. /\ c = Quote => (in_string' <=> ~in_string)
      /\ c # Quote => ~in_string'
      /\ in_string' \in BOOLEAN
  <2>1. in_string' = (in_string # (c = Quote))
    BY DEF Scanned
  <2>2. CASE c = Quote
    <3>1. in_string' = (in_string # TRUE)
      BY <2>1, <2>2
    <3> QED
      BY <1>1, <2>2, <3>1
  <2>3. CASE c # Quote
    <3>1. in_string = FALSE
      BY <1>1, <1>2, <2>3
    <3>2. in_string' = (FALSE # FALSE)
      BY <2>1, <2>3, <3>1
    <3> QED
      BY <2>3, <3>2
  <2> QED
    BY <2>2, <2>3
<1> QED
  <2>1. in_string => c = Quote
    BY <1>2
  <2>2. /\ last_structural' \in Structural /\ status = "OK" /\ rest = <<>>
        /\ path' = path /\ scalars_only' = scalars_only /\ rest' = rest
    BY <1>2
  <2> QED
    <3>1. ContainersWalked(c)
      BY <1>3, <1>4, <1>5, <1>6, <1>7 DEF ContainersWalked
    <3>2. TokensWalked(c)
      BY <1>8, <2>1, <2>2 DEF TokensWalked
    <3> QED
      BY <3>1, <3>2 DEF Walked

\* A step that nesting accepted keeps the types, if what it sets itself does.
LEMMA WalkTypes ==
  ASSUME TypeOK, NEW c, Walked(c),
         phase' \in Phases, emitted_any' \in BOOLEAN, segments_matched' \in Nat,
         segment_text_left' \in Seq(Octet), wrote' \in Seq(Piece),
         status' \in Statuses
  PROVE  TypeOK'
BY DEF TypeOK, Walked, ContainersWalked, TokensWalked, Piece

\* Nothing written is something written.
LEMMA NothingType ==
  ASSUME EmitNothing
  PROVE  wrote' \in Seq(Piece) /\ status' = "OK"
BY EmptySeq DEF EmitNothing

\* A single character is a piece.
LEMMA OnePieceType ==
  ASSUME NEW c \in Structural, Emit(<<>>, <<c>>)
  PROVE  wrote' \in Seq(Piece) /\ status' \in {"OK", "WRITE_FAILED"}
<1>1. c \in Piece
  BY DEF Piece
<1>2. <<>> \in Seq(Piece) /\ <<c>> \in Seq(Piece)
  BY <1>1
<1> QED
  BY <1>2, EmitType

-----------------------------------------------------------------------------
(* STRUCTURAL tokens, one lemma per group of cases *)

\* A character that breaks nesting leaves the walk where it is.
LEMMA MalformedInv ==
  ASSUME IInv, NEW c \in Structural, Scanned(c), PushMalformed(c)
  PROVE  IInv'
<1>1. status' = "MALFORMED" /\ wrote' \in Seq(Piece)
  BY EmptySeq DEF PushMalformed
<1>2. UNCHANGED <<path, scalars_only, phase, emitted_any, nesting,
                  segments_matched, segment_text_left, last_structural, rest>>
  BY DEF PushMalformed, config, walk
<1>3. in_string' \in BOOLEAN
  BY DEF Scanned
<1>4. TypeOK'
  BY <1>1, <1>2, <1>3 DEF IInv, TypeOK, Statuses, Piece
<1> QED
  BY <1>1, <1>2, <1>4
     DEF IInv, MatchesAreOpen, PhaseFitsWalk, PhaseFitsString, KeyTextIsSuffix

\* The array around records opens nothing that a path could match.
LEMMA WrapperInv ==
  ASSUME IInv, NEW c \in Structural, Scanned(c), PushWrapper(c)
  PROVE  IInv'
<1>1. Walked(c) /\ TypeOK
  BY AdvanceWalks DEF IInv, PushWrapper
<1>2. c = "lbracket" /\ nesting.depth = 0 /\ status = "OK" /\ ~in_string
  BY <1>1 DEF PushWrapper, OpensWrapper, Empty, Walked, ContainersWalked, TokensWalked, Quote
<1>3. segments_matched = 0 /\ phase \in {"BETWEEN", "SCALAR"}
  BY <1>1, <1>2, Numbers
     DEF IInv, MatchesAreOpen, PhaseFitsWalk, PhaseFitsString, TypeOK, Phases
<1>4. /\ phase' = "BETWEEN" /\ segments_matched' = 0
      /\ UNCHANGED <<emitted_any, segment_text_left>>
  BY <1>3 DEF PushWrapper
<1>5. wrote' \in Seq(Piece) /\ status' = "OK"
  BY NothingType DEF PushWrapper
<1>6. TypeOK'
  BY <1>1, <1>4, <1>5, WalkTypes DEF TypeOK, Phases, Statuses
<1>7. ~in_string'
  BY <1>1, <1>2 DEF Walked, ContainersWalked, TokensWalked, Quote
<1> QED
  BY <1>1, <1>4, <1>6, <1>7, Numbers
     DEF IInv, MatchesAreOpen, PhaseFitsWalk, PhaseFitsString, KeyTextIsSuffix,
         Walked, ContainersWalked, TokensWalked

\* The quotes that end a string leave the containers alone.
LEMMA StringEndsInv ==
  ASSUME IInv, NEW c \in Structural, Scanned(c),
         PushStringEnd(c) \/ PushKeyEnd(c) \/ PushSkippedEnd(c)
  PROVE  IInv'
<1>1. Walked(c) /\ TypeOK
  BY AdvanceWalks DEF IInv, PushStringEnd, PushKeyEnd, PushSkippedEnd
<1>2. /\ phase \in {"STRING", "KEY", "SKIP_STRING"} /\ phase' = "BETWEEN"
      /\ UNCHANGED <<emitted_any, segment_text_left>>
  BY DEF PushStringEnd, PushKeyEnd, PushSkippedEnd
<1>3. c = Quote /\ in_string /\ status = "OK"
  BY <1>1, <1>2 DEF IInv, PhaseFitsString, Walked, ContainersWalked, TokensWalked
<1>4. nesting' = nesting /\ path' = path /\ ~in_string'
  BY <1>1, <1>3 DEF Walked, ContainersWalked, TokensWalked, Quote, Opening, Closing
<1>5. \/ segments_matched' = segments_matched
      \/ phase = "KEY" /\ segments_matched' = segments_matched + 1
  BY <1>1, <1>2, Numbers DEF PushStringEnd, PushKeyEnd, PushSkippedEnd
<1>6. wrote' \in Seq(Piece) /\ status' \in Statuses
  BY NothingType, OnePieceType
     DEF PushStringEnd, PushKeyEnd, PushSkippedEnd, Statuses
<1>7. TypeOK'
  BY <1>1, <1>2, <1>5, <1>6, Numbers, WalkTypes DEF TypeOK, Phases
<1>8. MatchesAreOpen'
  BY <1>1, <1>3, <1>4, <1>5, Numbers DEF IInv, MatchesAreOpen, PhaseFitsWalk
<1> QED
  BY <1>2, <1>4, <1>7, <1>8
     DEF IInv, PhaseFitsWalk, PhaseFitsString, KeyTextIsSuffix

\* A container that is written ends at its own bracket and nowhere else.
LEMMA InContainerInv ==
  ASSUME IInv, NEW c \in Structural, Scanned(c), PushInContainer(c)
  PROVE  IInv'
<1>1. Walked(c) /\ TypeOK
  BY AdvanceWalks DEF IInv, PushInContainer
<1>2. /\ phase = "CONTAINER" /\ status = "OK"
      /\ segments_matched = Len(path) /\ nesting.depth > ValueDepth
      /\ UNCHANGED <<emitted_any, segments_matched, segment_text_left>>
  BY <1>1 DEF PushInContainer, IInv, PhaseFitsWalk, Walked, ContainersWalked, TokensWalked
<1>3. phase' \in {"BETWEEN", "CONTAINER"}
      /\ (phase' = "BETWEEN" => status' = "OK" /\ c \in Closing)
  BY DEF PushInContainer, EndsContainer
<1>4. wrote' \in Seq(Piece) /\ status' \in Statuses
  BY OnePieceType DEF PushInContainer, Statuses
<1>5. TypeOK'
  BY <1>1, <1>2, <1>3, <1>4, WalkTypes DEF TypeOK, Phases
<1>6. nesting.depth > 0 /\ nesting.depth > RecordDepth(nesting) + segments_matched
  BY <1>1, <1>2, Numbers
<1>7. segments_matched > 0 =>
        RecordDepth(nesting') + segments_matched <= nesting'.depth
  BY <1>1, <1>6, Numbers DEF Walked, ContainersWalked, TokensWalked
<1>8. MatchesAreOpen'
  BY <1>1, <1>2, <1>7, Numbers DEF MatchesAreOpen, Walked, ContainersWalked, TokensWalked
<1>9. phase' = "CONTAINER" /\ status' = "OK" =>
        nesting'.depth > RecordDepth(nesting') + Len(path)
  <2>1. CASE c \in Closing
    <3>1. phase' = "CONTAINER" /\ status' = "OK" =>
            nesting'.depth # RecordDepth(nesting') + Len(path)
      BY <2>1 DEF PushInContainer, EndsContainer
    <3>2. nesting'.depth >= RecordDepth(nesting') + Len(path)
      BY <1>1, <1>2, <1>6, <2>1, Numbers DEF Walked, ContainersWalked, TokensWalked
    <3> QED
      BY <1>1, <3>1, <3>2, Numbers DEF Walked, ContainersWalked, TokensWalked
  <2>2. CASE c \notin Closing
    BY <1>1, <1>2, <1>6, <2>2, Numbers DEF Walked, ContainersWalked, TokensWalked
  <2> QED
    BY <2>1, <2>2
<1>10. PhaseFitsWalk'
  BY <1>1, <1>2, <1>3, <1>9 DEF PhaseFitsWalk, ValueDepth, Walked, ContainersWalked, TokensWalked
<1>11. PhaseFitsString'
  BY <1>1, <1>3 DEF PhaseFitsString, Walked, ContainersWalked, TokensWalked, Closing, Quote
<1> QED
  BY <1>3, <1>5, <1>8, <1>10, <1>11 DEF IInv, KeyTextIsSuffix

\* A value begins, or is refused, where the path ends.
LEMMA ValuesInv ==
  ASSUME IInv, NEW c \in Structural, Scanned(c),
         PushStringValue(c) \/ PushContainerValue(c) \/ PushRefused(c)
  PROVE  IInv'
<1>1. Walked(c) /\ TypeOK
  BY AdvanceWalks
     DEF IInv, PushStringValue, PushContainerValue, PushRefused, Between
<1>2. /\ segments_matched = Len(path)
      /\ nesting.depth = RecordDepth(nesting) + Len(path)
      /\ status = "OK" /\ ~OpensWrapper(c) /\ phase \in {"BETWEEN", "SCALAR"}
      /\ UNCHANGED <<segments_matched, segment_text_left>>
  BY <1>1 DEF PushStringValue, PushContainerValue, PushRefused, AtValue,
              Between, Walked, ContainersWalked, TokensWalked
<1>3. /\ wrote' \in Seq(Piece) /\ status' \in Statuses /\ emitted_any' \in BOOLEAN
  BY <1>1, BeginType, EmptySeq
     DEF PushStringValue, PushContainerValue, PushRefused, Statuses, TypeOK
<1>4. \/ phase' = "STRING" /\ c = Quote
      \/ phase' = "CONTAINER" /\ c \in Opening
      \/ phase' = "BETWEEN" /\ c \in Opening
  BY DEF PushStringValue, PushContainerValue, PushRefused
<1>5. TypeOK'
  BY <1>1, <1>2, <1>3, <1>4, WalkTypes DEF TypeOK, Phases
<1>6. ~in_string
  BY <1>2 DEF IInv, PhaseFitsString
<1>7. c = Quote => nesting' = nesting /\ in_string'
  BY <1>1, <1>6 DEF Walked, ContainersWalked, TokensWalked, Quote, Opening, Closing
<1>8. c \in Opening =>
        /\ nesting'.depth > RecordDepth(nesting') + Len(path)
        /\ ~in_string'
  BY <1>1, <1>2, Numbers DEF Walked, ContainersWalked, TokensWalked, OpensWrapper, Empty, Opening, Quote
<1>9. MatchesAreOpen'
  BY <1>1, <1>2, <1>4, <1>7, <1>8, Numbers DEF MatchesAreOpen, Walked, ContainersWalked, TokensWalked
<1>10. PhaseFitsWalk'
  BY <1>1, <1>2, <1>4, <1>7, <1>8 DEF PhaseFitsWalk, ValueDepth, Walked, ContainersWalked, TokensWalked
<1>11. PhaseFitsString'
  BY <1>4, <1>7, <1>8 DEF PhaseFitsString
<1> QED
  BY <1>4, <1>5, <1>9, <1>10, <1>11 DEF IInv, KeyTextIsSuffix

\* A whole text is what follows none of its octets.
LEMMA AfterNone ==
  ASSUME NEW X, NEW s \in Seq(X)
  PROVE  After(s, 0) = s
<1>1. 0 \in 0 .. Len(s) /\ Len(s) \in Nat
  BY LenProperties
<1>2. /\ After(s, 0) \in Seq(X) /\ Len(After(s, 0)) = Len(s)
      /\ \A i \in 1 .. Len(s) : After(s, 0)[i] = s[i]
  BY <1>1, AfterType
<1> QED
  BY <1>2, SeqEqual

\* Octets are passed over one piece after the other.
LEMMA AfterAfter ==
  ASSUME NEW X, NEW s \in Seq(X), NEW k \in 0 .. Len(s), NEW n \in Nat,
         n <= Len(After(s, k))
  PROVE  k + n \in 0 .. Len(s) /\ After(After(s, k), n) = After(s, k + n)
<1>1. Len(s) \in Nat /\ k \in Nat
  BY LenProperties
<1>2. /\ After(s, k) \in Seq(X) /\ Len(After(s, k)) = Len(s) - k
      /\ \A i \in 1 .. Len(s) - k : After(s, k)[i] = s[k + i]
  BY AfterType
<1>3. k + n \in 0 .. Len(s) /\ n \in 0 .. Len(After(s, k))
  BY <1>1, <1>2
<1>4. /\ After(After(s, k), n) \in Seq(X)
      /\ Len(After(After(s, k), n)) = Len(s) - k - n
      /\ \A i \in 1 .. Len(s) - k - n : After(After(s, k), n)[i] = After(s, k)[n + i]
  BY <1>2, <1>3, AfterType
<1>5. /\ After(s, k + n) \in Seq(X)
      /\ Len(After(s, k + n)) = Len(s) - (k + n)
      /\ \A i \in 1 .. Len(s) - (k + n) : After(s, k + n)[i] = s[(k + n) + i]
  BY <1>3, AfterType
<1>6. \A i \in 1 .. Len(s) - k - n : After(After(s, k), n)[i] = After(s, k + n)[i]
  <2> SUFFICES ASSUME NEW i \in 1 .. Len(s) - k - n
               PROVE  After(After(s, k), n)[i] = After(s, k + n)[i]
    OBVIOUS
  <2>1. n + i \in 1 .. Len(s) - k /\ i \in 1 .. Len(s) - (k + n)
    BY <1>1, <1>3
  <2>2. After(After(s, k), n)[i] = s[k + (n + i)]
    BY <1>2, <1>4, <2>1
  <2>3. After(s, k + n)[i] = s[(k + n) + i]
    BY <1>5, <2>1
  <2>4. k + (n + i) = (k + n) + i
    BY <1>1, <2>1
  <2> QED
    BY <2>2, <2>3, <2>4
<1>7. Len(After(After(s, k), n)) = Len(After(s, k + n))
  <2>1. \A a, b, d \in Int : a - b - d = a - (b + d)
    OBVIOUS
  <2>2. Len(s) \in Int /\ k \in Int /\ n \in Int
    BY <1>1
  <2>3. Len(s) - k - n = Len(s) - (k + n)
    BY <2>1, <2>2
  <2> QED
    BY <1>4, <1>5, <2>3
<1> QED
  BY <1>3, <1>4, <1>5, <1>6, <1>7, SeqEqual

\* A string that the path passes over, or one of its keys.
LEMMA OtherStringsInv ==
  ASSUME IInv, NEW c \in Structural, Scanned(c), PushKey(c) \/ PushOtherString(c)
  PROVE  IInv'
<1>1. Walked(c) /\ TypeOK
  BY AdvanceWalks DEF IInv, PushKey, PushOtherString, Between
<1>2. /\ c = Quote /\ UNCHANGED <<emitted_any, segments_matched>>
      /\ phase \in {"BETWEEN", "SCALAR"} /\ status = "OK"
  BY <1>1 DEF PushKey, PushOtherString, Between, Walked, TokensWalked
<1>3. nesting' = nesting /\ path' = path /\ in_string'
  BY <1>1, <1>2 DEF IInv, PhaseFitsString, Walked, ContainersWalked,
                    TokensWalked, Quote, Opening, Closing
<1>4. wrote' \in Seq(Piece) /\ status' \in Statuses
  BY NothingType DEF PushKey, PushOtherString, Statuses
<1>5. \/ phase' = "SKIP_STRING" /\ segment_text_left' = segment_text_left
      \/ /\ phase' = "KEY" /\ AtKey
         /\ segment_text_left' = path[segments_matched + 1]
  BY DEF PushKey, NextSegment, PushOtherString
<1>6. AtKey => /\ segments_matched + 1 \in 1 .. Len(path)
               /\ path[segments_matched + 1] \in Seq(Octet)
  BY <1>1, Numbers, ElementOfSeq DEF AtKey
<1>7. TypeOK'
  BY <1>1, <1>2, <1>4, <1>5, <1>6, WalkTypes DEF TypeOK, Phases
<1>8. MatchesAreOpen'
  BY <1>2, <1>3 DEF IInv, MatchesAreOpen
<1>9. PhaseFitsWalk'
  BY <1>2, <1>3, <1>5 DEF PhaseFitsWalk, AtKey
<1>10. PhaseFitsString'
  BY <1>3, <1>5 DEF PhaseFitsString
<1>11. KeyTextIsSuffix'
  <2>1. CASE phase' = "KEY"
    <3>1. path[segments_matched + 1] \in Seq(Octet)
      BY <1>5, <1>6, <2>1
    <3>2. /\ 0 \in 0 .. Len(path[segments_matched + 1])
          /\ After(path[segments_matched + 1], 0) = segment_text_left'
      BY <1>5, <2>1, <3>1, AfterNone, LenProperties
    <3> QED
      BY <1>2, <1>3, <3>2 DEF KeyTextIsSuffix
  <2> QED
    BY <2>1 DEF KeyTextIsSuffix
<1> QED
  BY <1>7, <1>8, <1>9, <1>10, <1>11 DEF IInv

\* The characters of the structure that the path passes over.
LEMMA PassedOverInv ==
  ASSUME IInv, NEW c \in Structural, Scanned(c),
         PushOtherOpen(c) \/ PushComma(c) \/ PushClose(c) \/ PushColon(c)
  PROVE  IInv'
<1>1. Walked(c) /\ TypeOK
  BY AdvanceWalks
     DEF IInv, PushOtherOpen, PushComma, PushClose, PushColon, Between
<1>2. /\ c # Quote /\ phase' = "BETWEEN" /\ ~OpensWrapper(c)
      /\ UNCHANGED <<emitted_any, segment_text_left>>
  BY DEF PushOtherOpen, PushComma, PushClose, PushColon, Between, Opening,
         Closing, Quote
<1>3. wrote' \in Seq(Piece) /\ status' \in Statuses
  BY NothingType
     DEF PushOtherOpen, PushComma, PushClose, PushColon, Statuses
<1>4. /\ segments_matched' \in Nat
      /\ segments_matched' <= Len(path)
      /\ segments_matched' > 0 =>
           RecordDepth(nesting') + segments_matched' <= nesting'.depth
  <2>1. /\ segments_matched <= Len(path)
        /\ segments_matched > 0 =>
             RecordDepth(nesting) + segments_matched <= nesting.depth
    BY DEF IInv, MatchesAreOpen
  <2>2. CASE PushOtherOpen(c)
    BY <1>1, <1>2, <2>1, <2>2, Numbers
       DEF PushOtherOpen, Walked, ContainersWalked, OpensWrapper, Empty, Opening
  <2>3. CASE PushComma(c)
    <3>1. nesting' = nesting
      BY <1>1, <2>3
         DEF PushComma, Walked, ContainersWalked, Opening, Closing
    <3>2. \/ segments_matched' = segments_matched
          \/ segments_matched > 0 /\ segments_matched' = segments_matched - 1
      BY <2>3 DEF PushComma, MatchedAfterComma
    <3> QED
      BY <1>1, <2>1, <3>1, <3>2, Numbers
  <2>4. CASE PushClose(c)
    <3>1. /\ nesting'.depth \in Nat /\ RecordDepth(nesting') \in {0, 1}
          /\ RecordDepth(nesting') <= nesting'.depth
      BY <1>1 DEF Walked, ContainersWalked
    <3>2. \/ /\ nesting'.depth < RecordDepth(nesting') + segments_matched
             /\ segments_matched' = nesting'.depth - RecordDepth(nesting')
          \/ /\ ~(nesting'.depth < RecordDepth(nesting') + segments_matched)
             /\ segments_matched' = segments_matched
      BY <2>4 DEF PushClose, MatchedAfterClose
    <3> QED
      BY <1>1, <2>1, <3>1, <3>2, Numbers
  <2>5. CASE PushColon(c)
    BY <1>1, <2>1, <2>5, Numbers
       DEF PushColon, Walked, ContainersWalked, Opening, Closing
  <2> QED
    BY <2>2, <2>3, <2>4, <2>5
<1>5. TypeOK'
  BY <1>1, <1>2, <1>3, <1>4, WalkTypes DEF TypeOK, Phases
<1>6. MatchesAreOpen'
  BY <1>1, <1>4 DEF MatchesAreOpen, Walked, TokensWalked
<1>7. ~in_string'
  BY <1>1, <1>2 DEF Walked, TokensWalked
<1> QED
  BY <1>2, <1>5, <1>6, <1>7
     DEF IInv, PhaseFitsWalk, PhaseFitsString, KeyTextIsSuffix

\* Every push of a structural character keeps the invariant.
LEMMA StructuralInv ==
  ASSUME IInv, NEW c \in Structural, Scanned(c), PushStructural(c)
  PROVE  IInv'
BY MalformedInv, WrapperInv, StringEndsInv, InContainerInv, ValuesInv,
   OtherStringsInv, PassedOverInv DEF PushStructural

-----------------------------------------------------------------------------
(* BYTES tokens *)

\* The octets of a token are pieces that may go out.
LEMMA OctetsArePieces ==
  ASSUME NEW s \in Seq(Octet)
  PROVE  s \in Seq(Piece)
<1>1. Octet \subseteq Piece
  BY DEF Piece
<1> QED
  BY <1>1, SeqMonotonic

\* What every BYTES token leaves alone.
LEMMA BytesTypes ==
  ASSUME TypeOK, NEW bytes \in BytesTokens, PushBytes(bytes),
         phase' \in Phases, segment_text_left' \in Seq(Octet),
         rest' \in Seq(Octet), wrote' \in Seq(Piece), status' \in Statuses
  PROVE  TypeOK'
BY DEF TypeOK, PushBytes, config, Piece

\* Octets that are passed over at once, or are of a string that is written.
LEMMA BytesWholeInv ==
  ASSUME IInv, NEW bytes \in BytesTokens,
         \/ PushBytesOfValue(bytes)
         \/ PushBytesSkipped(bytes)
         \/ PushBytesBetween(bytes)
  PROVE  IInv'
<1>1. TypeOK /\ bytes \in Seq(Octet) /\ PushBytes(bytes)
  BY BytesAssumption
     DEF IInv, PushBytesOfValue, PushBytesSkipped, PushBytesBetween
<1>2. UNCHANGED <<path, nesting, segments_matched, in_string, phase,
                  segment_text_left>> /\ status = "OK"
  BY <1>1
     DEF PushBytesOfValue, PushBytesSkipped, PushBytesBetween, PushBytes, config
<1>3. wrote' \in Seq(Piece) /\ status' \in Statuses
  <2>1. bytes \in Seq(Piece) /\ <<>> \in Seq(Piece)
    BY <1>1, OctetsArePieces, EmptySeq
  <2> QED
    BY <2>1, EmitType, NothingType
       DEF PushBytesOfValue, PushBytesSkipped, PushBytesBetween, Statuses
<1>4. rest' \in Seq(Octet)
  <2>1. PastBlanks(bytes) \in Seq(Octet)
    BY <1>1, PrefixType, AfterType DEF PastBlanks
  <2> QED
    BY <1>1, <2>1
       DEF PushBytesOfValue, PushBytesSkipped, PushBytesBetween, TypeOK
<1>5. TypeOK'
  BY <1>1, <1>2, <1>3, <1>4, BytesTypes DEF TypeOK
<1> QED
  BY <1>2, <1>5
     DEF IInv, MatchesAreOpen, PhaseFitsWalk, PhaseFitsString, KeyTextIsSuffix,
         ValueDepth

\* Octets of a key shorten what is left to compare, or give the key up.
LEMMA BytesOfKeyInv ==
  ASSUME IInv, NEW bytes \in BytesTokens, PushBytesOfKey(bytes)
  PROVE  IInv'
<1>1. TypeOK /\ bytes \in Seq(Octet) /\ PushBytes(bytes) /\ phase = "KEY"
  BY BytesAssumption DEF IInv, PushBytesOfKey
<1>2. UNCHANGED <<path, nesting, segments_matched, in_string, rest>>
      /\ status = "OK"
  BY <1>1 DEF PushBytesOfKey, PushBytes, config
<1>3. wrote' \in Seq(Piece) /\ status' \in Statuses
  BY NothingType DEF PushBytesOfKey, Statuses
<1>4. \/ /\ phase' = "SKIP_STRING"
         /\ segment_text_left' = segment_text_left
      \/ /\ phase' = "KEY"
         /\ StartsWith(segment_text_left, bytes)
         /\ segment_text_left' = After(segment_text_left, Len(bytes))
  BY <1>1 DEF PushBytesOfKey
<1>5. /\ segments_matched + 1 \in 1 .. Len(path)
      /\ path[segments_matched + 1] \in Seq(Octet)
  <2>1. segments_matched < Len(path)
    BY <1>1, <1>2 DEF IInv, PhaseFitsWalk
  <2>2. segments_matched + 1 \in 1 .. Len(path)
    BY <1>1, <2>1, Numbers
  <2> QED
    BY <1>1, <2>2, Numbers, ElementOfSeq
<1>6. PICK k \in 0 .. Len(path[segments_matched + 1]) :
        segment_text_left = After(path[segments_matched + 1], k)
  BY <1>1 DEF IInv, KeyTextIsSuffix
<1>7. segment_text_left \in Seq(Octet) /\ Len(bytes) \in Nat
  BY <1>1, LenProperties DEF TypeOK
<1>8. phase' = "KEY" =>
        /\ Len(bytes) \in 0 .. Len(segment_text_left)
        /\ segment_text_left' = After(segment_text_left, Len(bytes))
  BY <1>4, <1>7, LenProperties DEF StartsWith
<1>9. segment_text_left' \in Seq(Octet)
  BY <1>4, <1>7, <1>8, AfterType
<1>10. TypeOK'
  BY <1>1, <1>2, <1>3, <1>4, <1>9, BytesTypes DEF TypeOK, Phases
<1>11. KeyTextIsSuffix'
  <2>1. CASE phase' = "KEY"
    <3>1. Len(bytes) <= Len(After(path[segments_matched + 1], k))
      BY <1>6, <1>7, <1>8, <2>1, LenProperties
    <3>2. /\ k + Len(bytes) \in 0 .. Len(path[segments_matched + 1])
          /\ After(After(path[segments_matched + 1], k), Len(bytes)) =
               After(path[segments_matched + 1], k + Len(bytes))
      BY <1>5, <1>6, <1>7, <3>1, AfterAfter
    <3>3. segment_text_left' = After(path[segments_matched + 1], k + Len(bytes))
      BY <1>6, <1>8, <2>1, <3>2
    <3> QED
      BY <1>2, <3>2, <3>3 DEF KeyTextIsSuffix
  <2> QED
    BY <2>1 DEF KeyTextIsSuffix
<1> QED
  BY <1>1, <1>2, <1>4, <1>10, <1>11
     DEF IInv, MatchesAreOpen, PhaseFitsWalk, PhaseFitsString, ValueDepth

-----------------------------------------------------------------------------
(* The loop over bare scalars *)

\* What a pass leaves of the octets it looked at: fewer than there were.
LEMMA PassLeaves ==
  ASSUME NEW s \in Seq(Octet), s # <<>>
  PROVE  LET n == PrefixIn(s, Letter)
             left == After(s, n)
             next == PastBlanks(left)
         IN /\ n \in 0 .. Len(s)
            /\ next \in Seq(Octet)
            /\ Len(next) < Len(s)
<1> DEFINE n == PrefixIn(s, Letter)
           left == After(s, n)
           b == PrefixIn(left, Blank)
           next == After(left, b)
<1>1. Len(s) \in Nat /\ Len(s) > 0
  BY LenProperties, EmptySeq
<1>2. n \in 0 .. Len(s) /\ (n < Len(s) => s[n + 1] \notin Letter)
  BY PrefixType
<1> HIDE DEF n
<1>3. /\ left \in Seq(Octet) /\ Len(left) = Len(s) - n
      /\ \A i \in 1 .. Len(s) - n : left[i] = s[n + i]
  BY <1>2, AfterType
<1> HIDE DEF left
<1>4. b \in 0 .. Len(left) /\ (b < Len(left) => left[b + 1] \notin Blank)
  BY <1>3, PrefixType
<1> HIDE DEF b
<1>5. next \in Seq(Octet) /\ Len(next) = Len(left) - b
  BY <1>3, <1>4, AfterType
<1>6. n = 0 => b # 0
  <2> SUFFICES ASSUME n = 0, b = 0 PROVE FALSE
    OBVIOUS
  <2>1. s[1] \notin Letter /\ left[1] = s[1] /\ left[1] \notin Blank
    BY <1>1, <1>2, <1>3, <1>4
  <2>2. s[1] \in Octet
    BY <1>1, ElementOfSeq
  <2> QED
    BY <2>1, <2>2 DEF Octet
<1>7. Len(next) < Len(s)
  BY <1>1, <1>2, <1>3, <1>4, <1>5, <1>6
<1> HIDE DEF next
<1> QED
  BY <1>2, <1>5, <1>7 DEF n, left, b, next, PastBlanks

\* What a pass may write is pieces.
LEMMA PassWrites ==
  ASSUME TypeOK, NEW due \in {SeparatorDue, <<>>},
         NEW n \in 0 .. Len(rest),
         Emit(wrote, due \o SubSeq(rest, 1, n))
  PROVE  wrote' \in Seq(Piece) /\ status' \in {"OK", "WRITE_FAILED"}
<1>1. due \in Seq(Piece) /\ wrote \in Seq(Piece)
  <2>1. Separator \in Piece
    BY DEF Piece
  <2>2. <<Separator>> \in Seq(Piece) /\ <<>> \in Seq(Piece)
    BY <2>1
  <2> QED
    BY <2>2 DEF SeparatorDue, TypeOK, Piece
<1>2. SubSeq(rest, 1, n) \in Seq(Piece)
  <2>1. rest \in Seq(Piece) /\ Len(rest) \in Nat
    BY OctetsArePieces, LenProperties DEF TypeOK
  <2>2. \A i \in 1 .. n : rest[i] \in Piece
    BY <2>1, ElementOfSeq
  <2> QED
    BY <2>1, <2>2, SubSeqProperties
<1>3. due \o SubSeq(rest, 1, n) \in Seq(Piece)
  BY <1>1, <1>2, ConcatProperties
<1> QED
  BY <1>1, <1>3, EmitType

\* A pass that goes on with a picked scalar, or begins one.
LEMMA PassOfValueInv ==
  ASSUME IInv, ScalarPass, phase = "SCALAR" \/ (phase = "BETWEEN" /\ AtValue)
  PROVE  IInv'
<1> DEFINE n == PrefixIn(rest, Letter)
           left == After(rest, n)
           next == PastBlanks(left)
           begins == phase = "BETWEEN" /\ AtValue
           due == IF begins THEN SeparatorDue ELSE <<>>
<1>1. TypeOK /\ status = "OK" /\ rest \in Seq(Octet) /\ rest # <<>>
  BY DEF IInv, TypeOK, ScalarPass
<1>2. n \in 0 .. Len(rest) /\ next \in Seq(Octet)
  BY <1>1, PassLeaves
<1>3. /\ Emit(wrote, due \o SubSeq(rest, 1, n))
      /\ emitted_any' = (emitted_any \/ begins)
      /\ \/ phase' = "BETWEEN" /\ rest' = next
         \/ phase' = "SCALAR" /\ rest' = <<>>
      /\ UNCHANGED <<config, walk, in_string>>
  BY DEF ScalarPass
<1>4. due \in {SeparatorDue, <<>>}
  OBVIOUS
<1> HIDE DEF n, left, next, due
<1>5. wrote' \in Seq(Piece) /\ status' \in Statuses
  BY <1>1, <1>2, <1>3, <1>4, PassWrites DEF Statuses
<1>6. rest' \in Seq(Octet)
  BY <1>2, <1>3, EmptySeq
<1>7. emitted_any' \in BOOLEAN
  BY <1>1, <1>3 DEF TypeOK
<1>8. UNCHANGED <<path, scalars_only, nesting, segments_matched,
                  segment_text_left, last_structural, in_string>>
  BY <1>3 DEF config, walk
<1>9. TypeOK'
  BY <1>1, <1>3, <1>5, <1>6, <1>7, <1>8 DEF TypeOK, Phases, Piece
<1>10. ~in_string /\ segments_matched = Len(path) /\ nesting.depth = ValueDepth
  BY <1>1 DEF IInv, PhaseFitsWalk, PhaseFitsString, AtValue, ValueDepth
<1> QED
  BY <1>3, <1>8, <1>9, <1>10
     DEF IInv, MatchesAreOpen, PhaseFitsWalk, PhaseFitsString, KeyTextIsSuffix,
         ValueDepth

\* A pass over a scalar that the path does not pick.
LEMMA PassOfOtherInv ==
  ASSUME IInv, ScalarPass, ~(phase = "SCALAR" \/ (phase = "BETWEEN" /\ AtValue))
  PROVE  IInv'
<1> DEFINE n == PrefixIn(rest, Letter)
           left == After(rest, n)
           next == PastBlanks(left)
<1>1. TypeOK /\ status = "OK" /\ rest \in Seq(Octet) /\ rest # <<>>
  BY DEF IInv, TypeOK, ScalarPass
<1>2. next \in Seq(Octet)
  BY <1>1, PassLeaves
<1>3. rest' = next /\ UNCHANGED <<phase, emitted_any, wrote, status>>
      /\ UNCHANGED <<config, walk, in_string>>
  BY DEF ScalarPass
<1> HIDE DEF next
<1>4. UNCHANGED <<path, scalars_only, phase, emitted_any, nesting,
                  segments_matched, segment_text_left, last_structural,
                  in_string, wrote, status>>
  BY <1>3 DEF config, walk
<1>5. TypeOK'
  BY <1>1, <1>2, <1>3, <1>4 DEF TypeOK
<1> QED
  BY <1>4, <1>5
     DEF IInv, MatchesAreOpen, PhaseFitsWalk, PhaseFitsString, KeyTextIsSuffix,
         ValueDepth

-----------------------------------------------------------------------------
(* The specification *)

\* Every path starts with nothing matched and nothing open.
LEMMA InitInv == Init => IInv
<1> SUFFICES ASSUME Init PROVE IInv
  OBVIOUS
<1>1. nesting \in BitStack /\ nesting.depth = 0
  BY DepthAssumption DEF Init, EmptyStack, BitStack
<1>2. <<>> \in Seq(Octet) /\ <<>> \in Seq(Piece)
  BY EmptySeq
<1>3. TypeOK
  BY <1>1, <1>2 DEF Init, TypeOK, Phases, Statuses, Piece
<1> QED
  BY <1>3, Numbers
     DEF Init, IInv, MatchesAreOpen, PhaseFitsWalk, PhaseFitsString,
         KeyTextIsSuffix

\* Every push and every pass keeps the invariant.
LEMMA NextInv == IInv /\ [Next]_vars => IInv'
<1> SUFFICES ASSUME IInv, [Next]_vars PROVE IInv'
  OBVIOUS
<1>1. ASSUME NEW c \in Structural, Scanned(c), PushStructural(c) PROVE IInv'
  BY <1>1, StructuralInv
<1>2. ASSUME NEW bytes \in BytesTokens, PushBytesToken(bytes) PROVE IInv'
  BY <1>2, BytesWholeInv, BytesOfKeyInv DEF PushBytesToken
<1>3. CASE ScalarPass
  BY <1>3, PassOfValueInv, PassOfOtherInv
<1>4. CASE UNCHANGED vars
  <2>1. UNCHANGED <<path, scalars_only, phase, emitted_any, nesting,
                    segments_matched, segment_text_left, last_structural,
                    in_string, rest, status, wrote>>
    BY <1>4 DEF vars, config, walk
  <2> QED
    BY <2>1
       DEF IInv, TypeOK, MatchesAreOpen, PhaseFitsWalk, PhaseFitsString,
           KeyTextIsSuffix, ValueDepth
<1> QED
  BY <1>1, <1>2, <1>3, <1>4 DEF Next

\* The invariant holds of every behaviour.
LEMMA InvHolds == Spec => []IInv
BY InitInv, NextInv, PTL DEF Spec

\* Whatever tokens come, jsp_pluck_state keeps its types.
THEOREM PluckTypeOK == Spec => []TypeOK
<1>1. IInv => TypeOK
  BY DEF IInv
<1> QED
  BY <1>1, InvHolds, PTL

\* segments_matched never passes the path's end or the open containers, so the
\* walk's unsigned arithmetic never wraps and no segment past the path is read.
THEOREM PluckMatchesAreOpen == Spec => []MatchesAreOpen
<1>1. IInv => MatchesAreOpen
  BY DEF IInv
<1> QED
  BY <1>1, InvHolds, PTL

\* A value is emitted, and a key compared, only where the path leads.
THEOREM PluckPhaseFitsWalk == Spec => []PhaseFitsWalk
<1>1. IInv => PhaseFitsWalk
  BY DEF IInv
<1> QED
  BY <1>1, InvHolds, PTL

\* The phase and the tokens agree on what is inside a string.
THEOREM PluckPhaseFitsString == Spec => []PhaseFitsString
<1>1. IInv => PhaseFitsString
  BY DEF IInv
<1> QED
  BY <1>1, InvHolds, PTL

\* A key, however it is cut into tokens, is compared with its own segment only.
THEOREM PluckKeyTextIsSuffix == Spec => []KeyTextIsSuffix
<1>1. IInv => KeyTextIsSuffix
  BY DEF IInv
<1> QED
  BY <1>1, InvHolds, PTL

\* A pass takes at least one octet.
LEMMA PassStep ==
  IInv /\ [Next]_vars => [rest # <<>> => Len(rest') < Len(rest)]_vars
<1> SUFFICES ASSUME IInv, Next, rest # <<>>
             PROVE  Len(rest') < Len(rest)
  OBVIOUS
<1>1. ScalarPass
  BY DEF Next, PushStructural, PushMalformed, PushWrapper, PushStringEnd,
         PushKeyEnd, PushSkippedEnd, PushInContainer, PushStringValue, PushKey,
         PushOtherString, PushRefused, PushContainerValue, PushOtherOpen,
         PushComma, PushClose, PushColon, Between, Advance, Pushable,
         PushBytesToken, PushBytesOfValue, PushBytesSkipped, PushBytesOfKey,
         PushBytesBetween, PushBytes
<1> DEFINE n == PrefixIn(rest, Letter)
           left == After(rest, n)
           next == PastBlanks(left)
<1>2. rest \in Seq(Octet)
  BY DEF IInv, TypeOK
<1>3. Len(next) < Len(rest)
  BY <1>2, PassLeaves
<1>4. rest' = next \/ rest' = <<>>
  BY <1>1 DEF ScalarPass
<1> HIDE DEF next
<1>5. Len(rest) > 0 /\ Len(<<>>) = 0
  BY <1>2, EmptySeq, LenProperties
<1> QED
  BY <1>3, <1>4, <1>5

\* The loop over a BYTES token's bare scalars ends.
THEOREM PluckPassesConsume == Spec => PassesConsume
BY InvHolds, PassStep, PTL DEF Spec, PassesConsume
-----------------------------------------------------------------------------
(* What may go out when only scalars may *)

Flat == Octet \cup {Quote, Separator}

\* What goes out of flat pieces is flat, a failing write included.
LEMMA EmitFlat ==
  ASSUME NEW before \in Seq(Flat), NEW pieces \in Seq(Flat),
         Emit(before, pieces)
  PROVE  wrote' \in Seq(Flat)
<1>1. CASE wrote' = before \o pieces
  BY <1>1, ConcatProperties
<1>2. CASE \E k \in 0 .. Len(pieces) - 1 :
             wrote' = before \o SubSeq(pieces, 1, k)
  <2>1. PICK k \in 0 .. Len(pieces) - 1 : wrote' = before \o SubSeq(pieces, 1, k)
    BY <1>2
  <2>2. Len(pieces) \in Nat
    BY LenProperties
  <2>3. \A i \in 1 .. k : pieces[i] \in Flat
    BY <2>1, <2>2, ElementOfSeq
  <2>4. SubSeq(pieces, 1, k) \in Seq(Flat)
    BY <2>1, <2>2, <2>3, SubSeqProperties
  <2> QED
    BY <2>1, <2>4, ConcatProperties
<1> QED
  BY <1>1, <1>2 DEF Emit

\* Octets, and the separator before them, are flat.
LEMMA FlatPieces ==
  /\ <<>> \in Seq(Flat)
  /\ SeparatorDue \in Seq(Flat)
  /\ <<Quote>> \in Seq(Flat)
  /\ \A s \in Seq(Octet) : s \in Seq(Flat)
<1>1. Separator \in Flat /\ Quote \in Flat /\ Octet \subseteq Flat
  BY DEF Flat
<1>2. <<Separator>> \in Seq(Flat) /\ <<Quote>> \in Seq(Flat) /\ <<>> \in Seq(Flat)
  BY <1>1
<1>3. \A s \in Seq(Octet) : s \in Seq(Flat)
  BY <1>1, SeqMonotonic
<1> QED
  BY <1>2, <1>3 DEF SeparatorDue

\* No structural character leads into a container or out, but quotes.
LEMMA FlatStructural ==
  ASSUME IInv, LinesStayFlat, scalars_only, NEW c \in Structural, Scanned(c),
         PushStructural(c)
  PROVE  phase' # "CONTAINER" /\ wrote' \in Seq(Flat)
<1>1. phase # "CONTAINER"
  BY DEF LinesStayFlat
<1>2. CASE PushMalformed(c) \/ PushRefused(c)
  BY <1>1, <1>2, FlatPieces DEF PushMalformed, PushRefused
<1>3. CASE \/ PushWrapper(c) \/ PushKeyEnd(c) \/ PushSkippedEnd(c)
           \/ PushKey(c) \/ PushOtherString(c) \/ PushOtherOpen(c)
           \/ PushComma(c) \/ PushClose(c) \/ PushColon(c)
  <2>1. wrote' = <<>>
    BY <1>3
       DEF PushWrapper, PushKeyEnd, PushSkippedEnd, PushKey, PushOtherString,
           PushOtherOpen, PushComma, PushClose, PushColon, EmitNothing
  <2>2. phase' # "CONTAINER"
    BY <1>1, <1>3
       DEF PushWrapper, PushKeyEnd, PushSkippedEnd, PushKey, PushOtherString,
           PushOtherOpen, PushComma, PushClose, PushColon
  <2> QED
    BY <2>1, <2>2, FlatPieces
<1>4. CASE PushStringEnd(c)
  <2>1. phase = "STRING" /\ phase' = "BETWEEN" /\ Emit(<<>>, <<c>>) /\ status = "OK"
    BY <1>4 DEF PushStringEnd, Advance, Pushable
  <2>2. c = Quote
    BY <2>1 DEF IInv, PhaseFitsString, Scanned
  <2> QED
    BY <2>1, <2>2, FlatPieces, EmitFlat
<1>5. CASE PushStringValue(c)
  <2>1. /\ c = Quote /\ phase' = "STRING"
        /\ Emit(<<>>, SeparatorDue \o <<c>>)
    BY <1>5 DEF PushStringValue, BeginValue
  <2>2. SeparatorDue \o <<c>> \in Seq(Flat)
    BY <2>1, FlatPieces, ConcatProperties
  <2> QED
    BY <2>1, <2>2, FlatPieces, EmitFlat
<1>6. ~PushInContainer(c) /\ ~PushContainerValue(c)
  BY <1>1 DEF PushInContainer, PushContainerValue
<1> QED
  BY <1>2, <1>3, <1>4, <1>5, <1>6 DEF PushStructural

\* Under --lines octets go out as they are, and open no container.
LEMMA FlatBytes ==
  ASSUME LinesStayFlat, scalars_only, NEW bytes \in BytesTokens,
         PushBytesToken(bytes)
  PROVE  phase' # "CONTAINER" /\ wrote' \in Seq(Flat)
<1>1. phase # "CONTAINER" /\ bytes \in Seq(Octet)
  BY BytesAssumption DEF LinesStayFlat
<1>2. phase' # "CONTAINER"
  BY <1>1 DEF PushBytesToken, PushBytesOfValue, PushBytesSkipped,
              PushBytesOfKey, PushBytesBetween
<1>3. Emit(<<>>, bytes) \/ wrote' = <<>>
  BY DEF PushBytesToken, PushBytesOfValue, PushBytesSkipped,
         PushBytesOfKey, PushBytesBetween, EmitNothing
<1> QED
  BY <1>1, <1>2, <1>3, FlatPieces, EmitFlat

\* So does every pass over bare scalars.
LEMMA FlatPass ==
  ASSUME IInv, LinesStayFlat, scalars_only, ScalarPass
  PROVE  phase' # "CONTAINER" /\ wrote' \in Seq(Flat)
<1> DEFINE n == PrefixIn(rest, Letter)
           begins == phase = "BETWEEN" /\ AtValue
           due == IF begins THEN SeparatorDue ELSE <<>>
<1>1. phase # "CONTAINER" /\ wrote \in Seq(Flat) /\ rest \in Seq(Octet)
  BY DEF LinesStayFlat, Flat, IInv, TypeOK
<1>2. n \in 0 .. Len(rest) /\ Len(rest) \in Nat
  BY <1>1, PrefixType, LenProperties
<1>3. /\ \/ Emit(wrote, due \o SubSeq(rest, 1, n))
         \/ wrote' = wrote
      /\ phase' \in {"BETWEEN", "SCALAR", phase}
  BY DEF ScalarPass
<1>4. due \in Seq(Flat)
  BY FlatPieces
<1> HIDE DEF n, due
<1>5. \A i \in 1 .. n : rest[i] \in Octet
  BY <1>1, <1>2, ElementOfSeq
<1>6. SubSeq(rest, 1, n) \in Seq(Octet)
  BY <1>1, <1>2, <1>5, SubSeqProperties
<1>7. due \o SubSeq(rest, 1, n) \in Seq(Flat)
  BY <1>4, <1>6, FlatPieces, ConcatProperties
<1> QED
  BY <1>1, <1>3, <1>7, EmitFlat

\* Every step under --lines writes what lines may hold.
LEMMA FlatNext == IInv /\ LinesStayFlat /\ [Next]_vars => LinesStayFlat'
<1> SUFFICES ASSUME IInv, LinesStayFlat, [Next]_vars, scalars_only'
             PROVE  phase' # "CONTAINER" /\ wrote' \in Seq(Flat)
  BY DEF LinesStayFlat, Flat
<1>1. CASE UNCHANGED vars
  BY <1>1 DEF vars, config, LinesStayFlat, Flat
<1>2. ASSUME NEW c \in Structural, Scanned(c), PushStructural(c)
      PROVE  scalars_only
  BY <1>2 DEF PushStructural, PushMalformed, PushWrapper, PushStringEnd,
       PushKeyEnd, PushSkippedEnd, PushInContainer, PushStringValue, PushKey,
       PushOtherString, PushRefused, PushContainerValue, PushOtherOpen,
       PushComma, PushClose, PushColon, Between, Advance, config
<1>3. ASSUME NEW bytes \in BytesTokens, PushBytesToken(bytes)
      PROVE  scalars_only
  BY <1>3 DEF PushBytesToken, PushBytesOfValue, PushBytesSkipped,
       PushBytesOfKey, PushBytesBetween, PushBytes, config
<1>4. ScalarPass => scalars_only
  BY DEF ScalarPass, config
<1> QED
  BY <1>1, <1>2, <1>3, <1>4, FlatStructural, FlatBytes, FlatPass DEF Next

\* Under --lines no bracket, comma or colon of the input's structure is ever
\* written, for any path and any stream.
THEOREM PluckLinesStayFlat == Spec => []LinesStayFlat
<1>1. Init => LinesStayFlat
  BY FlatPieces DEF Init, LinesStayFlat, Flat
<1> QED
  BY <1>1, FlatNext, InvHolds, PTL DEF Spec

-----------------------------------------------------------------------------
(* A reader of the text, and where the walk should be *)

\* Octets of s \o t.
LEMMA ConcatOctets ==
  ASSUME NEW X, NEW s \in Seq(X), NEW t \in Seq(X)
  PROVE  /\ s \o t \in Seq(X) /\ Len(s \o t) = Len(s) + Len(t)
         /\ Len(s) \in Nat /\ Len(t) \in Nat
         /\ \A j \in 1 .. Len(s) : (s \o t)[j] = s[j]
         /\ \A j \in 1 .. Len(t) : (s \o t)[Len(s) + j] = t[j]
         /\ \A j \in Len(s) + 1 .. Len(s) + Len(t) : (s \o t)[j] = t[j - Len(s)]
BY LenProperties

Frame == [kind : {"object", "array"}, key : Seq(Octet)]

\* What a reader of the text may be.
Readers ==
  [frames : Seq(Frame), expect : {"value", "first", "key", "colon", "more"},
   lex : {"none", "key", "string", "scalar"}, text : Seq(Octet),
   picking : {"none", "string", "scalar", "container"}, base : Nat,
   begun : BOOLEAN, due : Seq(Piece),
   verdict : {"OK", "MALFORMED", "CONTAINER_REFUSED"}]

\* The kinds and keys of the open containers spell exactly k of p's segments,
\* from the record down that stands in r others.
Named(frame, key) == frame.kind = "object" /\ frame.key = key

Spells(frames, p, r, k) ==
  /\ k \in 0 .. Len(p)
  /\ r + k <= Len(frames)
  /\ \A i \in 1 .. k : Named(frames[r + i], p[i])
  /\ k < Len(p) /\ r + k < Len(frames) => ~ Named(frames[r + k + 1], p[k + 1])

\* The word of bits holds the kinds of the open containers.
FramesFit(j) ==
  /\ Len(j.frames) = nesting.depth
  /\ \A i \in 1 .. nesting.depth : j.frames[i].kind = "object" <=> At(nesting, i - 1)

\* The counter is how far the keys below the wrapper spell the path.
MatchFits(j) == Spells(j.frames, path, RecordDepth(nesting), segments_matched)

\* in_string and the last structural character say where in the grammar j stands.
PlaceFits(j) ==
  /\ in_string <=> Inside(j)
  /\ ~ Inside(j) => (KeyComesNext <=> J!MayStartKey(j))
  /\ J!MayStartKey(j) => j.frames[Len(j.frames)].key = J!NoKey
  /\ j.lex = "key" => J!MayStartKey(j)
  /\ j.lex # "key" => j.text = J!NoKey
  /\ j.lex = "scalar" => j.expect \in {"value", "more"}

\* Phase p says what of the text j is copying, and what it makes of a key.
PickFits(j, p) ==
  /\ p = "BETWEEN" =>
       /\ j.picking = "none"
       /\ j.lex = "none" \/ (j.lex = "scalar" /\ ~ AtValue)
  /\ p = "SCALAR" => j.picking = "scalar" /\ j.lex = "scalar"
  /\ p = "STRING" => j.picking = "string" /\ j.lex = "string"
  /\ p = "KEY" =>
       /\ j.picking = "none" /\ j.lex = "key"
       /\ j.text \o segment_text_left = path[segments_matched + 1]
  /\ p = "SKIP_STRING" =>
       /\ j.picking = "none" /\ j.lex \in {"key", "string"}
       /\ /\ j.lex = "key"
          /\ segments_matched < Len(path)
          /\ nesting.depth = RecordDepth(nesting) + segments_matched + 1
          => ~ StartsWith(path[segments_matched + 1], j.text)
  /\ p = "CONTAINER" => j.picking = "container" /\ j.base = ValueDepth

\* The reader j fits the walk in phase p, which has begun a record or not.
Fits(j, p, begun) ==
  /\ j.verdict = "OK"
  /\ j.begun = begun
  /\ FramesFit(j)
  /\ MatchFits(j)
  /\ PlaceFits(j)
  /\ PickFits(j, p)

-----------------------------------------------------------------------------
(* What the reader does *)

\* Names of the reader of module Json.
LEMMA ReaderFields ==
  ASSUME NEW j \in Readers
  PROVE  /\ j.frames \in Seq(Frame) /\ Len(j.frames) \in Nat
         /\ j.expect \in {"value", "first", "key", "colon", "more"}
         /\ j.lex \in {"none", "key", "string", "scalar"}
         /\ j.text \in Seq(Octet)
         /\ j.picking \in {"none", "string", "scalar", "container"}
         /\ j.base \in Nat /\ j.begun \in BOOLEAN /\ j.due \in Seq(Piece)
         /\ j.verdict \in {"OK", "MALFORMED", "CONTAINER_REFUSED"}
BY LenProperties DEF Readers

\* What is put out stays made of pieces.
LEMMA CopiedType ==
  ASSUME NEW j \in Readers, NEW o \in Piece
  PROVE  J!Copied(j, o) \in Seq(Piece)
BY ReaderFields, AppendProperties DEF J!Copied

\* What the end of a bare scalar leaves.
LEMMA EndScalarReads ==
  ASSUME NEW j \in Readers
  PROVE  /\ J!EndScalar(j) \in Readers
         /\ J!EndScalar(j).frames = j.frames /\ J!EndScalar(j).expect = j.expect
         /\ J!EndScalar(j).text = j.text /\ J!EndScalar(j).base = j.base
         /\ J!EndScalar(j).begun = j.begun /\ J!EndScalar(j).due = j.due
         /\ J!EndScalar(j).verdict = j.verdict
         /\ J!EndScalar(j).lex = IF j.lex = "scalar" THEN "none" ELSE j.lex
         /\ J!EndScalar(j).picking =
              IF j.lex = "scalar" /\ j.picking = "scalar" THEN "none" ELSE j.picking
<1> DEFINE x == J!Ended(j, "scalar")
<1>1. CASE j.lex = "scalar"
  <2>1. J!EndScalar(j) = [j EXCEPT !.lex = "none", !.picking = x]
    BY <1>1 DEF J!EndScalar
  <2>2. x \in {"none", "string", "scalar", "container"}
    BY ReaderFields DEF J!Ended
  <2>3. x = IF j.picking = "scalar" THEN "none" ELSE j.picking
    BY DEF J!Ended
  <2> HIDE DEF x
  <2> PICK k : k = J!EndScalar(j)
    OBVIOUS
  <2>4. /\ k \in Readers /\ k.frames = j.frames /\ k.expect = j.expect
        /\ k.text = j.text /\ k.base = j.base /\ k.begun = j.begun /\ k.due = j.due
        /\ k.verdict = j.verdict /\ k.lex = "none" /\ k.picking = x
    BY <2>1, <2>2 DEF Readers
  <2> QED
    BY <1>1, <2>3, <2>4
<1>2. CASE j.lex # "scalar"
  <2>1. J!EndScalar(j) = j
    BY <1>2 DEF J!EndScalar
  <2> QED
    BY <1>2, <2>1
<1> QED
  BY <1>1, <1>2

\* A blank outside strings.
LEMMA BlankReads ==
  ASSUME NEW j \in Readers, NEW o \in Octet
  PROVE  /\ J!ReadBlank(j, o) \in Readers
         /\ J!ReadBlank(j, o) =
              [J!EndScalar(j) EXCEPT !.due = J!Copied(J!EndScalar(j), o)]
<1>1. J!EndScalar(j) \in Readers /\ o \in Piece
  BY EndScalarReads DEF Piece
<1>2. J!Copied(J!EndScalar(j), o) \in Seq(Piece)
  BY <1>1, CopiedType
<1> DEFINE k == J!EndScalar(j)
<1>3. J!ReadBlank(j, o) = [k EXCEPT !.due = J!Copied(k, o)]
  BY DEF J!ReadBlank
<1> HIDE DEF k
<1> QED
  BY <1>1, <1>2, <1>3 DEF k, Readers

\* An octet in a string.
LEMMA ContentReads ==
  ASSUME NEW j \in Readers, NEW o \in Octet
  PROVE  /\ J!ReadContent(j, o) \in Readers
         /\ J!ReadContent(j, o).frames = j.frames
         /\ J!ReadContent(j, o).expect = j.expect
         /\ J!ReadContent(j, o).lex = j.lex
         /\ J!ReadContent(j, o).text =
              IF j.lex = "key" THEN Append(j.text, o) ELSE j.text
         /\ J!ReadContent(j, o).picking = j.picking
         /\ J!ReadContent(j, o).base = j.base
         /\ J!ReadContent(j, o).begun = j.begun
         /\ J!ReadContent(j, o).due = J!Copied(j, o)
         /\ J!ReadContent(j, o).verdict = j.verdict
<1>1. o \in Piece /\ J!Copied(j, o) \in Seq(Piece)
  BY CopiedType DEF Piece
<1>2. (IF j.lex = "key" THEN Append(j.text, o) ELSE j.text) \in Seq(Octet)
  BY ReaderFields, AppendProperties
<1> QED
  BY <1>1, <1>2 DEF J!ReadContent, Readers

\* Whether a value that starts now is picked, and what is put out of it first.
Picks(j, p) == j.picking = "none" /\ J!Picked(j.frames, p)

FirstDue(j, o) == j.due \o (IF j.begun THEN <<Separator>> ELSE <<>>) \o <<o>>

\* k is j once a value of that kind has started with octet o, its lexeme aside.
Begun(k, j, o, p, kind) ==
  /\ k \in Readers
  /\ k.frames = j.frames /\ k.text = j.text /\ k.verdict = j.verdict
  /\ k.picking = IF Picks(j, p) THEN kind ELSE j.picking
  /\ k.base = IF Picks(j, p) THEN Len(j.frames) ELSE j.base
  /\ k.begun = IF Picks(j, p) THEN TRUE ELSE j.begun
  /\ k.due = IF Picks(j, p) THEN FirstDue(j, o) ELSE J!Copied(j, o)

\* The first octet of a value.
LEMMA BeginReads ==
  ASSUME NEW j \in Readers, NEW o \in Piece, NEW p,
         NEW kind \in {"string", "scalar", "container"}
  PROVE  /\ Begun(J!Begin(j, o, p, kind, Separator), j, o, p, kind)
         /\ J!Begin(j, o, p, kind, Separator).expect = j.expect
         /\ J!Begin(j, o, p, kind, Separator).lex = j.lex
<1>1. FirstDue(j, o) \in Seq(Piece)
  <2> DEFINE due == IF j.begun THEN <<Separator>> ELSE <<>>
  <2>1. due \in Seq(Piece) /\ <<o>> \in Seq(Piece) /\ j.due \in Seq(Piece)
    <3>1. Separator \in Piece
      BY DEF Piece
    <3>2. <<Separator>> \in Seq(Piece) /\ <<o>> \in Seq(Piece) /\ <<>> \in Seq(Piece)
      BY <3>1
    <3> QED
      BY <3>2, ReaderFields
  <2>2. FirstDue(j, o) = j.due \o due \o <<o>>
    BY DEF FirstDue
  <2> HIDE DEF due
  <2> QED
    BY <2>1, <2>2, ConcatProperties
<1>2. J!Copied(j, o) \in Seq(Piece) /\ Len(j.frames) \in Nat
  BY CopiedType, ReaderFields
<1> DEFINE k == J!Begin(j, o, p, kind, Separator)
<1>3. k = IF Picks(j, p)
            THEN [j EXCEPT !.picking = kind, !.base = Len(j.frames), !.begun = TRUE,
                           !.due = FirstDue(j, o)]
            ELSE [j EXCEPT !.due = J!Copied(j, o)]
  BY DEF J!Begin, Picks, FirstDue
<1> HIDE DEF k
<1>4. Begun(k, j, o, p, kind) /\ k.expect = j.expect /\ k.lex = j.lex
  <2>1. CASE Picks(j, p)
    BY <1>1, <1>2, <1>3, <2>1 DEF Readers, Begun
  <2>2. CASE ~ Picks(j, p)
    BY <1>2, <1>3, <2>2 DEF Readers, Begun
  <2> QED
    BY <2>1, <2>2
<1> QED
  BY <1>4 DEF k

\* A letter that goes on with a bare scalar.
LEMMA LetterGoesOn ==
  ASSUME NEW j \in Readers, NEW o \in Octet, NEW p, j.lex = "scalar"
  PROVE  /\ J!ReadLetter(j, o, p, Separator) = [j EXCEPT !.due = J!Copied(j, o)]
         /\ J!ReadLetter(j, o, p, Separator) \in Readers
<1>1. J!ReadLetter(j, o, p, Separator) = [j EXCEPT !.due = J!Copied(j, o)]
  BY DEF J!ReadLetter
<1>2. J!Copied(j, o) \in Seq(Piece)
  BY CopiedType DEF Piece
<1> QED
  BY <1>1, <1>2 DEF Readers

\* And one that starts it.
LEMMA LetterBegins ==
  ASSUME NEW j \in Readers, NEW o \in Octet, NEW p, j.lex # "scalar"
  PROVE  /\ Begun(J!ReadLetter(j, o, p, Separator), j, o, p, "scalar")
         /\ J!ReadLetter(j, o, p, Separator).expect = J!AfterValue(j.frames)
         /\ J!ReadLetter(j, o, p, Separator).lex = "scalar"
<1> DEFINE b == J!Begin(j, o, p, "scalar", Separator)
           l == J!ReadLetter(j, o, p, Separator)
<1>1. l = [b EXCEPT !.lex = "scalar", !.expect = J!AfterValue(j.frames)]
  BY DEF J!ReadLetter
<1>2. J!AfterValue(j.frames) \in {"value", "more"}
  BY DEF J!AfterValue
<1>3. Begun(b, j, o, p, "scalar")
  BY BeginReads DEF Piece
<1> HIDE DEF b, l
<1>4. Begun(l, j, o, p, "scalar") /\ l.expect = J!AfterValue(j.frames) /\ l.lex = "scalar"
  BY <1>1, <1>2, <1>3 DEF Readers, Begun
<1> QED
  BY <1>4 DEF l

\* Any octet of a BYTES token.
LEMMA OctetReads ==
  ASSUME NEW j \in Readers, NEW o \in Octet
  PROVE  ReadOctet(j, o) \in Readers
BY ContentReads, BlankReads, LetterGoesOn, LetterBegins
DEF ReadOctet, ReadOctetFor, Begun

\* Whatever starts with a reader and goes past one octet after the other is where
\* the fold over the octets stands.
LEMMA ReadFollows ==
  ASSUME NEW s \in Seq(Octet), NEW n \in 0 .. Len(s), NEW j \in Readers,
         NEW p, p[0] = j, \A k \in 1 .. n : p[k] = ReadOctet(p[k - 1], s[k])
  PROVE  ReadBytes(j, s, n) = p[n]
<1> DEFINE u == SubSeq(s, 1, n)
           Folds(g) == [S \in SUBSET DOMAIN u |->
                          IF S = {} THEN j
                          ELSE ReadOctet(g[S \ {Max(S)}], u[Max(S)])]
           g == CHOOSE g : g = Folds(g)
           op == [k \in 1 .. n |-> [x \in Readers |-> ReadOctet(x, s[k])]]
<1>1. n \in Nat /\ DOMAIN u = 1 .. n /\ \A k \in 1 .. n : u[k] = s[k] /\ s[k] \in Octet
  BY FirstOctets, LenProperties, ElementOfSeq
<1>2. ReadBytes(j, s, n) = g[DOMAIN u]
  BY DEF ReadBytes, J!FoldLeft, J!MapThenFoldSet, J!Max, Max
<1> HIDE DEF u
<1>3. op \in Steps(n, Readers)
  BY <1>1, OctetReads DEF Steps
<1>4. \E h : h = Folds(h)
  <2>1. PICK h : FollowsSets(h, n, Readers, j, op)
    <3> HIDE DEF op
    <3> QED
      BY <1>1, <1>3, FoldExists
  <2>2. ASSUME NEW S \in SUBSET (1 .. n), S # {}
        PROVE  h[S] = ReadOctet(h[S \ {Max(S)}], u[Max(S)])
    <3>1. Max(S) \in 1 .. n
      <4>1. n \in Nat
        BY <1>1
      <4> HIDE DEF op, Folds
      <4> QED
        BY <2>2, <4>1, MaxIsIn
    <3>2. h[S] = op[Max(S)][h[S \ {Max(S)}]] /\ h[S \ {Max(S)}] \in Readers
      <4>1. S \ {Max(S)} \in SUBSET (1 .. n)
        OBVIOUS
      <4> HIDE DEF op, Folds
      <4> QED
        BY <2>1, <2>2, <4>1 DEF FollowsSets
    <3>3. op[Max(S)][h[S \ {Max(S)}]] = ReadOctet(h[S \ {Max(S)}], s[Max(S)])
      BY <3>1, <3>2
    <3> QED
      BY <1>1, <3>1, <3>2, <3>3
  <2>3. h[{}] = j /\ h = [S \in SUBSET (1 .. n) |-> h[S]]
    <3>1. {} \in SUBSET (1 .. n)
      OBVIOUS
    <3> HIDE DEF op
    <3> QED
      BY <2>1, <3>1 DEF FollowsSets
  <2>4. h = Folds(h)
    <3> HIDE DEF op
    <3> QED
      BY <1>1, <2>2, <2>3
  <2> QED
    BY <2>4
<1>5. g = Folds(g)
  BY <1>4
<1> HIDE DEF g
<1>6. \A k \in 0 .. n : (1 .. k) \in SUBSET (1 .. n)
  BY <1>1
<1>7. g[1 .. 0] = j
  <2>1. 1 .. 0 = {} /\ 0 \in 0 .. n
    BY <1>1
  <2> QED
    BY <1>1, <1>5, <1>6, <2>1
<1>8. ASSUME NEW k \in 1 .. n PROVE g[1 .. k] = ReadOctet(g[1 .. k - 1], s[k])
  <2>1. k \in Nat \ {0} /\ k \in 0 .. n
    BY <1>1
  <2>2. Max(1 .. k) = k /\ (1 .. k) \ {k} = 1 .. k - 1 /\ 1 .. k # {}
    BY <2>1, MaxUpTo
  <2>3. g[1 .. k] = IF 1 .. k = {} THEN j
                    ELSE ReadOctet(g[(1 .. k) \ {Max(1 .. k)}], u[Max(1 .. k)])
    BY <1>1, <1>5, <1>6, <2>1
  <2> QED
    BY <1>1, <2>2, <2>3
<1> DEFINE S == {k \in 0 .. n : p[k] = g[1 .. k]}
<1>9. \A k \in 0 .. n : k \in S
  <2>1. 0 \in S
    BY <1>1, <1>7
  <2>2. ASSUME NEW k \in 0 .. n - 1, k \in S PROVE k + 1 \in S
    <3>1. k + 1 \in 1 .. n /\ k + 1 \in 0 .. n /\ (k + 1) - 1 = k
      BY <1>1
    <3>2. p[k] = g[1 .. k]
      BY <2>2
    <3>3. /\ p[k + 1] = ReadOctet(p[k], s[k + 1])
          /\ g[1 .. k + 1] = ReadOctet(g[1 .. k], s[k + 1])
      BY <1>8, <3>1
    <3> QED
      BY <3>1, <3>2, <3>3
  <2> HIDE DEF S
  <2> QED
    BY <1>1, <2>1, <2>2, UpTo
<1> QED
  BY <1>1, <1>2, <1>9

\* One octet after the other.
LEMMA ReadNext ==
  ASSUME NEW s \in Seq(Octet), NEW j \in Readers
  PROVE  /\ ReadBytes(j, s, 0) = j
         /\ \A n \in 0 .. Len(s) : ReadBytes(j, s, n) \in Readers
         /\ \A n \in 0 .. Len(s) - 1 :
              ReadBytes(j, s, n + 1) = ReadOctet(ReadBytes(j, s, n), s[n + 1])
<1> DEFINE N == Len(s)
           op == [k \in 1 .. N |-> [x \in Readers |-> ReadOctet(x, s[k])]]
<1>1. N \in Nat /\ \A k \in 1 .. N : s[k] \in Octet
  BY LenProperties, ElementOfSeq
<1> HIDE DEF N
<1>2. PICK p : Follows(p, N, Readers, j, op)
  <2>1. op \in Steps(N, Readers)
    BY <1>1, OctetReads DEF Steps
  <2> HIDE DEF op
  <2> QED
    BY <1>1, <2>1, RecursionExists
<1>3. p \in [0 .. N -> Readers] /\ p[0] = j
  BY <1>2 DEF Follows
<1>4. ASSUME NEW k \in 1 .. N PROVE p[k] = ReadOctet(p[k - 1], s[k])
  <2>1. p[k] = op[k][p[k - 1]]
    <3> HIDE DEF op
    <3> QED
      BY <1>2 DEF Follows
  <2>2. p[k - 1] \in Readers
    BY <1>1, <1>3
  <2> QED
    BY <2>1, <2>2
<1>5. ASSUME NEW n \in 0 .. N PROVE ReadBytes(j, s, n) = p[n]
  <2>1. \A k \in 1 .. n : p[k] = ReadOctet(p[k - 1], s[k])
    BY <1>1, <1>4
  <2> QED
    BY <1>3, <2>1, ReadFollows DEF N
<1>6. ReadBytes(j, s, 0) = j
  BY <1>1, <1>3, <1>5
<1>7. ASSUME NEW n \in 0 .. N - 1
      PROVE  ReadBytes(j, s, n + 1) = ReadOctet(ReadBytes(j, s, n), s[n + 1])
  <2>1. n + 1 \in 1 .. N /\ n \in 0 .. N /\ n + 1 \in 0 .. N /\ (n + 1) - 1 = n
    BY <1>1
  <2> QED
    BY <1>4, <1>5, <2>1
<1>8. ASSUME NEW n \in 0 .. N PROVE ReadBytes(j, s, n) \in Readers
  BY <1>3, <1>5
<1> QED
  BY <1>6, <1>7, <1>8 DEF N

-----------------------------------------------------------------------------
(* What is spelled, and where records stand *)

\* In how many containers records stand.
Wrappers(f) == IF f # <<>> /\ f[1].kind = "array" THEN 1 ELSE 0

\* Records stand in one container, or in none, as the first frame says.
LEMMA WrapDepth ==
  ASSUME TypeOK, NEW j \in Readers, FramesFit(j)
  PROVE  /\ RecordDepth(nesting) \in {0, 1} /\ nesting.depth \in Nat
         /\ RecordDepth(nesting) <= nesting.depth
         /\ Len(j.frames) = nesting.depth
         /\ RecordDepth(nesting) = Wrappers(j.frames)
<1>1. /\ nesting.depth \in Nat /\ RecordDepth(nesting) \in {0, 1}
      /\ RecordDepth(nesting) <= nesting.depth
  BY Numbers
<1>2. Len(j.frames) = nesting.depth /\ j.frames \in Seq(Frame)
  BY ReaderFields DEF FramesFit
<1>3. j.frames # <<>> <=> nesting.depth # 0
  BY <1>2, EmptySeq
<1>4. CASE nesting.depth = 0
  BY <1>1, <1>2, <1>3, <1>4 DEF RecordDepth, OutermostIsArray, Empty, Wrappers
<1>5. CASE nesting.depth # 0
  <2>1. 1 \in 1 .. nesting.depth /\ 1 - 1 = 0
    BY <1>1, <1>5
  <2>2. j.frames[1].kind = "object" <=> At(nesting, 0)
    BY <2>1 DEF FramesFit
  <2>3. j.frames[1] \in Frame
    BY <1>2, <2>1, ElementOfSeq
  <2>4. j.frames[1].kind = "array" <=> ~ At(nesting, 0)
    BY <2>2, <2>3 DEF Frame
  <2> QED
    BY <1>1, <1>2, <1>3, <1>5, <2>4 DEF RecordDepth, OutermostIsArray, Empty, Wrappers
<1> QED
  BY <1>4, <1>5

\* The containers from the record down.
LEMMA BelowIs ==
  ASSUME NEW f \in Seq(Frame), NEW r, r = Wrappers(f)
  PROVE  /\ r \in {0, 1} /\ r <= Len(f)
         /\ Len(J!Below(f)) = Len(f) - r
         /\ \A i \in 1 .. Len(f) - r : J!Below(f)[i] = f[r + i]
<1>1. Len(f) \in Nat /\ (f # <<>> <=> Len(f) # 0)
  BY LenProperties, EmptySeq
<1>2. CASE r = 1
  <2>1. f # <<>> /\ J!Below(f) = Tail(f)
    BY <1>2 DEF J!Below, Wrappers
  <2>2. Len(Tail(f)) = Len(f) - 1 /\ \A i \in 1 .. Len(f) - 1 : Tail(f)[i] = f[i + 1]
    BY <2>1, HeadTailProperties
  <2>3. \A i \in 1 .. Len(f) - r : i \in 1 .. Len(f) - 1 /\ r + i = i + 1
    BY <1>1, <1>2
  <2>4. \A i \in 1 .. Len(f) - r : J!Below(f)[i] = f[r + i]
    BY <2>1, <2>2, <2>3
  <2>5. Len(J!Below(f)) = Len(f) - 1 /\ r <= Len(f)
    BY <1>1, <1>2, <2>1, <2>2
  <2> QED
    BY <1>2, <2>4, <2>5
<1>3. CASE r # 1
  BY <1>1, <1>3 DEF J!Below, Wrappers
<1> QED
  BY <1>2, <1>3

\* What the frames spell is spelled once.
LEMMA SpellsOnce ==
  ASSUME NEW f \in Seq(Frame), NEW p \in Seq(Seq(Octet)), NEW r, NEW k,
         r = Wrappers(f), Spells(f, p, r, k)
  PROVE  J!Spelled(f, p) = k
<1> DEFINE below == J!Below(f)
           fits(m) == /\ m <= Len(below) /\ m <= Len(p)
                      /\ \A i \in 1 .. m : below[i].kind = "object" /\ below[i].key = p[i]
<1>1. Len(f) \in Nat /\ Len(p) \in Nat /\ r \in {0, 1} /\ r <= Len(f)
      /\ Len(below) = Len(f) - r /\ \A i \in 1 .. Len(f) - r : below[i] = f[r + i]
  BY LenProperties, BelowIs
<1>2. J!Spelled(f, p) = CHOOSE m \in 0 .. Len(p) : fits(m) /\ ~ fits(m + 1)
  BY DEF J!Spelled
<1> HIDE DEF below
<1>3. k \in 0 .. Len(p) /\ fits(k)
  <2>1. k \in 0 .. Len(p) /\ r + k <= Len(f) /\ \A i \in 1 .. k : Named(f[r + i], p[i])
    BY DEF Spells
  <2>2. ASSUME NEW i \in 1 .. k PROVE Named(below[i], p[i])
    <3>1. i \in 1 .. Len(f) - r
      BY <1>1, <2>1
    <3> QED
      BY <1>1, <2>1, <3>1
  <2>3. k <= Len(below) /\ k <= Len(p)
    BY <1>1, <2>1
  <2> QED
    BY <2>1, <2>2, <2>3 DEF Named
<1>4. ~ fits(k + 1)
  <2> SUFFICES ASSUME fits(k + 1) PROVE FALSE
    OBVIOUS
  <2>1. k + 1 \in 1 .. k + 1 /\ k < Len(p) /\ r + k < Len(f) /\ k + 1 \in 1 .. Len(f) - r
    BY <1>1, <1>3
  <2>2. below[k + 1] = f[r + (k + 1)] /\ r + (k + 1) = r + k + 1
    BY <1>1, <1>3, <2>1
  <2>3. Named(below[k + 1], p[k + 1])
    BY <2>1 DEF Named
  <2> QED
    BY <2>1, <2>2, <2>3 DEF Spells
<1>5. ASSUME NEW m \in 0 .. Len(p), fits(m), ~ fits(m + 1)
      PROVE  m = k
  <2>1. ASSUME m < k PROVE FALSE
    <3>1. \A i \in 1 .. m + 1 : i \in 1 .. k
      BY <1>1, <1>3, <2>1
    <3>2. m + 1 <= Len(below) /\ m + 1 <= Len(p)
      BY <1>1, <1>3, <2>1
    <3> QED
      BY <1>3, <1>5, <3>1, <3>2
  <2>2. ASSUME k < m PROVE FALSE
    <3>1. \A i \in 1 .. k + 1 : i \in 1 .. m
      BY <1>1, <1>3, <2>2
    <3>2. k + 1 <= Len(below) /\ k + 1 <= Len(p)
      BY <1>1, <1>3, <1>5, <2>2
    <3> QED
      BY <1>4, <1>5, <3>1, <3>2
  <2> QED
    BY <1>1, <1>3, <2>1, <2>2
<1> HIDE DEF fits
<1> QED
  BY <1>2, <1>3, <1>4, <1>5

\* One container more: it has no key yet, and no segment is empty.
LEMMA SpellsOpen ==
  ASSUME NEW f \in Seq(Frame), NEW p \in Seq(Seq(Octet)), NEW r \in {0, 1}, NEW k,
         \A i \in 1 .. Len(p) : p[i] # <<>>,
         NEW kind \in {"object", "array"}, Spells(f, p, r, k)
  PROVE  /\ Append(f, [kind |-> kind, key |-> J!NoKey]) \in Seq(Frame)
         /\ Spells(Append(f, [kind |-> kind, key |-> J!NoKey]), p, r, k)
<1> DEFINE new == [kind |-> kind, key |-> J!NoKey]
           g == Append(f, new)
<1>1. Len(f) \in Nat /\ Len(p) \in Nat /\ new \in Frame /\ new.key = <<>>
  BY LenProperties DEF Frame, J!NoKey
<1> HIDE DEF new
<1>2. /\ g \in Seq(Frame) /\ Len(g) = Len(f) + 1 /\ g[Len(f) + 1] = new
      /\ \A i \in 1 .. Len(f) : g[i] = f[i]
  BY <1>1, AppendProperties
<1> HIDE DEF g
<1>3. k \in 0 .. Len(p) /\ r + k <= Len(f) /\ \A i \in 1 .. k : Named(f[r + i], p[i])
  BY DEF Spells
<1>4. ASSUME NEW i \in 1 .. k PROVE Named(g[r + i], p[i])
  <2>1. r + i \in 1 .. Len(f)
    BY <1>1, <1>3
  <2> QED
    BY <1>2, <1>3, <2>1
<1>5. ASSUME k < Len(p), r + k < Len(g) PROVE ~ Named(g[r + k + 1], p[k + 1])
  <2>1. CASE r + k < Len(f)
    <3>1. r + k + 1 \in 1 .. Len(f)
      BY <1>1, <1>3, <2>1
    <3> QED
      BY <1>2, <1>5, <2>1, <3>1 DEF Spells
  <2>2. CASE ~ (r + k < Len(f))
    <3>1. r + k + 1 = Len(f) + 1 /\ k + 1 \in 1 .. Len(p)
      BY <1>1, <1>2, <1>3, <1>5, <2>2
    <3> QED
      BY <1>1, <1>2, <3>1 DEF Named
  <2> QED
    BY <2>1, <2>2
<1>6. Spells(g, p, r, k)
  BY <1>1, <1>2, <1>3, <1>4, <1>5 DEF Spells
<1> QED
  BY <1>2, <1>6 DEF g, new

\* One container less.
LEMMA SpellsClose ==
  ASSUME NEW f \in Seq(Frame), NEW p \in Seq(Seq(Octet)), NEW r \in {0, 1}, NEW k,
         f # <<>>, r < Len(f), Spells(f, p, r, k)
  PROVE  /\ J!Front(f) \in Seq(Frame) /\ Len(J!Front(f)) = Len(f) - 1
         /\ \A i \in 1 .. Len(f) - 1 : J!Front(f)[i] = f[i]
         /\ Spells(J!Front(f), p, r, IF Len(f) - 1 < r + k THEN Len(f) - 1 - r ELSE k)
<1> DEFINE g == J!Front(f)
           m == IF Len(f) - 1 < r + k THEN Len(f) - 1 - r ELSE k
<1>1. Len(f) \in Nat /\ Len(p) \in Nat /\ Len(f) - 1 \in 0 .. Len(f)
  BY LenProperties, EmptySeq
<1>2. g \in Seq(Frame) /\ Len(g) = Len(f) - 1 /\ \A i \in 1 .. Len(f) - 1 : g[i] = f[i]
  BY <1>1, FirstOctets DEF J!Front
<1> HIDE DEF g
<1>3. k \in 0 .. Len(p) /\ r + k <= Len(f) /\ \A i \in 1 .. k : Named(f[r + i], p[i])
  BY DEF Spells
<1>4. m \in 0 .. k /\ r + m <= Len(g) /\ (m < k => r + m = Len(g))
  BY <1>1, <1>2, <1>3
<1> HIDE DEF m
<1>5. ASSUME NEW i \in 1 .. m PROVE Named(g[r + i], p[i])
  <2>1. r + i \in 1 .. Len(f) - 1 /\ i \in 1 .. k
    BY <1>1, <1>2, <1>3, <1>4
  <2> QED
    BY <1>2, <1>3, <2>1
<1>6. ASSUME m < Len(p), r + m < Len(g) PROVE ~ Named(g[r + m + 1], p[m + 1])
  <2>1. m = k /\ r + k < Len(f) /\ r + k + 1 \in 1 .. Len(f) - 1
    <3>1. k \in Nat /\ m \in 0 .. k /\ Len(g) = Len(f) - 1
      BY <1>2, <1>3, <1>4
    <3>2. m = k
      BY <1>4, <1>6, <3>1
    <3> QED
      BY <1>1, <1>6, <3>1, <3>2
  <2> QED
    BY <1>2, <1>6, <2>1 DEF Spells
<1>7. Spells(g, p, r, m)
  BY <1>1, <1>3, <1>4, <1>5, <1>6 DEF Spells
<1> QED
  BY <1>2, <1>7 DEF g, m

\* The last frame gets another key.
Rekeyed(f, key) == [f EXCEPT ![Len(f)].key = key]

\* It is a stack of as many frames, all but the last one's key as they were.
LEMMA RekeyedType ==
  ASSUME NEW f \in Seq(Frame), f # <<>>, NEW key \in Seq(Octet)
  PROVE  /\ Rekeyed(f, key) \in Seq(Frame) /\ Len(Rekeyed(f, key)) = Len(f)
         /\ \A i \in 1 .. Len(f) : Rekeyed(f, key)[i].kind = f[i].kind
         /\ \A i \in 1 .. Len(f) - 1 : Rekeyed(f, key)[i] = f[i]
         /\ Rekeyed(f, key)[Len(f)].key = key
<1>1. Len(f) \in Nat \ {0} /\ f \in [1 .. Len(f) -> Frame]
  BY LenProperties, EmptySeq
<1> DEFINE n == Len(f)
           last == [f[n] EXCEPT !.key = key]
           g == [i \in 1 .. n |-> IF i = n THEN last ELSE f[i]]
<1>2. n \in 1 .. n /\ f[n] \in Frame
  BY <1>1
<1>3. last \in Frame /\ last.kind = f[n].kind /\ last.key = key
  BY <1>2 DEF Frame
<1>4. Rekeyed(f, key) = g
  BY <1>1 DEF Rekeyed
<1> HIDE DEF last
<1>5. g \in Seq(Frame) /\ Len(g) = n
  <2>1. g \in [1 .. n -> Frame]
    BY <1>1, <1>3
  <2> HIDE DEF g
  <2> QED
    BY <1>1, <2>1, LenProperties, IsASeq
<1>6. /\ \A i \in 1 .. n : g[i].kind = f[i].kind
      /\ \A i \in 1 .. n - 1 : g[i] = f[i]
      /\ g[n].key = key
  <2> HIDE DEF last
  <2>1. \A i \in 1 .. n : g[i] = IF i = n THEN last ELSE f[i]
    OBVIOUS
  <2> HIDE DEF g
  <2>2. \A i \in 1 .. Len(f) - 1 : i \in 1 .. Len(f) /\ i # Len(f)
    <3>1. Len(f) \in Nat
      BY <1>1
    <3> QED
      BY <3>1
  <2> QED
    BY <1>2, <1>3, <2>1, <2>2
<1> HIDE DEF g
<1> QED
  BY <1>4, <1>5, <1>6

\* A key that is read: it may be the next segment.
LEMMA SpellsKey ==
  ASSUME NEW f \in Seq(Frame), NEW p \in Seq(Seq(Octet)), NEW r \in {0, 1}, NEW k,
         \A i \in 1 .. Len(p) : p[i] # <<>>,
         f # <<>>, r < Len(f), NEW key \in Seq(Octet),
         f[Len(f)].kind = "object", f[Len(f)].key = <<>>,
         Spells(f, p, r, k)
  PROVE  Spells(Rekeyed(f, key), p, r,
                IF k < Len(p) /\ Len(f) = r + k + 1 /\ key = p[k + 1] THEN k + 1 ELSE k)
<1> DEFINE g == Rekeyed(f, key)
           more == k < Len(p) /\ Len(f) = r + k + 1 /\ key = p[k + 1]
<1>1. Len(f) \in Nat /\ Len(p) \in Nat
  BY LenProperties
<1>2. /\ Len(g) = Len(f) /\ \A i \in 1 .. Len(f) : g[i].kind = f[i].kind
      /\ \A i \in 1 .. Len(f) - 1 : g[i] = f[i]
      /\ g[Len(f)].key = key
  BY RekeyedType
<1> HIDE DEF g
<1>3. k \in 0 .. Len(p) /\ r + k <= Len(f) /\ \A i \in 1 .. k : Named(f[r + i], p[i])
  BY DEF Spells
<1>4. r + k < Len(f)
  <2> SUFFICES ASSUME r + k = Len(f) PROVE FALSE
    BY <1>1, <1>3
  <2>1. k \in 1 .. k /\ k \in 1 .. Len(p) /\ r + k = Len(f)
    BY <1>1, <1>3
  <2> QED
    BY <1>3, <2>1 DEF Named
<1>5. ASSUME NEW i \in 1 .. k PROVE Named(g[r + i], p[i])
  <2>1. r + i \in 1 .. Len(f) - 1
    BY <1>1, <1>3, <1>4
  <2> QED
    BY <1>2, <1>3, <2>1
<1>6. CASE more
  <2>1. \A i \in 1 .. k + 1 : i \in 1 .. k \/ (i = k + 1 /\ r + i = Len(f))
    BY <1>1, <1>3, <1>6
  <2>2. Named(g[Len(f)], p[k + 1])
    <3>1. Len(f) \in 1 .. Len(f)
      BY <1>1, <1>3, <1>6
    <3> QED
      BY <1>2, <1>6, <3>1 DEF Named
  <2>3. \A i \in 1 .. k + 1 : Named(g[r + i], p[i])
    BY <1>5, <2>1, <2>2
  <2>4. k + 1 \in 0 .. Len(p) /\ r + (k + 1) <= Len(g) /\ ~ (r + (k + 1) < Len(g))
    BY <1>1, <1>2, <1>3, <1>6
  <2> QED
    BY <1>6, <2>3, <2>4 DEF Spells, g
<1>7. CASE ~ more
  <2>1. ASSUME k < Len(p), r + k < Len(g) PROVE ~ Named(g[r + k + 1], p[k + 1])
    <3>1. CASE r + k + 1 = Len(f)
      BY <1>2, <1>7, <2>1, <3>1 DEF Named
    <3>2. CASE r + k + 1 # Len(f)
      <4>1. r + k + 1 \in 1 .. Len(f) - 1
        BY <1>1, <1>3, <1>4, <3>2
      <4> QED
        BY <1>2, <1>4, <2>1, <4>1 DEF Spells
    <3> QED
      BY <3>1, <3>2
  <2> QED
    BY <1>2, <1>3, <1>5, <1>7, <2>1 DEF Spells, g
<1> QED
  BY <1>6, <1>7

\* A comma in an object: its key is past.
LEMMA SpellsComma ==
  ASSUME NEW f \in Seq(Frame), NEW p \in Seq(Seq(Octet)), NEW r \in {0, 1}, NEW k,
         \A i \in 1 .. Len(p) : p[i] # <<>>,
         f # <<>>, Spells(f, p, r, k)
  PROVE  Spells(Rekeyed(f, <<>>), p, r, IF k > 0 /\ Len(f) = r + k THEN k - 1 ELSE k)
<1> DEFINE g == Rekeyed(f, <<>>)
           less == k > 0 /\ Len(f) = r + k
<1>1. Len(f) \in Nat /\ Len(p) \in Nat /\ <<>> \in Seq(Octet)
  BY LenProperties, EmptySeq
<1>2. /\ Len(g) = Len(f)
      /\ \A i \in 1 .. Len(f) - 1 : g[i] = f[i]
      /\ g[Len(f)].key = <<>>
  BY <1>1, RekeyedType
<1> HIDE DEF g
<1>3. k \in 0 .. Len(p) /\ r + k <= Len(f) /\ \A i \in 1 .. k : Named(f[r + i], p[i])
  BY DEF Spells
<1> DEFINE m == IF less THEN k - 1 ELSE k
<1>4. m \in 0 .. k /\ r + m <= Len(f) /\ (m > 0 => r + m < Len(f))
      /\ (less => r + m + 1 = Len(f)) /\ (~ less => m = k)
  BY <1>1, <1>3
<1> HIDE DEF m, less
<1>5. ASSUME NEW i \in 1 .. m PROVE Named(g[r + i], p[i])
  <2>1. i \in 1 .. k /\ i <= m /\ m \in Nat /\ m > 0
    BY <1>3, <1>4
  <2>2. r + m < Len(f)
    BY <1>4, <2>1
  <2>3. r + i \in 1 .. Len(f) - 1
    BY <1>1, <2>1, <2>2
  <2> QED
    BY <1>2, <1>3, <2>1, <2>3
<1>6. ASSUME m < Len(p), r + m < Len(g) PROVE ~ Named(g[r + m + 1], p[m + 1])
  <2>1. m + 1 \in 1 .. Len(p)
    BY <1>1, <1>3, <1>4, <1>6
  <2>2. CASE r + m + 1 = Len(f)
    BY <1>2, <2>1, <2>2 DEF Named
  <2>3. CASE r + m + 1 # Len(f)
    <3>1. m = k /\ r + k < Len(f) /\ r + k + 1 \in 1 .. Len(f) - 1
      BY <1>1, <1>2, <1>3, <1>4, <1>6, <2>3
    <3> QED
      BY <1>2, <1>6, <3>1 DEF Spells
  <2> QED
    BY <2>2, <2>3
<1>7. Spells(g, p, r, m)
  BY <1>1, <1>2, <1>3, <1>4, <1>5, <1>6 DEF Spells
<1> QED
  BY <1>7 DEF g, m, less

-----------------------------------------------------------------------------
(* Where the walk should be, and what an octet of a value does *)

\* A value that may start is picked where the walk is at a value.
LEMMA PickedIsAtValue ==
  ASSUME TypeOK, NEW j \in Readers, FramesFit(j), MatchFits(j), PlaceFits(j),
         ~ Inside(j), J!MayStartValue(j)
  PROVE  J!Picked(j.frames, path) <=> AtValue
<1>1. /\ nesting.depth \in Nat /\ Len(j.frames) = nesting.depth
      /\ RecordDepth(nesting) = Wrappers(j.frames)
  BY WrapDepth
<1>2. path \in Seq(Seq(Octet)) /\ j.frames \in Seq(Frame)
  BY Numbers, ReaderFields
<1>3. Spells(j.frames, path, RecordDepth(nesting), segments_matched)
  BY DEF MatchFits
<1>4. J!Picked(j.frames, path) <=>
        nesting.depth = RecordDepth(nesting) + Len(path) /\ segments_matched = Len(path)
  <2> PICK f, r, k, p : f = j.frames /\ r = RecordDepth(nesting)
                        /\ k = segments_matched /\ p = path
    OBVIOUS
  <2>1. f \in Seq(Frame) /\ p \in Seq(Seq(Octet)) /\ r = Wrappers(f) /\ Spells(f, p, r, k)
    BY <1>1, <1>2, <1>3
  <2>2. J!Spelled(f, p) = k
    BY <2>1, SpellsOnce, Zenon
  <2>3. Len(J!Below(f)) = Len(f) - r /\ r \in {0, 1}
    BY <2>1, BelowIs, Zenon
  <2>4. Len(f) \in Nat /\ Len(p) \in Nat
    BY <2>1, LenProperties
  <2>5. J!Picked(f, p) <=> Len(f) = r + Len(p) /\ k = Len(p)
    BY <2>2, <2>3, <2>4 DEF J!Picked
  <2> QED
    BY <1>1, <2>5
<1>5. ~ KeyComesNext
  BY DEF PlaceFits, J!MayStartValue, J!MayStartKey
<1> QED
  BY <1>4, <1>5 DEF AtValue

\* More text of which a segment did not start with less.
LEMMA StartsWithLess ==
  ASSUME NEW s \in Seq(Octet), NEW u \in Seq(Octet), NEW o \in Octet,
         StartsWith(s, Append(u, o))
  PROVE  StartsWith(s, u)
<1>1. /\ Len(u) \in Nat /\ Len(Append(u, o)) = Len(u) + 1
      /\ \A i \in 1 .. Len(u) : Append(u, o)[i] = u[i]
  BY LenProperties, AppendProperties
<1>2. Len(s) \in Nat
  BY LenProperties
<1> QED
  BY <1>1, <1>2 DEF StartsWith

\* A path's segments are texts, and none is empty.
LEMMA Segments ==
  ASSUME TypeOK
  PROVE  /\ \A i \in 1 .. Len(path) : path[i] \in Seq(Octet) /\ path[i] # <<>>
         /\ segments_matched < Len(path) => path[segments_matched + 1] \in Seq(Octet)
<1>1. path \in Paths /\ path \in Seq(Seq(Octet)) /\ segments_matched \in Nat /\ Len(path) \in Nat
  BY Numbers DEF TypeOK
<1>2. \A i \in 1 .. Len(path) : path[i] \in Seq(Octet) /\ path[i] # <<>>
  BY <1>1, PathsAssumption, ElementOfSeq
<1>3. segments_matched < Len(path) => segments_matched + 1 \in 1 .. Len(path)
  BY <1>1
<1> QED
  BY <1>2, <1>3

\* What is put out of an octet of an open value, and of one that is dropped.
Dropped(p) == p \in {"BETWEEN", "SKIP_STRING", "KEY"}

Due(j, p, o) == IF Dropped(p) THEN j.due ELSE Append(j.due, o)

\* An octet in a string that is picked, skipped or in a picked container.
LEMMA ContentFits ==
  ASSUME TypeOK, NEW j \in Readers, NEW o \in Octet, NEW e,
         NEW p \in {"STRING", "SKIP_STRING", "CONTAINER"},
         Fits(j, p, e), Inside(j)
  PROVE  /\ Fits(J!ReadContent(j, o), p, e)
         /\ J!ReadContent(j, o).due = Due(j, p, o)
<1> DEFINE k == J!ReadContent(j, o)
<1>1. /\ k \in Readers /\ k.frames = j.frames /\ k.expect = j.expect /\ k.lex = j.lex
      /\ k.text = IF j.lex = "key" THEN Append(j.text, o) ELSE j.text
      /\ k.picking = j.picking /\ k.base = j.base /\ k.begun = j.begun
      /\ k.due = J!Copied(j, o) /\ k.verdict = j.verdict
  BY ContentReads
<1> HIDE DEF k
<1>2. k.due = Due(j, p, o)
  BY <1>1 DEF J!Copied, Fits, PickFits, Due, Dropped
<1>3. k.verdict = "OK" /\ k.begun = e /\ FramesFit(k) /\ MatchFits(k)
  BY <1>1 DEF Fits, FramesFit, MatchFits
<1>4. PlaceFits(k)
  BY <1>1 DEF Fits, PlaceFits, Inside, J!MayStartKey, J!TopKind, J!Last
<1>5. PickFits(k, p)
  <2>1. CASE p # "SKIP_STRING"
    BY <1>1, <2>1 DEF Fits, PickFits
  <2>2. CASE p = "SKIP_STRING"
    <3>1. ASSUME j.lex = "key", segments_matched < Len(path),
                 nesting.depth = RecordDepth(nesting) + segments_matched + 1
          PROVE  ~ StartsWith(path[segments_matched + 1], k.text)
      <4>1. path[segments_matched + 1] \in Seq(Octet) /\ j.text \in Seq(Octet)
        BY <3>1, Segments, ReaderFields
      <4>2. ~ StartsWith(path[segments_matched + 1], j.text)
        BY <2>2, <3>1 DEF Fits, PickFits
      <4>3. k.text = Append(j.text, o)
        BY <1>1, <3>1
      <4> QED
        BY <4>1, <4>2, <4>3, StartsWithLess
    <3> QED
      BY <1>1, <2>2, <3>1 DEF Fits, PickFits
  <2> QED
    BY <2>1, <2>2
<1> QED
  BY <1>2, <1>3, <1>4, <1>5 DEF Fits, k

Spread == {"BETWEEN", "SCALAR", "CONTAINER"}

\* A blank outside strings ends a bare scalar.
LEMMA BlankFits ==
  ASSUME TypeOK, NEW j \in Readers, NEW o \in Octet, NEW e, NEW p \in Spread,
         Fits(j, p, e), ~ Inside(j)
  PROVE  LET q == IF p = "SCALAR" THEN "BETWEEN" ELSE p
         IN /\ Fits(J!ReadBlank(j, o), q, e)
            /\ J!ReadBlank(j, o).lex = "none"
            /\ J!ReadBlank(j, o).due = Due(j, q, o)
<1> DEFINE q == IF p = "SCALAR" THEN "BETWEEN" ELSE p
           l == J!EndScalar(j)
           k == J!ReadBlank(j, o)
<1>1. /\ l \in Readers /\ l.frames = j.frames /\ l.expect = j.expect
      /\ l.text = j.text /\ l.base = j.base /\ l.begun = j.begun /\ l.due = j.due
      /\ l.verdict = j.verdict
      /\ l.lex = IF j.lex = "scalar" THEN "none" ELSE j.lex
      /\ l.picking = IF j.lex = "scalar" /\ j.picking = "scalar" THEN "none" ELSE j.picking
  BY EndScalarReads
<1>2. k \in Readers /\ k = [l EXCEPT !.due = J!Copied(l, o)]
  BY BlankReads
<1> HIDE DEF k, l
<1>3. /\ k.frames = l.frames /\ k.expect = l.expect /\ k.lex = l.lex /\ k.text = l.text
      /\ k.base = l.base /\ k.begun = l.begun /\ k.verdict = l.verdict
      /\ k.picking = l.picking /\ k.due = J!Copied(l, o)
  BY <1>1, <1>2 DEF Readers
<1>4. j.lex \in {"none", "scalar"} /\ (p # "CONTAINER" => l.picking = "none")
      /\ (p = "CONTAINER" => l.picking = "container")
  BY <1>1, ReaderFields DEF Fits, PickFits, Inside, Spread
<1>5. k.due = Due(j, q, o)
  BY <1>1, <1>3, <1>4 DEF J!Copied, Due, Dropped, Spread
<1>6. k.verdict = "OK" /\ k.begun = e /\ FramesFit(k) /\ MatchFits(k)
  BY <1>1, <1>3 DEF Fits, FramesFit, MatchFits
<1>7. PlaceFits(k)
  BY <1>1, <1>3, <1>4 DEF Fits, PlaceFits, Inside, J!MayStartKey, J!TopKind, J!Last
<1>8. PickFits(k, q)
  BY <1>1, <1>3, <1>4 DEF Fits, PickFits, Spread
<1>9. k.lex = "none"
  BY <1>1, <1>3, <1>4
<1> QED
  BY <1>5, <1>6, <1>7, <1>8, <1>9 DEF Fits, k

\* A letter of a bare scalar that is open.
LEMMA LetterOfScalarFits ==
  ASSUME TypeOK, NEW j \in Readers, NEW o \in Octet, NEW e, NEW p \in Spread,
         Fits(j, p, e), j.lex = "scalar"
  PROVE  /\ Fits(J!ReadLetter(j, o, path, Separator), p, e)
         /\ J!ReadLetter(j, o, path, Separator).due = Due(j, p, o)
         /\ J!ReadLetter(j, o, path, Separator).lex = "scalar"
<1> DEFINE k == J!ReadLetter(j, o, path, Separator)
<1>1. k = [j EXCEPT !.due = J!Copied(j, o)] /\ k \in Readers
  BY LetterGoesOn
<1> HIDE DEF k
<1>2. /\ k.frames = j.frames /\ k.expect = j.expect /\ k.lex = j.lex /\ k.text = j.text
      /\ k.base = j.base /\ k.begun = j.begun /\ k.verdict = j.verdict
      /\ k.picking = j.picking /\ k.due = J!Copied(j, o)
  BY <1>1 DEF Readers
<1>3. k.due = Due(j, p, o)
  BY <1>2 DEF J!Copied, Due, Dropped, Spread, Fits, PickFits
<1>4. k.verdict = "OK" /\ k.begun = e /\ FramesFit(k) /\ MatchFits(k)
  BY <1>2 DEF Fits, FramesFit, MatchFits
<1>5. PlaceFits(k)
  BY <1>2 DEF Fits, PlaceFits, Inside, J!MayStartKey, J!TopKind, J!Last
<1>6. PickFits(k, p)
  BY <1>2 DEF Fits, PickFits, Spread
<1> QED
  BY <1>2, <1>3, <1>4, <1>5, <1>6 DEF Fits, k

\* A letter that starts a bare scalar: the walk picks it at a value.
LEMMA FirstLetterFits ==
  ASSUME TypeOK, NEW j \in Readers, NEW o \in Octet, NEW e, NEW p \in Spread,
         Fits(j, p, e), j.lex = "none", J!MayStartValue(j)
  PROVE  LET k == J!ReadLetter(j, o, path, Separator)
         IN /\ k.lex = "scalar"
            /\ p = "BETWEEN" /\ AtValue => Fits(k, "SCALAR", TRUE) /\ k.due = FirstDue(j, o)
            /\ p # "BETWEEN" \/ ~ AtValue => Fits(k, p, e) /\ k.due = Due(j, p, o)
<1> DEFINE k == J!ReadLetter(j, o, path, Separator)
<1>1. Begun(k, j, o, path, "scalar") /\ k.expect = J!AfterValue(j.frames) /\ k.lex = "scalar"
  BY LetterBegins
<1> HIDE DEF k
<1>2. FramesFit(j) /\ MatchFits(j) /\ PlaceFits(j) /\ PickFits(j, p)
      /\ j.verdict = "OK" /\ j.begun = e /\ ~ Inside(j)
  BY DEF Fits, Inside
<1>3. Picks(j, path) <=> j.picking = "none" /\ AtValue
  BY <1>2, PickedIsAtValue DEF Picks
<1>4. p # "SCALAR" /\ (p = "BETWEEN" => j.picking = "none")
      /\ (p = "CONTAINER" => j.picking = "container" /\ j.base = ValueDepth)
  BY <1>2 DEF PickFits
<1>5. k.verdict = "OK" /\ FramesFit(k) /\ MatchFits(k)
  BY <1>1, <1>2 DEF Begun, FramesFit, MatchFits
<1>6. PlaceFits(k)
  <2>1. ~ Inside(k) /\ ~ J!MayStartKey(k) /\ ~ J!MayStartKey(j) /\ k.text = j.text
    BY <1>1 DEF Begun, Inside, J!MayStartKey, J!MayStartValue, J!AfterValue
  <2> QED
    BY <1>1, <1>2, <2>1 DEF PlaceFits, J!AfterValue
<1>7. CASE p = "BETWEEN" /\ AtValue
  <2>1. Fits(k, "SCALAR", TRUE)
    BY <1>1, <1>3, <1>4, <1>5, <1>6, <1>7 DEF Fits, PickFits, Begun
  <2> QED
    BY <1>1, <1>3, <1>4, <1>7, <2>1 DEF Begun, k
<1>8. CASE p # "BETWEEN" \/ ~ AtValue
  <2>1. ~ Picks(j, path) /\ p \in {"BETWEEN", "CONTAINER"} /\ (p = "BETWEEN" => ~ AtValue)
    BY <1>3, <1>4, <1>8 DEF Spread
  <2>2. k.picking = j.picking /\ k.base = j.base /\ k.begun = j.begun
        /\ k.due = J!Copied(j, o)
    BY <1>1, <2>1 DEF Begun
  <2>3. Fits(k, p, e)
    BY <1>1, <1>2, <1>4, <1>5, <1>6, <2>1, <2>2 DEF Fits, PickFits
  <2>4. k.due = Due(j, p, o)
    BY <1>4, <2>1, <2>2 DEF J!Copied, Due, Dropped
  <2> QED
    BY <1>1, <1>8, <2>3, <2>4 DEF k
<1> QED
  BY <1>7, <1>8

-----------------------------------------------------------------------------
(* Readers that differ in what was put out *)

\* Two readers that differ in what the token put out at most.
SameText(a, b) ==
  /\ a.frames = b.frames /\ a.expect = b.expect /\ a.lex = b.lex /\ a.text = b.text
  /\ a.picking = b.picking /\ a.base = b.base /\ a.begun = b.begun
  /\ a.verdict = b.verdict

\* They go on as such.
LEMMA SameTextGoesOn ==
  ASSUME NEW a \in Readers, NEW b \in Readers, SameText(a, b), NEW o \in Octet
  PROVE  /\ SameText(ReadOctet(a, o), ReadOctet(b, o))
         /\ LegalOctet(a, o) <=> LegalOctet(b, o)
<1>1. Inside(a) <=> Inside(b)
  BY DEF Inside, SameText
<1>2. LegalOctet(a, o) <=> LegalOctet(b, o)
  <2>1. J!MayStartValue(a) <=> J!MayStartValue(b)
    BY DEF SameText, J!MayStartValue, J!TopKind, J!Last
  <2> QED
    BY <1>1, <2>1 DEF LegalOctet, AllowsOctet, Inside, SameText
<1>3. CASE Inside(a)
  <2>1. SameText(J!ReadContent(a, o), J!ReadContent(b, o))
    BY ContentReads DEF SameText
  <2> QED
    BY <1>1, <1>2, <1>3, <2>1 DEF ReadOctet, ReadOctetFor
<1>4. CASE ~ Inside(a) /\ o \in Blank
  <2> DEFINE k == J!EndScalar(a)
             l == J!EndScalar(b)
  <2>1. SameText(k, l) /\ k \in Readers /\ l \in Readers
    BY EndScalarReads DEF SameText
  <2>2. /\ J!ReadBlank(a, o) = [k EXCEPT !.due = J!Copied(k, o)]
        /\ J!ReadBlank(b, o) = [l EXCEPT !.due = J!Copied(l, o)]
    BY BlankReads
  <2> HIDE DEF k, l
  <2>3. SameText(J!ReadBlank(a, o), J!ReadBlank(b, o))
    BY <2>1, <2>2 DEF SameText, Readers
  <2> QED
    BY <1>1, <1>2, <1>4, <2>3 DEF ReadOctet, ReadOctetFor
<1>5. CASE ~ Inside(a) /\ o \notin Blank
  <2> DEFINE k == J!ReadLetter(a, o, path, Separator)
             l == J!ReadLetter(b, o, path, Separator)
  <2>1. SameText(k, l)
    <3>1. CASE a.lex = "scalar"
      <4>1. k = [a EXCEPT !.due = J!Copied(a, o)] /\ l = [b EXCEPT !.due = J!Copied(b, o)]
        BY <3>1, LetterGoesOn DEF SameText
      <4> HIDE DEF k, l
      <4> QED
        BY <4>1 DEF SameText, Readers
    <3>2. CASE a.lex # "scalar"
      <4>1. /\ Begun(k, a, o, path, "scalar") /\ k.expect = J!AfterValue(a.frames)
            /\ k.lex = "scalar"
        BY <3>2, LetterBegins
      <4>2. /\ Begun(l, b, o, path, "scalar") /\ l.expect = J!AfterValue(b.frames)
            /\ l.lex = "scalar"
        BY <3>2, LetterBegins DEF SameText
      <4>3. Picks(a, path) <=> Picks(b, path)
        BY DEF Picks, SameText
      <4> HIDE DEF k, l
      <4> QED
        BY <4>1, <4>2, <4>3 DEF SameText, Begun
    <3> QED
      BY <3>1, <3>2
  <2> QED
    BY <1>1, <1>2, <1>5, <2>1 DEF ReadOctet, ReadOctetFor
<1> QED
  BY <1>3, <1>4, <1>5

\* A text that the grammar allows after j.
LegalFrom(j, s) == \A n \in 1 .. Len(s) : LegalOctet(ReadBytes(j, s, n - 1), s[n])

\* What was put out before a text has no part in whether it is allowed.
LEMMA LegalAside ==
  ASSUME NEW a \in Readers, NEW b \in Readers, SameText(a, b), NEW s \in Seq(Octet),
         LegalFrom(a, s)
  PROVE  LegalFrom(b, s)
<1>1. Len(s) \in Nat /\ \A n \in 1 .. Len(s) : s[n] \in Octet
  BY LenProperties, ElementOfSeq
<1> DEFINE S == {n \in 0 .. Len(s) : SameText(ReadBytes(a, s, n), ReadBytes(b, s, n))}
<1>2. 0 \in S
  BY <1>1, ReadNext
<1>3. ASSUME NEW n \in 0 .. Len(s) - 1, n \in S PROVE n + 1 \in S
  <2>1. n \in 0 .. Len(s) /\ n + 1 \in 1 .. Len(s) /\ n + 1 \in 0 .. Len(s)
    BY <1>1
  <2>2. /\ ReadBytes(a, s, n + 1) = ReadOctet(ReadBytes(a, s, n), s[n + 1])
        /\ ReadBytes(b, s, n + 1) = ReadOctet(ReadBytes(b, s, n), s[n + 1])
        /\ ReadBytes(a, s, n) \in Readers /\ ReadBytes(b, s, n) \in Readers
    BY <2>1, ReadNext
  <2>3. SameText(ReadBytes(a, s, n + 1), ReadBytes(b, s, n + 1))
    BY <1>1, <1>3, <2>1, <2>2, SameTextGoesOn
  <2> QED
    BY <2>1, <2>3
<1>4. \A n \in 0 .. Len(s) : n \in S
  <2> HIDE DEF S
  <2> QED
    BY <1>1, <1>2, <1>3, UpTo
<1>5. ASSUME NEW n \in 1 .. Len(s) PROVE LegalOctet(ReadBytes(b, s, n - 1), s[n])
  <2>1. n - 1 \in 0 .. Len(s)
    BY <1>1
  <2>2. /\ ReadBytes(a, s, n - 1) \in Readers /\ ReadBytes(b, s, n - 1) \in Readers
        /\ SameText(ReadBytes(a, s, n - 1), ReadBytes(b, s, n - 1))
        /\ LegalOctet(ReadBytes(a, s, n - 1), s[n])
    BY <1>4, <2>1, ReadNext DEF LegalFrom
  <2> QED
    BY <1>1, <2>2, SameTextGoesOn
<1> QED
  BY <1>5 DEF LegalFrom

\* A text can be read in two parts.
LEMMA ReadAfter ==
  ASSUME NEW j \in Readers, NEW s \in Seq(Octet), NEW n \in 0 .. Len(s)
  PROVE  \A m \in 0 .. Len(s) - n :
           ReadBytes(ReadBytes(j, s, n), After(s, n), m) = ReadBytes(j, s, n + m)
<1> DEFINE u == After(s, n)
           k == ReadBytes(j, s, n)
           S == {m \in 0 .. Len(s) - n : ReadBytes(k, u, m) = ReadBytes(j, s, n + m)}
<1>1. Len(s) \in Nat /\ n \in Nat /\ Len(s) - n \in Nat
  BY LenProperties
<1>2. u \in Seq(Octet) /\ Len(u) = Len(s) - n /\ \A i \in 1 .. Len(s) - n : u[i] = s[n + i]
  BY AfterType
<1>3. k \in Readers
  BY ReadNext
<1> HIDE DEF u
<1>4. 0 \in S
  <2>1. ReadBytes(k, u, 0) = k /\ n + 0 = n /\ 0 \in 0 .. Len(s) - n
    BY <1>1, <1>2, <1>3, ReadNext
  <2> QED
    BY <2>1
<1>5. ASSUME NEW m \in 0 .. Len(s) - n - 1, m \in S PROVE m + 1 \in S
  <2>1. /\ m + 1 \in 0 .. Len(s) - n /\ m + 1 \in 1 .. Len(s) - n
        /\ m \in 0 .. Len(u) - 1 /\ n + m \in 0 .. Len(s) - 1
        /\ n + (m + 1) = (n + m) + 1
    BY <1>1, <1>2
  <2>2. ReadBytes(k, u, m + 1) = ReadOctet(ReadBytes(k, u, m), u[m + 1])
    <3> HIDE DEF k
    <3> QED
      BY <1>2, <1>3, <2>1, ReadNext
  <2>3. ReadBytes(j, s, (n + m) + 1) = ReadOctet(ReadBytes(j, s, n + m), s[(n + m) + 1])
    BY <2>1, ReadNext
  <2>4. u[m + 1] = s[(n + m) + 1] /\ ReadBytes(k, u, m) = ReadBytes(j, s, n + m)
    BY <1>2, <1>5, <2>1
  <2> QED
    BY <2>1, <2>2, <2>3, <2>4
<1>6. \A m \in 0 .. Len(s) - n : m \in S
  <2> HIDE DEF S
  <2> QED
    BY <1>1, <1>4, <1>5, UpTo
<1> QED
  BY <1>6 DEF u

\* And is then allowed in two parts.
LEMMA LegalAfter ==
  ASSUME NEW j \in Readers, NEW s \in Seq(Octet), NEW n \in 0 .. Len(s), LegalFrom(j, s)
  PROVE  /\ LegalFrom(ReadBytes(j, s, n), After(s, n))
         /\ ReadBytes(ReadBytes(j, s, n), After(s, n), Len(After(s, n))) =
              ReadBytes(j, s, Len(s))
<1>1. Len(s) \in Nat /\ n \in Nat /\ Len(s) - n \in 0 .. Len(s) - n /\ n + (Len(s) - n) = Len(s)
  BY LenProperties
<1>2. /\ After(s, n) \in Seq(Octet) /\ Len(After(s, n)) = Len(s) - n
      /\ \A i \in 1 .. Len(s) - n : After(s, n)[i] = s[n + i]
  BY AfterType
<1>3. ASSUME NEW m \in 1 .. Len(s) - n
      PROVE  LegalOctet(ReadBytes(ReadBytes(j, s, n), After(s, n), m - 1), After(s, n)[m])
  <2>1. m - 1 \in 0 .. Len(s) - n /\ n + m \in 1 .. Len(s) /\ n + (m - 1) = (n + m) - 1
    BY <1>1
  <2>2. ReadBytes(ReadBytes(j, s, n), After(s, n), m - 1) = ReadBytes(j, s, (n + m) - 1)
    BY <2>1, ReadAfter
  <2>3. After(s, n)[m] = s[n + m]
    BY <1>2
  <2> QED
    BY <2>1, <2>2, <2>3 DEF LegalFrom
<1>4. ReadBytes(ReadBytes(j, s, n), After(s, n), Len(s) - n) = ReadBytes(j, s, Len(s))
  BY <1>1, ReadAfter
<1> QED
  BY <1>2, <1>3, <1>4 DEF LegalFrom

\* One octet more of what is put out.
LEMMA PartGrows ==
  ASSUME NEW d \in Seq(Piece), NEW s \in Seq(Piece), NEW n \in 0 .. Len(s) - 1
  PROVE  /\ d \o SubSeq(s, 1, n + 1) = Append(d \o SubSeq(s, 1, n), s[n + 1])
         /\ d \o SubSeq(s, 1, 0) = d
<1>1. Len(s) \in Nat /\ Len(d) \in Nat /\ n \in 0 .. Len(s) /\ n + 1 \in 0 .. Len(s)
      /\ n + 1 \in 1 .. Len(s)
  BY LenProperties
<1>2. /\ SubSeq(s, 1, n) \in Seq(Piece) /\ Len(SubSeq(s, 1, n)) = n
      /\ \A i \in 1 .. n : SubSeq(s, 1, n)[i] = s[i]
  BY <1>1, FirstOctets
<1>3. /\ SubSeq(s, 1, n + 1) \in Seq(Piece) /\ Len(SubSeq(s, 1, n + 1)) = n + 1
      /\ \A i \in 1 .. n + 1 : SubSeq(s, 1, n + 1)[i] = s[i]
  BY <1>1, FirstOctets
<1>4. s[n + 1] \in Piece
  BY <1>1, ElementOfSeq
<1>5. SubSeq(s, 1, n + 1) = Append(SubSeq(s, 1, n), s[n + 1])
  <2> DEFINE u == SubSeq(s, 1, n)
             v == SubSeq(s, 1, n + 1)
  <2>1. /\ Append(u, s[n + 1]) \in Seq(Piece) /\ Len(Append(u, s[n + 1])) = n + 1
        /\ \A i \in 1 .. n : Append(u, s[n + 1])[i] = u[i]
        /\ Append(u, s[n + 1])[n + 1] = s[n + 1]
    BY <1>2, <1>4, AppendProperties
  <2> HIDE DEF u, v
  <2>2. \A i \in 1 .. n + 1 : v[i] = Append(u, s[n + 1])[i]
    <3> SUFFICES ASSUME NEW i \in 1 .. n + 1 PROVE v[i] = Append(u, s[n + 1])[i]
      OBVIOUS
    <3>1. CASE i = n + 1
      BY <1>3, <2>1, <3>1 DEF u, v
    <3>2. CASE i # n + 1
      <4>1. i \in 1 .. n
        BY <1>1, <3>2
      <4> QED
        BY <1>2, <1>3, <2>1, <4>1 DEF u, v
    <3> QED
      BY <3>1, <3>2
  <2> QED
    BY <1>3, <2>1, <2>2, SeqEqual DEF u, v
<1>6. SubSeq(s, 1, 0) = <<>>
  BY <1>1, FirstOctets, EmptySeq
<1> DEFINE u == SubSeq(s, 1, n)
<1>7. d \o Append(u, s[n + 1]) = Append(d \o u, s[n + 1])
  <2> HIDE DEF u
  <2> QED
    BY <1>2, <1>4, AppendIsConcat, ConcatAssociative, ConcatProperties DEF u
<1> QED
  BY <1>5, <1>6, <1>7, ConcatEmptySeq

-----------------------------------------------------------------------------
(* The octets of a BYTES token *)

\* An octet of a token that the walk takes as a whole, but a key's.
LEMMA OctetFits ==
  ASSUME TypeOK, NEW j \in Readers, NEW o \in Octet, NEW e,
         NEW p \in {"STRING", "SKIP_STRING", "CONTAINER"},
         Fits(j, p, e), LegalOctet(j, o)
  PROVE  Fits(ReadOctet(j, o), p, e) /\ ReadOctet(j, o).due = Due(j, p, o)
<1>1. CASE Inside(j)
  BY <1>1, ContentFits DEF ReadOctet, ReadOctetFor
<1>2. CASE ~ Inside(j)
  <2>1. p = "CONTAINER" /\ p \in Spread /\ p # "SCALAR"
    BY <1>2 DEF Fits, PickFits, Inside, Spread
  <2>2. j.lex \in {"none", "scalar"}
    BY <1>2, ReaderFields DEF Inside
  <2>3. CASE o \in Blank
    <3>1. Fits(J!ReadBlank(j, o), p, e) /\ J!ReadBlank(j, o).due = Due(j, p, o)
      BY <1>2, <2>1, BlankFits
    <3> QED
      BY <1>2, <2>3, <3>1 DEF ReadOctet, ReadOctetFor
  <2>4. CASE o \notin Blank
    <3>1. ReadOctet(j, o) = J!ReadLetter(j, o, path, Separator)
      BY <1>2, <2>4 DEF ReadOctet, ReadOctetFor
    <3>2. CASE j.lex = "scalar"
      BY <2>1, <3>1, <3>2, LetterOfScalarFits
    <3>3. CASE j.lex # "scalar"
      <4>1. j.lex = "none" /\ J!MayStartValue(j)
        BY <1>2, <2>2, <2>4, <3>3 DEF LegalOctet, AllowsOctet, Inside
      <4>2. Fits(J!ReadLetter(j, o, path, Separator), p, e)
            /\ J!ReadLetter(j, o, path, Separator).due = Due(j, p, o)
        BY <2>1, <4>1, FirstLetterFits
      <4> QED
        BY <3>1, <4>2
    <3> QED
      BY <3>2, <3>3
  <2> QED
    BY <2>3, <2>4
<1> QED
  BY <1>1, <1>2

\* Such a token.
LEMMA BytesFit ==
  ASSUME TypeOK, NEW j \in Readers, NEW s \in Seq(Octet), NEW e,
         NEW p \in {"STRING", "SKIP_STRING", "CONTAINER"},
         Fits(j, p, e), LegalFrom(j, s)
  PROVE  /\ Fits(ReadBytes(j, s, Len(s)), p, e)
         /\ ReadBytes(j, s, Len(s)).due = IF p = "SKIP_STRING" THEN j.due ELSE j.due \o s
<1> DEFINE Out(n) == IF p = "SKIP_STRING" THEN j.due ELSE j.due \o SubSeq(s, 1, n)
           S == {n \in 0 .. Len(s) : /\ Fits(ReadBytes(j, s, n), p, e)
                                     /\ ReadBytes(j, s, n).due = Out(n)}
<1>1. /\ Len(s) \in Nat /\ j.due \in Seq(Piece) /\ s \in Seq(Piece)
      /\ \A n \in 1 .. Len(s) : s[n] \in Octet
  BY LenProperties, ReaderFields, ElementOfSeq, SeqMonotonic DEF Piece
<1>2. 0 \in S
  <2>1. ReadBytes(j, s, 0) = j /\ 0 \in 0 .. Len(s)
    BY <1>1, ReadNext
  <2>2. j.due \o SubSeq(s, 1, 0) = j.due
    <3>1. SubSeq(s, 1, 0) = <<>>
      BY <1>1, FirstOctets, EmptySeq
    <3> QED
      BY <1>1, <3>1, ConcatEmptySeq
  <2> QED
    BY <2>1, <2>2
<1>3. ASSUME NEW n \in 0 .. Len(s) - 1, n \in S PROVE n + 1 \in S
  <2>1. n \in 0 .. Len(s) /\ n + 1 \in 1 .. Len(s) /\ n + 1 \in 0 .. Len(s) /\ (n + 1) - 1 = n
    BY <1>1
  <2> DEFINE k == ReadBytes(j, s, n)
  <2>2. ReadBytes(j, s, n + 1) = ReadOctet(k, s[n + 1]) /\ k \in Readers
    BY <2>1, ReadNext
  <2>3. LegalOctet(k, s[n + 1]) /\ s[n + 1] \in Octet
    BY <1>1, <2>1 DEF LegalFrom
  <2>4. Fits(k, p, e) /\ k.due = Out(n)
    BY <1>3
  <2> HIDE DEF k, S, Out
  <2>5. Fits(ReadOctet(k, s[n + 1]), p, e) /\ ReadOctet(k, s[n + 1]).due = Due(k, p, s[n + 1])
    BY <2>2, <2>3, <2>4, OctetFits
  <2>6. Due(k, p, s[n + 1]) = Out(n + 1)
    <3> PICK u : u = j.due
      OBVIOUS
    <3>1. u \in Seq(Piece) /\ s \in Seq(Piece) /\ n \in 0 .. Len(s) - 1
      BY <1>1
    <3>2. u \o SubSeq(s, 1, n + 1) = Append(u \o SubSeq(s, 1, n), s[n + 1])
      BY <3>1, PartGrows
    <3> QED
      BY <2>4, <3>2 DEF Due, Dropped, Out
  <2> QED
    BY <2>1, <2>2, <2>5, <2>6 DEF S
<1>4. \A n \in 0 .. Len(s) : n \in S
  <2> HIDE DEF S
  <2> QED
    BY <1>1, <1>2, <1>3, UpTo
<1>5. SubSeq(s, 1, Len(s)) = s
  BY SubSeqFull
<1>6. Len(s) \in S
  BY <1>1, <1>4
<1> QED
  BY <1>5, <1>6

\* A token of a key adds to its text.
LEMMA KeyReads ==
  ASSUME NEW j \in Readers, NEW s \in Seq(Octet), j.lex = "key", j.picking = "none"
  PROVE  ReadBytes(j, s, Len(s)) = [j EXCEPT !.text = j.text \o s]
<1> DEFINE Text(n) == [j EXCEPT !.text = j.text \o SubSeq(s, 1, n)]
           S == {n \in 0 .. Len(s) : ReadBytes(j, s, n) = Text(n)}
<1>1. /\ Len(s) \in Nat /\ j.text \in Seq(Octet)
      /\ \A n \in 1 .. Len(s) : s[n] \in Octet
  BY LenProperties, ReaderFields, ElementOfSeq
<1>2. 0 \in S
  <2>1. ReadBytes(j, s, 0) = j /\ 0 \in 0 .. Len(s)
    BY <1>1, ReadNext
  <2>2. j.text \o SubSeq(s, 1, 0) = j.text
    <3>1. SubSeq(s, 1, 0) = <<>>
      BY <1>1, FirstOctets, EmptySeq
    <3> QED
      BY <1>1, <3>1, ConcatEmptySeq
  <2>3. [j EXCEPT !.text = j.text] = j
    BY DEF Readers
  <2> QED
    BY <2>1, <2>2, <2>3
<1>3. ASSUME NEW n \in 0 .. Len(s) - 1, n \in S PROVE n + 1 \in S
  <2>1. n \in 0 .. Len(s) /\ n + 1 \in 1 .. Len(s) /\ n + 1 \in 0 .. Len(s) /\ (n + 1) - 1 = n
    BY <1>1
  <2> DEFINE k == ReadBytes(j, s, n)
             d == j.text \o SubSeq(s, 1, n)
  <2>2. ReadBytes(j, s, n + 1) = ReadOctet(k, s[n + 1]) /\ k \in Readers
    BY <2>1, ReadNext
  <2>3. k = [j EXCEPT !.text = d]
    BY <1>3
  <2>4. j.text \o SubSeq(s, 1, n + 1) = Append(d, s[n + 1])
    <3> PICK u : u = j.text
      OBVIOUS
    <3>1. u \in Seq(Piece) /\ s \in Seq(Piece) /\ n \in 0 .. Len(s) - 1
      BY <1>1, SeqMonotonic DEF Piece
    <3>2. u \o SubSeq(s, 1, n + 1) = Append(u \o SubSeq(s, 1, n), s[n + 1])
      BY <3>1, PartGrows
    <3> QED
      BY <3>2
  <2> HIDE DEF k, S, d
  <2>5. k.lex = "key" /\ k.picking = "none" /\ k.text = d /\ k.due = j.due
    BY <2>3 DEF Readers
  <2>6. ReadOctet(k, s[n + 1]) = J!ReadContent(k, s[n + 1])
    BY <2>5 DEF ReadOctet, ReadOctetFor, Inside
  <2>7. J!ReadContent(k, s[n + 1]) = [k EXCEPT !.text = Append(d, s[n + 1]), !.due = k.due]
    BY <2>5 DEF J!ReadContent, J!Copied
  <2>8. [k EXCEPT !.text = Append(d, s[n + 1]), !.due = k.due] =
          [j EXCEPT !.text = Append(d, s[n + 1])]
    BY <2>3, <2>5 DEF Readers
  <2> QED
    BY <2>1, <2>2, <2>4, <2>6, <2>7, <2>8 DEF S
<1>4. \A n \in 0 .. Len(s) : n \in S
  <2> HIDE DEF S
  <2> QED
    BY <1>1, <1>2, <1>3, UpTo
<1>5. SubSeq(s, 1, Len(s)) = s
  BY SubSeqFull
<1> QED
  BY <1>1, <1>4, <1>5

\* Blanks between values.
LEMMA BlanksFit ==
  ASSUME TypeOK, NEW j \in Readers, NEW s \in Seq(Octet), NEW e,
         NEW p \in {"BETWEEN", "SCALAR"}, NEW n \in 0 .. Len(s),
         Fits(j, p, e), \A i \in 1 .. n : s[i] \in Blank
  PROVE  /\ Fits(ReadBytes(j, s, n), IF n = 0 THEN p ELSE "BETWEEN", e)
         /\ n > 0 => ReadBytes(j, s, n).lex = "none"
         /\ ReadBytes(j, s, n).due = j.due
<1> DEFINE P(m) == IF m = 0 THEN p ELSE "BETWEEN"
           S == {m \in 0 .. n : /\ Fits(ReadBytes(j, s, m), P(m), e)
                                /\ m > 0 => ReadBytes(j, s, m).lex = "none"
                                /\ ReadBytes(j, s, m).due = j.due}
<1>1. Len(s) \in Nat /\ n \in Nat /\ \A m \in 1 .. Len(s) : s[m] \in Octet
  BY LenProperties, ElementOfSeq
<1>2. 0 \in S
  <2>1. ReadBytes(j, s, 0) = j /\ 0 \in 0 .. n
    BY <1>1, ReadNext
  <2> QED
    BY <2>1
<1>3. ASSUME NEW m \in 0 .. n - 1, m \in S PROVE m + 1 \in S
  <2>1. /\ m \in 0 .. Len(s) - 1 /\ m \in 0 .. Len(s) /\ m + 1 \in 1 .. n /\ m + 1 \in 1 .. Len(s)
        /\ m + 1 \in 0 .. n /\ m + 1 # 0
    BY <1>1
  <2> DEFINE k == ReadBytes(j, s, m)
             o == s[m + 1]
  <2>2. ReadBytes(j, s, m + 1) = ReadOctet(k, o) /\ k \in Readers
    BY <2>1, ReadNext
  <2>3. o \in Blank /\ o \in Octet
    BY <1>1, <2>1
  <2>4. Fits(k, P(m), e) /\ k.due = j.due /\ P(m) \in {"BETWEEN", "SCALAR"} /\ P(m) \in Spread
    BY <1>3 DEF Spread
  <2>5. P(m + 1) = "BETWEEN"
    BY <2>1
  <2> HIDE DEF k, o, S, P
  <2>6. ~ Inside(k)
    BY <2>4 DEF Fits, PickFits, Inside
  <2>7. Fits(J!ReadBlank(k, o), "BETWEEN", e) /\ J!ReadBlank(k, o).lex = "none"
        /\ J!ReadBlank(k, o).due = Due(k, "BETWEEN", o)
    <3> PICK q : q = P(m)
      OBVIOUS
    <3>1. q \in Spread /\ Fits(k, q, e) /\ q \in {"BETWEEN", "SCALAR"}
      BY <2>4
    <3>2. (IF q = "SCALAR" THEN "BETWEEN" ELSE q) = "BETWEEN"
      BY <3>1
    <3> QED
      BY <2>2, <2>3, <2>6, <3>1, <3>2, BlankFits
  <2>8. ReadOctet(k, o) = J!ReadBlank(k, o)
    BY <2>3, <2>6 DEF ReadOctet, ReadOctetFor
  <2> QED
    BY <2>1, <2>2, <2>4, <2>5, <2>7, <2>8 DEF S, Due, Dropped
<1>4. n \in S
  <2> HIDE DEF S
  <2>1. \A m \in 0 .. n : m \in S
    BY <1>1, <1>2, <1>3, UpTo
  <2> QED
    BY <1>1, <2>1
<1> QED
  BY <1>4

\* What goes out before the octets of a bare scalar.
Lead(e) == IF e THEN <<Separator>> ELSE <<>>

\* One pass over letters, from the phase and the place where it starts.
Begins(p) == p = "BETWEEN" /\ AtValue

PhaseAfter(p) == IF Begins(p) THEN "SCALAR" ELSE p

LettersDue(j, p, e, octets) ==
  IF PhaseAfter(p) = "BETWEEN" THEN j.due
  ELSE (j.due \o (IF Begins(p) THEN Lead(e) ELSE <<>>)) \o octets

\* What the first letter of a bare scalar does to a reader that fits the walk
\* between values, or a letter more to one that fits it in a scalar.
LEMMA FirstOfLetters ==
  ASSUME TypeOK, NEW j \in Readers, NEW o \in Octet, NEW e \in BOOLEAN,
         NEW p \in {"BETWEEN", "SCALAR"},
         Fits(j, p, e), LegalOctet(j, o), o \in Letter
  PROVE  /\ Fits(ReadOctet(j, o), PhaseAfter(p), Begins(p) \/ e)
         /\ ReadOctet(j, o).lex = "scalar"
         /\ ReadOctet(j, o).due = LettersDue(j, p, e, <<o>>)
<1> DEFINE k == J!ReadLetter(j, o, path, Separator)
<1>1. ~ Inside(j) /\ j.lex \in {"none", "scalar"} /\ p \in Spread /\ j.begun = e
      /\ (p = "BETWEEN" /\ j.lex = "scalar" => ~ AtValue) /\ (p = "SCALAR" => j.lex = "scalar")
  BY DEF Fits, PickFits, Inside, Spread
<1>2. o \notin Blank /\ ReadOctet(j, o) = k
  <2>1. o \notin Blank
    BY OctetAssumption
  <2> QED
    BY <1>1, <2>1 DEF ReadOctet, ReadOctetFor
<1>3. /\ j.due \in Seq(Piece) /\ <<o>> \in Seq(Piece) /\ Lead(e) \in Seq(Piece)
      /\ <<>> \in Seq(Piece) /\ Append(j.due, o) = j.due \o <<o>>
  <2>1. o \in Piece /\ Separator \in Piece
    BY DEF Piece
  <2>2. <<o>> \in Seq(Piece) /\ <<Separator>> \in Seq(Piece) /\ <<>> \in Seq(Piece)
    BY <2>1
  <2>3. j.due \in Seq(Piece)
    BY ReaderFields
  <2> QED
    BY <2>1, <2>2, <2>3, AppendIsConcat DEF Lead
<1> HIDE DEF k
<1>4. CASE j.lex = "scalar"
  <2>1. Fits(k, p, e) /\ k.due = Due(j, p, o) /\ k.lex = "scalar"
    BY <1>1, <1>4, LetterOfScalarFits DEF k
  <2>2. ~ Begins(p) /\ PhaseAfter(p) = p
    BY <1>1, <1>4 DEF Begins, PhaseAfter
  <2>3. Due(j, p, o) = LettersDue(j, p, e, <<o>>)
    <3>1. j.due \o <<>> = j.due
      BY <1>3, ConcatEmptySeq
    <3> QED
      BY <1>3, <2>2, <3>1 DEF Due, Dropped, LettersDue
  <2>4. (Begins(p) \/ e) = e
    BY <2>2
  <2> QED
    BY <1>2, <2>1, <2>2, <2>3, <2>4
<1>5. CASE j.lex = "none"
  <2>1. p = "BETWEEN" /\ J!MayStartValue(j)
    BY <1>1, <1>2, <1>5 DEF LegalOctet, AllowsOctet, Inside
  <2>2. /\ k.lex = "scalar"
        /\ p = "BETWEEN" /\ AtValue => Fits(k, "SCALAR", TRUE) /\ k.due = FirstDue(j, o)
        /\ p # "BETWEEN" \/ ~ AtValue => Fits(k, p, e) /\ k.due = Due(j, p, o)
    BY <1>1, <1>5, <2>1, FirstLetterFits DEF k
  <2>3. CASE AtValue
    <3>1. Begins(p) /\ PhaseAfter(p) = "SCALAR" /\ (Begins(p) \/ e) = TRUE
      BY <2>1, <2>3 DEF Begins, PhaseAfter
    <3>2. FirstDue(j, o) = LettersDue(j, p, e, <<o>>)
      BY <1>1, <3>1 DEF FirstDue, LettersDue, Lead
    <3> QED
      BY <1>2, <2>1, <2>2, <2>3, <3>1, <3>2
  <2>4. CASE ~ AtValue
    <3>1. ~ Begins(p) /\ PhaseAfter(p) = p /\ (Begins(p) \/ e) = e
      BY <2>1, <2>4 DEF Begins, PhaseAfter
    <3>2. Due(j, p, o) = LettersDue(j, p, e, <<o>>)
      BY <2>1, <3>1 DEF Due, Dropped, LettersDue
    <3> QED
      BY <1>2, <2>2, <2>4, <3>1, <3>2
  <2> QED
    BY <2>3, <2>4
<1> QED
  BY <1>1, <1>4, <1>5

\* And what any number of letters does.
LEMMA LettersFit ==
  ASSUME TypeOK, NEW j \in Readers, NEW s \in Seq(Octet), NEW e \in BOOLEAN,
         NEW p \in {"BETWEEN", "SCALAR"}, NEW n \in 1 .. Len(s),
         Fits(j, p, e), LegalFrom(j, s), \A i \in 1 .. n : s[i] \in Letter
  PROVE  /\ Fits(ReadBytes(j, s, n), PhaseAfter(p), Begins(p) \/ e)
         /\ ReadBytes(j, s, n).lex = "scalar"
         /\ ReadBytes(j, s, n).due = LettersDue(j, p, e, SubSeq(s, 1, n))
<1> DEFINE q == PhaseAfter(p)
           f == Begins(p) \/ e
           Good(m) == /\ Fits(ReadBytes(j, s, m), q, f)
                      /\ ReadBytes(j, s, m).lex = "scalar"
                      /\ ReadBytes(j, s, m).due = LettersDue(j, p, e, SubSeq(s, 1, m))
           S == {m \in 0 .. n - 1 : Good(m + 1)}
<1>1. /\ Len(s) \in Nat /\ n \in Nat /\ n - 1 \in Nat /\ n > 0
      /\ \A m \in 1 .. Len(s) : s[m] \in Octet
  BY LenProperties, ElementOfSeq
<1>2. q \in {"BETWEEN", "SCALAR"} /\ q \in Spread
  BY DEF PhaseAfter, Spread
<1>3. s \in Seq(Piece) /\ j.due \in Seq(Piece) /\ Lead(e) \in Seq(Piece) /\ <<>> \in Seq(Piece)
  <2>1. Separator \in Piece
    BY DEF Piece
  <2>2. <<Separator>> \in Seq(Piece) /\ <<>> \in Seq(Piece)
    BY <2>1
  <2>3. s \in Seq(Piece) /\ j.due \in Seq(Piece)
    BY SeqMonotonic, ReaderFields DEF Piece
  <2> QED
    BY <2>2, <2>3 DEF Lead
<1>4. Good(1)
  <2> DEFINE o == s[1]
  <2>1. 1 \in 1 .. n /\ 1 \in 1 .. Len(s) /\ 0 \in 0 .. Len(s) - 1 /\ 1 - 1 = 0 /\ 0 + 1 = 1
    BY <1>1
  <2>2. ReadBytes(j, s, 0) = j /\ ReadBytes(j, s, 0 + 1) = ReadOctet(ReadBytes(j, s, 0), s[0 + 1])
    BY <2>1, ReadNext
  <2>3. ReadBytes(j, s, 1) = ReadOctet(j, o)
    BY <2>1, <2>2
  <2>4. LegalOctet(j, o) /\ o \in Letter /\ o \in Octet
    BY <1>1, <2>1, <2>2 DEF LegalFrom
  <2>5. SubSeq(s, 1, 1) = <<o>>
    <3>1. /\ SubSeq(s, 1, 1) \in Seq(Octet) /\ Len(SubSeq(s, 1, 1)) = 1
          /\ SubSeq(s, 1, 1)[1] = o
      BY <1>1, <2>1, FirstOctets
    <3> DEFINE u == SubSeq(s, 1, 1)
    <3> HIDE DEF u, o
    <3>2. u \in Seq(Octet) /\ Len(u) = 1 /\ u[1] = o
      BY <3>1 DEF u
    <3>3. u = <<o>>
      BY <3>2
    <3> QED
      BY <3>3 DEF u
  <2> HIDE DEF o
  <2>6. /\ Fits(ReadOctet(j, o), q, f) /\ ReadOctet(j, o).lex = "scalar"
        /\ ReadOctet(j, o).due = LettersDue(j, p, e, <<o>>)
    BY <2>4, FirstOfLetters
  <2> QED
    BY <2>3, <2>5, <2>6
<1>5. 0 \in S
  <2> HIDE DEF Good
  <2> QED
    BY <1>1, <1>4
<1>6. ASSUME NEW m \in 0 .. n - 1 - 1, m \in S PROVE m + 1 \in S
  <2>1. /\ m + 1 \in 0 .. Len(s) - 1 /\ m + 1 \in 0 .. Len(s) /\ (m + 1) + 1 \in 1 .. n
        /\ (m + 1) + 1 \in 1 .. Len(s) /\ m + 1 \in 0 .. n - 1
    BY <1>1
  <2> DEFINE l == m + 1
             k == ReadBytes(j, s, l)
             o == s[l + 1]
             u == SubSeq(s, 1, l)
             d == j.due \o (IF Begins(p) THEN Lead(e) ELSE <<>>)
  <2>2. ReadBytes(j, s, l + 1) = ReadOctet(k, o) /\ k \in Readers
    BY <2>1, ReadNext
  <2>3. o \in Letter /\ o \in Octet /\ o \notin Blank
    BY <1>1, <2>1, OctetAssumption
  <2>4. Fits(k, q, f) /\ k.lex = "scalar" /\ k.due = LettersDue(j, p, e, u)
    BY <1>6
  <2>5. d \in Seq(Piece)
    BY <1>3, ConcatProperties
  <2>6. d \o SubSeq(s, 1, l + 1) = Append(d \o u, o)
    <3> HIDE DEF d
    <3> QED
      BY <1>3, <2>1, <2>5, PartGrows
  <2>7. LettersDue(j, p, e, u) = IF q = "BETWEEN" THEN j.due ELSE d \o u
    BY DEF LettersDue
  <2>8. LettersDue(j, p, e, SubSeq(s, 1, l + 1)) =
          IF q = "BETWEEN" THEN j.due ELSE d \o SubSeq(s, 1, l + 1)
    BY DEF LettersDue
  <2> HIDE DEF l, k, o, u, d, q, f, S
  <2>9. ReadOctet(k, o) = J!ReadLetter(k, o, path, Separator)
    BY <2>3, <2>4 DEF ReadOctet, ReadOctetFor, Inside
  <2>10. Fits(ReadOctet(k, o), q, f) /\ ReadOctet(k, o).lex = "scalar"
         /\ ReadOctet(k, o).due = Due(k, q, o)
    BY <1>2, <2>2, <2>3, <2>4, <2>9, LetterOfScalarFits
  <2>11. Due(k, q, o) = LettersDue(j, p, e, SubSeq(s, 1, l + 1))
    BY <1>2, <2>4, <2>6, <2>7, <2>8 DEF Due, Dropped
  <2>12. Good(l + 1)
    BY <2>2, <2>10, <2>11
  <2> HIDE DEF Good
  <2> QED
    BY <2>1, <2>12 DEF S, l
<1>7. n - 1 \in S
  <2> HIDE DEF S
  <2>1. \A m \in 0 .. n - 1 : m \in S
    BY <1>1, <1>5, <1>6, UpTo
  <2> QED
    BY <1>1, <2>1
<1>8. (n - 1) + 1 = n
  BY <1>1
<1> HIDE DEF Good
<1>9. Good(n)
  BY <1>7, <1>8
<1> QED
  BY <1>9 DEF Good

-----------------------------------------------------------------------------
(* What was put out only grows *)

\* Pieces in whatever grouping.
LEMMA PiecesAssociate ==
  ASSUME NEW a \in Seq(Piece), NEW b \in Seq(Piece), NEW c \in Seq(Piece)
  PROVE  (a \o b) \o c = a \o (b \o c)
<1>1. Associate(Piece)
  BY AllAssociate, Zenon
<1> QED
  BY <1>1 DEF Associate

\* Where the pieces of a and of b stand in a \o b.
LEMMA PiecesJoin ==
  ASSUME NEW a \in Seq(Piece), NEW b \in Seq(Piece)
  PROVE  /\ a \o b \in Seq(Piece) /\ Len(a \o b) = Len(a) + Len(b)
         /\ \A i \in 1 .. Len(a) : (a \o b)[i] = a[i]
         /\ \A i \in Len(a) + 1 .. Len(a) + Len(b) : (a \o b)[i] = b[i - Len(a)]
BY ConcatOctets

\* What an octet puts out comes after what was put out before.
LEMMA OctetDueGrows ==
  ASSUME NEW j \in Readers, NEW o \in Octet
  PROVE  \E m \in Seq(Piece) : ReadOctet(j, o).due = j.due \o m
<1>1. /\ o \in Piece /\ <<o>> \in Seq(Piece) /\ <<>> \in Seq(Piece) /\ j.due \in Seq(Piece)
      /\ <<Separator>> \in Seq(Piece)
  <2>1. o \in Piece /\ Separator \in Piece
    BY DEF Piece
  <2> QED
    BY <2>1, ReaderFields
<1>2. \A k \in Readers : k.due = j.due =>
        \E m \in Seq(Piece) : J!Copied(k, o) = j.due \o m
  <2> SUFFICES ASSUME NEW k \in Readers, k.due = j.due
               PROVE  \E m \in Seq(Piece) : J!Copied(k, o) = j.due \o m
    OBVIOUS
  <2>1. j.due \o <<>> = j.due /\ Append(j.due, o) = j.due \o <<o>>
    BY <1>1, ConcatEmptySeq, AppendIsConcat
  <2> QED
    BY <1>1, <2>1 DEF J!Copied
<1>3. \E m \in Seq(Piece) : FirstDue(j, o) = j.due \o m
  <2> DEFINE lead == IF j.begun THEN <<Separator>> ELSE <<>>
  <2>1. lead \in Seq(Piece)
    BY <1>1
  <2>2. FirstDue(j, o) = (j.due \o lead) \o <<o>>
    BY DEF FirstDue
  <2> HIDE DEF lead
  <2>3. lead \o <<o>> \in Seq(Piece) /\ (j.due \o lead) \o <<o>> = j.due \o (lead \o <<o>>)
    <3>1. PICK u, v, w : u = j.due /\ v = lead /\ w = <<o>>
      OBVIOUS
    <3>2. u \in Seq(Piece) /\ v \in Seq(Piece) /\ w \in Seq(Piece)
      BY <1>1, <2>1, <3>1
    <3>3. v \o w \in Seq(Piece)
      BY <3>2, PiecesJoin, Zenon
    <3>4. (u \o v) \o w = u \o (v \o w)
      <4>1. Associate(Piece)
        BY AllAssociate, Zenon
      <4> QED
        BY <3>2, <4>1 DEF Associate
    <3> QED
      BY <3>1, <3>3, <3>4
  <2> QED
    BY <2>2, <2>3
<1>4. CASE Inside(j)
  <2>1. ReadOctet(j, o).due = J!Copied(j, o)
    BY <1>4, ContentReads DEF ReadOctet, ReadOctetFor
  <2> QED
    BY <1>2, <2>1
<1>5. CASE ~ Inside(j) /\ o \in Blank
  <2> DEFINE k == J!EndScalar(j)
  <2>1. k \in Readers /\ k.due = j.due
    BY EndScalarReads
  <2>2. J!ReadBlank(j, o) = [k EXCEPT !.due = J!Copied(k, o)]
    BY BlankReads
  <2> HIDE DEF k
  <2>3. J!ReadBlank(j, o).due = J!Copied(k, o)
    BY <2>1, <2>2 DEF Readers
  <2> QED
    BY <1>2, <1>5, <2>1, <2>3 DEF ReadOctet, ReadOctetFor
<1>6. CASE ~ Inside(j) /\ o \notin Blank
  <2> DEFINE k == J!ReadLetter(j, o, path, Separator)
  <2>1. k.due = J!Copied(j, o) \/ k.due = FirstDue(j, o)
    <3>1. CASE j.lex = "scalar"
      <4>1. k = [j EXCEPT !.due = J!Copied(j, o)]
        BY <3>1, LetterGoesOn
      <4> HIDE DEF k
      <4> QED
        BY <4>1 DEF Readers
    <3>2. CASE j.lex # "scalar"
      <4>1. Begun(k, j, o, path, "scalar")
        BY <3>2, LetterBegins
      <4> HIDE DEF k
      <4> QED
        BY <4>1 DEF Begun
    <3> QED
      BY <3>1, <3>2
  <2> QED
    BY <1>2, <1>3, <1>6, <2>1 DEF ReadOctet, ReadOctetFor
<1> QED
  BY <1>4, <1>5, <1>6

\* And so does what a text puts out.
LEMMA DueGrows ==
  ASSUME NEW j \in Readers, NEW s \in Seq(Octet), NEW n \in 0 .. Len(s)
  PROVE  \E m \in Seq(Piece) : ReadBytes(j, s, n).due = j.due \o m
<1> DEFINE Good(i) == \E m \in Seq(Piece) : ReadBytes(j, s, i).due = j.due \o m
           S == {i \in 0 .. Len(s) : Good(i)}
<1>1. Len(s) \in Nat /\ j.due \in Seq(Piece) /\ \A m \in 1 .. Len(s) : s[m] \in Octet
  BY LenProperties, ElementOfSeq, ReaderFields
<1>2. 0 \in S
  <2>1. ReadBytes(j, s, 0) = j /\ 0 \in 0 .. Len(s) /\ j.due \o <<>> = j.due
        /\ <<>> \in Seq(Piece)
    BY <1>1, ReadNext, ConcatEmptySeq, EmptySeq
  <2> QED
    BY <2>1
<1>3. ASSUME NEW i \in 0 .. Len(s) - 1, i \in S PROVE i + 1 \in S
  <2>1. i + 1 \in 1 .. Len(s) /\ i + 1 \in 0 .. Len(s) /\ i \in 0 .. Len(s)
    BY <1>1
  <2> DEFINE k == ReadBytes(j, s, i)
  <2>2. ReadBytes(j, s, i + 1) = ReadOctet(k, s[i + 1]) /\ k \in Readers
    BY <2>1, ReadNext
  <2>3. PICK m \in Seq(Piece) : k.due = j.due \o m
    BY <1>3
  <2> HIDE DEF k
  <2>4. PICK l \in Seq(Piece) : ReadOctet(k, s[i + 1]).due = k.due \o l
    BY <1>1, <2>1, <2>2, OctetDueGrows
  <2>5. (j.due \o m) \o l = j.due \o (m \o l) /\ m \o l \in Seq(Piece)
    <3> PICK u : u = j.due
      OBVIOUS
    <3>1. u \in Seq(Piece) /\ m \in Seq(Piece) /\ l \in Seq(Piece)
      BY <1>1
    <3>2. m \o l \in Seq(Piece)
      BY <3>1, PiecesJoin, Zenon
    <3>3. (u \o m) \o l = u \o (m \o l)
      BY <3>1, PiecesAssociate, Zenon
    <3> QED
      BY <3>2, <3>3
  <2>6. Good(i + 1)
    BY <2>2, <2>3, <2>4, <2>5
  <2> HIDE DEF Good
  <2> QED
    BY <2>1, <2>6
<1>4. n \in S
  <2> HIDE DEF S
  <2> QED
    BY <1>1, <1>2, <1>3, UpTo
<1> QED
  BY <1>4

\* A write that failed put out a part of what was due, and not all of it.
LEMMA FailedPart ==
  ASSUME NEW b \in Seq(Piece), NEW s \in Seq(Piece), NEW m \in Seq(Piece),
         NEW k \in 0 .. Len(s) - 1
  PROVE  J!IsStrictPrefix(b \o SubSeq(s, 1, k), (b \o s) \o m)
<1> DEFINE u == SubSeq(s, 1, k)
           t == b \o u
           v == (b \o s) \o m
<1>1. Len(b) \in Nat /\ Len(s) \in Nat /\ Len(m) \in Nat /\ k \in 0 .. Len(s)
  BY LenProperties
<1>2. u \in Seq(Piece) /\ Len(u) = k /\ \A i \in 1 .. k : u[i] = s[i]
  BY <1>1, FirstOctets
<1> HIDE DEF u
<1>3. /\ t \in Seq(Piece) /\ Len(t) = Len(b) + k
      /\ \A i \in 1 .. Len(b) : t[i] = b[i]
      /\ \A i \in Len(b) + 1 .. Len(b) + k : t[i] = u[i - Len(b)]
  <2>1. b \in Seq(Piece) /\ u \in Seq(Piece) /\ Len(u) = k
    BY <1>2
  <2>2. /\ b \o u \in Seq(Piece) /\ Len(b \o u) = Len(b) + Len(u)
        /\ \A i \in 1 .. Len(b) : (b \o u)[i] = b[i]
        /\ \A i \in Len(b) + 1 .. Len(b) + Len(u) : (b \o u)[i] = u[i - Len(b)]
    BY <2>1, PiecesJoin, Zenon
  <2> QED
    BY <2>1, <2>2
<1>4. /\ b \o s \in Seq(Piece) /\ Len(b \o s) = Len(b) + Len(s)
      /\ \A i \in 1 .. Len(b) : (b \o s)[i] = b[i]
      /\ \A i \in Len(b) + 1 .. Len(b) + Len(s) : (b \o s)[i] = s[i - Len(b)]
  BY <1>1, ConcatOctets
<1>5. /\ v \in Seq(Piece) /\ Len(v) = Len(b) + Len(s) + Len(m)
      /\ \A i \in 1 .. Len(b) + Len(s) : v[i] = (b \o s)[i]
  <2> DEFINE w == b \o s
  <2>1. w \in Seq(Piece) /\ Len(w) = Len(b) + Len(s)
    BY <1>4
  <2> HIDE DEF w
  <2>2. /\ w \o m \in Seq(Piece) /\ Len(w \o m) = Len(w) + Len(m)
        /\ \A i \in 1 .. Len(w) : (w \o m)[i] = w[i]
    BY <2>1, PiecesJoin, Zenon
  <2> QED
    BY <2>1, <2>2 DEF w
<1> HIDE DEF t, v
<1>6. Len(t) < Len(v) /\ Len(t) \in 0 .. Len(v) /\ Len(t) \in 0 .. Len(t)
  BY <1>1, <1>3, <1>5
<1>7. \A i \in 1 .. Len(t) : t[i] = v[i]
  <2> SUFFICES ASSUME NEW i \in 1 .. Len(t) PROVE t[i] = v[i]
    OBVIOUS
  <2>1. i \in 1 .. Len(b) + k /\ i \in 1 .. Len(b) + Len(s)
    BY <1>1, <1>3
  <2>2. CASE i \in 1 .. Len(b)
    BY <1>3, <1>4, <1>5, <2>1, <2>2
  <2>3. CASE i \notin 1 .. Len(b)
    <3>1. /\ i \in Len(b) + 1 .. Len(b) + k /\ i \in Len(b) + 1 .. Len(b) + Len(s)
          /\ i - Len(b) \in 1 .. k
      BY <1>1, <2>1, <2>3
    <3>2. t[i] = u[i - Len(b)] /\ v[i] = (b \o s)[i] /\ (b \o s)[i] = s[i - Len(b)]
      BY <1>3, <1>4, <1>5, <2>1, <3>1
    <3> QED
      BY <1>2, <3>1, <3>2
  <2> QED
    BY <2>2, <2>3
<1>8. SubSeq(t, 1, Len(t)) = SubSeq(v, 1, Len(t))
  <2> DEFINE x == SubSeq(t, 1, Len(t))
             y == SubSeq(v, 1, Len(t))
  <2>1. x \in Seq(Piece) /\ Len(x) = Len(t) /\ \A i \in 1 .. Len(t) : x[i] = t[i]
    BY <1>3, <1>6, FirstOctets
  <2>2. y \in Seq(Piece) /\ Len(y) = Len(t) /\ \A i \in 1 .. Len(t) : y[i] = v[i]
    BY <1>5, <1>6, FirstOctets
  <2> HIDE DEF x, y
  <2>3. \A i \in 1 .. Len(x) : x[i] = y[i]
    BY <1>7, <2>1, <2>2
  <2> QED
    BY <2>1, <2>2, <2>3, SeqEqual DEF x, y
<1>9. t # v /\ Len(t) <= Len(v)
  BY <1>1, <1>3, <1>5, <1>6
<1> QED
  BY <1>8, <1>9 DEF J!IsStrictPrefix, J!IsPrefix, t, v, u

\* A write, of all that is due or the first of it.
LEMMA EmitDue ==
  ASSUME NEW b \in Seq(Piece), NEW s \in Seq(Piece), NEW m \in Seq(Piece), Emit(b, s)
  PROVE  /\ status' \in {"OK", "WRITE_FAILED"}
         /\ status' = "OK" => wrote' = b \o s
         /\ status' = "WRITE_FAILED" => J!IsStrictPrefix(wrote', (b \o s) \o m)
<1>1. CASE wrote' = b \o s /\ status' = "OK"
  BY <1>1
<1>2. CASE /\ status' = "WRITE_FAILED"
           /\ \E k \in 0 .. Len(s) - 1 : wrote' = b \o SubSeq(s, 1, k)
  BY <1>2, FailedPart
<1> QED
  BY <1>1, <1>2 DEF Emit

-----------------------------------------------------------------------------
(* Texts read octet by octet *)

\* A text is read one octet after the other.
ReadsOn ==
  \A j \in Readers : \A s \in Seq(Octet) :
    /\ ReadBytes(j, s, 0) = j
    /\ \A n \in 0 .. Len(s) : ReadBytes(j, s, n) \in Readers
    /\ \A n \in 0 .. Len(s) - 1 :
         ReadBytes(j, s, n + 1) = ReadOctet(ReadBytes(j, s, n), s[n + 1])

\* It is, before a step and after it.
LEMMA AlwaysReadsOn == ReadsOn /\ ReadsOn'
<1>1. ReadsOn
  BY ReadNext DEF ReadsOn
<1> QED
  BY <1>1, PTL

\* What a text reads as stays, with the path.
LEMMA ReadStays ==
  ASSUME path' = path, NEW j \in Readers, NEW s \in Seq(Octet)
  PROVE  /\ \A n \in 0 .. Len(s) : ReadBytes(j, s, n)' = ReadBytes(j, s, n)
         /\ LegalFrom(j, s) => LegalFrom(j, s)'
<1>1. Len(s) \in Nat
  BY LenProperties
<1>2. /\ ReadBytes(j, s, 0) = j
      /\ \A n \in 0 .. Len(s) - 1 :
           ReadBytes(j, s, n + 1) = ReadOctet(ReadBytes(j, s, n), s[n + 1])
  BY AlwaysReadsOn DEF ReadsOn
<1>3. /\ ReadBytes(j, s, 0)' = j
      /\ \A n \in 0 .. Len(s) - 1 :
           ReadBytes(j, s, n + 1)' = ReadOctet(ReadBytes(j, s, n), s[n + 1])'
  BY AlwaysReadsOn DEF ReadsOn
<1> DEFINE S == {n \in 0 .. Len(s) : ReadBytes(j, s, n)' = ReadBytes(j, s, n)}
<1>4. 0 \in S
  BY <1>1, <1>2, <1>3
<1>5. ASSUME NEW n \in 0 .. Len(s) - 1, n \in S PROVE n + 1 \in S
  <2>1. ReadBytes(j, s, n)' = ReadBytes(j, s, n)
    BY <1>5
  <2>2. ReadOctet(ReadBytes(j, s, n), s[n + 1])' = ReadOctet(ReadBytes(j, s, n), s[n + 1])
    BY <2>1 DEF ReadOctet, ReadOctetFor
  <2> QED
    BY <1>1, <1>2, <1>3, <2>2
<1>6. \A n \in 0 .. Len(s) : n \in S
  <2> HIDE DEF S
  <2> QED
    BY <1>1, <1>4, <1>5, UpTo
<1>7. LegalFrom(j, s) => LegalFrom(j, s)'
  BY <1>1, <1>6 DEF LegalFrom
<1> QED
  BY <1>6, <1>7

-----------------------------------------------------------------------------
(* The invariant of the walk and the reader *)

\* What was put out before has no part in whether a reader fits the walk.
LEMMA FitsAside ==
  ASSUME NEW a \in Readers, NEW b \in Readers, SameText(a, b), NEW p, NEW e,
         Fits(a, p, e)
  PROVE  Fits(b, p, e)
BY DEF Fits, SameText, FramesFit, MatchFits, PlaceFits, PickFits, Inside,
       J!MayStartKey, J!TopKind, J!Last

\* A reader that fits the walk fits it while the walk stays.
LEMMA FitsKept ==
  ASSUME NEW j, NEW p, NEW e, Fits(j, p, e), path' = path, in_string' = in_string,
         nesting' = nesting, segments_matched' = segments_matched,
         last_structural' = last_structural,
         p = "KEY" => segment_text_left' = segment_text_left
  PROVE  Fits(j, p, e)'
BY DEF Fits, FramesFit, MatchFits, PlaceFits, PickFits, AtValue, ValueDepth,
       KeyComesNext

\* The reader after the push is one that fits the walk after it.
LEMMA FitsNext ==
  ASSUME NEW k, NEW p, NEW e, json' = k, phase' = p, emitted_any' = e,
         Fits(k, p, e)'
  PROVE  Fits(json, phase, emitted_any)'
BY DEF Fits, FramesFit, MatchFits, PlaceFits, PickFits, AtValue, ValueDepth,
       KeyComesNext

\* j is the reader at the octet where the walk stands: what is left of the token
\* leads from it to the reader of all of the text.
Behind(j) ==
  /\ j \in Readers
  /\ Fits(j, phase, emitted_any)
  /\ j.due = wrote
  /\ LegalFrom(j, rest)
  /\ json = ReadBytes(j, rest, Len(rest))

\* What stopped the walk, if anything did.
StoppedWhenDue ==
  /\ status = "WRITE_FAILED" =>
       J!IsStrictPrefix(wrote, json.due) /\ json.verdict = "OK"
  /\ status \in {"MALFORMED", "CONTAINER_REFUSED"} =>
       json.verdict = status /\ wrote = <<>> /\ json.due = <<>>

\* The walk and the reader, at any time: a pass stands before a letter, or in a
\* bare scalar.
PicksInv ==
  /\ json \in Readers
  /\ rest # <<>> => /\ status = "OK"
                    /\ phase \in {"BETWEEN", "SCALAR"}
                    /\ phase = "BETWEEN" => rest[1] \in Letter
  /\ status = "OK" => \E j : Behind(j)
  /\ StoppedWhenDue

\* And between two pushes.
CaughtUp ==
  /\ json \in Readers
  /\ rest = <<>>
  /\ status = "OK" => Fits(json, phase, emitted_any) /\ json.due = wrote
  /\ StoppedWhenDue

\* Between two pushes the reader of what is left, of nothing, is json itself.
LEMMA CaughtUpPicks == CaughtUp => PicksInv
<1> SUFFICES ASSUME CaughtUp PROVE PicksInv
  OBVIOUS
<1>1. ASSUME status = "OK" PROVE Behind(json)
  <2>1. <<>> \in Seq(Octet) /\ Len(<<>>) = 0
    BY EmptySeq
  <2>2. ReadBytes(json, <<>>, 0) = json
    BY <2>1, AlwaysReadsOn DEF ReadsOn, CaughtUp
  <2>3. LegalFrom(json, <<>>)
    BY <2>1 DEF LegalFrom
  <2> QED
    BY <1>1, <2>1, <2>2, <2>3 DEF Behind, CaughtUp
<1> QED
  BY <1>1 DEF PicksInv, CaughtUp

\* The same, of a state that comes next.
LEMMA CaughtUpPicksNext == CaughtUp' => PicksInv'
BY CaughtUpPicks, PTL

\* Where a token begins.
LEMMA TokenStarts ==
  ASSUME TypeOK, PicksInv, status = "OK", rest = <<>>
  PROVE  /\ NextToken \in Readers /\ NextToken.due = <<>>
         /\ SameText(json, NextToken)
         /\ Fits(NextToken, phase, emitted_any)
<1>1. PICK j : Behind(j)
  BY DEF PicksInv
<1>2. json = j
  <2>1. <<>> \in Seq(Octet) /\ Len(<<>>) = 0
    BY EmptySeq
  <2>2. ReadBytes(j, <<>>, 0) = j
    BY <1>1, <2>1, AlwaysReadsOn DEF ReadsOn, Behind
  <2> QED
    BY <1>1, <2>1, <2>2 DEF Behind
<1>3. json \in Readers /\ Fits(json, phase, emitted_any)
  <2>1. Fits(j, phase, emitted_any)
    BY <1>1 DEF Behind
  <2> QED
    BY <1>1, <1>2, <2>1 DEF Behind, PicksInv
<1>4. <<>> \in Seq(Piece)
  BY EmptySeq
<1>5. NextToken \in Readers /\ NextToken.due = <<>> /\ SameText(json, NextToken)
  <2> PICK k : k = json
    OBVIOUS
  <2>1. k \in Readers
    BY <1>3
  <2>2. NextToken = [k EXCEPT !.due = <<>>]
    BY DEF NextToken
  <2>3. [k EXCEPT !.due = <<>>] \in Readers
    BY <1>4, <2>1 DEF Readers
  <2>4. SameText(k, [k EXCEPT !.due = <<>>]) /\ [k EXCEPT !.due = <<>>].due = <<>>
    BY <2>1 DEF SameText, Readers
  <2> QED
    BY <2>2, <2>3, <2>4
<1>6. Fits(NextToken, phase, emitted_any)
  <2> PICK k, l : k = json /\ l = NextToken
    OBVIOUS
  <2>1. k \in Readers /\ l \in Readers /\ SameText(k, l) /\ Fits(k, phase, emitted_any)
    BY <1>3, <1>5
  <2> QED
    BY <2>1, FitsAside
<1> QED
  BY <1>5, <1>6

\* A push that wrote what its token puts out, or a part of it and then failed.
LEMMA WroteWhatIsDue ==
  ASSUME NEW k \in Readers, json' = k, rest' = <<>>, NEW d \in Seq(Piece),
         Emit(<<>>, d), k.due = d, k.verdict = "OK",
         status' = "OK" => Fits(json, phase, emitted_any)'
  PROVE  CaughtUp'
<1> PICK none : none = <<>>
  OBVIOUS
<1>1. none \in Seq(Piece) /\ Emit(none, d)
  BY EmptySeq
<1>2. none \o d = d /\ d \o none = d
  BY ConcatEmptySeq
<1>3. /\ status' \in {"OK", "WRITE_FAILED"}
      /\ status' = "OK" => wrote' = none \o d
      /\ status' = "WRITE_FAILED" => J!IsStrictPrefix(wrote', (none \o d) \o none)
  BY <1>1, EmitDue
<1>4. /\ status' = "OK" => wrote' = k.due
      /\ status' = "WRITE_FAILED" => J!IsStrictPrefix(wrote', k.due)
  BY <1>2, <1>3
<1>5. StoppedWhenDue'
  BY <1>3, <1>4 DEF StoppedWhenDue
<1> QED
  BY <1>4, <1>5 DEF CaughtUp

\* A push that wrote nothing, since nothing is due.
LEMMA NothingIsDue ==
  ASSUME NEW k \in Readers, json' = k, rest' = <<>>, EmitNothing, k.due = <<>>,
         Fits(json, phase, emitted_any)'
  PROVE  CaughtUp'
BY DEF CaughtUp, StoppedWhenDue, EmitNothing

-----------------------------------------------------------------------------
(* BYTES tokens of values and keys *)

\* What a BYTES token leaves of the walk.
LEMMA BytesStay ==
  ASSUME IInv, PicksInv, NEW bytes \in BytesTokens, LegalBytes(bytes), PushBytes(bytes)
  PROVE  /\ bytes \in Seq(Octet) /\ status = "OK" /\ rest = <<>>
         /\ NextToken \in Readers /\ NextToken.due = <<>>
         /\ Fits(NextToken, phase, emitted_any)
         /\ LegalFrom(NextToken, bytes)
         /\ path' = path /\ in_string' = in_string /\ nesting' = nesting
         /\ segments_matched' = segments_matched
         /\ last_structural' = last_structural /\ emitted_any' = emitted_any
         /\ emitted_any \in BOOLEAN
<1>1. bytes \in Seq(Octet)
  BY BytesAssumption
<1>2. /\ status = "OK" /\ rest = <<>>
      /\ path' = path /\ in_string' = in_string /\ nesting' = nesting
      /\ segments_matched' = segments_matched
      /\ last_structural' = last_structural /\ emitted_any' = emitted_any
  BY DEF PushBytes, config
<1>3. /\ NextToken \in Readers /\ NextToken.due = <<>> /\ SameText(json, NextToken)
      /\ Fits(NextToken, phase, emitted_any)
  BY <1>2, TokenStarts DEF IInv
<1>4. LegalFrom(NextToken, bytes)
  <2> PICK a, b : a = json /\ b = NextToken
    OBVIOUS
  <2>1. a \in Readers /\ b \in Readers /\ SameText(a, b) /\ LegalFrom(a, bytes)
    BY <1>3 DEF PicksInv, LegalBytes, LegalFrom
  <2> QED
    BY <1>1, <2>1, LegalAside
<1> QED
  BY <1>1, <1>2, <1>3, <1>4 DEF IInv, TypeOK

\* Octets of a string or a container, written or skipped.
LEMMA BytesOfValuePick ==
  ASSUME IInv, PicksInv, NEW bytes \in BytesTokens, TextBytes(bytes),
         PushBytesOfValue(bytes) \/ PushBytesSkipped(bytes)
  PROVE  CaughtUp'
<1>1. /\ bytes \in Seq(Octet) /\ status = "OK" /\ rest = <<>>
      /\ NextToken \in Readers /\ NextToken.due = <<>>
      /\ Fits(NextToken, phase, emitted_any)
      /\ LegalFrom(NextToken, bytes)
      /\ path' = path /\ in_string' = in_string /\ nesting' = nesting
      /\ segments_matched' = segments_matched
      /\ last_structural' = last_structural /\ emitted_any' = emitted_any
  BY BytesStay DEF TextBytes, PushBytesOfValue, PushBytesSkipped
<1>2. /\ phase \in {"STRING", "SKIP_STRING", "CONTAINER"} /\ phase' = phase
      /\ rest' = <<>> /\ segment_text_left' = segment_text_left
  BY <1>1 DEF PushBytesOfValue, PushBytesSkipped
<1> PICK b, k, p, e : /\ b = NextToken /\ k = ReadBytes(b, bytes, Len(bytes))
                      /\ p = phase /\ e = emitted_any
  OBVIOUS
<1>3. TypeOK /\ b \in Readers /\ p \in {"STRING", "SKIP_STRING", "CONTAINER"}
      /\ Fits(b, p, e) /\ LegalFrom(b, bytes) /\ b.due = <<>>
  BY <1>1, <1>2 DEF IInv
<1>4. /\ Fits(k, p, e)
      /\ k.due = IF p = "SKIP_STRING" THEN b.due ELSE b.due \o bytes
  BY <1>1, <1>3, BytesFit
<1>5. k \in Readers
  <2>1. Len(bytes) \in 0 .. Len(bytes)
    BY <1>1, LenProperties
  <2> QED
    BY <1>1, <1>3, <2>1, ReadNext
<1>6. json' = k
  BY DEF TextBytes
<1>7. Fits(k, p, e)'
  BY <1>1, <1>2, <1>4, FitsKept
<1>8. Fits(json, phase, emitted_any)'
  <2>1. phase' = p /\ emitted_any' = e
    BY <1>1, <1>2
  <2> QED
    BY <1>6, <1>7, <2>1, FitsNext
<1>9. k.verdict = "OK"
  BY <1>4 DEF Fits
<1>10. CASE PushBytesOfValue(bytes)
  <2>1. Emit(<<>>, bytes) /\ p # "SKIP_STRING"
    BY <1>10 DEF PushBytesOfValue
  <2>2. bytes \in Seq(Piece)
    BY <1>1, OctetsArePieces
  <2>3. k.due = bytes
    BY <1>3, <1>4, <2>1, <2>2, ConcatEmptySeq
  <2> QED
    BY <1>2, <1>5, <1>6, <1>8, <1>9, <2>1, <2>2, <2>3, WroteWhatIsDue
<1>11. CASE PushBytesSkipped(bytes)
  <2>1. EmitNothing /\ k.due = <<>>
    BY <1>3, <1>4, <1>11 DEF PushBytesSkipped
  <2> QED
    BY <1>2, <1>5, <1>6, <1>8, <2>1, NothingIsDue
<1> QED
  BY <1>10, <1>11

\* A segment, of which t is over and left comes next, goes on with bytes or not.
GoesOn(t, left, bytes) ==
  /\ StartsWith(left, bytes) =>
       (t \o bytes) \o After(left, Len(bytes)) = t \o left
  /\ StartsWith(t \o left, t \o bytes) => StartsWith(left, bytes)

\* So it does for any octets.
LEMMA SegmentGoesOn ==
  ASSUME NEW t \in Seq(Octet), NEW left \in Seq(Octet), NEW bytes \in Seq(Octet)
  PROVE  GoesOn(t, left, bytes)
<1>1. Len(t) \in Nat /\ Len(left) \in Nat /\ Len(bytes) \in Nat
  BY LenProperties
<1>2. ASSUME StartsWith(left, bytes)
      PROVE  (t \o bytes) \o After(left, Len(bytes)) = t \o left
  <2> DEFINE u == After(left, Len(bytes))
  <2>1. /\ Len(bytes) \in 0 .. Len(left)
        /\ \A i \in 1 .. Len(bytes) : left[i] = bytes[i]
    BY <1>1, <1>2 DEF StartsWith
  <2>2. /\ u \in Seq(Octet) /\ Len(u) = Len(left) - Len(bytes)
        /\ \A i \in 1 .. Len(left) - Len(bytes) : u[i] = left[Len(bytes) + i]
    BY <2>1, AfterType
  <2> HIDE DEF u
  <2>3. /\ bytes \o u \in Seq(Octet) /\ Len(bytes \o u) = Len(bytes) + Len(u)
        /\ \A i \in 1 .. Len(bytes) : (bytes \o u)[i] = bytes[i]
        /\ \A i \in Len(bytes) + 1 .. Len(bytes) + Len(u) : (bytes \o u)[i] = u[i - Len(bytes)]
    BY <2>2, ConcatOctets
  <2>4. bytes \o u = left
    <3> PICK v : v = bytes \o u
      OBVIOUS
    <3>1. v \in Seq(Octet) /\ Len(v) = Len(left)
      BY <1>1, <2>1, <2>2, <2>3
    <3>2. ASSUME NEW i \in 1 .. Len(left) PROVE v[i] = left[i]
      <4>1. CASE i \in 1 .. Len(bytes)
        BY <2>1, <2>3, <4>1
      <4>2. CASE i \notin 1 .. Len(bytes)
        <5>1. /\ i \in Len(bytes) + 1 .. Len(bytes) + Len(u)
              /\ i - Len(bytes) \in 1 .. Len(left) - Len(bytes)
              /\ Len(bytes) + (i - Len(bytes)) = i
          BY <1>1, <2>1, <2>2, <4>2
        <5>2. v[i] = u[i - Len(bytes)] /\ u[i - Len(bytes)] = left[Len(bytes) + (i - Len(bytes))]
          BY <2>2, <2>3, <5>1
        <5> QED
          BY <5>1, <5>2
      <4> QED
        BY <4>1, <4>2
    <3>3. v = left
      BY <3>1, <3>2, SeqEqual
    <3> QED
      BY <3>3
  <2>5. (t \o bytes) \o u = t \o (bytes \o u)
    <3>1. Associate(Octet)
      BY AllAssociate, Zenon
    <3> QED
      BY <2>2, <3>1 DEF Associate
  <2> QED
    BY <2>4, <2>5 DEF u
<1>3. ASSUME StartsWith(t \o left, t \o bytes) PROVE StartsWith(left, bytes)
  <2>1. /\ Len(t \o left) = Len(t) + Len(left)
        /\ \A i \in 1 .. Len(left) : (t \o left)[Len(t) + i] = left[i]
    BY ConcatOctets
  <2>2. /\ Len(t \o bytes) = Len(t) + Len(bytes)
        /\ \A i \in 1 .. Len(bytes) : (t \o bytes)[Len(t) + i] = bytes[i]
    BY ConcatOctets
  <2>3. /\ Len(t \o bytes) <= Len(t \o left)
        /\ \A i \in 1 .. Len(t \o bytes) : (t \o left)[i] = (t \o bytes)[i]
    BY <1>3 DEF StartsWith
  <2>4. Len(bytes) <= Len(left)
    BY <1>1, <2>1, <2>2, <2>3
  <2>5. ASSUME NEW i \in 1 .. Len(bytes) PROVE left[i] = bytes[i]
    <3>1. i \in 1 .. Len(left) /\ Len(t) + i \in 1 .. Len(t \o bytes)
      BY <1>1, <2>2, <2>4
    <3> QED
      BY <2>1, <2>2, <2>3, <3>1
  <2> QED
    BY <2>4, <2>5 DEF StartsWith
<1> QED
  BY <1>2, <1>3 DEF GoesOn

\* Octets of a key, as long as it matches the segment.
LEMMA BytesOfKeyPick ==
  ASSUME IInv, PicksInv, NEW bytes \in BytesTokens, TextBytes(bytes),
         PushBytesOfKey(bytes)
  PROVE  CaughtUp'
<1>1. /\ bytes \in Seq(Octet) /\ status = "OK" /\ rest = <<>>
      /\ NextToken \in Readers /\ NextToken.due = <<>>
      /\ Fits(NextToken, phase, emitted_any)
      /\ LegalFrom(NextToken, bytes)
      /\ path' = path /\ in_string' = in_string /\ nesting' = nesting
      /\ segments_matched' = segments_matched
      /\ last_structural' = last_structural /\ emitted_any' = emitted_any
  BY BytesStay DEF TextBytes, PushBytesOfKey
<1>2. /\ phase = "KEY" /\ rest' = <<>> /\ EmitNothing
      /\ IF StartsWith(segment_text_left, bytes)
           THEN /\ segment_text_left' = After(segment_text_left, Len(bytes))
                /\ phase' = "KEY"
           ELSE phase' = "SKIP_STRING"
  BY <1>1 DEF PushBytesOfKey
<1> PICK b, t, left, e :
      /\ b = NextToken /\ t = b.text /\ left = segment_text_left /\ e = emitted_any
  OBVIOUS
<1> DEFINE k == [b EXCEPT !.text = t \o bytes]
<1>3. /\ b \in Readers /\ b.due = <<>> /\ t \in Seq(Octet) /\ left \in Seq(Octet)
      /\ Fits(b, "KEY", e)
  BY <1>1, <1>2, ReaderFields DEF IInv, TypeOK
<1>4. b.lex = "key" /\ b.picking = "none" /\ t \o left = path[segments_matched + 1]
  BY <1>3 DEF Fits, PickFits
<1>5. json' = k
  <2>1. ReadBytes(b, bytes, Len(bytes)) = [b EXCEPT !.text = b.text \o bytes]
    BY <1>1, <1>3, <1>4, KeyReads
  <2> QED
    BY <2>1 DEF TextBytes
<1>6. /\ k \in Readers /\ k.frames = b.frames /\ k.expect = b.expect /\ k.lex = b.lex
      /\ k.picking = b.picking /\ k.base = b.base /\ k.begun = b.begun
      /\ k.due = b.due /\ k.verdict = b.verdict /\ k.text = t \o bytes
  <2>1. t \o bytes \in Seq(Octet)
    BY <1>1, <1>3, ConcatProperties
  <2> QED
    BY <1>3, <2>1 DEF Readers
<1> HIDE DEF k
<1>7. /\ k.verdict = "OK" /\ k.begun = e /\ FramesFit(k) /\ MatchFits(k)
  BY <1>3, <1>6 DEF Fits, FramesFit, MatchFits
<1>8. PlaceFits(k)
  BY <1>3, <1>4, <1>6 DEF Fits, PlaceFits, Inside, J!MayStartKey, J!TopKind, J!Last
<1>9. /\ StartsWith(left, bytes) => (t \o bytes) \o After(left, Len(bytes)) = t \o left
      /\ StartsWith(t \o left, t \o bytes) => StartsWith(left, bytes)
  <2>1. t \in Seq(Octet) /\ left \in Seq(Octet) /\ bytes \in Seq(Octet)
    BY <1>1, <1>3
  <2>2. GoesOn(t, left, bytes)
    BY <2>1, SegmentGoesOn
  <2> QED
    BY <2>2 DEF GoesOn
<1>10. Fits(json, phase, emitted_any)'
  <2>1. CASE StartsWith(left, bytes)
    <3>1. phase' = "KEY" /\ segment_text_left' = After(left, Len(bytes))
      BY <1>2, <2>1
    <3>2. Fits(k, "KEY", e)'
      <4>1. k.text \o segment_text_left' = path'[segments_matched' + 1]
        BY <1>1, <1>4, <1>6, <1>9, <2>1, <3>1
      <4>2. PickFits(k, "KEY")'
        BY <1>4, <1>6, <4>1 DEF PickFits
      <4> QED
        BY <1>1, <1>7, <1>8, <4>2
           DEF Fits, FramesFit, MatchFits, PlaceFits, KeyComesNext
    <3> QED
      BY <1>1, <1>5, <3>1, <3>2, FitsNext
  <2>2. CASE ~ StartsWith(left, bytes)
    <3>1. phase' = "SKIP_STRING"
      BY <1>2, <2>2
    <3>2. ~ StartsWith(path[segments_matched + 1], k.text)
      BY <1>4, <1>6, <1>9, <2>2
    <3>3. Fits(k, "SKIP_STRING", e)
      BY <1>4, <1>6, <1>7, <1>8, <3>2 DEF Fits, PickFits
    <3>4. Fits(k, "SKIP_STRING", e)'
      BY <1>1, <3>3, FitsKept
    <3> QED
      BY <1>1, <1>5, <3>1, <3>4, FitsNext
  <2> QED
    BY <2>1, <2>2
<1> QED
  BY <1>2, <1>3, <1>5, <1>6, <1>10, NothingIsDue

\* A token that the loop has yet to pass: j is the reader where its rest u starts.
BehindAt(j, u) ==
  /\ rest = u
  /\ j \in Readers
  /\ Fits(j, phase, emitted_any)
  /\ j.due = wrote
  /\ LegalFrom(j, u)
  /\ json = ReadBytes(j, u, Len(u))

\* A reader behind at two values that stand for those of the next state is behind
\* in that state.
LEMMA BehindNext ==
  \A x, y : BehindAt(x, y)' => (\E z : Behind(z))'
<1>1. \A x, y : BehindAt(x, y) => \E z : Behind(z)
  BY DEF BehindAt, Behind
<1>2. (\A x, y : BehindAt(x, y) => \E z : Behind(z))'
  BY <1>1, PTL
<1> QED
  BY <1>2

\* The same, of a state that comes next.
LEMMA StandsAt ==
  ASSUME path' = path, NEW j \in Readers, NEW u \in Seq(Octet), rest' = u,
         NEW p, NEW e, Fits(j, p, e)', phase' = p, emitted_any' = e,
         j.due = wrote', LegalFrom(j, u), json' = ReadBytes(j, u, Len(u))
  PROVE  (\E x : Behind(x))'
<1>1. Len(u) \in 0 .. Len(u)
  BY LenProperties
<1>2. ReadBytes(j, u, Len(u))' = ReadBytes(j, u, Len(u)) /\ LegalFrom(j, u)'
  BY <1>1, ReadStays
<1>3. Fits(j, phase, emitted_any)'
  BY DEF Fits, FramesFit, MatchFits, PlaceFits, PickFits, AtValue, ValueDepth,
         KeyComesNext
<1>4. BehindAt(j, u)'
  BY <1>2, <1>3 DEF BehindAt
<1> QED
  BY <1>4, BehindNext

\* Text does not stop a walk but by its structure.
LEMMA VerdictStays ==
  ASSUME NEW j \in Readers, NEW s \in Seq(Octet)
  PROVE  ReadBytes(j, s, Len(s)).verdict = j.verdict
<1>1. Len(s) \in Nat /\ \A n \in 1 .. Len(s) : s[n] \in Octet
  BY LenProperties, ElementOfSeq
<1>2. ASSUME NEW k \in Readers, NEW o \in Octet
      PROVE  ReadOctet(k, o).verdict = k.verdict
  <2>1. J!ReadContent(k, o).verdict = k.verdict
    BY ContentReads
  <2>2. J!ReadBlank(k, o).verdict = k.verdict
    <3> DEFINE l == J!EndScalar(k)
    <3>1. l \in Readers /\ l.verdict = k.verdict
      BY EndScalarReads
    <3>2. J!ReadBlank(k, o) = [l EXCEPT !.due = J!Copied(l, o)]
      BY BlankReads
    <3> HIDE DEF l
    <3> QED
      BY <3>1, <3>2 DEF Readers
  <2>3. J!ReadLetter(k, o, path, Separator).verdict = k.verdict
    <3> DEFINE l == J!ReadLetter(k, o, path, Separator)
    <3>1. CASE k.lex = "scalar"
      <4>1. l = [k EXCEPT !.due = J!Copied(k, o)]
        BY <3>1, LetterGoesOn
      <4> HIDE DEF l
      <4>2. l.verdict = k.verdict
        BY <4>1 DEF Readers
      <4> QED
        BY <4>2 DEF l
    <3>2. CASE k.lex # "scalar"
      <4>1. Begun(l, k, o, path, "scalar")
        BY <3>2, LetterBegins
      <4> HIDE DEF l
      <4>2. l.verdict = k.verdict
        BY <4>1 DEF Begun
      <4> QED
        BY <4>2 DEF l
    <3> QED
      BY <3>1, <3>2
  <2> QED
    BY <2>1, <2>2, <2>3 DEF ReadOctet, ReadOctetFor
<1> DEFINE S == {n \in 0 .. Len(s) : ReadBytes(j, s, n).verdict = j.verdict}
<1>3. 0 \in S
  BY <1>1, ReadNext
<1>4. ASSUME NEW n \in 0 .. Len(s) - 1, n \in S PROVE n + 1 \in S
  <2>1. n + 1 \in 1 .. Len(s) /\ n + 1 \in 0 .. Len(s) /\ n \in 0 .. Len(s)
    BY <1>1
  <2>2. ReadBytes(j, s, n + 1) = ReadOctet(ReadBytes(j, s, n), s[n + 1])
        /\ ReadBytes(j, s, n) \in Readers
    BY <2>1, ReadNext
  <2> QED
    BY <1>1, <1>2, <1>4, <2>1, <2>2
<1>5. \A n \in 0 .. Len(s) : n \in S
  <2> HIDE DEF S
  <2> QED
    BY <1>1, <1>3, <1>4, UpTo
<1> QED
  BY <1>1, <1>5

\* How far the blanks at the start of a text go.
LEMMA BlanksPassed ==
  ASSUME NEW u \in Seq(Octet)
  PROVE  \E b \in 0 .. Len(u) :
           /\ PastBlanks(u) = After(u, b) /\ PastBlanks(u) \in Seq(Octet)
           /\ \A i \in 1 .. b : u[i] \in Blank
           /\ PastBlanks(u) # <<>> => PastBlanks(u)[1] \in Letter
           /\ u # <<>> /\ u[1] \notin Letter => b # 0
<1> DEFINE b == PrefixIn(u, Blank)
           v == PastBlanks(u)
<1>1. Len(u) \in Nat /\ (u # <<>> => Len(u) > 0) /\ \A i \in 1 .. Len(u) : u[i] \in Octet
  BY LenProperties, EmptySeq, ElementOfSeq
<1>2. /\ b \in 0 .. Len(u) /\ \A i \in 1 .. b : u[i] \in Blank
      /\ b < Len(u) => u[b + 1] \notin Blank
  BY PrefixType
<1>3. v = After(u, b)
  BY DEF PastBlanks
<1> HIDE DEF b
<1>4. /\ v \in Seq(Octet) /\ Len(v) = Len(u) - b
      /\ \A i \in 1 .. Len(u) - b : v[i] = u[b + i]
  BY <1>2, <1>3, AfterType
<1> HIDE DEF v
<1>5. v # <<>> => v[1] \in Letter
  <2> SUFFICES ASSUME v # <<>> PROVE v[1] \in Letter
    OBVIOUS
  <2>1. Len(v) # 0
    BY <1>4, EmptySeq
  <2>2. b < Len(u) /\ 1 \in 1 .. Len(u) - b /\ b + 1 \in 1 .. Len(u)
    BY <1>1, <1>2, <1>4, <2>1
  <2>3. v[1] = u[b + 1] /\ u[b + 1] \in Octet /\ u[b + 1] \notin Blank
    BY <1>1, <1>2, <1>4, <2>2
  <2> QED
    BY <2>3 DEF Octet
<1>6. u # <<>> /\ u[1] \notin Letter => b # 0
  <2> SUFFICES ASSUME u # <<>>, u[1] \notin Letter, b = 0 PROVE FALSE
    OBVIOUS
  <2>1. 1 \in 1 .. Len(u) /\ b < Len(u) /\ b + 1 = 1
    BY <1>1
  <2> QED
    BY <1>1, <1>2, <2>1 DEF Octet
<1> QED
  BY <1>2, <1>3, <1>4, <1>5, <1>6 DEF v

\* Reading past blanks ends a bare scalar.
LEMMA BlanksRead ==
  ASSUME TypeOK, NEW j \in Readers, NEW u \in Seq(Octet), NEW e,
         NEW p \in {"BETWEEN", "SCALAR"}, Fits(j, p, e), LegalFrom(j, u),
         p = "SCALAR" => u # <<>> /\ u[1] \notin Letter
  PROVE  \E k \in Readers, v \in Seq(Octet) :
           /\ v = PastBlanks(u)
           /\ Fits(k, "BETWEEN", e) /\ k.due = j.due /\ LegalFrom(k, v)
           /\ ReadBytes(k, v, Len(v)) = ReadBytes(j, u, Len(u))
           /\ v # <<>> => v[1] \in Letter
<1>1. PICK b \in 0 .. Len(u) :
           /\ PastBlanks(u) = After(u, b) /\ PastBlanks(u) \in Seq(Octet)
           /\ \A i \in 1 .. b : u[i] \in Blank
           /\ PastBlanks(u) # <<>> => PastBlanks(u)[1] \in Letter
           /\ u # <<>> /\ u[1] \notin Letter => b # 0
  BY BlanksPassed
<1>2. PICK k, v : k = ReadBytes(j, u, b) /\ v = After(u, b)
  OBVIOUS
<1>3. k \in Readers
  BY <1>2, ReadNext
<1>4. /\ Fits(k, IF b = 0 THEN p ELSE "BETWEEN", e)
      /\ k.due = j.due
  BY <1>1, <1>2, BlanksFit
<1>5. Fits(k, "BETWEEN", e)
  <2>1. (IF b = 0 THEN p ELSE "BETWEEN") = "BETWEEN"
    BY <1>1
  <2> QED
    BY <1>4, <2>1
<1>6. LegalFrom(k, v) /\ ReadBytes(k, v, Len(v)) = ReadBytes(j, u, Len(u))
  BY <1>2, LegalAfter
<1> QED
  BY <1>1, <1>2, <1>3, <1>4, <1>5, <1>6

\* Reading letters begins a bare scalar, or goes on with one.
LEMMA LettersRead ==
  ASSUME TypeOK, NEW j \in Readers, NEW u \in Seq(Octet), NEW e \in BOOLEAN,
         NEW p \in {"BETWEEN", "SCALAR"}, Fits(j, p, e), LegalFrom(j, u),
         u # <<>>, p = "BETWEEN" => u[1] \in Letter, NEW n, n = PrefixIn(u, Letter)
  PROVE  \E k \in Readers, v \in Seq(Octet) :
           /\ n \in 0 .. Len(u) /\ v = After(u, n)
           /\ Fits(k, PhaseAfter(p), Begins(p) \/ e)
           /\ k.due = LettersDue(j, p, e, SubSeq(u, 1, n))
           /\ LegalFrom(k, v)
           /\ ReadBytes(k, v, Len(v)) = ReadBytes(j, u, Len(u))
           /\ v = <<>> <=> n = Len(u)
           /\ v # <<>> => v[1] \notin Letter
<1>1. Len(u) \in Nat /\ Len(u) > 0
  BY LenProperties, EmptySeq
<1>2. /\ n \in 0 .. Len(u) /\ \A i \in 1 .. n : u[i] \in Letter
      /\ n < Len(u) => u[n + 1] \notin Letter
  BY PrefixType
<1>3. PICK k, v : k = ReadBytes(j, u, n) /\ v = After(u, n)
  OBVIOUS
<1>4. k \in Readers
  BY <1>2, <1>3, ReadNext
<1>5. /\ v \in Seq(Octet) /\ Len(v) = Len(u) - n
      /\ \A i \in 1 .. Len(u) - n : v[i] = u[n + i]
  <2> PICK x : x = n
    OBVIOUS
  <2>1. x \in 0 .. Len(u) /\ v = After(u, x)
    BY <1>2, <1>3
  <2> QED
    BY <2>1, AfterType
<1>6. LegalFrom(k, v) /\ ReadBytes(k, v, Len(v)) = ReadBytes(j, u, Len(u))
  BY <1>2, <1>3, LegalAfter
<1>7. /\ v = <<>> <=> n = Len(u)
      /\ v # <<>> => v[1] \notin Letter
  <2>1. v = <<>> <=> Len(v) = 0
    BY <1>5, EmptySeq
  <2>2. v # <<>> => n < Len(u) /\ 1 \in 1 .. Len(u) - n
    BY <1>1, <1>2, <1>5, <2>1
  <2> QED
    BY <1>1, <1>2, <1>5, <2>1, <2>2
<1>8. /\ Fits(k, PhaseAfter(p), Begins(p) \/ e)
      /\ k.due = LettersDue(j, p, e, SubSeq(u, 1, n))
  <2>1. CASE n # 0
    <3>1. n \in 1 .. Len(u)
      BY <1>1, <1>2, <2>1
    <3> QED
      BY <1>2, <1>3, <3>1, LettersFit
  <2>2. CASE n = 0
    <3>1. p = "SCALAR"
      BY <1>1, <1>2, <2>2
    <3>2. k = j
      BY <1>3, <2>2, ReadNext
    <3>3. ~ Begins(p) /\ PhaseAfter(p) = p /\ (Begins(p) \/ e) = e
      BY <3>1 DEF Begins, PhaseAfter
    <3>4. SubSeq(u, 1, n) = <<>>
      BY <1>1, <2>2, FirstOctets, EmptySeq
    <3>5. (j.due \o <<>>) \o <<>> = j.due
      <4> PICK d : d = j.due
        OBVIOUS
      <4>1. d \in Seq(Piece)
        BY ReaderFields
      <4> QED
        BY <4>1, ConcatEmptySeq
    <3> QED
      BY <3>1, <3>2, <3>3, <3>4, <3>5 DEF LettersDue
  <2> QED
    BY <2>1, <2>2
<1> QED
  BY <1>2, <1>3, <1>4, <1>5, <1>6, <1>7, <1>8

\* A token between values enters the loop.
LEMMA BytesBetweenPick ==
  ASSUME IInv, PicksInv, NEW bytes \in BytesTokens, TextBytes(bytes),
         PushBytesBetween(bytes)
  PROVE  PicksInv'
<1>1. /\ bytes \in Seq(Octet) /\ status = "OK" /\ rest = <<>>
      /\ NextToken \in Readers /\ NextToken.due = <<>>
      /\ Fits(NextToken, phase, emitted_any)
      /\ LegalFrom(NextToken, bytes)
      /\ path' = path /\ in_string' = in_string /\ nesting' = nesting
      /\ segments_matched' = segments_matched
      /\ last_structural' = last_structural /\ emitted_any' = emitted_any
  BY BytesStay DEF TextBytes, PushBytesBetween
<1>2. /\ phase \in {"BETWEEN", "SCALAR"} /\ phase' = phase
      /\ rest' = IF phase = "SCALAR" THEN bytes ELSE PastBlanks(bytes)
      /\ wrote' = <<>> /\ status' = "OK" /\ segment_text_left' = segment_text_left
  BY DEF PushBytesBetween, EmitNothing
<1> PICK j, p, e : j = NextToken /\ p = phase /\ e = emitted_any
  OBVIOUS
<1>3. /\ TypeOK /\ j \in Readers /\ p \in {"BETWEEN", "SCALAR"}
      /\ Fits(j, p, e) /\ LegalFrom(j, bytes) /\ j.due = <<>>
  BY <1>1, <1>2 DEF IInv
<1>4. json' = ReadBytes(j, bytes, Len(bytes))
  BY DEF TextBytes
<1>5. \E k \in Readers, v \in Seq(Octet) :
        /\ rest' = v
        /\ Fits(k, p, e) /\ k.due = <<>> /\ LegalFrom(k, v)
        /\ ReadBytes(k, v, Len(v)) = json'
        /\ v # <<>> /\ p = "BETWEEN" => v[1] \in Letter
  <2>1. CASE p = "SCALAR"
    BY <1>1, <1>2, <1>3, <1>4, <2>1
  <2>2. CASE p = "BETWEEN"
    <3>1. \E k \in Readers, v \in Seq(Octet) :
            /\ v = PastBlanks(bytes)
            /\ Fits(k, "BETWEEN", e) /\ k.due = j.due /\ LegalFrom(k, v)
            /\ ReadBytes(k, v, Len(v)) = ReadBytes(j, bytes, Len(bytes))
            /\ v # <<>> => v[1] \in Letter
      BY <1>1, <1>3, <2>2, BlanksRead
    <3> QED
      BY <1>2, <1>3, <1>4, <2>2, <3>1
  <2> QED
    BY <1>3, <2>1, <2>2
<1>6. PICK k \in Readers, v \in Seq(Octet) :
        /\ rest' = v
        /\ Fits(k, p, e) /\ k.due = <<>> /\ LegalFrom(k, v)
        /\ ReadBytes(k, v, Len(v)) = json'
        /\ v # <<>> /\ p = "BETWEEN" => v[1] \in Letter
  BY <1>5
<1>7. Fits(k, p, e)'
  <2>1. p # "KEY"
    BY <1>3
  <2> QED
    BY <1>1, <1>6, <2>1, FitsKept
<1>8. (\E x : Behind(x))'
  <2>1. phase' = p /\ emitted_any' = e /\ k.due = wrote'
    BY <1>1, <1>2, <1>6
  <2> QED
    BY <1>1, <1>6, <1>7, <2>1, StandsAt
<1>9. json' \in Readers
  <2>1. Len(v) \in 0 .. Len(v)
    BY LenProperties
  <2>2. ReadBytes(k, v, Len(v)) \in Readers
    BY <2>1, ReadNext
  <2> QED
    BY <1>6, <2>2
<1>10. /\ phase' = p /\ p \in {"BETWEEN", "SCALAR"} /\ status' = "OK"
       /\ rest' # <<>> /\ p = "BETWEEN" => rest'[1] \in Letter
  BY <1>2, <1>3, <1>6
<1>11. StoppedWhenDue'
  BY <1>10 DEF StoppedWhenDue
<1> QED
  BY <1>8, <1>9, <1>10, <1>11 DEF PicksInv

-----------------------------------------------------------------------------
(* The loop over bare scalars, read *)

\* Where a pass stands.
LEMMA PassStarts ==
  ASSUME IInv, PicksInv, TextPass
  PROVE  \E j \in Readers, u \in Seq(Octet), p \in {"BETWEEN", "SCALAR"}, e \in BOOLEAN :
           /\ u = rest /\ p = phase /\ e = emitted_any /\ u # <<>>
           /\ p = "BETWEEN" => u[1] \in Letter
           /\ Fits(j, p, e) /\ j.due = wrote /\ LegalFrom(j, u)
           /\ json = ReadBytes(j, u, Len(u)) /\ json' = json
           /\ path' = path /\ in_string' = in_string /\ nesting' = nesting
           /\ segments_matched' = segments_matched
           /\ last_structural' = last_structural
<1>1. /\ rest # <<>> /\ status = "OK" /\ json' = json
      /\ path' = path /\ in_string' = in_string /\ nesting' = nesting
      /\ segments_matched' = segments_matched
      /\ last_structural' = last_structural
  BY DEF TextPass, ScalarPass, config, walk
<1>2. PICK j : Behind(j)
  BY <1>1 DEF PicksInv
<1>3. phase \in {"BETWEEN", "SCALAR"} /\ (phase = "BETWEEN" => rest[1] \in Letter)
  BY <1>1 DEF PicksInv
<1>4. rest \in Seq(Octet) /\ emitted_any \in BOOLEAN
  BY DEF IInv, TypeOK
<1> PICK u, p, e : u = rest /\ p = phase /\ e = emitted_any
  OBVIOUS
<1>5. /\ Fits(j, p, e) /\ j.due = wrote /\ LegalFrom(j, u)
      /\ json = ReadBytes(j, u, Len(u)) /\ j \in Readers
  BY <1>2 DEF Behind
<1> QED
  BY <1>1, <1>3, <1>4, <1>5

\* After a pass that did not fail, k is the reader where what is left of the token
\* starts.
LEMMA PassEnds ==
  ASSUME TextPass, status' = "OK", NEW k \in Readers, NEW v \in Seq(Octet), NEW q, NEW e,
         Fits(k, q, e), q \in {"BETWEEN", "SCALAR"}, k.due = wrote', LegalFrom(k, v),
         json' = ReadBytes(k, v, Len(v)), rest' = v, phase' = q, emitted_any' = e,
         v # <<>> /\ q = "BETWEEN" => v[1] \in Letter
  PROVE  PicksInv'
<1>1. /\ path' = path /\ in_string' = in_string /\ nesting' = nesting
      /\ segments_matched' = segments_matched
      /\ last_structural' = last_structural
  BY DEF TextPass, ScalarPass, config, walk
<1>2. Fits(k, q, e)'
  BY <1>1, FitsKept
<1>3. (\E x : Behind(x))'
  BY <1>1, <1>2, StandsAt
<1>4. json' \in Readers
  <2>1. Len(v) \in 0 .. Len(v)
    BY LenProperties
  <2>2. ReadBytes(k, v, Len(v)) \in Readers
    BY <2>1, ReadNext
  <2> QED
    BY <2>2
<1>5. StoppedWhenDue'
  BY DEF StoppedWhenDue
<1> QED
  BY <1>3, <1>4, <1>5 DEF PicksInv

\* A pass over a scalar that the path does not pick.
LEMMA PassOfOtherPicks ==
  ASSUME IInv, PicksInv, TextPass, phase # "SCALAR", ~ (phase = "BETWEEN" /\ AtValue)
  PROVE  PicksInv'
<1> PICK n : n = PrefixIn(rest, Letter)
  OBVIOUS
<1>1. PICK j \in Readers, u \in Seq(Octet), p \in {"BETWEEN", "SCALAR"}, e \in BOOLEAN :
           /\ u = rest /\ p = phase /\ e = emitted_any /\ u # <<>>
           /\ p = "BETWEEN" => u[1] \in Letter
           /\ Fits(j, p, e) /\ j.due = wrote /\ LegalFrom(j, u)
           /\ json = ReadBytes(j, u, Len(u)) /\ json' = json
           /\ path' = path /\ in_string' = in_string /\ nesting' = nesting
           /\ segments_matched' = segments_matched
           /\ last_structural' = last_structural
  BY PassStarts
<1>2. /\ status = "OK" /\ rest' = PastBlanks(After(u, n))
      /\ phase' = phase /\ emitted_any' = emitted_any
      /\ wrote' = wrote /\ status' = status
  BY <1>1 DEF TextPass, ScalarPass
<1>3. TypeOK /\ p = "BETWEEN" /\ ~ Begins(p) /\ PhaseAfter(p) = "BETWEEN"
      /\ (Begins(p) \/ e) = e /\ n = PrefixIn(u, Letter)
  BY <1>1 DEF IInv, Begins, PhaseAfter
<1>4. PICK k \in Readers, v \in Seq(Octet) :
           /\ n \in 0 .. Len(u) /\ v = After(u, n)
           /\ Fits(k, PhaseAfter(p), Begins(p) \/ e)
           /\ k.due = LettersDue(j, p, e, SubSeq(u, 1, n))
           /\ LegalFrom(k, v)
           /\ ReadBytes(k, v, Len(v)) = ReadBytes(j, u, Len(u))
           /\ v = <<>> <=> n = Len(u)
           /\ v # <<>> => v[1] \notin Letter
  BY <1>1, <1>3, LettersRead
<1>5. Fits(k, "BETWEEN", e) /\ k.due = j.due
  BY <1>3, <1>4 DEF LettersDue
<1>6. PICK l \in Readers, w \in Seq(Octet) :
           /\ w = PastBlanks(v)
           /\ Fits(l, "BETWEEN", e) /\ l.due = k.due /\ LegalFrom(l, w)
           /\ ReadBytes(l, w, Len(w)) = ReadBytes(k, v, Len(v))
           /\ w # <<>> => w[1] \in Letter
  <2>1. Fits(k, "BETWEEN", e) /\ LegalFrom(k, v) /\ TypeOK
    BY <1>3, <1>4, <1>5
  <2> QED
    BY <2>1, BlanksRead
<1>7. /\ status' = "OK" /\ l.due = wrote' /\ rest' = w /\ phase' = "BETWEEN"
      /\ emitted_any' = e /\ json' = ReadBytes(l, w, Len(w))
  BY <1>1, <1>2, <1>3, <1>4, <1>5, <1>6
<1> QED
  BY <1>6, <1>7, PassEnds

\* A pass over a scalar that the path picks.
LEMMA PassOfValuePicks ==
  ASSUME IInv, PicksInv, TextPass, phase = "SCALAR" \/ (phase = "BETWEEN" /\ AtValue)
  PROVE  PicksInv'
<1> PICK n : n = PrefixIn(rest, Letter)
  OBVIOUS
<1>1. PICK j \in Readers, u \in Seq(Octet), p \in {"BETWEEN", "SCALAR"}, e \in BOOLEAN :
           /\ u = rest /\ p = phase /\ e = emitted_any /\ u # <<>>
           /\ p = "BETWEEN" => u[1] \in Letter
           /\ Fits(j, p, e) /\ j.due = wrote /\ LegalFrom(j, u)
           /\ json = ReadBytes(j, u, Len(u)) /\ json' = json
           /\ path' = path /\ in_string' = in_string /\ nesting' = nesting
           /\ segments_matched' = segments_matched
           /\ last_structural' = last_structural
  BY PassStarts
<1> DEFINE lead == IF Begins(p) THEN Lead(e) ELSE <<>>
<1>2. /\ Emit(wrote, lead \o SubSeq(u, 1, n))
      /\ emitted_any' = (emitted_any \/ Begins(p))
      /\ IF status' = "OK" /\ n < Len(u)
           THEN /\ phase' = "BETWEEN"
                /\ rest' = PastBlanks(After(u, n))
           ELSE phase' = "SCALAR" /\ rest' = <<>>
  <2>1. Begins(p) <=> phase = "BETWEEN" /\ AtValue
    BY <1>1 DEF Begins
  <2>2. lead = IF phase = "BETWEEN" /\ AtValue THEN SeparatorDue ELSE <<>>
    BY <1>1, <2>1 DEF SeparatorDue, Lead
  <2> HIDE DEF lead
  <2>3. /\ Emit(wrote, (IF phase = "BETWEEN" /\ AtValue THEN SeparatorDue ELSE <<>>)
                          \o SubSeq(rest, 1, n))
        /\ emitted_any' = (emitted_any \/ (phase = "BETWEEN" /\ AtValue))
        /\ IF status' = "OK" /\ n < Len(rest)
             THEN /\ phase' = "BETWEEN"
                  /\ rest' = PastBlanks(After(rest, n))
             ELSE phase' = "SCALAR" /\ rest' = <<>>
    BY <2>1 DEF TextPass, ScalarPass
  <2> QED
    BY <1>1, <2>1, <2>2, <2>3
<1>3. TypeOK /\ PhaseAfter(p) = "SCALAR" /\ n = PrefixIn(u, Letter)
  BY <1>1 DEF IInv, Begins, PhaseAfter
<1>4. PICK k \in Readers, v \in Seq(Octet) :
           /\ n \in 0 .. Len(u) /\ v = After(u, n)
           /\ Fits(k, PhaseAfter(p), Begins(p) \/ e)
           /\ k.due = LettersDue(j, p, e, SubSeq(u, 1, n))
           /\ LegalFrom(k, v)
           /\ ReadBytes(k, v, Len(v)) = ReadBytes(j, u, Len(u))
           /\ v = <<>> <=> n = Len(u)
           /\ v # <<>> => v[1] \notin Letter
  BY <1>1, <1>3, LettersRead
<1>5. PICK b, d, f : b = wrote /\ d = lead \o SubSeq(u, 1, n) /\ f = (Begins(p) \/ e)
  OBVIOUS
<1>6. b \in Seq(Piece) /\ lead \in Seq(Piece) /\ SubSeq(u, 1, n) \in Seq(Piece)
  <2>1. SubSeq(u, 1, n) \in Seq(Octet)
    BY <1>4, FirstOctets
  <2>2. SubSeq(u, 1, n) \in Seq(Piece)
    BY <2>1, OctetsArePieces
  <2>3. <<Separator>> \in Seq(Piece) /\ <<>> \in Seq(Piece)
    <3>1. Separator \in Piece
      BY DEF Piece
    <3> QED
      BY <3>1
  <2> QED
    BY <1>1, <1>5, <2>2, <2>3, ReaderFields DEF Lead
<1>7. d \in Seq(Piece) /\ (b \o lead) \o SubSeq(u, 1, n) = b \o d
  <2>1. PICK x, y : x = lead /\ y = SubSeq(u, 1, n)
    OBVIOUS
  <2> HIDE DEF lead
  <2>2. b \in Seq(Piece) /\ x \in Seq(Piece) /\ y \in Seq(Piece)
    BY <1>6, <2>1
  <2>3. x \o y \in Seq(Piece)
    BY <2>2, PiecesJoin, Zenon
  <2>4. (b \o x) \o y = b \o (x \o y)
    BY <2>2, PiecesAssociate, Zenon
  <2> QED
    BY <1>5, <2>1, <2>3, <2>4
<1>8. Fits(k, "SCALAR", f) /\ k.due = b \o d
  <2>1. LettersDue(j, p, e, SubSeq(u, 1, n)) = (j.due \o lead) \o SubSeq(u, 1, n)
    BY <1>3 DEF LettersDue
  <2> HIDE DEF lead
  <2> QED
    BY <1>1, <1>3, <1>4, <1>5, <1>7, <2>1
<1>9. Emit(b, d) /\ emitted_any' = f
  <2> HIDE DEF lead
  <2> QED
    BY <1>1, <1>2, <1>5
<1> HIDE DEF lead
<1>10. status' \in {"OK", "WRITE_FAILED"} /\ (status' = "OK" => wrote' = b \o d)
  <2>1. <<>> \in Seq(Piece)
    BY EmptySeq
  <2> QED
    BY <1>6, <1>7, <1>9, <2>1, EmitDue
<1>11. CASE status' = "OK" /\ n < Len(u)
  <2>1. v # <<>> /\ v[1] \notin Letter
    <3>1. n # Len(u)
      BY <1>4, <1>11, LenProperties
    <3> QED
      BY <1>4, <3>1
  <2>2. PICK l \in Readers, w \in Seq(Octet) :
             /\ w = PastBlanks(v)
             /\ Fits(l, "BETWEEN", f) /\ l.due = k.due /\ LegalFrom(l, w)
             /\ ReadBytes(l, w, Len(w)) = ReadBytes(k, v, Len(v))
             /\ w # <<>> => w[1] \in Letter
    <3>1. Fits(k, "SCALAR", f) /\ LegalFrom(k, v) /\ TypeOK
      BY <1>3, <1>4, <1>8
    <3> QED
      BY <2>1, <3>1, BlanksRead
  <2>3. /\ l.due = wrote' /\ rest' = w /\ phase' = "BETWEEN"
        /\ emitted_any' = f /\ json' = ReadBytes(l, w, Len(w))
    BY <1>1, <1>2, <1>4, <1>8, <1>9, <1>10, <1>11, <2>2
  <2> QED
    BY <1>11, <2>2, <2>3, PassEnds
<1>12. CASE status' = "OK" /\ ~ (n < Len(u))
  <2>1. v = <<>>
    <3>1. n = Len(u)
      BY <1>4, <1>12, LenProperties
    <3> QED
      BY <1>4, <3>1
  <2>2. /\ k.due = wrote' /\ rest' = v /\ phase' = "SCALAR"
        /\ emitted_any' = f /\ json' = ReadBytes(k, v, Len(v))
    BY <1>1, <1>2, <1>4, <1>8, <1>9, <1>10, <1>12, <2>1
  <2> QED
    BY <1>4, <1>8, <1>12, <2>2, PassEnds
<1>13. CASE status' = "WRITE_FAILED"
  <2>1. json' = ReadBytes(k, v, Len(v)) /\ rest' = <<>>
    BY <1>1, <1>2, <1>4, <1>13
  <2>2. Len(v) \in 0 .. Len(v)
    BY LenProperties
  <2>3. json' \in Readers
    <3>1. ReadBytes(k, v, Len(v)) \in Readers
      BY <2>2, ReadNext
    <3> QED
      BY <2>1, <3>1
  <2>4. PICK m \in Seq(Piece) : json'.due = (b \o d) \o m
    <3>1. \E m \in Seq(Piece) : ReadBytes(k, v, Len(v)).due = k.due \o m
      BY <2>2, DueGrows
    <3> QED
      BY <1>8, <2>1, <3>1
  <2>5. J!IsStrictPrefix(wrote', json'.due)
    BY <1>6, <1>7, <1>9, <1>13, <2>4, EmitDue
  <2>6. json'.verdict = "OK"
    <3>1. ReadBytes(k, v, Len(v)).verdict = k.verdict
      BY VerdictStays
    <3> QED
      BY <1>8, <2>1, <3>1 DEF Fits
  <2>7. CaughtUp'
    BY <1>13, <2>1, <2>3, <2>5, <2>6 DEF CaughtUp, StoppedWhenDue
  <2> QED
    BY <2>7, CaughtUpPicksNext
<1> QED
  BY <1>10, <1>11, <1>12, <1>13

-----------------------------------------------------------------------------
(* Quotes *)

\* k is j past the quote c that ends a string.
EndsString(k, j, c) ==
  /\ k \in Readers
  /\ k.frames = IF j.lex = "key" THEN Rekeyed(j.frames, j.text) ELSE j.frames
  /\ k.expect = IF j.lex = "key" THEN "colon" ELSE J!AfterValue(j.frames)
  /\ k.lex = "none" /\ k.text = <<>>
  /\ k.picking = IF j.picking = "string" THEN "none" ELSE j.picking
  /\ k.base = j.base /\ k.begun = j.begun /\ k.verdict = j.verdict
  /\ k.due = J!Copied(j, c)

\* What a reader makes of the quote that ends a string.
LEMMA StringEndReads ==
  ASSUME NEW j \in Readers, NEW c \in Structural, j.lex = "key" => j.frames # <<>>
  PROVE  EndsString(J!ReadStringEnd(j, c), j, c)
<1> DEFINE k == [j EXCEPT !.lex = "none", !.text = J!NoKey, !.due = J!Copied(j, c),
                          !.picking = J!Ended(j, "string")]
           l == J!ReadStringEnd(j, c)
<1>1. l = IF j.lex = "key"
            THEN [k EXCEPT !.expect = "colon", !.frames[Len(j.frames)].key = j.text]
            ELSE [k EXCEPT !.expect = J!AfterValue(j.frames)]
  BY DEF J!ReadStringEnd
<1>2. /\ k \in Readers /\ k.frames = j.frames /\ k.expect = j.expect
      /\ k.lex = "none" /\ k.text = <<>>
      /\ k.picking = IF j.picking = "string" THEN "none" ELSE j.picking
      /\ k.base = j.base /\ k.begun = j.begun /\ k.verdict = j.verdict
      /\ k.due = J!Copied(j, c)
  <2>1. J!Copied(j, c) \in Seq(Piece) /\ <<>> \in Seq(Octet)
    BY CopiedType, EmptySeq DEF Piece
  <2> QED
    BY <2>1 DEF Readers, J!Ended, J!NoKey
<1> HIDE DEF k, l
<1>3. CASE j.lex = "key"
  <2>1. l = [k EXCEPT !.expect = "colon", !.frames = Rekeyed(j.frames, j.text)]
    BY <1>1, <1>2, <1>3 DEF Readers, Rekeyed
  <2>2. Rekeyed(j.frames, j.text) \in Seq(Frame)
    <3> PICK f, t : f = j.frames /\ t = j.text
      OBVIOUS
    <3>1. f \in Seq(Frame) /\ f # <<>> /\ t \in Seq(Octet)
      BY <1>3, ReaderFields
    <3> QED
      BY <3>1, RekeyedType
  <2> HIDE DEF Rekeyed
  <2>3. EndsString(l, j, c)
    BY <1>2, <1>3, <2>1, <2>2 DEF EndsString, Readers
  <2> QED
    BY <2>3 DEF l
<1>4. CASE j.lex # "key"
  <2>1. J!AfterValue(j.frames) \in {"value", "more"}
    BY DEF J!AfterValue
  <2>2. EndsString(l, j, c)
    BY <1>1, <1>2, <1>4, <2>1 DEF EndsString, Readers
  <2> QED
    BY <2>2 DEF l
<1> QED
  BY <1>3, <1>4

\* A reader in a key stands in an object that has no key yet.
LEMMA KeyIsOpen ==
  ASSUME TypeOK, NEW j \in Readers, FramesFit(j), PlaceFits(j), J!MayStartKey(j)
  PROVE  /\ j.frames # <<>> /\ j.frames \in Seq(Frame)
         /\ j.frames[Len(j.frames)].kind = "object"
         /\ j.frames[Len(j.frames)].key = <<>>
         /\ RecordDepth(nesting) < Len(j.frames)
<1>1. /\ RecordDepth(nesting) \in {0, 1} /\ nesting.depth \in Nat
      /\ Len(j.frames) = nesting.depth
      /\ RecordDepth(nesting) = Wrappers(j.frames)
  BY WrapDepth
<1>2. j.frames # <<>> /\ j.frames[Len(j.frames)].kind = "object" /\ j.frames \in Seq(Frame)
  BY ReaderFields DEF J!MayStartKey, J!TopKind, J!Last
<1>3. j.frames[Len(j.frames)].key = <<>>
  BY DEF PlaceFits, J!NoKey
<1>4. Len(j.frames) # 0
  BY <1>2, EmptySeq
<1>5. ASSUME Len(j.frames) = 1 PROVE RecordDepth(nesting) = 0
  BY <1>1, <1>2, <1>5 DEF Wrappers
<1> QED
  BY <1>1, <1>2, <1>3, <1>4, <1>5

\* A text that goes on with nothing is all of it.
LEMMA NothingMore ==
  ASSUME NEW t \in Seq(Octet), NEW u \in Seq(Octet)
  PROVE  t = t \o u <=> u = <<>>
<1>1. Len(t) \in Nat /\ Len(u) \in Nat /\ Len(t \o u) = Len(t) + Len(u)
  BY ConcatOctets
<1>2. u = <<>> => t \o u = t
  BY ConcatEmptySeq
<1>3. t = t \o u => Len(u) = 0
  BY <1>1
<1> QED
  BY <1>2, <1>3, EmptySeq

\* What a key that ends spells: as much as the walk has matched.
LEMMA KeyEndSpells ==
  ASSUME TypeOK, NEW b \in Readers, NEW p, NEW e, Fits(b, p, e), b.lex = "key",
         p \in {"KEY", "SKIP_STRING", "CONTAINER"}, NEW m,
         p = "KEY" =>
           /\ segments_matched < Len(path)
           /\ nesting.depth = RecordDepth(nesting) + segments_matched + 1
           /\ m = segments_matched + IF segment_text_left = <<>> THEN 1 ELSE 0,
         p # "KEY" => m = segments_matched,
         p = "CONTAINER" => segments_matched = Len(path)
  PROVE  Spells(Rekeyed(b.frames, b.text), path, RecordDepth(nesting), m)
<1>1. FramesFit(b) /\ MatchFits(b) /\ PlaceFits(b) /\ PickFits(b, p)
  BY DEF Fits
<1>2. /\ b.frames # <<>> /\ b.frames \in Seq(Frame)
      /\ b.frames[Len(b.frames)].kind = "object"
      /\ b.frames[Len(b.frames)].key = <<>>
      /\ RecordDepth(nesting) < Len(b.frames)
  <2>1. J!MayStartKey(b)
    BY <1>1 DEF PlaceFits
  <2> QED
    BY <1>1, <2>1, KeyIsOpen
<1>3. /\ \A i \in 1 .. Len(path) : path[i] # <<>>
      /\ path \in Seq(Seq(Octet)) /\ RecordDepth(nesting) \in {0, 1}
      /\ Len(b.frames) = nesting.depth /\ b.text \in Seq(Octet)
      /\ segment_text_left \in Seq(Octet) /\ segments_matched \in Nat
  BY <1>1, Segments, Numbers, ReaderFields DEF FramesFit, TypeOK
<1>4. PICK f, s, r, k, t, left :
        /\ f = b.frames /\ s = path /\ r = RecordDepth(nesting)
        /\ k = segments_matched /\ t = b.text /\ left = segment_text_left
  OBVIOUS
<1>5. /\ f \in Seq(Frame) /\ s \in Seq(Seq(Octet)) /\ r \in {0, 1}
      /\ \A i \in 1 .. Len(s) : s[i] # <<>>
      /\ f # <<>> /\ r < Len(f) /\ t \in Seq(Octet)
      /\ f[Len(f)].kind = "object" /\ f[Len(f)].key = <<>>
      /\ Spells(f, s, r, k)
  BY <1>1, <1>2, <1>3, <1>4 DEF MatchFits
<1>6. Spells(Rekeyed(f, t), s, r,
             IF k < Len(s) /\ Len(f) = r + k + 1 /\ t = s[k + 1] THEN k + 1 ELSE k)
  BY <1>5, SpellsKey
<1>7. m = IF k < Len(s) /\ Len(f) = r + k + 1 /\ t = s[k + 1] THEN k + 1 ELSE k
  <2>1. CASE p = "KEY"
    <3>1. k < Len(s) /\ Len(f) = r + k + 1
      BY <1>3, <1>4, <2>1
    <3>2. t \o left = s[k + 1] /\ left \in Seq(Octet)
      BY <1>1, <1>3, <1>4, <2>1 DEF PickFits
    <3>3. t = t \o left <=> left = <<>>
      BY <1>5, <3>2, NothingMore
    <3>4. m = k + IF left = <<>> THEN 1 ELSE 0
      BY <1>4, <2>1
    <3>5. k \in Nat
      BY <1>3, <1>4
    <3> QED
      BY <3>1, <3>2, <3>3, <3>4, <3>5
  <2>2. CASE p = "SKIP_STRING"
    <3>1. k < Len(s) /\ Len(f) = r + k + 1 => ~ StartsWith(s[k + 1], t)
      BY <1>1, <1>3, <1>4, <2>2 DEF PickFits
    <3>2. StartsWith(t, t)
      BY <1>5, LenProperties DEF StartsWith
    <3>3. m = k
      BY <1>4, <2>2
    <3> QED
      BY <3>1, <3>2, <3>3
  <2>3. CASE p = "CONTAINER"
    BY <1>3, <1>4, <2>3, Numbers
  <2> QED
    BY <2>1, <2>2, <2>3
<1> QED
  BY <1>4, <1>6, <1>7

\* Past a string's last quote.
LEMMA StringEndFits ==
  ASSUME TypeOK, NEW b \in Readers, NEW p, NEW e, Fits(b, p, e), Inside(b),
         NEW k, EndsString(k, b, Quote),
         NEW q, q = IF p = "CONTAINER" THEN p ELSE "BETWEEN",
         p \in {"STRING", "KEY", "SKIP_STRING", "CONTAINER"},
         path' = path, nesting' = nesting, last_structural' = Quote, ~ in_string',
         p = "KEY" =>
           /\ segments_matched < Len(path)
           /\ nesting.depth = RecordDepth(nesting) + segments_matched + 1
           /\ segments_matched' =
                segments_matched + IF segment_text_left = <<>> THEN 1 ELSE 0,
         p # "KEY" => segments_matched' = segments_matched,
         p = "CONTAINER" => segments_matched = Len(path)
  PROVE  /\ Fits(k, q, e)'
         /\ k.due = IF p \in {"STRING", "CONTAINER"} THEN Append(b.due, Quote) ELSE b.due
<1>1. /\ FramesFit(b) /\ MatchFits(b) /\ PlaceFits(b) /\ PickFits(b, p)
      /\ b.verdict = "OK" /\ b.begun = e
  BY DEF Fits
<1>2. /\ k \in Readers
      /\ k.frames = IF b.lex = "key" THEN Rekeyed(b.frames, b.text) ELSE b.frames
      /\ k.expect = IF b.lex = "key" THEN "colon" ELSE J!AfterValue(b.frames)
      /\ k.lex = "none" /\ k.text = <<>>
      /\ k.picking = IF b.picking = "string" THEN "none" ELSE b.picking
      /\ k.base = b.base /\ k.begun = b.begun /\ k.verdict = b.verdict
      /\ k.due = J!Copied(b, Quote)
  BY DEF EndsString
<1>3. /\ Len(k.frames) = Len(b.frames)
      /\ \A i \in 1 .. Len(b.frames) : k.frames[i].kind = b.frames[i].kind
      /\ Spells(k.frames, path, RecordDepth(nesting), segments_matched')
  <2>1. CASE b.lex = "key"
    <3>1. p \in {"KEY", "SKIP_STRING", "CONTAINER"}
      BY <1>1, <2>1 DEF PickFits
    <3>2. Spells(Rekeyed(b.frames, b.text), path, RecordDepth(nesting), segments_matched')
      <4> PICK m : m = segments_matched'
        OBVIOUS
      <4>1. Spells(Rekeyed(b.frames, b.text), path, RecordDepth(nesting), m)
        BY <2>1, <3>1, KeyEndSpells
      <4> QED
        BY <4>1
    <3>3. b.frames # <<>> /\ b.frames \in Seq(Frame) /\ b.text \in Seq(Octet)
      BY <1>1, <2>1, KeyIsOpen, ReaderFields DEF PlaceFits
    <3>4. PICK f, t : f = b.frames /\ t = b.text
      OBVIOUS
    <3>5. f # <<>> /\ f \in Seq(Frame) /\ t \in Seq(Octet)
      BY <3>3, <3>4
    <3>6. /\ Len(Rekeyed(f, t)) = Len(f)
          /\ \A i \in 1 .. Len(f) : Rekeyed(f, t)[i].kind = f[i].kind
      BY <3>5, RekeyedType
    <3> QED
      BY <1>2, <2>1, <3>2, <3>4, <3>6
  <2>2. CASE b.lex # "key"
    <3>1. p # "KEY"
      BY <1>1, <2>2 DEF PickFits
    <3>2. k.frames = b.frames
      BY <1>2, <2>2
    <3> QED
      BY <1>1, <3>1, <3>2 DEF MatchFits
  <2> QED
    BY <2>1, <2>2
<1>4. FramesFit(k)' /\ MatchFits(k)'
  BY <1>1, <1>3 DEF FramesFit, MatchFits
<1>5. PlaceFits(k)'
  <2>1. ~ Inside(k) /\ ~ J!MayStartKey(k)
    BY <1>2 DEF Inside, J!MayStartKey, J!AfterValue
  <2>2. ~ KeyComesNext'
    BY DEF KeyComesNext, Quote
  <2> QED
    BY <1>2, <2>1, <2>2 DEF PlaceFits, J!NoKey
<1>6. PickFits(k, q)'
  <2>1. ValueDepth' = ValueDepth
    BY DEF ValueDepth
  <2> QED
    BY <1>1, <1>2, <2>1 DEF PickFits
<1>7. k.due = IF p \in {"STRING", "CONTAINER"} THEN Append(b.due, Quote) ELSE b.due
  BY <1>1, <1>2 DEF PickFits, J!Copied
<1> QED
  BY <1>1, <1>2, <1>4, <1>5, <1>6, <1>7 DEF Fits

-----------------------------------------------------------------------------
(* What the grammar allows *)

\* Whether the grammar allows c after reading up to b.
LegalAt(b, c) ==
  IF Inside(b) THEN c = Quote
  ELSE /\ c = Quote => J!MayStartValue(b) \/ J!MayStartKey(b)
       /\ c \in Opening => J!MayStartValue(b)
       /\ c = "rbrace" => J!TopKind(b) = "object"
       /\ c = "rbracket" => J!TopKind(b) = "array"
       /\ c = "comma" => b.expect = "more"
       /\ c = "colon" => b.expect = "colon"

\* A character of structure that comes next.
LEMMA StructuralStarts ==
  ASSUME IInv, PicksInv, NEW c \in Structural, TextStructural(c)
  PROVE  \E b \in Readers :
           /\ Fits(b, phase, emitted_any) /\ b.due = <<>> /\ LegalAt(b, c)
           /\ json' = ReadStructural(b, c)
           /\ in_string <=> Inside(b)
           /\ status = "OK" /\ rest = <<>>
           /\ Scanned(c) /\ PushStructural(c)
<1>1. LegalStructural(c) /\ Scanned(c) /\ PushStructural(c)
      /\ json' = ReadStructural(NextToken, c)
  BY DEF TextStructural
<1>2. status = "OK" /\ rest = <<>>
  BY <1>1 DEF PushStructural, PushMalformed, PushWrapper, PushStringEnd, PushKeyEnd,
              PushSkippedEnd, PushInContainer, PushStringValue, PushKey,
              PushOtherString, PushRefused, PushContainerValue, PushOtherOpen,
              PushComma, PushClose, PushColon, Between, Advance, Pushable
<1>3. /\ NextToken \in Readers /\ NextToken.due = <<>>
      /\ SameText(json, NextToken)
      /\ Fits(NextToken, phase, emitted_any)
  BY <1>2, TokenStarts DEF IInv
<1> PICK j, b : j = json /\ b = NextToken
  OBVIOUS
<1>4. SameText(j, b)
  BY <1>3
<1>5. IF Inside(j) THEN c = Quote
      ELSE /\ c = Quote => J!MayStartValue(j) \/ J!MayStartKey(j)
           /\ c \in Opening => J!MayStartValue(j)
           /\ c = "rbrace" => J!TopKind(j) = "object"
           /\ c = "rbracket" => J!TopKind(j) = "array"
           /\ c = "comma" => j.expect = "more"
           /\ c = "colon" => j.expect = "colon"
  <2> HIDE DEF Inside
  <2> QED
    BY <1>1 DEF LegalStructural, AllowsStructural, Opening, Quote
<1>6. LegalAt(b, c)
  <2>1. /\ Inside(j) <=> Inside(b)
        /\ J!MayStartValue(j) <=> J!MayStartValue(b)
        /\ J!MayStartKey(j) <=> J!MayStartKey(b)
        /\ J!TopKind(j) = J!TopKind(b) /\ j.expect = b.expect
    BY <1>4 DEF SameText, Inside, J!MayStartValue, J!MayStartKey, J!TopKind, J!Last
  <2> QED
    BY <1>5, <2>1 DEF LegalAt
<1>7. in_string <=> Inside(b)
  BY <1>3 DEF Fits, PlaceFits
<1> QED
  BY <1>1, <1>2, <1>3, <1>6, <1>7

\* What a character that nesting takes does to the walk.
LEMMA AdvanceMoves ==
  ASSUME TypeOK, NEW c \in Structural, Scanned(c), Advance(c)
  PROVE  /\ path' = path /\ scalars_only' = scalars_only /\ rest' = <<>>
         /\ nesting' = Step(nesting, c) /\ Verdict(nesting, c) = "OK"
         /\ last_structural' = c
         /\ in_string' <=> c = Quote /\ ~ in_string
<1>1. /\ path' = path /\ scalars_only' = scalars_only /\ rest' = <<>>
      /\ nesting' = Step(nesting, c) /\ Verdict(nesting, c) = "OK"
      /\ last_structural' = c
  BY DEF Advance, Pushable, config
<1>2. in_string' <=> c = Quote /\ ~ in_string
  BY AdvanceWalks DEF Walked, TokensWalked
<1> QED
  BY <1>1, <1>2

\* The quote that ends a string.
LEMMA QuoteEndsPicks ==
  ASSUME IInv, NEW b \in Readers, Fits(b, phase, emitted_any), b.due = <<>>,
         Inside(b), in_string, json' = ReadStructural(b, Quote),
         Scanned(Quote), PushStructural(Quote)
  PROVE  CaughtUp'
<1>1. /\ Quote \in Structural /\ Quote \notin Opening /\ Quote \notin Closing
      /\ Quote # "lbracket" /\ Quote # "comma" /\ Quote # "colon"
  BY DEF Quote, Structural, Opening, Closing
<1>2. Verdict(nesting, Quote) = "OK" /\ Step(nesting, Quote) = nesting
  BY <1>1, OtherStep
<1>3. phase \notin {"BETWEEN", "SCALAR"} /\ TypeOK
  <2>1. status = "OK"
    BY DEF PushStructural, PushMalformed, PushWrapper, PushStringEnd, PushKeyEnd,
           PushSkippedEnd, PushInContainer, PushStringValue, PushKey,
           PushOtherString, PushRefused, PushContainerValue, PushOtherOpen,
           PushComma, PushClose, PushColon, Between, Advance, Pushable
  <2> QED
    BY <2>1 DEF IInv, PhaseFitsString
<1>4. \/ PushStringEnd(Quote)
      \/ PushKeyEnd(Quote)
      \/ PushSkippedEnd(Quote)
      \/ PushInContainer(Quote)
  BY <1>1, <1>2, <1>3
     DEF PushStructural, PushMalformed, PushWrapper, OpensWrapper, PushStringValue,
         PushKey, PushOtherString, PushRefused, PushContainerValue, PushOtherOpen,
         PushComma, PushClose, PushColon, Between
<1>5. Advance(Quote) /\ emitted_any' = emitted_any
  BY <1>4 DEF PushStringEnd, PushKeyEnd, PushSkippedEnd, PushInContainer
<1>6. /\ path' = path /\ rest' = <<>> /\ nesting' = nesting
      /\ last_structural' = Quote /\ ~ in_string'
  BY <1>1, <1>2, <1>3, <1>5, AdvanceMoves
<1>7. PICK p, e, q : p = phase /\ e = emitted_any
                     /\ q = IF p = "CONTAINER" THEN p ELSE "BETWEEN"
  OBVIOUS
<1>8. status = "OK"
  BY <1>5 DEF Advance, Pushable
<1>9. /\ p \in {"STRING", "KEY", "SKIP_STRING", "CONTAINER"}
      /\ p = "KEY" =>
           /\ segments_matched < Len(path)
           /\ nesting.depth = RecordDepth(nesting) + segments_matched + 1
           /\ segments_matched' =
                segments_matched + IF segment_text_left = <<>> THEN 1 ELSE 0
      /\ p # "KEY" => segments_matched' = segments_matched
      /\ p = "CONTAINER" => segments_matched = Len(path)
  <2>1. p \in {"STRING", "KEY", "SKIP_STRING", "CONTAINER"}
    BY <1>3, <1>7 DEF TypeOK, Phases
  <2>2. /\ p = "KEY" => /\ segments_matched < Len(path)
                        /\ nesting.depth = RecordDepth(nesting) + segments_matched + 1
        /\ p = "CONTAINER" => segments_matched = Len(path)
    BY <1>7, <1>8 DEF IInv, PhaseFitsWalk
  <2>3. /\ p = "KEY" => segments_matched' =
                          segments_matched + IF segment_text_left = <<>> THEN 1 ELSE 0
        /\ p # "KEY" => segments_matched' = segments_matched
    BY <1>4, <1>7 DEF PushStringEnd, PushKeyEnd, PushSkippedEnd, PushInContainer
  <2> QED
    BY <2>1, <2>2, <2>3
<1>10. PICK k : k = J!ReadStringEnd(b, Quote)
  OBVIOUS
<1>11. EndsString(k, b, Quote) /\ json' = k /\ k \in Readers
  <2>1. b.lex = "key" => b.frames # <<>>
    BY <1>3, KeyIsOpen DEF Fits, PlaceFits
  <2>2. EndsString(k, b, Quote)
    BY <1>1, <1>10, <2>1, StringEndReads
  <2> QED
    BY <1>10, <2>2 DEF ReadStructural, ReadStructuralFor, EndsString
<1>12. /\ Fits(k, q, e)'
       /\ k.due = IF p \in {"STRING", "CONTAINER"} THEN Append(b.due, Quote) ELSE b.due
  <2>1. Fits(b, p, e) /\ q = IF p = "CONTAINER" THEN p ELSE "BETWEEN"
    BY <1>7
  <2> QED
    BY <1>3, <1>6, <1>9, <1>11, <2>1, StringEndFits
<1>13. k.verdict = "OK"
  BY <1>11 DEF EndsString, Fits
<1>14. status' = "OK" => phase' = q
  BY <1>1, <1>4, <1>7 DEF PushStringEnd, PushKeyEnd, PushSkippedEnd, PushInContainer, EndsContainer
<1>15. status' = "OK" => Fits(json, phase, emitted_any)'
  BY <1>5, <1>7, <1>11, <1>12, <1>14, FitsNext
<1>16. CASE PushStringEnd(Quote) \/ PushInContainer(Quote)
  <2>1. Emit(<<>>, <<Quote>>) /\ p \in {"STRING", "CONTAINER"}
    BY <1>7, <1>16 DEF PushStringEnd, PushInContainer
  <2>2. <<Quote>> \in Seq(Piece)
    <3>1. Quote \in Piece
      BY <1>1 DEF Piece
    <3> QED
      BY <3>1
  <2>3. k.due = <<Quote>>
    BY <1>12, <2>1
  <2> QED
    BY <1>6, <1>11, <1>13, <1>15, <2>1, <2>2, <2>3, WroteWhatIsDue
<1>17. CASE PushKeyEnd(Quote) \/ PushSkippedEnd(Quote)
  <2>1. EmitNothing /\ k.due = <<>>
    BY <1>7, <1>12, <1>17 DEF PushKeyEnd, PushSkippedEnd
  <2>2. status' = "OK"
    BY <2>1 DEF EmitNothing
  <2> QED
    BY <1>6, <1>11, <1>15, <2>1, <2>2, NothingIsDue
<1> QED
  BY <1>4, <1>16, <1>17

\* Outside strings a bare scalar ends, and what was open besides stays so.
LEMMA ScalarEndFits ==
  ASSUME TypeOK, NEW b \in Readers, NEW p \in Spread, NEW e, Fits(b, p, e), ~ Inside(b),
         NEW l, l = J!EndScalar(b)
  PROVE  /\ l \in Readers /\ l.lex = "none" /\ l.due = b.due
         /\ l.frames = b.frames /\ l.expect = b.expect
         /\ Fits(l, IF p = "SCALAR" THEN "BETWEEN" ELSE p, e)
<1>1. /\ l \in Readers /\ l.frames = b.frames /\ l.expect = b.expect
      /\ l.text = b.text /\ l.base = b.base /\ l.begun = b.begun /\ l.due = b.due
      /\ l.verdict = b.verdict
      /\ l.lex = IF b.lex = "scalar" THEN "none" ELSE b.lex
      /\ l.picking = IF b.lex = "scalar" /\ b.picking = "scalar" THEN "none" ELSE b.picking
  BY EndScalarReads
<1>2. b.lex \in {"none", "scalar"} /\ (p # "CONTAINER" => l.picking = "none")
      /\ (p = "CONTAINER" => l.picking = "container")
  BY <1>1, ReaderFields DEF Fits, PickFits, Inside, Spread
<1>3. l.verdict = "OK" /\ l.begun = e /\ FramesFit(l) /\ MatchFits(l)
  BY <1>1 DEF Fits, FramesFit, MatchFits
<1>4. PlaceFits(l)
  BY <1>1, <1>2 DEF Fits, PlaceFits, Inside, J!MayStartKey, J!TopKind, J!Last
<1>5. PickFits(l, IF p = "SCALAR" THEN "BETWEEN" ELSE p)
  BY <1>1, <1>2 DEF Fits, PickFits, Spread
<1> QED
  BY <1>1, <1>2, <1>3, <1>4, <1>5 DEF Fits

-----------------------------------------------------------------------------
(* The quote that starts a string *)

\* What a quote outside strings starts: a key where one may start, or a value.
StartsString(k, l) ==
  /\ k \in Readers /\ k.frames = l.frames /\ k.expect = l.expect
  /\ k.text = l.text /\ k.verdict = l.verdict
  /\ J!MayStartKey(l) =>
       /\ k.lex = "key" /\ k.picking = l.picking /\ k.base = l.base
       /\ k.begun = l.begun /\ k.due = J!Copied(l, Quote)
  /\ ~ J!MayStartKey(l) => k.lex = "string" /\ Begun(k, l, Quote, path, "string")

\* What a reader makes of the quote that starts one.
LEMMA StringStartReads ==
  ASSUME NEW b, NEW l \in Readers, l = J!EndScalar(b)
  PROVE  StartsString(J!ReadStringStart(b, Quote, path, Separator), l)
<1> DEFINE k == J!ReadStringStart(b, Quote, path, Separator)
           g == J!Begin(l, Quote, path, "string", Separator)
<1>1. k = IF J!MayStartKey(l)
            THEN [l EXCEPT !.lex = "key", !.due = J!Copied(l, Quote)]
            ELSE [g EXCEPT !.lex = "string"]
  BY DEF J!ReadStringStart
<1>2. Quote \in Piece
  BY DEF Piece, Structural, Quote
<1>3. J!Copied(l, Quote) \in Seq(Piece)
  BY <1>2, CopiedType
<1>4. Begun(g, l, Quote, path, "string") /\ g.expect = l.expect /\ g.lex = l.lex
  BY <1>2, BeginReads
<1> HIDE DEF k, g
<1>5. CASE J!MayStartKey(l)
  <2> HIDE DEF J!MayStartKey
  <2>1. k = [l EXCEPT !.lex = "key", !.due = J!Copied(l, Quote)]
    BY <1>1, <1>5
  <2>2. StartsString(k, l)
    BY <1>3, <1>5, <2>1 DEF StartsString, Readers
  <2> QED
    BY <2>2 DEF k
<1>6. CASE ~ J!MayStartKey(l)
  <2>1. k = [g EXCEPT !.lex = "string"]
    BY <1>1, <1>6
  <2>2. g \in Readers
    BY <1>4 DEF Begun
  <2>3. /\ k \in Readers /\ k.lex = "string" /\ k.frames = g.frames
        /\ k.expect = g.expect /\ k.text = g.text /\ k.verdict = g.verdict
        /\ k.picking = g.picking /\ k.base = g.base /\ k.begun = g.begun
        /\ k.due = g.due
    BY <2>1, <2>2 DEF Readers
  <2>4. StartsString(k, l)
    BY <1>4, <1>6, <2>3 DEF StartsString, Begun
  <2> QED
    BY <2>4 DEF k
<1> QED
  BY <1>5, <1>6

\* A reader between tokens, out of strings and bare scalars.
StandsBetween(l, q, e) ==
  /\ l \in Readers /\ l.lex = "none" /\ l.due = <<>>
  /\ q \in {"BETWEEN", "CONTAINER"}
  /\ Fits(l, q, e)

\* The phase in which a quote leaves a walk that stood between values.
StringPhase ==
  IF AtValue THEN "STRING" ELSE IF AtKey THEN "KEY" ELSE "SKIP_STRING"

\* Past a string's first quote.
LEMMA StringStartFits ==
  ASSUME TypeOK, NEW l, NEW q, NEW e, StandsBetween(l, q, e),
         J!MayStartValue(l) \/ J!MayStartKey(l), NEW k, StartsString(k, l),
         path' = path, nesting' = nesting, segments_matched' = segments_matched,
         last_structural' = Quote, in_string',
         q = "BETWEEN" /\ ~ AtValue /\ AtKey => segment_text_left' = NextSegment,
         NEW n, n = IF q = "CONTAINER" THEN q ELSE StringPhase,
         NEW f, f = IF q = "BETWEEN" /\ AtValue THEN TRUE ELSE e
  PROVE  /\ Fits(k, n, f)'
         /\ k.due = IF q = "CONTAINER" THEN Append(l.due, Quote)
                    ELSE IF AtValue THEN FirstDue(l, Quote) ELSE l.due
<1>1. /\ FramesFit(l) /\ MatchFits(l) /\ PlaceFits(l) /\ PickFits(l, q)
      /\ l.verdict = "OK" /\ l.begun = e /\ ~ Inside(l) /\ l \in Readers
      /\ l.lex = "none" /\ q \in {"BETWEEN", "CONTAINER"}
  BY DEF StandsBetween, Fits, Inside
<1>2. /\ k \in Readers /\ k.frames = l.frames /\ k.expect = l.expect
      /\ k.text = l.text /\ k.verdict = l.verdict
      /\ J!MayStartKey(l) =>
           /\ k.lex = "key" /\ k.picking = l.picking /\ k.base = l.base
           /\ k.begun = l.begun /\ k.due = J!Copied(l, Quote)
      /\ ~ J!MayStartKey(l) => k.lex = "string" /\ Begun(k, l, Quote, path, "string")
  BY DEF StartsString
<1>3. /\ KeyComesNext <=> J!MayStartKey(l)
      /\ l.text = <<>>
      /\ J!MayStartKey(k) <=> J!MayStartKey(l)
  BY <1>1, <1>2 DEF PlaceFits, J!MayStartKey, J!TopKind, J!Last, J!NoKey
<1>4. ASSUME ~ J!MayStartKey(l) PROVE Picks(l, path) <=> l.picking = "none" /\ AtValue
  BY <1>1, <1>4, PickedIsAtValue DEF Picks
<1>5. AtValue => ~ J!MayStartKey(l)
  BY <1>3 DEF AtValue
<1>6. FramesFit(k)' /\ MatchFits(k)'
  BY <1>1, <1>2 DEF FramesFit, MatchFits
<1>7. PlaceFits(k)'
  <2>1. Inside(k)
    BY <1>2 DEF Inside
  <2>2. k.text = J!NoKey /\ (k.lex = "key" => J!MayStartKey(k))
    BY <1>2, <1>3 DEF J!NoKey
  <2>3. J!MayStartKey(k) => k.frames[Len(k.frames)].key = J!NoKey
    BY <1>1, <1>2, <1>3 DEF PlaceFits
  <2>4. k.lex # "scalar"
    BY <1>2
  <2> HIDE DEF Inside, J!MayStartKey
  <2> QED
    BY <2>1, <2>2, <2>3, <2>4 DEF PlaceFits
<1>8. ValueDepth' = ValueDepth
  BY DEF ValueDepth
<1>9. CASE q = "CONTAINER"
  <2>1. l.picking = "container" /\ l.base = ValueDepth
    BY <1>1, <1>9 DEF PickFits
  <2>2. k.picking = l.picking /\ k.base = l.base /\ k.begun = l.begun
        /\ k.due = J!Copied(l, Quote)
    BY <1>2, <1>4, <2>1 DEF Begun
  <2>3. Fits(k, "CONTAINER", e)'
    BY <1>1, <1>2, <1>6, <1>7, <1>8, <2>1, <2>2 DEF Fits, PickFits
  <2>4. n = "CONTAINER" /\ f = e
    BY <1>9
  <2> QED
    BY <1>9, <2>1, <2>2, <2>3, <2>4 DEF J!Copied
<1>10. CASE q = "BETWEEN" /\ AtValue
  <2>1. l.picking = "none" /\ Picks(l, path)
    BY <1>1, <1>4, <1>5, <1>10 DEF PickFits
  <2>2. k.picking = "string" /\ k.lex = "string" /\ k.begun = TRUE
        /\ k.due = FirstDue(l, Quote)
    BY <1>2, <1>5, <1>10, <2>1 DEF Begun
  <2>3. Fits(k, "STRING", TRUE)'
    BY <1>1, <1>2, <1>6, <1>7, <2>2 DEF Fits, PickFits
  <2>4. n = "STRING" /\ f = TRUE
    BY <1>10 DEF StringPhase
  <2> QED
    BY <1>10, <2>2, <2>3, <2>4
<1>11. CASE q = "BETWEEN" /\ ~ AtValue
  <2>1. l.picking = "none" /\ n = StringPhase /\ f = e
    BY <1>1, <1>11 DEF PickFits
  <2>2. k.picking = "none" /\ k.begun = e /\ k.due = l.due
    BY <1>1, <1>2, <1>4, <1>11, <2>1 DEF Begun, J!Copied
  <2>3. CASE AtKey
    <3>1. k.lex = "key"
      BY <1>2, <1>3, <2>3 DEF AtKey
    <3>2. k.text \o segment_text_left' = path[segments_matched + 1]
      <4>1. path[segments_matched + 1] \in Seq(Octet)
        BY <2>3, Segments DEF AtKey
      <4>2. segment_text_left' = path[segments_matched + 1]
        BY <1>11, <2>3 DEF NextSegment
      <4> QED
        BY <1>2, <1>3, <4>1, <4>2, ConcatEmptySeq
    <3>3. Fits(k, "KEY", e)'
      BY <1>1, <1>2, <1>6, <1>7, <2>2, <3>1, <3>2 DEF Fits, PickFits
    <3>4. n = "KEY"
      BY <1>11, <2>1, <2>3 DEF StringPhase
    <3> QED
      BY <1>11, <2>1, <2>2, <3>3, <3>4
  <2>4. CASE ~ AtKey
    <3>1. k.lex \in {"key", "string"}
      BY <1>2
    <3>2. ~ (/\ k.lex = "key"
             /\ segments_matched < Len(path)
             /\ nesting.depth = RecordDepth(nesting) + segments_matched + 1)
      BY <1>2, <1>3, <2>4 DEF AtKey
    <3>3. Fits(k, "SKIP_STRING", e)'
      BY <1>1, <1>2, <1>6, <1>7, <2>2, <3>1, <3>2 DEF Fits, PickFits
    <3>4. n = "SKIP_STRING"
      BY <1>11, <2>1, <2>4 DEF StringPhase
    <3> QED
      BY <1>11, <2>1, <2>2, <3>3, <3>4
  <2> QED
    BY <2>3, <2>4
<1> QED
  BY <1>1, <1>9, <1>10, <1>11

\* Outside strings a walk stands between values or in a container.
LEMMA PhaseOutside ==
  ASSUME TypeOK, NEW b \in Readers, NEW p \in Phases, NEW e, Fits(b, p, e), ~ Inside(b)
  PROVE  p \in Spread
BY DEF Fits, PickFits, Inside, Spread, Phases

\* What a separator and a first octet put out.
LEMMA FirstPieces ==
  ASSUME TypeOK, NEW l \in Readers, l.due = <<>>, l.begun = emitted_any, NEW c \in Structural
  PROVE  /\ FirstDue(l, c) = SeparatorDue \o <<c>>
         /\ SeparatorDue \o <<c>> \in Seq(Piece)
         /\ <<c>> \in Seq(Piece)
         /\ Append(l.due, c) = <<c>>
<1>1. SeparatorDue \in Seq(Piece) /\ <<c>> \in Seq(Piece)
  <2>1. Separator \in Piece /\ c \in Piece
    BY DEF Piece
  <2>2. <<Separator>> \in Seq(Piece) /\ <<c>> \in Seq(Piece) /\ <<>> \in Seq(Piece)
    BY <2>1
  <2> QED
    BY <2>2 DEF SeparatorDue
<1>2. FirstDue(l, c) = (<<>> \o SeparatorDue) \o <<c>>
  BY DEF FirstDue, SeparatorDue
<1>3. <<>> \o SeparatorDue = SeparatorDue
  BY <1>1, ConcatEmptySeq
<1>4. SeparatorDue \o <<c>> \in Seq(Piece)
  BY <1>1, ConcatProperties
<1> QED
  BY <1>1, <1>2, <1>3, <1>4

\* The quote that starts a string.
LEMMA QuoteStartsPicks ==
  ASSUME IInv, NEW b \in Readers, Fits(b, phase, emitted_any), b.due = <<>>,
         ~ Inside(b), ~ in_string, LegalAt(b, Quote), json' = ReadStructural(b, Quote),
         Scanned(Quote), PushStructural(Quote), status = "OK"
  PROVE  CaughtUp'
<1>1. /\ Quote \in Structural /\ Quote \notin Opening /\ Quote \notin Closing
      /\ Quote # "lbracket" /\ Quote # "comma" /\ Quote # "colon"
  BY DEF Quote, Structural, Opening, Closing
<1>2. Verdict(nesting, Quote) = "OK" /\ Step(nesting, Quote) = nesting
  BY <1>1, OtherStep
<1>3. phase \in Spread /\ TypeOK
  BY PhaseOutside DEF IInv, TypeOK
<1>4. \/ PushInContainer(Quote)
      \/ PushStringValue(Quote)
      \/ PushKey(Quote)
      \/ PushOtherString(Quote)
  BY <1>1, <1>2, <1>3
     DEF PushStructural, PushMalformed, PushWrapper, OpensWrapper, PushStringEnd,
         PushKeyEnd, PushSkippedEnd, PushRefused, PushContainerValue, PushOtherOpen,
         PushComma, PushClose, PushColon, Between, Spread
<1>5. Advance(Quote) /\ segments_matched' = segments_matched
  BY <1>4 DEF PushInContainer, PushStringValue, PushKey, PushOtherString, Between
<1>6. /\ path' = path /\ rest' = <<>> /\ nesting' = nesting
      /\ last_structural' = Quote /\ in_string'
  BY <1>1, <1>2, <1>3, <1>5, AdvanceMoves
<1>7. PICK p, e, l, q :
        /\ p = phase /\ e = emitted_any /\ l = J!EndScalar(b)
        /\ q = IF p = "SCALAR" THEN "BETWEEN" ELSE p
  OBVIOUS
<1>8. StandsBetween(l, q, e) /\ l.frames = b.frames /\ l.expect = b.expect
  <2>1. Fits(b, p, e) /\ p \in Spread
    BY <1>3, <1>7
  <2>2. /\ l \in Readers /\ l.lex = "none" /\ l.due = b.due
        /\ l.frames = b.frames /\ l.expect = b.expect
        /\ Fits(l, q, e)
    BY <1>3, <1>7, <2>1, ScalarEndFits
  <2>3. q \in {"BETWEEN", "CONTAINER"}
    BY <1>7, <2>1 DEF Spread
  <2> QED
    BY <2>2, <2>3 DEF StandsBetween
<1>9. J!MayStartValue(l) \/ J!MayStartKey(l)
  BY <1>8 DEF LegalAt, J!MayStartValue, J!MayStartKey, J!TopKind, J!Last
<1>10. PICK k : k = J!ReadStringStart(b, Quote, path, Separator)
  OBVIOUS
<1>11. StartsString(k, l) /\ json' = k /\ k \in Readers
  <2>1. l \in Readers
    BY <1>8 DEF StandsBetween
  <2>2. StartsString(k, l)
    BY <1>7, <1>10, <2>1, StringStartReads
  <2> QED
    BY <1>1, <1>10, <2>2 DEF ReadStructural, ReadStructuralFor, StartsString
<1>12. q = "BETWEEN" /\ ~ AtValue /\ AtKey => segment_text_left' = NextSegment
  BY <1>1, <1>4, <1>7 DEF PushInContainer, PushStringValue, PushKey, PushOtherString
<1>13. PICK n, f : /\ n = IF q = "CONTAINER" THEN q ELSE StringPhase
                   /\ f = IF q = "BETWEEN" /\ AtValue THEN TRUE ELSE e
  OBVIOUS
<1>14. /\ Fits(k, n, f)'
       /\ k.due = IF q = "CONTAINER" THEN Append(l.due, Quote)
                  ELSE IF AtValue THEN FirstDue(l, Quote) ELSE l.due
  BY <1>3, <1>5, <1>6, <1>8, <1>9, <1>11, <1>12, <1>13, StringStartFits
<1>15. l \in Readers /\ l.due = <<>> /\ l.begun = emitted_any /\ k.verdict = "OK"
  BY <1>7, <1>8, <1>11 DEF StandsBetween, Fits, StartsString
<1>16. /\ FirstDue(l, Quote) = SeparatorDue \o <<Quote>>
       /\ SeparatorDue \o <<Quote>> \in Seq(Piece)
       /\ <<Quote>> \in Seq(Piece)
       /\ Append(l.due, Quote) = <<Quote>>
  BY <1>1, <1>3, <1>15, FirstPieces
<1>17. CASE PushInContainer(Quote)
  <2>1. q = "CONTAINER" /\ Emit(<<>>, <<Quote>>) /\ emitted_any' = e /\ n = "CONTAINER" /\ f = e
    BY <1>7, <1>13, <1>17 DEF PushInContainer
  <2>2. phase' = n
    BY <1>1, <1>17, <2>1 DEF PushInContainer, EndsContainer
  <2>3. Fits(json, phase, emitted_any)'
    BY <1>11, <1>14, <2>1, <2>2, FitsNext
  <2>4. k.due = <<Quote>>
    BY <1>14, <1>16, <2>1
  <2> QED
    BY <1>6, <1>11, <1>15, <1>16, <2>1, <2>3, <2>4, WroteWhatIsDue
<1>18. CASE PushStringValue(Quote)
  <2>1. /\ q = "BETWEEN" /\ AtValue /\ Emit(<<>>, SeparatorDue \o <<Quote>>)
        /\ emitted_any' = TRUE /\ phase' = "STRING"
    BY <1>3, <1>7, <1>18 DEF PushStringValue, Between, BeginValue
  <2>2. n = "STRING" /\ f = TRUE
    BY <1>13, <2>1 DEF StringPhase
  <2>3. Fits(json, phase, emitted_any)'
    BY <1>11, <1>14, <2>1, <2>2, FitsNext
  <2>4. k.due = SeparatorDue \o <<Quote>>
    BY <1>14, <1>16, <2>1
  <2>5. PICK d : d = SeparatorDue \o <<Quote>>
    OBVIOUS
  <2>6. d \in Seq(Piece) /\ Emit(<<>>, d) /\ k.due = d
    BY <1>16, <2>1, <2>4, <2>5
  <2> QED
    BY <1>6, <1>11, <1>15, <2>3, <2>6, WroteWhatIsDue
<1>19. CASE PushKey(Quote) \/ PushOtherString(Quote)
  <2>1. q = "BETWEEN" /\ ~ AtValue /\ EmitNothing /\ emitted_any' = e
    BY <1>3, <1>7, <1>19 DEF PushKey, PushOtherString, Between
  <2>2. phase' = n /\ f = e
    BY <1>13, <1>19, <2>1 DEF PushKey, PushOtherString, StringPhase
  <2>3. Fits(json, phase, emitted_any)'
    BY <1>11, <1>14, <2>1, <2>2, FitsNext
  <2>4. k.due = <<>>
    BY <1>14, <1>15, <2>1
  <2> QED
    BY <1>6, <1>11, <2>1, <2>3, <2>4, NothingIsDue
<1> QED
  BY <1>4, <1>17, <1>18, <1>19

-----------------------------------------------------------------------------
(* What a push writes of its own character *)

\* A push that wrote its character inside a picked container, or nothing elsewhere.
LEMMA OneOrNothingPicks ==
  ASSUME NEW c \in Structural, NEW k \in Readers, json' = k, rest' = <<>>,
         k.verdict = "OK", NEW q,
         q = "CONTAINER" => Emit(<<>>, <<c>>) /\ k.due = <<c>>,
         q # "CONTAINER" => EmitNothing /\ k.due = <<>>,
         status' = "OK" => Fits(json, phase, emitted_any)'
  PROVE  CaughtUp'
<1>1. CASE q = "CONTAINER"
  <2>1. <<c>> \in Seq(Piece)
    <3>1. c \in Piece
      BY DEF Piece
    <3> QED
      BY <3>1
  <2>2. PICK d : d = <<c>>
    OBVIOUS
  <2>3. d \in Seq(Piece) /\ Emit(<<>>, d) /\ k.due = d
    BY <1>1, <2>1, <2>2
  <2> QED
    BY <2>3, WroteWhatIsDue
<1>2. CASE q # "CONTAINER"
  <2>1. EmitNothing /\ k.due = <<>> /\ status' = "OK"
    BY <1>2 DEF EmitNothing
  <2> QED
    BY <2>1, NothingIsDue
<1> QED
  BY <1>1, <1>2

\* The innermost container is the top of the frames.
LEMMA InnermostFits ==
  ASSUME TypeOK, NEW j \in Readers, FramesFit(j)
  PROVE  /\ InnermostIsObject(nesting) <=> J!TopKind(j) = "object"
         /\ Len(j.frames) = nesting.depth
         /\ j.frames # <<>> <=> nesting.depth # 0
         /\ Empty(nesting) <=> j.frames = <<>>
         /\ j.frames # <<>> => Top(nesting) <=> J!TopKind(j) = "object"
<1>1. nesting.depth \in Nat /\ Len(j.frames) = nesting.depth /\ j.frames \in Seq(Frame)
  BY WrapDepth, ReaderFields
<1>2. j.frames # <<>> <=> nesting.depth # 0
  BY <1>1, EmptySeq
<1>3. Empty(nesting) <=> j.frames = <<>>
  BY <1>2 DEF Empty
<1>4. ASSUME j.frames # <<>>
      PROVE  Top(nesting) <=> J!TopKind(j) = "object"
  <2>1. nesting.depth \in 1 .. nesting.depth
    BY <1>1, <1>2, <1>4
  <2>2. j.frames[nesting.depth].kind = "object" <=> At(nesting, nesting.depth - 1)
    BY <2>1 DEF FramesFit
  <2> QED
    BY <1>1, <1>4, <2>2 DEF J!TopKind, J!Last, Top, At
<1>5. j.frames = <<>> => J!TopKind(j) # "object"
  BY DEF J!TopKind
<1> QED
  BY <1>1, <1>2, <1>3, <1>4, <1>5 DEF InnermostIsObject

\* The walk that stood between values, or in a container, and reads on outside
\* strings with nothing begun or ended.
LEMMA PickFitsOn ==
  ASSUME NEW l, NEW q, NEW e, StandsBetween(l, q, e), NEW k, k.lex = "none",
         k.picking = l.picking, k.base = l.base, ValueDepth' = ValueDepth
  PROVE  PickFits(k, q)'
<1>1. q \in {"BETWEEN", "CONTAINER"} /\ PickFits(l, q)
  BY DEF StandsBetween, Fits
<1>2. /\ q = "BETWEEN" => k.picking = "none"
      /\ q = "CONTAINER" => k.picking = "container" /\ k.base = ValueDepth
  BY <1>1 DEF PickFits
<1> QED
  BY <1>1, <1>2 DEF PickFits

\* What is put out of a character there.
LEMMA CopiedThere ==
  ASSUME NEW l, NEW q, NEW e, StandsBetween(l, q, e), NEW c \in Structural
  PROVE  /\ q = "CONTAINER" => J!Copied(l, c) = <<c>>
         /\ q # "CONTAINER" => J!Copied(l, c) = <<>>
         /\ J!Copied(l, c) \in Seq(Piece)
<1>1. /\ q = "BETWEEN" => l.picking = "none"
      /\ q = "CONTAINER" => l.picking = "container"
      /\ l.due = <<>> /\ q \in {"BETWEEN", "CONTAINER"} /\ l \in Readers
  BY DEF StandsBetween, Fits, PickFits
<1>2. c \in Piece
  BY DEF Piece
<1>3. J!Copied(l, c) \in Seq(Piece)
  BY <1>1, <1>2, CopiedType
<1>4. Append(<<>>, c) = <<c>>
  OBVIOUS
<1> QED
  BY <1>1, <1>3, <1>4 DEF J!Copied

-----------------------------------------------------------------------------
(* The colon and the comma *)

\* A value may follow.
LEMMA ValueFollows ==
  ASSUME TypeOK, NEW l, NEW q, NEW e, StandsBetween(l, q, e),
         NEW c \in {"comma", "colon"}, NEW k,
         k = [l EXCEPT !.due = J!Copied(l, c), !.expect = "value"],
         c = "comma" => J!TopKind(l) # "object",
         path' = path, nesting' = nesting, segments_matched' = segments_matched,
         last_structural' = c, ~ in_string'
  PROVE  k \in Readers /\ k.verdict = "OK" /\ k.due = J!Copied(l, c) /\ Fits(k, q, e)'
<1>1. /\ FramesFit(l) /\ MatchFits(l) /\ PlaceFits(l) /\ PickFits(l, q)
      /\ l.verdict = "OK" /\ l.begun = e /\ l.lex = "none" /\ l \in Readers
  BY DEF StandsBetween, Fits
<1>2. J!Copied(l, c) \in Seq(Piece)
  <2>1. c \in Structural
    BY DEF Structural
  <2> QED
    BY <2>1, CopiedThere
<1>3. /\ k \in Readers /\ k.frames = l.frames /\ k.expect = "value"
      /\ k.text = l.text /\ k.verdict = l.verdict /\ k.lex = l.lex
      /\ k.picking = l.picking /\ k.base = l.base /\ k.begun = l.begun
      /\ k.due = J!Copied(l, c)
  BY <1>1, <1>2 DEF Readers
<1>4. FramesFit(k)' /\ MatchFits(k)'
  BY <1>1, <1>3 DEF FramesFit, MatchFits
<1>5. PlaceFits(k)'
  <2>1. ~ KeyComesNext'
    <3>1. c = "comma" => ~ InnermostIsObject(nesting)
      BY <1>1, InnermostFits
    <3> QED
      BY <3>1 DEF KeyComesNext
  <2>2. ~ Inside(k) /\ ~ J!MayStartKey(k) /\ k.text = J!NoKey
    BY <1>1, <1>3 DEF PlaceFits, Inside, J!MayStartKey
  <2> QED
    BY <1>1, <1>3, <2>1, <2>2 DEF PlaceFits
<1>6. PickFits(k, q)'
  <2>1. ValueDepth' = ValueDepth
    BY DEF ValueDepth
  <2> QED
    BY <1>1, <1>3, <2>1, PickFitsOn
<1> QED
  BY <1>1, <1>3, <1>4, <1>5, <1>6 DEF Fits

\* k is l past the comma of an object.
NextKey(l) == [l EXCEPT !.due = J!Copied(l, "comma"), !.expect = "key",
                        !.frames = Rekeyed(l.frames, J!NoKey)]

\* A key may follow.
LEMMA KeyFollows ==
  ASSUME TypeOK, NEW l, NEW q, NEW e, StandsBetween(l, q, e),
         NEW k, k = NextKey(l), J!TopKind(l) = "object",
         path' = path, nesting' = nesting, last_structural' = "comma", ~ in_string',
         segments_matched' =
           IF segments_matched > 0
                /\ nesting.depth = RecordDepth(nesting) + segments_matched
             THEN segments_matched - 1 ELSE segments_matched
  PROVE  k \in Readers /\ k.verdict = "OK" /\ k.due = J!Copied(l, "comma") /\ Fits(k, q, e)'
<1>1. /\ FramesFit(l) /\ MatchFits(l) /\ PlaceFits(l) /\ PickFits(l, q)
      /\ l.verdict = "OK" /\ l.begun = e /\ l.lex = "none" /\ l \in Readers
  BY DEF StandsBetween, Fits
<1>2. J!Copied(l, "comma") \in Seq(Piece)
  <2>1. "comma" \in Structural
    BY DEF Structural
  <2> QED
    BY <2>1, CopiedThere
<1>3. /\ l.frames # <<>> /\ l.frames \in Seq(Frame)
      /\ Len(l.frames) = nesting.depth
      /\ l.frames[Len(l.frames)].kind = "object"
      /\ InnermostIsObject(nesting)
  <2>1. l.frames # <<>> /\ l.frames[Len(l.frames)].kind = "object"
    BY DEF J!TopKind, J!Last
  <2> QED
    BY <1>1, <2>1, InnermostFits, ReaderFields
<1>4. PICK g : g = Rekeyed(l.frames, J!NoKey)
  OBVIOUS
<1>5. /\ g \in Seq(Frame) /\ Len(g) = Len(l.frames)
      /\ \A i \in 1 .. Len(l.frames) : g[i].kind = l.frames[i].kind
      /\ g[Len(l.frames)].key = J!NoKey
  <2>1. PICK f, t : f = l.frames /\ t = <<>>
    OBVIOUS
  <2>2. f \in Seq(Frame) /\ f # <<>> /\ t \in Seq(Octet) /\ g = Rekeyed(f, t) /\ t = J!NoKey
    BY <1>3, <1>4, <2>1, EmptySeq DEF J!NoKey
  <2>3. /\ g \in Seq(Frame) /\ Len(g) = Len(f)
        /\ \A i \in 1 .. Len(f) : g[i].kind = f[i].kind
        /\ g[Len(f)].key = t
    BY <2>2, RekeyedType
  <2> QED
    BY <2>1, <2>2, <2>3
<1>6. /\ k \in Readers /\ k.frames = g /\ k.expect = "key"
      /\ k.text = l.text /\ k.verdict = l.verdict /\ k.lex = l.lex
      /\ k.picking = l.picking /\ k.base = l.base /\ k.begun = l.begun
      /\ k.due = J!Copied(l, "comma")
  <2>1. k = [l EXCEPT !.due = J!Copied(l, "comma"), !.expect = "key", !.frames = g]
    BY <1>4 DEF NextKey
  <2> QED
    BY <1>1, <1>2, <1>5, <2>1 DEF Readers
<1>7. FramesFit(k)'
  BY <1>1, <1>5, <1>6 DEF FramesFit
<1>8. MatchFits(k)'
  <2>1. PICK f, s, r, m : /\ f = l.frames /\ s = path /\ r = RecordDepth(nesting)
                          /\ m = segments_matched
    OBVIOUS
  <2>2. /\ f \in Seq(Frame) /\ s \in Seq(Seq(Octet)) /\ r \in {0, 1}
        /\ \A i \in 1 .. Len(s) : s[i] # <<>>
        /\ f # <<>> /\ Spells(f, s, r, m)
    BY <1>1, <1>3, <2>1, Segments, Numbers DEF MatchFits
  <2>3. Spells(Rekeyed(f, <<>>), s, r, IF m > 0 /\ Len(f) = r + m THEN m - 1 ELSE m)
    BY <2>2, SpellsComma
  <2>4. segments_matched' = IF m > 0 /\ Len(f) = r + m THEN m - 1 ELSE m
    BY <1>3, <2>1
  <2>5. k.frames = Rekeyed(f, <<>>)
    BY <1>4, <1>6, <2>1 DEF J!NoKey
  <2> QED
    BY <2>1, <2>3, <2>4, <2>5 DEF MatchFits
<1>9. PlaceFits(k)'
  <2>1. KeyComesNext'
    BY <1>3 DEF KeyComesNext
  <2>2. g # <<>> /\ g[Len(g)].kind = "object" /\ g[Len(g)].key = J!NoKey
    <3>1. Len(l.frames) \in 1 .. Len(l.frames)
      BY <1>3, LenProperties, EmptySeq
    <3>2. Len(g) # 0
      BY <1>5, <3>1
    <3> QED
      BY <1>3, <1>5, <3>1, <3>2, EmptySeq
  <2>3. J!MayStartKey(k)
    BY <1>6, <2>2 DEF J!MayStartKey, J!TopKind, J!Last
  <2>4. ~ Inside(k) /\ k.text = J!NoKey /\ k.lex = "none"
    BY <1>1, <1>6 DEF PlaceFits, Inside
  <2> HIDE DEF J!MayStartKey, Inside
  <2> QED
    BY <1>6, <2>1, <2>2, <2>3, <2>4 DEF PlaceFits
<1>10. PickFits(k, q)'
  <2>1. ValueDepth' = ValueDepth
    BY DEF ValueDepth
  <2> QED
    BY <1>1, <1>6, <2>1, PickFitsOn
<1> QED
  BY <1>1, <1>6, <1>7, <1>9, <1>8, <1>10 DEF Fits

\* The colon after a key.
LEMMA ColonPicks ==
  ASSUME IInv, NEW b \in Readers, Fits(b, phase, emitted_any), b.due = <<>>,
         ~ Inside(b), ~ in_string, LegalAt(b, "colon"),
         json' = ReadStructural(b, "colon"),
         Scanned("colon"), PushStructural("colon"), status = "OK"
  PROVE  CaughtUp'
<1> DEFINE c == "colon"
<1>1. c \in Structural /\ c \notin Opening /\ c \notin Closing /\ c # Quote
      /\ c # "lbracket" /\ c # "comma"
  BY DEF Quote, Structural, Opening, Closing
<1>2. Verdict(nesting, c) = "OK" /\ Step(nesting, c) = nesting
  BY <1>1, OtherStep
<1>3. phase \in Spread /\ TypeOK
  BY PhaseOutside DEF IInv, TypeOK
<1>4. PushInContainer(c) \/ PushColon(c)
  BY <1>1, <1>2, <1>3
     DEF PushStructural, PushMalformed, PushWrapper, OpensWrapper, PushStringEnd,
         PushKeyEnd, PushSkippedEnd, PushStringValue, PushKey, PushOtherString,
         PushRefused, PushContainerValue, PushOtherOpen,
         PushComma, PushClose, Between, Spread
<1>5. Advance(c) /\ segments_matched' = segments_matched /\ emitted_any' = emitted_any
  BY <1>4 DEF PushInContainer, PushColon, Between
<1>6. /\ path' = path /\ rest' = <<>> /\ nesting' = nesting
      /\ last_structural' = c /\ ~ in_string'
  BY <1>1, <1>2, <1>3, <1>5, AdvanceMoves
<1>7. PICK q, e : q = phase /\ e = emitted_any
  OBVIOUS
<1>8. StandsBetween(b, q, e)
  <2>1. b.expect = "colon"
    BY <1>1 DEF LegalAt
  <2>2. Fits(b, q, e) /\ q \in Spread
    BY <1>3, <1>7
  <2>3. b.lex = "none"
    BY <2>1, <2>2, ReaderFields DEF Fits, PlaceFits, Inside
  <2>4. q # "SCALAR"
    BY <2>2, <2>3 DEF Fits, PickFits
  <2> QED
    BY <2>2, <2>3, <2>4 DEF StandsBetween, Spread
<1>9. PICK k : k = [b EXCEPT !.due = J!Copied(b, c), !.expect = "value"]
  OBVIOUS
<1>10. json' = k
  <2>1. json' = J!ReadColon(b, c)
    BY <1>1 DEF ReadStructural, ReadStructuralFor
  <2> QED
    BY <1>9, <2>1 DEF J!ReadColon
<1>11. k \in Readers /\ k.verdict = "OK" /\ k.due = J!Copied(b, c) /\ Fits(k, q, e)'
  BY <1>3, <1>5, <1>6, <1>8, <1>9, ValueFollows
<1>12. /\ q = "CONTAINER" => J!Copied(b, c) = <<c>>
       /\ q # "CONTAINER" => J!Copied(b, c) = <<>>
  BY <1>1, <1>8, CopiedThere
<1>13. /\ q = "CONTAINER" => Emit(<<>>, <<c>>)
       /\ q # "CONTAINER" => EmitNothing
       /\ phase' = q
  <2>1. q \in {"BETWEEN", "CONTAINER"}
    BY <1>8 DEF StandsBetween
  <2> QED
    BY <1>1, <1>4, <1>7, <2>1 DEF PushInContainer, PushColon, Between, EndsContainer
<1>14. Fits(json, phase, emitted_any)'
  BY <1>5, <1>7, <1>10, <1>11, <1>13, FitsNext
<1> QED
  BY <1>1, <1>6, <1>10, <1>11, <1>12, <1>13, <1>14, OneOrNothingPicks

\* The comma between two elements, or two members.
LEMMA CommaPicks ==
  ASSUME IInv, NEW b \in Readers, Fits(b, phase, emitted_any), b.due = <<>>,
         ~ Inside(b), ~ in_string, json' = ReadStructural(b, "comma"),
         Scanned("comma"), PushStructural("comma"), status = "OK"
  PROVE  CaughtUp'
<1> DEFINE c == "comma"
<1>1. c \in Structural /\ c \notin Opening /\ c \notin Closing /\ c # Quote
      /\ c # "lbracket" /\ c # "colon"
  BY DEF Quote, Structural, Opening, Closing
<1>2. Verdict(nesting, c) = "OK" /\ Step(nesting, c) = nesting
  BY <1>1, OtherStep
<1>3. phase \in Spread /\ TypeOK
  BY PhaseOutside DEF IInv, TypeOK
<1>4. PushInContainer(c) \/ PushComma(c)
  BY <1>1, <1>2, <1>3
     DEF PushStructural, PushMalformed, PushWrapper, OpensWrapper, PushStringEnd,
         PushKeyEnd, PushSkippedEnd, PushStringValue, PushKey, PushOtherString,
         PushRefused, PushContainerValue, PushOtherOpen,
         PushColon, PushClose, Between, Spread
<1>5. Advance(c) /\ emitted_any' = emitted_any
  BY <1>4 DEF PushInContainer, PushComma, Between
<1>6. /\ path' = path /\ rest' = <<>> /\ nesting' = nesting
      /\ last_structural' = c /\ ~ in_string'
  BY <1>1, <1>2, <1>3, <1>5, AdvanceMoves
<1>7. PICK p, q, e, l : /\ p = phase /\ e = emitted_any /\ l = J!EndScalar(b)
                        /\ q = IF p = "SCALAR" THEN "BETWEEN" ELSE p
  OBVIOUS
<1>8. StandsBetween(l, q, e)
  <2>1. Fits(b, p, e) /\ p \in Spread
    BY <1>3, <1>7
  <2>2. l \in Readers /\ l.lex = "none" /\ l.due = b.due /\ Fits(l, q, e)
    BY <1>3, <1>7, <2>1, ScalarEndFits
  <2>3. q \in {"BETWEEN", "CONTAINER"}
    BY <1>7, <2>1 DEF Spread
  <2> QED
    BY <2>2, <2>3 DEF StandsBetween
<1>9. segments_matched' =
        IF segments_matched > 0
             /\ nesting.depth = RecordDepth(nesting) + segments_matched
          THEN segments_matched - 1 ELSE segments_matched
  <2>1. CASE PushComma(c)
    BY <1>6, <2>1 DEF PushComma, MatchedAfterComma
  <2>2. CASE PushInContainer(c)
    <3>1. segments_matched' = segments_matched /\ segments_matched = Len(path)
          /\ nesting.depth > ValueDepth
      BY <2>2 DEF PushInContainer, IInv, PhaseFitsWalk
    <3>2. /\ nesting.depth \in Nat /\ segments_matched \in Nat
          /\ ValueDepth = RecordDepth(nesting) + Len(path) /\ RecordDepth(nesting) \in {0, 1}
      BY <1>3, Numbers
    <3>3. nesting.depth # RecordDepth(nesting) + segments_matched
      BY <3>1, <3>2
    <3> QED
      BY <3>1, <3>3
  <2> QED
    BY <1>4, <2>1, <2>2
<1>10. PICK k : k = json'
  OBVIOUS
<1>11. k = IF J!TopKind(l) = "object" THEN NextKey(l)
           ELSE [l EXCEPT !.due = J!Copied(l, c), !.expect = "value"]
  <2>1. json' = J!ReadComma(b, c)
    BY <1>1 DEF ReadStructural, ReadStructuralFor
  <2>2. l \in Readers /\ l.frames \in Seq(Frame)
    BY <1>8, ReaderFields DEF StandsBetween
  <2>3. NextKey(l) = [l EXCEPT !.due = J!Copied(l, c), !.expect = "key",
                               !.frames[Len(l.frames)].key = J!NoKey]
    BY <2>2 DEF NextKey, Rekeyed, Readers
  <2> QED
    BY <1>7, <1>10, <2>1, <2>3 DEF J!ReadComma
<1>12. k \in Readers /\ k.verdict = "OK" /\ k.due = J!Copied(l, c) /\ Fits(k, q, e)'
  <2>1. CASE J!TopKind(l) = "object"
    <3>1. k = NextKey(l)
      BY <1>11, <2>1
    <3> HIDE DEF NextKey
    <3> QED
      BY <1>3, <1>6, <1>8, <1>9, <2>1, <3>1, KeyFollows
  <2>2. CASE J!TopKind(l) # "object"
    <3>1. k = [l EXCEPT !.due = J!Copied(l, c), !.expect = "value"]
      BY <1>11, <2>2
    <3>2. segments_matched' = segments_matched
      <4>1. /\ l \in Readers /\ FramesFit(l) /\ MatchFits(l)
        BY <1>8 DEF StandsBetween, Fits
      <4>2. SUFFICES ASSUME segments_matched > 0,
                            nesting.depth = RecordDepth(nesting) + segments_matched
                     PROVE  FALSE
        BY <1>9
      <4>3. /\ segments_matched \in Nat /\ RecordDepth(nesting) \in {0, 1}
            /\ nesting.depth \in Nat /\ Len(l.frames) = nesting.depth
        BY <1>3, <4>1, Numbers DEF FramesFit
      <4>4. segments_matched \in 1 .. segments_matched
        BY <4>2, <4>3
      <4>5. Named(l.frames[RecordDepth(nesting) + segments_matched], path[segments_matched])
        BY <4>1, <4>4 DEF MatchFits, Spells
      <4>6. l.frames[Len(l.frames)].kind = "object"
        BY <4>2, <4>3, <4>5 DEF Named
      <4>7. l.frames # <<>>
        <5>1. Len(l.frames) # 0
          BY <4>2, <4>3
        <5> QED
          BY <5>1, EmptySeq
      <4> QED
        BY <2>2, <4>6, <4>7 DEF J!TopKind, J!Last
    <3> QED
      BY <1>3, <1>6, <1>8, <2>2, <3>1, <3>2, ValueFollows
  <2> QED
    BY <2>1, <2>2
<1>13. /\ q = "CONTAINER" => J!Copied(l, c) = <<c>>
       /\ q # "CONTAINER" => J!Copied(l, c) = <<>>
  BY <1>1, <1>8, CopiedThere
<1>14. /\ q = "CONTAINER" => Emit(<<>>, <<c>>)
       /\ q # "CONTAINER" => EmitNothing
       /\ phase' = q
  BY <1>1, <1>3, <1>4, <1>7 DEF PushInContainer, PushComma, Between, EndsContainer, Spread
<1>15. Fits(json, phase, emitted_any)'
  BY <1>5, <1>7, <1>10, <1>12, <1>14, FitsNext
<1>16. json' = k
  BY <1>10
<1> QED
  BY <1>1, <1>6, <1>12, <1>13, <1>14, <1>15, <1>16, OneOrNothingPicks

-----------------------------------------------------------------------------
(* Brackets *)

\* A reader with other frames, expectation, octets put out and value copied.
Reframed(h, o, a, d, x) ==
  [h EXCEPT !.frames = o, !.expect = a, !.due = d, !.picking = x]

\* k is such a one, and otherwise h.
IsReframed(k, h, o, a, d, x) ==
  /\ k \in Readers
  /\ k.frames = o /\ k.expect = a /\ k.due = d /\ k.picking = x
  /\ k.lex = h.lex /\ k.text = h.text /\ k.base = h.base /\ k.begun = h.begun
  /\ k.verdict = h.verdict

\* It is a reader, and the rest of it stays.
LEMMA ReframedReads ==
  ASSUME NEW h \in Readers, NEW o \in Seq(Frame),
         NEW a \in {"value", "first", "key", "colon", "more"}, NEW d \in Seq(Piece),
         NEW x \in {"none", "string", "scalar", "container"}
  PROVE  IsReframed(Reframed(h, o, a, d, x), h, o, a, d, x)
<1>1. PICK g : g = [h EXCEPT !.frames = o, !.expect = a]
  OBVIOUS
<1>2. /\ g \in Readers /\ g.frames = o /\ g.expect = a /\ g.due = h.due
      /\ g.picking = h.picking /\ g.lex = h.lex /\ g.text = h.text
      /\ g.base = h.base /\ g.begun = h.begun /\ g.verdict = h.verdict
  BY <1>1 DEF Readers
<1>3. PICK k : k = [g EXCEPT !.due = d, !.picking = x]
  OBVIOUS
<1>4. /\ k \in Readers /\ k.due = d /\ k.picking = x /\ k.frames = g.frames
      /\ k.expect = g.expect /\ k.lex = g.lex /\ k.text = g.text
      /\ k.base = g.base /\ k.begun = g.begun /\ k.verdict = g.verdict
  BY <1>2, <1>3 DEF Readers
<1>5. Reframed(h, o, a, d, x) = k
  BY <1>1, <1>3, Zenon DEF Reframed
<1> QED
  BY <1>2, <1>4, <1>5 DEF IsReframed

\* k is l past a closing bracket c.
Closed(k, l, c) ==
  /\ k \in Readers /\ k.frames = J!Front(l.frames)
  /\ k.expect = J!AfterValue(J!Front(l.frames))
  /\ k.lex = l.lex /\ k.text = l.text /\ k.base = l.base /\ k.begun = l.begun
  /\ k.verdict = l.verdict /\ k.due = J!Copied(l, c)
  /\ k.picking = IF Len(J!Front(l.frames)) = l.base THEN J!Ended(l, "container")
                                                   ELSE l.picking

\* The frames without the last one.
LEMMA FrontFrames ==
  ASSUME NEW f \in Seq(Frame), f # <<>>
  PROVE  /\ Len(f) \in Nat \ {0}
         /\ J!Front(f) \in Seq(Frame) /\ Len(J!Front(f)) = Len(f) - 1
         /\ \A i \in 1 .. Len(f) - 1 : J!Front(f)[i] = f[i]
<1>1. Len(f) \in Nat /\ Len(f) # 0 /\ Len(f) - 1 \in 0 .. Len(f)
  BY LenProperties, EmptySeq
<1>2. /\ J!Front(f) \in Seq(Frame) /\ Len(J!Front(f)) = Len(f) - 1
      /\ \A i \in 1 .. Len(f) - 1 : J!Front(f)[i] = f[i]
  BY <1>1, FirstOctets DEF J!Front
<1> QED
  BY <1>1, <1>2

\* What a reader makes of a closing bracket.
LEMMA CloseReads ==
  ASSUME NEW b, NEW l \in Readers, l = J!EndScalar(b), NEW c \in Structural,
         l.frames # <<>>
  PROVE  Closed(J!ReadClose(b, c), l, c)
<1>1. PICK g : g = J!Front(l.frames)
  OBVIOUS
<1>2. g \in Seq(Frame)
  <2> PICK f : f = l.frames
    OBVIOUS
  <2>1. f \in Seq(Frame) /\ f # <<>>
    BY ReaderFields
  <2> QED
    BY <1>1, <2>1, FrontFrames
<1>3. J!Copied(l, c) \in Seq(Piece)
  <2>1. c \in Piece
    BY DEF Piece
  <2> QED
    BY <2>1, CopiedType
<1>4. J!AfterValue(g) \in {"value", "more"}
  BY DEF J!AfterValue
<1>5. PICK k, a, d, x : /\ k = J!ReadClose(b, c) /\ a = J!AfterValue(g) /\ d = J!Copied(l, c)
                        /\ x = IF Len(g) = l.base THEN J!Ended(l, "container") ELSE l.picking
  OBVIOUS
<1>6. k = [l EXCEPT !.due = d, !.frames = g, !.expect = a, !.picking = x]
  BY <1>1, <1>5 DEF J!ReadClose
<1>7. x \in {"none", "string", "scalar", "container"}
  BY <1>5, ReaderFields DEF J!Ended
<1>8. /\ k \in Readers /\ k.frames = g /\ k.expect = a /\ k.lex = l.lex /\ k.text = l.text
      /\ k.base = l.base /\ k.begun = l.begun /\ k.verdict = l.verdict
      /\ k.due = d /\ k.picking = x
  <2>1. g \in Seq(Frame) /\ d \in Seq(Piece) /\ a \in {"value", "more"}
    BY <1>2, <1>3, <1>4, <1>5
  <2>2. k = Reframed(l, g, a, d, x)
    BY <1>1, <1>5 DEF J!ReadClose, Reframed
  <2>3. IsReframed(k, l, g, a, d, x)
    BY <1>7, <2>1, <2>2, ReframedReads
  <2> QED
    BY <2>3 DEF IsReframed
<1> QED
  BY <1>1, <1>5, <1>8 DEF Closed

\* What a closing bracket does to the open containers: no bit of one that stays
\* open changes.
LEMMA CloseBits ==
  ASSUME NEW s \in BitStack, NEW c \in Closing, Verdict(s, c) = "OK"
  PROVE  \A i : At(Step(s, c), i) <=> At(s, i)
<1>1. Step(s, c) = Pop(s)
  BY DEF Step, Opening, Closing
<1>2. Pop(s).bits = s.bits
  BY DEF Pop, BitStack
<1> QED
  BY <1>1, <1>2 DEF At

\* What the walk still counts as matched fits the frames that are left.
LEMMA CloseSpells ==
  ASSUME IInv, NEW l \in Readers, FramesFit(l), MatchFits(l), l.frames # <<>>,
         path' = path, nesting'.depth = nesting.depth - 1,
         nesting.depth > 1 => RecordDepth(nesting') = RecordDepth(nesting),
         nesting.depth = 1 => RecordDepth(nesting') = 0,
         segments_matched' = MatchedAfterClose, NEW k,
         k.frames = J!Front(l.frames)
  PROVE  MatchFits(k)'
<1>1. /\ nesting.depth \in Nat /\ Len(l.frames) = nesting.depth
      /\ RecordDepth(nesting) \in {0, 1} /\ segments_matched \in Nat
      /\ path \in Seq(Seq(Octet)) /\ l.frames \in Seq(Frame)
      /\ \A i \in 1 .. Len(path) : path[i] # <<>>
      /\ Spells(l.frames, path, RecordDepth(nesting), segments_matched)
  BY Numbers, WrapDepth, Segments, ReaderFields DEF IInv, MatchFits
<1>2. PICK f, s, r, m : /\ f = l.frames /\ s = path /\ r = RecordDepth(nesting)
                        /\ m = segments_matched
  OBVIOUS
<1>3. /\ f \in Seq(Frame) /\ s \in Seq(Seq(Octet)) /\ r \in {0, 1} /\ f # <<>>
      /\ Spells(f, s, r, m) /\ m \in Nat /\ Len(f) = nesting.depth
  BY <1>1, <1>2
<1>4. Len(f) \in Nat \ {0} /\ J!Front(f) \in Seq(Frame) /\ Len(J!Front(f)) = Len(f) - 1
  BY <1>3, FrontFrames
<1>5. k.frames = J!Front(f) /\ path' = s
  BY <1>2
<1>6. CASE Len(f) = 1
  <2>1. RecordDepth(nesting') = 0 /\ nesting'.depth = 0
    BY <1>3, <1>6
  <2>2. r + m <= 1
    BY <1>3, <1>6 DEF Spells
  <2>3. segments_matched' = 0
    BY <1>2, <1>3, <2>1, <2>2 DEF MatchedAfterClose
  <2>4. Len(s) \in Nat
    BY <1>3, LenProperties
  <2>5. Spells(J!Front(f), s, 0, 0)
    BY <1>4, <1>6, <2>4 DEF Spells
  <2>6. RecordDepth(nesting)' = 0
    BY <2>1
  <2> QED
    BY <1>5, <2>3, <2>5, <2>6 DEF MatchFits
<1>7. CASE Len(f) # 1
  <2>1. /\ RecordDepth(nesting') = r /\ r < Len(f)
        /\ nesting'.depth = Len(f) - 1
    BY <1>2, <1>3, <1>4, <1>7
  <2>2. Spells(J!Front(f), s, r, IF Len(f) - 1 < r + m THEN Len(f) - 1 - r ELSE m)
    BY <1>3, <2>1, SpellsClose
  <2>3. segments_matched' = IF Len(f) - 1 < r + m THEN Len(f) - 1 - r ELSE m
    BY <1>2, <2>1 DEF MatchedAfterClose
  <2>4. RecordDepth(nesting)' = r
    BY <2>1
  <2> QED
    BY <1>5, <2>2, <2>3, <2>4 DEF MatchFits
<1> QED
  BY <1>6, <1>7

\* Past a closing bracket.
LEMMA CloseFits ==
  ASSUME IInv, NEW l, NEW q, NEW e, StandsBetween(l, q, e), NEW c \in Closing,
         Verdict(nesting, c) = "OK", nesting' = Step(nesting, c), l.frames # <<>>,
         NEW k, Closed(k, l, c),
         path' = path, last_structural' = c, ~ in_string',
         segments_matched' = MatchedAfterClose,
         q = "CONTAINER" => segments_matched = Len(path) /\ nesting.depth > ValueDepth,
         NEW n, n = IF q = "CONTAINER" /\ EndsContainer(c) THEN "BETWEEN" ELSE q
  PROVE  Fits(k, n, e)'
<1>1. /\ FramesFit(l) /\ MatchFits(l) /\ PlaceFits(l) /\ PickFits(l, q)
      /\ l.verdict = "OK" /\ l.begun = e /\ l.lex = "none" /\ l \in Readers
      /\ q \in {"BETWEEN", "CONTAINER"}
  BY DEF StandsBetween, Fits
<1>2. /\ k \in Readers /\ k.frames = J!Front(l.frames)
      /\ k.expect = J!AfterValue(J!Front(l.frames))
      /\ k.lex = l.lex /\ k.text = l.text /\ k.base = l.base /\ k.begun = l.begun
      /\ k.verdict = l.verdict
      /\ k.picking = IF Len(J!Front(l.frames)) = l.base THEN J!Ended(l, "container")
                                                        ELSE l.picking
  BY DEF Closed
<1>3. /\ nesting \in BitStack /\ nesting.depth \in Nat /\ RecordDepth(nesting) \in {0, 1}
      /\ Len(path) \in Nat /\ ValueDepth = RecordDepth(nesting) + Len(path)
      /\ Len(l.frames) = nesting.depth /\ l.frames \in Seq(Frame)
  BY <1>1, Numbers, ReaderFields DEF IInv, FramesFit
<1>4. /\ nesting.depth > 0 /\ nesting'.depth = nesting.depth - 1
      /\ nesting.depth > 1 => RecordDepth(nesting') = RecordDepth(nesting)
      /\ nesting.depth = 1 => RecordDepth(nesting') = 0
  <2> PICK s, t : s = nesting /\ t = Step(nesting, c)
    OBVIOUS
  <2>1. s \in BitStack /\ Verdict(s, c) = "OK" /\ t = Step(s, c) /\ nesting' = t
    BY <1>3
  <2>2. /\ s.depth > 0 /\ t.depth = s.depth - 1
        /\ s.depth > 1 => RecordDepth(t) = RecordDepth(s)
        /\ s.depth = 1 => RecordDepth(t) = 0
    BY <2>1, CloseStep
  <2> QED
    BY <2>1, <2>2
<1>5. /\ Len(J!Front(l.frames)) = nesting.depth - 1
      /\ \A i \in 1 .. nesting.depth - 1 : J!Front(l.frames)[i] = l.frames[i]
  <2>1. PICK f : f = l.frames
    OBVIOUS
  <2>2. f \in Seq(Frame) /\ f # <<>> /\ Len(f) = nesting.depth
    BY <1>3, <2>1
  <2>3. Len(J!Front(f)) = Len(f) - 1 /\ \A i \in 1 .. Len(f) - 1 : J!Front(f)[i] = f[i]
    BY <2>2, FrontFrames
  <2> QED
    BY <2>1, <2>2, <2>3
<1>6. FramesFit(k)'
  <2>1. \A i : At(nesting', i) <=> At(nesting, i)
    BY <1>3, CloseBits
  <2>2. ASSUME NEW i \in 1 .. nesting'.depth
        PROVE  k.frames[i].kind = "object" <=> At(nesting', i - 1)
    <3>1. i \in 1 .. nesting.depth /\ i \in 1 .. nesting.depth - 1
      BY <1>3, <1>4
    <3>2. l.frames[i].kind = "object" <=> At(nesting, i - 1)
      BY <1>1, <3>1 DEF FramesFit
    <3> QED
      BY <1>2, <1>5, <2>1, <3>1, <3>2
  <2> QED
    BY <1>2, <1>4, <1>5, <2>2 DEF FramesFit
<1>7. MatchFits(k)'
  BY <1>1, <1>2, <1>4, CloseSpells
<1>8. PlaceFits(k)'
  <2>1. ~ KeyComesNext'
    BY DEF KeyComesNext, Closing
  <2>2. ~ Inside(k) /\ ~ J!MayStartKey(k) /\ k.text = J!NoKey /\ k.lex = "none"
    BY <1>1, <1>2 DEF PlaceFits, Inside, J!MayStartKey, J!AfterValue
  <2> HIDE DEF Inside, J!MayStartKey
  <2> QED
    BY <1>2, <2>1, <2>2 DEF PlaceFits
<1>9. PickFits(k, n)'
  <2>1. CASE q = "BETWEEN"
    <3>1. l.picking = "none" /\ n = "BETWEEN"
      BY <1>1, <2>1 DEF PickFits
    <3>2. k.picking = "none" /\ k.lex = "none"
      BY <1>1, <1>2, <3>1 DEF J!Ended
    <3> QED
      BY <3>1, <3>2 DEF PickFits
  <2>2. CASE q = "CONTAINER"
    <3>1. l.picking = "container" /\ l.base = RecordDepth(nesting) + Len(path)
      BY <1>1, <1>3, <2>2 DEF PickFits
    <3>2. RecordDepth(nesting') = RecordDepth(nesting)
      BY <1>3, <1>4, <2>2
    <3>3. ValueDepth' = l.base
      BY <3>1, <3>2 DEF ValueDepth
    <3>4. EndsContainer(c) <=> Len(J!Front(l.frames)) = l.base
      BY <1>4, <1>5, <3>1, <3>2 DEF EndsContainer
    <3>5. CASE EndsContainer(c)
      <4>1. n = "BETWEEN" /\ k.picking = "none" /\ k.lex = "none"
        BY <1>1, <1>2, <2>2, <3>1, <3>4, <3>5 DEF J!Ended
      <4> QED
        BY <4>1 DEF PickFits
    <3>6. CASE ~ EndsContainer(c)
      <4>1. n = "CONTAINER" /\ k.picking = "container" /\ k.base = l.base
        BY <1>2, <2>2, <3>1, <3>4, <3>6
      <4> QED
        BY <3>3, <4>1 DEF PickFits
    <3> QED
      BY <3>5, <3>6
  <2> QED
    BY <1>1, <2>1, <2>2
<1> QED
  BY <1>1, <1>2, <1>6, <1>7, <1>8, <1>9 DEF Fits

\* A closing bracket.
LEMMA ClosePicks ==
  ASSUME IInv, NEW b \in Readers, Fits(b, phase, emitted_any), b.due = <<>>,
         ~ Inside(b), ~ in_string, NEW c \in Closing, LegalAt(b, c),
         json' = ReadStructural(b, c),
         Scanned(c), PushStructural(c), status = "OK"
  PROVE  CaughtUp'
<1>1. c \in Structural /\ c \notin Opening /\ c # Quote
      /\ c # "lbracket" /\ c # "colon" /\ c # "comma"
  BY DEF Quote, Structural, Opening, Closing
<1>2. phase \in Spread /\ TypeOK
  BY PhaseOutside DEF IInv, TypeOK
<1>3. PICK p, q, e, l : /\ p = phase /\ e = emitted_any /\ l = J!EndScalar(b)
                        /\ q = IF p = "SCALAR" THEN "BETWEEN" ELSE p
  OBVIOUS
<1>4. StandsBetween(l, q, e) /\ l.frames = b.frames
  <2>1. Fits(b, p, e) /\ p \in Spread
    BY <1>2, <1>3
  <2>2. /\ l \in Readers /\ l.lex = "none" /\ l.due = b.due /\ l.frames = b.frames
        /\ Fits(l, q, e)
    BY <1>2, <1>3, <2>1, ScalarEndFits
  <2>3. q \in {"BETWEEN", "CONTAINER"}
    BY <1>3, <2>1 DEF Spread
  <2> QED
    BY <2>2, <2>3 DEF StandsBetween
<1>5. /\ c = "rbrace" => J!TopKind(l) = "object"
      /\ c = "rbracket" => J!TopKind(l) = "array"
      /\ l.frames # <<>>
  <2>1. /\ c = "rbrace" => J!TopKind(b) = "object"
        /\ c = "rbracket" => J!TopKind(b) = "array"
    BY <1>1 DEF LegalAt
  <2> QED
    BY <1>4, <2>1 DEF J!TopKind, Closing
<1>6. Verdict(nesting, c) = "OK"
  <2>1. FramesFit(l) /\ l \in Readers
    BY <1>4 DEF StandsBetween, Fits
  <2>2. /\ Top(nesting) <=> J!TopKind(l) = "object"
        /\ ~ Empty(nesting)
    BY <1>2, <1>5, <2>1, InnermostFits
  <2>3. Top(nesting) = (c = "rbrace")
    BY <1>5, <2>2 DEF Closing, Top
  <2> QED
    BY <1>1, <2>2, <2>3 DEF Verdict
<1>7. PushInContainer(c) \/ PushClose(c)
  BY <1>1, <1>2, <1>6
     DEF PushStructural, PushMalformed, PushWrapper, OpensWrapper, PushStringEnd,
         PushKeyEnd, PushSkippedEnd, PushStringValue, PushKey, PushOtherString,
         PushRefused, PushContainerValue, PushOtherOpen,
         PushColon, PushComma, Between, Spread
<1>8. Advance(c) /\ emitted_any' = emitted_any
  BY <1>7 DEF PushInContainer, PushClose, Between
<1>9. /\ path' = path /\ rest' = <<>> /\ nesting' = Step(nesting, c)
      /\ last_structural' = c /\ ~ in_string'
  BY <1>1, <1>2, <1>8, AdvanceMoves
<1>10. q = "CONTAINER" => segments_matched = Len(path) /\ nesting.depth > ValueDepth
  BY <1>2, <1>3 DEF IInv, PhaseFitsWalk
<1>11. segments_matched' = MatchedAfterClose
  <2>1. CASE PushClose(c)
    BY <2>1 DEF PushClose
  <2>2. CASE PushInContainer(c)
    <3>1. segments_matched' = segments_matched /\ q = "CONTAINER"
      BY <1>3, <2>2 DEF PushInContainer
    <3>2. /\ nesting.depth \in Nat /\ Len(path) \in Nat /\ nesting \in BitStack
          /\ ValueDepth = RecordDepth(nesting) + Len(path) /\ RecordDepth(nesting) \in {0, 1}
      BY <1>2, Numbers
    <3>3. /\ nesting'.depth = nesting.depth - 1
          /\ nesting.depth > 1 => RecordDepth(nesting') = RecordDepth(nesting)
          /\ nesting.depth = 1 => RecordDepth(nesting') = 0
      <4> PICK s, t : s = nesting /\ t = Step(nesting, c)
        OBVIOUS
      <4>1. s \in BitStack /\ Verdict(s, c) = "OK" /\ t = Step(s, c) /\ nesting' = t
        BY <1>6, <1>9, <3>2
      <4>2. /\ t.depth = s.depth - 1
            /\ s.depth > 1 => RecordDepth(t) = RecordDepth(s)
            /\ s.depth = 1 => RecordDepth(t) = 0
        BY <4>1, CloseStep
      <4> QED
        BY <4>1, <4>2
    <3>4. ~ (nesting'.depth < RecordDepth(nesting') + segments_matched)
      BY <1>10, <3>1, <3>2, <3>3
    <3> QED
      BY <3>1, <3>4 DEF MatchedAfterClose
  <2> QED
    BY <1>7, <2>1, <2>2
<1>12. PICK k : k = J!ReadClose(b, c)
  OBVIOUS
<1>13. json' = k /\ Closed(k, l, c)
  <2>1. json' = J!ReadClose(b, c)
    BY <1>1 DEF ReadStructural, ReadStructuralFor
  <2>2. l \in Readers
    BY <1>4 DEF StandsBetween
  <2> QED
    BY <1>1, <1>3, <1>5, <1>12, <2>1, <2>2, CloseReads
<1>14. PICK n : n = IF q = "CONTAINER" /\ EndsContainer(c) THEN "BETWEEN" ELSE q
  OBVIOUS
<1>15. Fits(k, n, e)'
  BY <1>4, <1>5, <1>6, <1>9, <1>10, <1>11, <1>13, <1>14, CloseFits
<1>16. k \in Readers /\ k.verdict = "OK" /\ k.due = J!Copied(l, c)
  BY <1>4, <1>13 DEF Closed, StandsBetween, Fits
<1>17. /\ q = "CONTAINER" => J!Copied(l, c) = <<c>>
       /\ q # "CONTAINER" => J!Copied(l, c) = <<>>
  BY <1>1, <1>4, CopiedThere
<1>18. /\ q = "CONTAINER" => Emit(<<>>, <<c>>)
       /\ q # "CONTAINER" => EmitNothing
       /\ status' = "OK" => phase' = n
  BY <1>1, <1>2, <1>3, <1>7, <1>14 DEF PushInContainer, PushClose, Between, Spread
<1>19. status' = "OK" => Fits(json, phase, emitted_any)'
  BY <1>3, <1>8, <1>13, <1>15, <1>18, FitsNext
<1> QED
  BY <1>1, <1>9, <1>13, <1>16, <1>17, <1>18, <1>19, OneOrNothingPicks

FrameKind(c) == IF c = "lbrace" THEN "object" ELSE "array"

\* One frame more.
Longer(f, c) == Append(f, [kind |-> FrameKind(c), key |-> J!NoKey])

\* k is l past an opening bracket c that opens a container: an array of records,
\* or a value.
Opened(k, l, c) ==
  /\ k \in Readers /\ k.frames = Longer(l.frames, c) /\ k.expect = "first"
  /\ k.lex = l.lex /\ k.text = l.text /\ k.verdict = l.verdict
  /\ IF c = "lbracket" /\ l.frames = <<>>
       THEN /\ k.picking = l.picking /\ k.base = l.base /\ k.begun = l.begun
            /\ k.due = l.due
       ELSE /\ k.picking = IF Picks(l, path) THEN "container" ELSE l.picking
            /\ k.base = IF Picks(l, path) THEN Len(l.frames) ELSE l.base
            /\ k.begun = IF Picks(l, path) THEN TRUE ELSE l.begun
            /\ k.due = IF Picks(l, path) THEN FirstDue(l, c) ELSE J!Copied(l, c)

\* And one that stops the walk.
Stopped(k, l, verdict) ==
  /\ k \in Readers /\ k.verdict = verdict /\ k.due = l.due

\* It is a stack with the new frame on top of the others, and no key in it yet.
LEMMA LongerType ==
  ASSUME NEW f \in Seq(Frame), NEW c \in Opening
  PROVE  /\ Longer(f, c) \in Seq(Frame) /\ Len(Longer(f, c)) = Len(f) + 1
         /\ Len(f) \in Nat
         /\ \A i \in 1 .. Len(f) : Longer(f, c)[i] = f[i]
         /\ Longer(f, c)[Len(f) + 1].kind = FrameKind(c)
         /\ Longer(f, c)[Len(f) + 1].key = J!NoKey
<1>1. PICK new : new = [kind |-> FrameKind(c), key |-> J!NoKey]
  OBVIOUS
<1>2. new \in Frame /\ new.kind = FrameKind(c) /\ new.key = J!NoKey
  <2>1. J!NoKey \in Seq(Octet)
    BY EmptySeq DEF J!NoKey
  <2>2. FrameKind(c) \in {"object", "array"}
    BY DEF FrameKind
  <2> QED
    BY <1>1, <2>1, <2>2 DEF Frame
<1>3. Longer(f, c) = Append(f, new)
  BY <1>1 DEF Longer
<1>4. /\ Append(f, new) \in Seq(Frame) /\ Len(Append(f, new)) = Len(f) + 1
      /\ Append(f, new)[Len(f) + 1] = new
      /\ \A i \in 1 .. Len(f) : Append(f, new)[i] = f[i]
  BY <1>2, AppendProperties
<1>5. Len(f) \in Nat
  BY LenProperties
<1> QED
  BY <1>2, <1>3, <1>4, <1>5

\* What a reader makes of an opening bracket.
LEMMA OpenReads ==
  ASSUME NEW b, NEW l \in Readers, l = J!EndScalar(b), NEW c \in Opening, NEW k,
         k = J!ReadOpen(b, c, path, FrameKind(c), Separator, JSP_MAX_DEPTH, scalars_only),
         NEW refused, refused <=> /\ ~ (c = "lbracket" /\ l.frames = <<>>)
                                  /\ Picks(l, path) /\ scalars_only
  PROVE  /\ Len(l.frames) = JSP_MAX_DEPTH => Stopped(k, l, "MALFORMED")
         /\ Len(l.frames) # JSP_MAX_DEPTH /\ refused => Stopped(k, l, "CONTAINER_REFUSED")
         /\ Len(l.frames) # JSP_MAX_DEPTH /\ ~ refused => Opened(k, l, c)
<1>1. PICK g, wrapper :
        /\ wrapper <=> c = "lbracket" /\ l.frames = <<>>
        /\ g = IF wrapper THEN l ELSE J!Begin(l, c, path, "container", Separator)
  OBVIOUS
<1>2. FrameKind(c) = "array" /\ l.frames = <<>> <=> wrapper
  BY <1>1 DEF FrameKind, Opening
<1>3. k = IF Len(l.frames) = JSP_MAX_DEPTH THEN [l EXCEPT !.verdict = "MALFORMED"]
          ELSE IF refused THEN [l EXCEPT !.verdict = "CONTAINER_REFUSED"]
          ELSE [g EXCEPT !.frames = Longer(l.frames, c), !.expect = "first"]
  <2>1. ~ wrapper /\ l.picking = "none" /\ J!Picked(l.frames, path) /\ scalars_only
          <=> refused
    BY <1>1 DEF Picks
  <2> HIDE DEF J!Picked
  <2> QED
    BY <1>1, <1>2, <2>1 DEF J!ReadOpen, Longer
<1>4. c \in Piece
  BY DEF Piece, Structural
<1>5. /\ g \in Readers /\ g.lex = l.lex /\ g.text = l.text /\ g.verdict = l.verdict
      /\ wrapper => /\ g.picking = l.picking /\ g.base = l.base /\ g.begun = l.begun
                    /\ g.due = l.due
      /\ ~ wrapper => Begun(g, l, c, path, "container")
  <2>1. CASE wrapper
    BY <1>1, <2>1
  <2>2. CASE ~ wrapper
    <3>1. g = J!Begin(l, c, path, "container", Separator)
      BY <1>1, <2>2
    <3>2. Begun(g, l, c, path, "container") /\ g.lex = l.lex
      BY <1>4, <3>1, BeginReads
    <3> QED
      BY <2>2, <3>2 DEF Begun
  <2> QED
    BY <2>1, <2>2
<1>6. Longer(l.frames, c) \in Seq(Frame)
  BY ReaderFields, LongerType
<1>7. CASE Len(l.frames) = JSP_MAX_DEPTH
  BY <1>3, <1>7 DEF Stopped, Readers
<1>8. CASE Len(l.frames) # JSP_MAX_DEPTH /\ refused
  <2>1. k = [l EXCEPT !.verdict = "CONTAINER_REFUSED"]
    BY <1>3, <1>8
  <2>2. k \in Readers /\ k.verdict = "CONTAINER_REFUSED" /\ k.due = l.due
    BY <2>1 DEF Readers
  <2> QED
    BY <1>8, <2>2 DEF Stopped
<1>9. CASE Len(l.frames) # JSP_MAX_DEPTH /\ ~ refused
  <2>1. PICK o : o = Longer(l.frames, c)
    OBVIOUS
  <2>2. k = [g EXCEPT !.frames = o, !.expect = "first"] /\ o \in Seq(Frame)
    BY <1>3, <1>6, <1>9, <2>1
  <2>3. /\ k \in Readers /\ k.frames = o /\ k.expect = "first" /\ k.lex = g.lex
        /\ k.text = g.text /\ k.verdict = g.verdict /\ k.picking = g.picking
        /\ k.base = g.base /\ k.begun = g.begun /\ k.due = g.due
    <3>1. PICK h, x, d : h = g /\ x = g.picking /\ d = g.due
      OBVIOUS
    <3>2. /\ h \in Readers /\ d \in Seq(Piece)
          /\ x \in {"none", "string", "scalar", "container"}
      BY <1>5, <3>1, ReaderFields
    <3>3. k = Reframed(h, o, "first", d, x)
      BY <1>5, <2>2, <3>1 DEF Reframed, Readers
    <3>4. IsReframed(k, h, o, "first", d, x)
      BY <2>2, <3>2, <3>3, ReframedReads
    <3> QED
      BY <3>1, <3>4 DEF IsReframed
  <2>4. CASE wrapper
    <3>1. c = "lbracket" /\ l.frames = <<>>
      BY <1>1, <2>4
    <3> QED
      BY <1>5, <1>9, <2>1, <2>3, <2>4, <3>1 DEF Opened
  <2>5. CASE ~ wrapper
    <3>1. ~ (c = "lbracket" /\ l.frames = <<>>)
      BY <1>1, <2>5
    <3>2. Begun(g, l, c, path, "container")
      BY <1>5, <2>5
    <3> QED
      BY <1>5, <1>9, <2>1, <2>3, <3>1, <3>2 DEF Opened, Begun
  <2> QED
    BY <2>4, <2>5
<1> QED
  BY <1>7, <1>8, <1>9

\* What an opening bracket does to the open containers: it sets the bit of its own.
LEMMA OpenBits ==
  ASSUME NEW s \in BitStack, NEW c \in Opening, Verdict(s, c) = "OK"
  PROVE  /\ \A i \in 0 .. s.depth - 1 : At(Step(s, c), i) <=> At(s, i)
         /\ At(Step(s, c), s.depth) <=> c = "lbrace"
<1>1. s.depth \in Nat
  BY DepthAssumption DEF BitStack
<1>2. Step(s, c) = Push(s, c = "lbrace")
  BY DEF Step, Opening, Closing
<1>3. Push(s, c = "lbrace").bits =
        IF c = "lbrace" THEN s.bits \cup {s.depth} ELSE s.bits \ {s.depth}
  BY DEF Push
<1>4. \A i \in 0 .. s.depth - 1 : i # s.depth
  BY <1>1
<1> QED
  BY <1>2, <1>3, <1>4 DEF At

\* The frames after an opening bracket, and what they spell.
LEMMA OpenSpells ==
  ASSUME TypeOK, NEW l \in Readers, FramesFit(l), MatchFits(l), NEW c \in Opening,
         Verdict(nesting, c) = "OK", nesting' = Step(nesting, c), path' = path,
         segments_matched' = segments_matched, NEW k, k.frames = Longer(l.frames, c)
  PROVE  /\ FramesFit(k)' /\ MatchFits(k)'
         /\ nesting'.depth = nesting.depth + 1
         /\ ~ (c = "lbracket" /\ l.frames = <<>>) =>
              RecordDepth(nesting') = RecordDepth(nesting)
<1>1. /\ nesting \in BitStack /\ nesting.depth \in Nat /\ Len(l.frames) = nesting.depth
      /\ RecordDepth(nesting) \in {0, 1} /\ segments_matched \in Nat
      /\ path \in Seq(Seq(Octet)) /\ l.frames \in Seq(Frame)
      /\ \A i \in 1 .. Len(path) : path[i] # <<>>
      /\ Spells(l.frames, path, RecordDepth(nesting), segments_matched)
      /\ l.frames = <<>> <=> nesting.depth = 0
  BY Numbers, WrapDepth, Segments, ReaderFields, InnermostFits DEF MatchFits
<1>2. PICK f, s, r, m, t, g, u :
        /\ f = l.frames /\ s = path /\ r = RecordDepth(nesting)
        /\ m = segments_matched /\ t = nesting /\ g = Longer(l.frames, c) /\ u = nesting'
  OBVIOUS
<1>3. /\ f \in Seq(Frame) /\ s \in Seq(Seq(Octet)) /\ r \in {0, 1}
      /\ \A i \in 1 .. Len(s) : s[i] # <<>>
      /\ Spells(f, s, r, m) /\ m \in Nat /\ Len(f) = t.depth /\ t \in BitStack
      /\ Verdict(t, c) = "OK" /\ u = Step(t, c) /\ t.depth \in Nat
      /\ r = RecordDepth(t) /\ (f = <<>> <=> t.depth = 0)
  BY <1>1, <1>2
<1>4. /\ u.depth = t.depth + 1
      /\ t.depth > 0 => RecordDepth(u) = RecordDepth(t)
      /\ t.depth = 0 /\ c = "lbrace" => RecordDepth(u) = 0
  BY <1>3, OpenStep
<1>5. t.depth = 0 => r = 0
  BY <1>3, RecordDepthType
<1>6. ~ (c = "lbracket" /\ f = <<>>) => RecordDepth(u) = r
  BY <1>3, <1>4, <1>5 DEF Opening
<1>7. /\ g \in Seq(Frame) /\ Len(g) = Len(f) + 1
      /\ \A i \in 1 .. Len(f) : g[i] = f[i]
      /\ g[Len(f) + 1].kind = FrameKind(c)
      /\ k.frames = g
  <2>1. g = Longer(f, c) /\ k.frames = g
    BY <1>2
  <2> QED
    BY <1>3, <2>1, LongerType
<1>8. FramesFit(k)'
  <2>1. /\ \A i \in 0 .. t.depth - 1 : At(u, i) <=> At(t, i)
        /\ At(u, t.depth) <=> c = "lbrace"
    BY <1>3, OpenBits
  <2>2. \A i \in 1 .. t.depth : f[i].kind = "object" <=> At(t, i - 1)
    BY <1>2 DEF FramesFit
  <2>3. ASSUME NEW i \in 1 .. u.depth PROVE g[i].kind = "object" <=> At(u, i - 1)
    <3>1. CASE i = t.depth + 1
      <4>1. i - 1 = t.depth
        BY <1>3, <3>1
      <4>2. FrameKind(c) = "object" <=> c = "lbrace"
        BY DEF FrameKind
      <4> QED
        BY <1>3, <1>7, <2>1, <3>1, <4>1, <4>2
    <3>2. CASE i # t.depth + 1
      <4>1. i \in 1 .. t.depth /\ i - 1 \in 0 .. t.depth - 1
        BY <1>3, <1>4, <3>2
      <4> QED
        BY <1>3, <1>7, <2>1, <2>2, <4>1
    <3> QED
      BY <3>1, <3>2
  <2>4. Len(g) = u.depth
    BY <1>3, <1>4, <1>7
  <2> QED
    BY <1>2, <1>7, <2>3, <2>4 DEF FramesFit
<1>9. MatchFits(k)'
  <2>1. CASE ~ (c = "lbracket" /\ f = <<>>)
    <3>1. Spells(Longer(f, c), s, r, m)
      <4>1. FrameKind(c) \in {"object", "array"}
        BY DEF FrameKind
      <4> QED
        BY <1>3, <4>1, SpellsOpen DEF Longer
    <3>2. RecordDepth(nesting)' = r /\ k.frames = Longer(f, c)
      BY <1>2, <1>6, <2>1
    <3> QED
      BY <1>2, <3>1, <3>2 DEF MatchFits
  <2>2. CASE c = "lbracket" /\ f = <<>>
    <3>1. t.depth = 0 /\ m = 0 /\ Len(g) = 1
      <4>1. t.depth = 0 /\ r + m <= 0
        BY <1>3, <2>2 DEF Spells
      <4> QED
        BY <1>3, <1>7, <4>1
    <3>2. RecordDepth(u) = 1
      <4>1. At(u, 0) <=> c = "lbrace"
        BY <1>3, <3>1, OpenBits
      <4>2. u.depth # 0
        BY <1>3, <1>4
      <4> QED
        BY <2>2, <4>1, <4>2 DEF RecordDepth, OutermostIsArray, Empty
    <3>3. Len(s) \in Nat
      BY <1>3, LenProperties
    <3>4. Spells(g, s, 1, 0)
      BY <3>1, <3>3 DEF Spells
    <3>5. RecordDepth(nesting)' = 1
      BY <1>2, <3>2
    <3> QED
      BY <1>2, <1>7, <3>1, <3>4, <3>5 DEF MatchFits
  <2> QED
    BY <2>1, <2>2
<1> QED
  BY <1>2, <1>4, <1>6, <1>8, <1>9

\* Whether an opening bracket c is an array of records rather than a value.
Wraps(l, c) == c = "lbracket" /\ l.frames = <<>>

\* The phase and the mark after an opening bracket.
OpenPhase(l, c, q) == IF ~ Wraps(l, c) /\ AtValue THEN "CONTAINER" ELSE q

OpenMark(l, c, q, e) ==
  IF ~ Wraps(l, c) /\ AtValue /\ q = "BETWEEN" THEN TRUE ELSE e

\* Past an opening bracket: q is the phase before it, n the one after.
LEMMA OpenFits ==
  ASSUME TypeOK, NEW l, NEW q, NEW e, StandsBetween(l, q, e), NEW c \in Opening,
         J!MayStartValue(l), Verdict(nesting, c) = "OK", nesting' = Step(nesting, c),
         NEW k, Opened(k, l, c),
         path' = path, last_structural' = c, ~ in_string',
         segments_matched' = segments_matched,
         Wraps(l, c) => q = "BETWEEN",
         NEW n, n = OpenPhase(l, c, q), NEW f, f = OpenMark(l, c, q, e)
  PROVE  /\ Fits(k, n, f)'
         /\ k.due = IF Wraps(l, c) THEN <<>>
                    ELSE IF q = "BETWEEN" /\ AtValue THEN FirstDue(l, c)
                    ELSE J!Copied(l, c)
<1>1. /\ FramesFit(l) /\ MatchFits(l) /\ PlaceFits(l) /\ PickFits(l, q)
      /\ l.verdict = "OK" /\ l.begun = e /\ l.lex = "none" /\ l \in Readers
      /\ q \in {"BETWEEN", "CONTAINER"} /\ ~ Inside(l) /\ l.due = <<>>
  BY DEF StandsBetween, Fits, Inside
<1>2. /\ k \in Readers /\ k.frames = Longer(l.frames, c) /\ k.expect = "first"
      /\ k.lex = l.lex /\ k.text = l.text /\ k.verdict = l.verdict
      /\ IF Wraps(l, c)
           THEN /\ k.picking = l.picking /\ k.base = l.base /\ k.begun = l.begun
                /\ k.due = l.due
           ELSE /\ k.picking = IF Picks(l, path) THEN "container" ELSE l.picking
                /\ k.base = IF Picks(l, path) THEN Len(l.frames) ELSE l.base
                /\ k.begun = IF Picks(l, path) THEN TRUE ELSE l.begun
                /\ k.due = IF Picks(l, path) THEN FirstDue(l, c) ELSE J!Copied(l, c)
  <2> HIDE DEF Picks, Longer
  <2> QED
    BY DEF Opened, Wraps
<1>3. /\ FramesFit(k)' /\ MatchFits(k)'
      /\ ~ Wraps(l, c) => RecordDepth(nesting') = RecordDepth(nesting)
  BY <1>1, <1>2, OpenSpells DEF Wraps
<1>4. Picks(l, path) <=> q = "BETWEEN" /\ AtValue
  <2>1. J!Picked(l.frames, path) <=> AtValue
    BY <1>1, PickedIsAtValue
  <2>2. l.picking = "none" <=> q = "BETWEEN"
    BY <1>1 DEF PickFits
  <2> HIDE DEF J!Picked
  <2> QED
    BY <2>1, <2>2 DEF Picks
<1>5. PlaceFits(k)'
  <2>1. /\ k.frames \in Seq(Frame) /\ Len(k.frames) = Len(l.frames) + 1
        /\ k.frames[Len(k.frames)].kind = FrameKind(c)
        /\ k.frames[Len(k.frames)].key = J!NoKey
        /\ Len(l.frames) \in Nat
    <3>1. PICK g : g = l.frames
      OBVIOUS
    <3>2. g \in Seq(Frame) /\ k.frames = Longer(g, c)
      BY <1>1, <1>2, <3>1, ReaderFields
    <3>3. /\ Longer(g, c) \in Seq(Frame) /\ Len(Longer(g, c)) = Len(g) + 1
          /\ Longer(g, c)[Len(g) + 1].kind = FrameKind(c)
          /\ Longer(g, c)[Len(g) + 1].key = J!NoKey
          /\ Len(g) \in Nat
      BY <3>2, LongerType
    <3> QED
      BY <3>1, <3>2, <3>3
  <2>2. k.frames # <<>>
    <3>1. Len(k.frames) # 0
      BY <2>1
    <3> QED
      BY <3>1, EmptySeq
  <2>3. J!MayStartKey(k) <=> c = "lbrace"
    BY <1>2, <2>1, <2>2 DEF J!MayStartKey, J!TopKind, J!Last, FrameKind
  <2>4. KeyComesNext' <=> c = "lbrace"
    BY DEF KeyComesNext, Opening
  <2>5. ~ Inside(k) /\ k.text = J!NoKey /\ k.lex = "none"
    BY <1>1, <1>2 DEF PlaceFits, Inside
  <2> HIDE DEF J!MayStartKey, Inside
  <2> QED
    BY <2>1, <2>3, <2>4, <2>5 DEF PlaceFits
<1>6. /\ Len(l.frames) = nesting.depth
      /\ AtValue => nesting.depth = ValueDepth
      /\ q = "BETWEEN" => l.picking = "none"
      /\ q = "CONTAINER" => l.picking = "container" /\ l.base = ValueDepth
  BY <1>1 DEF FramesFit, AtValue, ValueDepth, PickFits
<1>7. PickFits(k, n)' /\ k.begun = f
  <2>1. CASE Wraps(l, c)
    <3>1. n = "BETWEEN" /\ f = e /\ k.picking = "none" /\ k.lex = "none" /\ k.begun = e
      BY <1>1, <1>2, <1>6, <2>1 DEF OpenPhase, OpenMark
    <3> QED
      BY <3>1 DEF PickFits
  <2>2. CASE ~ Wraps(l, c)
    <3>1. ValueDepth' = ValueDepth
      BY <1>3, <2>2 DEF ValueDepth
    <3>2. CASE q = "BETWEEN" /\ AtValue
      <4>1. /\ n = "CONTAINER" /\ f = TRUE /\ k.picking = "container"
            /\ k.base = ValueDepth /\ k.begun = TRUE
        BY <1>2, <1>4, <1>6, <2>2, <3>2 DEF OpenPhase, OpenMark
      <4> QED
        BY <3>1, <4>1 DEF PickFits
    <3>3. CASE q = "BETWEEN" /\ ~ AtValue
      <4>1. /\ n = "BETWEEN" /\ f = e /\ k.picking = "none" /\ k.lex = "none"
            /\ k.begun = e
        BY <1>1, <1>2, <1>4, <1>6, <2>2, <3>3 DEF OpenPhase, OpenMark
      <4> QED
        BY <4>1 DEF PickFits
    <3>4. CASE q = "CONTAINER"
      <4>1. /\ n = "CONTAINER" /\ f = e /\ k.picking = "container"
            /\ k.base = ValueDepth /\ k.begun = e
        BY <1>1, <1>2, <1>4, <1>6, <2>2, <3>4 DEF OpenPhase, OpenMark
      <4> QED
        BY <3>1, <4>1 DEF PickFits
    <3> QED
      BY <1>1, <3>2, <3>3, <3>4
  <2> QED
    BY <2>1, <2>2
<1>8. k.due = IF Wraps(l, c) THEN <<>>
              ELSE IF q = "BETWEEN" /\ AtValue THEN FirstDue(l, c)
              ELSE J!Copied(l, c)
  BY <1>1, <1>2, <1>4
<1> QED
  BY <1>1, <1>2, <1>3, <1>5, <1>7, <1>8 DEF Fits

\* A push that stops the walk: nothing is due, and nothing went out.
LEMMA StopPicks ==
  ASSUME NEW k \in Readers, NEW verdict \in {"MALFORMED", "CONTAINER_REFUSED"},
         json' = k, k.verdict = verdict, k.due = <<>>,
         rest' = <<>>, status' = verdict, wrote' = <<>>
  PROVE  CaughtUp'
BY DEF CaughtUp, StoppedWhenDue

\* An opening bracket.
LEMMA OpenPicks ==
  ASSUME IInv, NEW b \in Readers, Fits(b, phase, emitted_any), b.due = <<>>,
         ~ Inside(b), ~ in_string, NEW c \in Opening, LegalAt(b, c),
         json' = ReadStructural(b, c),
         Scanned(c), PushStructural(c), status = "OK", rest = <<>>
  PROVE  CaughtUp'
<1>1. c \in Structural /\ c \notin Closing /\ c # Quote /\ c # "colon" /\ c # "comma"
  BY DEF Quote, Structural, Opening, Closing
<1>2. phase \in Spread /\ TypeOK
  BY PhaseOutside DEF IInv, TypeOK
<1>3. PICK p, q, e, l : /\ p = phase /\ e = emitted_any /\ l = J!EndScalar(b)
                        /\ q = IF p = "SCALAR" THEN "BETWEEN" ELSE p
  OBVIOUS
<1>4. StandsBetween(l, q, e) /\ l.frames = b.frames /\ l.expect = b.expect
  <2>1. Fits(b, p, e) /\ p \in Spread
    BY <1>2, <1>3
  <2>2. /\ l \in Readers /\ l.lex = "none" /\ l.due = b.due /\ l.frames = b.frames
        /\ l.expect = b.expect /\ Fits(l, q, e)
    BY <1>2, <1>3, <2>1, ScalarEndFits
  <2>3. q \in {"BETWEEN", "CONTAINER"}
    BY <1>3, <2>1 DEF Spread
  <2> QED
    BY <2>2, <2>3 DEF StandsBetween
<1>5. J!MayStartValue(l)
  <2>1. J!MayStartValue(b)
    BY DEF LegalAt
  <2> QED
    BY <1>4, <2>1 DEF J!MayStartValue, J!TopKind, J!Last
<1>6. PICK k, refused :
        /\ k = json'
        /\ refused <=> /\ ~ (c = "lbracket" /\ l.frames = <<>>)
                       /\ Picks(l, path) /\ scalars_only
  OBVIOUS
<1>7. /\ l \in Readers /\ FramesFit(l) /\ l.due = <<>> /\ l.begun = e
      /\ Len(l.frames) = nesting.depth
      /\ Empty(nesting) <=> l.frames = <<>>
      /\ Picks(l, path) <=> q = "BETWEEN" /\ AtValue
      /\ l.verdict = "OK"
  <2>1. /\ l \in Readers /\ FramesFit(l) /\ MatchFits(l) /\ PlaceFits(l) /\ PickFits(l, q)
        /\ l.due = <<>> /\ l.begun = e /\ ~ Inside(l) /\ q \in {"BETWEEN", "CONTAINER"}
        /\ l.verdict = "OK"
    BY <1>4 DEF StandsBetween, Fits, Inside
  <2>2. J!Picked(l.frames, path) <=> AtValue
    BY <1>2, <1>5, <2>1, PickedIsAtValue
  <2>3. l.picking = "none" <=> q = "BETWEEN"
    BY <2>1 DEF PickFits
  <2>4. Len(l.frames) = nesting.depth /\ (Empty(nesting) <=> l.frames = <<>>)
    BY <1>2, <2>1, InnermostFits
  <2> HIDE DEF J!Picked
  <2> QED
    BY <2>1, <2>2, <2>3, <2>4 DEF Picks
<1>8. /\ Len(l.frames) = JSP_MAX_DEPTH => Stopped(k, l, "MALFORMED")
      /\ Len(l.frames) # JSP_MAX_DEPTH /\ refused => Stopped(k, l, "CONTAINER_REFUSED")
      /\ Len(l.frames) # JSP_MAX_DEPTH /\ ~ refused => Opened(k, l, c)
  <2>1. json' = J!ReadOpen(b, c, path, FrameKind(c), Separator, JSP_MAX_DEPTH, scalars_only)
    BY <1>1 DEF ReadStructural, ReadStructuralFor, FrameKind
  <2>2. k = J!ReadOpen(b, c, path, FrameKind(c), Separator, JSP_MAX_DEPTH, scalars_only)
    BY <1>6, <2>1
  <2> QED
    BY <1>3, <1>6, <1>7, <2>2, OpenReads
<1>9. Verdict(nesting, c) = "OK" <=> Len(l.frames) # JSP_MAX_DEPTH
  BY <1>1, <1>7 DEF Verdict, Full
<1>10. OpensWrapper(c) <=> Wraps(l, c)
  BY <1>7 DEF OpensWrapper, Wraps
<1>11. CASE Len(l.frames) = JSP_MAX_DEPTH
  <2>1. Verdict(nesting, c) # "OK"
    BY <1>9, <1>11
  <2>2. PushMalformed(c)
    BY <2>1 DEF PushStructural, PushWrapper, PushStringEnd, PushKeyEnd, PushSkippedEnd,
                PushInContainer, PushStringValue, PushKey, PushOtherString,
                PushRefused, PushContainerValue, PushOtherOpen, PushColon, PushComma,
                PushClose, Between, Advance
  <2>3. rest' = <<>> /\ status' = "MALFORMED" /\ wrote' = <<>>
    BY <2>2 DEF PushMalformed
  <2>4. k \in Readers /\ k.verdict = "MALFORMED" /\ k.due = <<>> /\ json' = k
    BY <1>6, <1>7, <1>8, <1>11 DEF Stopped
  <2> QED
    BY <2>3, <2>4, StopPicks
<1>12. CASE Len(l.frames) # JSP_MAX_DEPTH
  <2>1. Verdict(nesting, c) = "OK"
    BY <1>9, <1>12
  <2>2. \/ PushWrapper(c)
        \/ PushInContainer(c)
        \/ PushRefused(c)
        \/ PushContainerValue(c)
        \/ PushOtherOpen(c)
    BY <1>1, <1>2, <2>1
       DEF PushStructural, PushMalformed, PushStringEnd, PushKeyEnd, PushSkippedEnd,
           PushStringValue, PushKey, PushOtherString, PushColon, PushComma,
           PushClose, Between, Spread
  <2>3. Advance(c) /\ segments_matched' = segments_matched
    BY <2>2 DEF PushWrapper, PushInContainer, PushRefused, PushContainerValue,
                PushOtherOpen, Between
  <2>4. /\ path' = path /\ rest' = <<>> /\ nesting' = Step(nesting, c)
        /\ last_structural' = c /\ ~ in_string'
    BY <1>1, <1>2, <2>3, AdvanceMoves
  <2>5. Wraps(l, c) => q = "BETWEEN"
    <3>1. SUFFICES ASSUME Wraps(l, c), q # "BETWEEN" PROVE FALSE
      OBVIOUS
    <3>2. phase = "CONTAINER"
      BY <1>2, <1>3, <3>1 DEF Spread
    <3>3. nesting.depth > ValueDepth
      BY <3>2 DEF IInv, PhaseFitsWalk
    <3>4. nesting.depth = 0
      BY <1>10, <3>1 DEF OpensWrapper, Empty
    <3>5. /\ Len(path) \in Nat /\ RecordDepth(nesting) \in {0, 1}
          /\ ValueDepth = RecordDepth(nesting) + Len(path)
      BY <1>2, Numbers
    <3> QED
      BY <3>3, <3>4, <3>5
  <2>6. CASE PushRefused(c)
    <3>1. /\ ~ Wraps(l, c) /\ q = "BETWEEN" /\ AtValue /\ scalars_only
          /\ status' = "CONTAINER_REFUSED" /\ wrote' = <<>>
      BY <1>2, <1>3, <1>10, <2>6 DEF PushRefused, Between
    <3>2. refused
      BY <1>6, <1>7, <3>1 DEF Wraps
    <3>3. k \in Readers /\ k.verdict = "CONTAINER_REFUSED" /\ k.due = <<>> /\ json' = k
      BY <1>6, <1>7, <1>8, <1>12, <3>2 DEF Stopped
    <3> QED
      BY <2>4, <3>1, <3>3, StopPicks
  <2>7. CASE ~ PushRefused(c)
    <3>1. ~ refused
      <4>1. SUFFICES ASSUME refused PROVE FALSE
        OBVIOUS
      <4>2. ~ Wraps(l, c) /\ q = "BETWEEN" /\ AtValue /\ scalars_only
        BY <1>6, <1>7, <4>1 DEF Wraps
      <4>3. phase # "CONTAINER"
        BY <1>3, <4>2
      <4> QED
        BY <1>10, <2>2, <2>7, <4>2, <4>3
           DEF PushWrapper, PushInContainer, PushContainerValue, PushOtherOpen
    <3>2. Opened(k, l, c)
      BY <1>8, <1>12, <3>1
    <3>3. PICK n, f : n = OpenPhase(l, c, q) /\ f = OpenMark(l, c, q, e)
      OBVIOUS
    <3>4. /\ Fits(k, n, f)'
          /\ k.due = IF Wraps(l, c) THEN <<>>
                     ELSE IF q = "BETWEEN" /\ AtValue THEN FirstDue(l, c)
                     ELSE J!Copied(l, c)
      <4>1. /\ TypeOK /\ StandsBetween(l, q, e) /\ J!MayStartValue(l)
            /\ Verdict(nesting, c) = "OK" /\ nesting' = Step(nesting, c)
            /\ Opened(k, l, c) /\ path' = path /\ last_structural' = c
            /\ ~ in_string' /\ segments_matched' = segments_matched
            /\ Wraps(l, c) => q = "BETWEEN"
            /\ n = OpenPhase(l, c, q) /\ f = OpenMark(l, c, q, e)
        BY <1>2, <1>4, <1>5, <1>6, <2>1, <2>3, <2>4, <2>5, <3>2, <3>3
      <4> HIDE DEF StandsBetween, Opened, J!MayStartValue, AtValue
      <4> QED
        BY <4>1, OpenFits
    <3>5. k \in Readers /\ k.verdict = "OK" /\ json' = k
      BY <1>6, <1>7, <3>2 DEF Opened
    <3>6. /\ q = "CONTAINER" => J!Copied(l, c) = <<c>>
          /\ q # "CONTAINER" => J!Copied(l, c) = <<>>
      BY <1>1, <1>4, CopiedThere
    <3>7. CASE PushWrapper(c)
      <4>1. Wraps(l, c) /\ EmitNothing /\ emitted_any' = e /\ phase' = q
        BY <1>3, <1>10, <3>7 DEF PushWrapper
      <4>2. n = q /\ f = e /\ k.due = <<>>
        BY <3>3, <3>4, <4>1 DEF OpenPhase, OpenMark
      <4>3. Fits(json, phase, emitted_any)'
        BY <3>4, <3>5, <4>1, <4>2, FitsNext
      <4> QED
        BY <2>4, <3>5, <4>1, <4>2, <4>3, NothingIsDue
    <3>8. CASE PushContainerValue(c)
      <4>1. /\ ~ Wraps(l, c) /\ q = "BETWEEN" /\ AtValue /\ emitted_any' = TRUE
            /\ phase' = "CONTAINER" /\ Emit(<<>>, SeparatorDue \o <<c>>)
        BY <1>2, <1>3, <1>10, <3>8 DEF PushContainerValue, Between, BeginValue
      <4>2. n = "CONTAINER" /\ f = TRUE /\ k.due = FirstDue(l, c)
        BY <3>3, <3>4, <4>1 DEF OpenPhase, OpenMark
      <4>3. Fits(json, phase, emitted_any)'
        BY <3>4, <3>5, <4>1, <4>2, FitsNext
      <4>4. /\ FirstDue(l, c) = SeparatorDue \o <<c>>
            /\ SeparatorDue \o <<c>> \in Seq(Piece)
        BY <1>1, <1>2, <1>3, <1>7, FirstPieces
      <4>5. PICK d : d = SeparatorDue \o <<c>>
        OBVIOUS
      <4>6. d \in Seq(Piece) /\ Emit(<<>>, d) /\ k.due = d
        BY <4>1, <4>2, <4>4, <4>5
      <4> QED
        BY <2>4, <3>5, <4>3, <4>6, WroteWhatIsDue
    <3>9. CASE PushOtherOpen(c) \/ PushInContainer(c)
      <4>1. ~ Wraps(l, c)
        BY <1>10, <3>9 DEF PushOtherOpen, PushInContainer, Between
      <4>2. /\ q = "BETWEEN" => ~ AtValue /\ PushOtherOpen(c)
            /\ q = "CONTAINER" => PushInContainer(c)
        BY <1>2, <1>3, <3>9 DEF PushOtherOpen, PushInContainer, Between, Spread
      <4>3. q \in {"BETWEEN", "CONTAINER"}
        BY <1>4 DEF StandsBetween
      <4>4. n = q /\ f = e /\ k.due = J!Copied(l, c)
        BY <3>3, <3>4, <4>1, <4>2, <4>3 DEF OpenPhase, OpenMark
      <4>5. /\ q = "CONTAINER" => Emit(<<>>, <<c>>)
            /\ q # "CONTAINER" => EmitNothing
            /\ phase' = q /\ emitted_any' = e
        BY <1>1, <1>3, <4>2, <4>3 DEF PushOtherOpen, PushInContainer, EndsContainer
      <4>6. Fits(json, phase, emitted_any)'
        BY <3>4, <3>5, <4>4, <4>5, FitsNext
      <4> QED
        BY <1>1, <2>4, <3>5, <3>6, <4>4, <4>5, <4>6, OneOrNothingPicks
    <3> QED
      BY <2>2, <2>7, <3>7, <3>8, <3>9
  <2> QED
    BY <2>6, <2>7
<1> QED
  BY <1>11, <1>12

-----------------------------------------------------------------------------
(* The walk and the reader *)

\* A character of structure.
LEMMA StructuralPicks ==
  ASSUME IInv, PicksInv, NEW c \in Structural, TextStructural(c)
  PROVE  CaughtUp'
<1>1. PICK b \in Readers :
        /\ Fits(b, phase, emitted_any) /\ b.due = <<>> /\ LegalAt(b, c)
        /\ json' = ReadStructural(b, c)
        /\ in_string <=> Inside(b)
        /\ status = "OK" /\ rest = <<>>
        /\ Scanned(c) /\ PushStructural(c)
  BY StructuralStarts
<1>2. CASE Inside(b)
  <2>1. c = Quote
    BY <1>1, <1>2 DEF LegalAt
  <2> QED
    BY <1>1, <1>2, <2>1, QuoteEndsPicks
<1>3. CASE ~ Inside(b)
  <2>1. CASE c = Quote
    BY <1>1, <1>3, <2>1, QuoteStartsPicks
  <2>2. CASE c = "colon"
    BY <1>1, <1>3, <2>2, ColonPicks
  <2>3. CASE c = "comma"
    BY <1>1, <1>3, <2>3, CommaPicks
  <2>4. CASE c \in Closing
    BY <1>1, <1>3, <2>4, ClosePicks
  <2>5. CASE c \in Opening
    BY <1>1, <1>3, <2>5, OpenPicks
  <2> QED
    BY <2>1, <2>2, <2>3, <2>4, <2>5 DEF Structural
<1> QED
  BY <1>2, <1>3

\* Nothing happens to the walk.
LEMMA StutterPicks ==
  ASSUME IInv, PicksInv, UNCHANGED jvars
  PROVE  PicksInv'
<1>1. /\ path' = path /\ phase' = phase /\ emitted_any' = emitted_any
      /\ nesting' = nesting /\ segments_matched' = segments_matched
      /\ segment_text_left' = segment_text_left
      /\ last_structural' = last_structural /\ in_string' = in_string
      /\ rest' = rest /\ status' = status /\ wrote' = wrote /\ json' = json
  BY DEF jvars, vars, config, walk
<1>2. ASSUME status' = "OK" PROVE (\E x : Behind(x))'
  <2>1. PICK j : Behind(j)
    BY <1>1, <1>2 DEF PicksInv
  <2>2. PICK u, p, e : u = rest /\ p = phase /\ e = emitted_any
    OBVIOUS
  <2>3. /\ j \in Readers /\ Fits(j, p, e) /\ j.due = wrote' /\ LegalFrom(j, u)
        /\ json' = ReadBytes(j, u, Len(u)) /\ u \in Seq(Octet)
    BY <1>1, <2>1, <2>2 DEF Behind, IInv, TypeOK
  <2>4. Fits(j, p, e)'
    BY <1>1, <2>3, FitsKept
  <2>5. rest' = u /\ phase' = p /\ emitted_any' = e /\ path' = path
    BY <1>1, <2>2
  <2> QED
    BY <2>3, <2>4, <2>5, StandsAt
<1>3. StoppedWhenDue'
  BY <1>1 DEF PicksInv, StoppedWhenDue
<1> QED
  BY <1>1, <1>2, <1>3 DEF PicksInv

\* The reader that has read nothing fits the walk that has walked over nothing.
LEMMA PicksInitInv == JInit => IInv /\ PicksInv
<1> SUFFICES ASSUME JInit PROVE IInv /\ PicksInv
  OBVIOUS
<1>1. Init /\ json = J!Start
  BY DEF JInit
<1>2. IInv
  BY <1>1, InitInv
<1>3. J!Start \in Readers
  <2>1. <<>> \in Seq(Frame) /\ <<>> \in Seq(Octet) /\ <<>> \in Seq(Piece)
    BY EmptySeq
  <2> QED
    BY <2>1 DEF J!Start, Readers, J!NoKey
<1>4. PICK j : j = J!Start
  OBVIOUS
<1>5. /\ j \in Readers /\ j.frames = <<>> /\ j.expect = "value" /\ j.lex = "none"
      /\ j.text = <<>> /\ j.picking = "none" /\ j.begun = FALSE /\ j.due = <<>>
      /\ j.verdict = "OK"
  BY <1>3, <1>4 DEF J!Start, J!NoKey
<1>6. /\ phase = "BETWEEN" /\ emitted_any = FALSE /\ nesting.depth = 0
      /\ segments_matched = 0 /\ last_structural = "none" /\ in_string = FALSE
      /\ rest = <<>> /\ status = "OK" /\ wrote = <<>> /\ Empty(nesting)
  BY <1>1 DEF Init, EmptyStack, Empty
<1>7. Len(path) \in Nat /\ Len(j.frames) = 0
  BY <1>2, <1>5, Numbers, EmptySeq DEF IInv
<1>8. FramesFit(j)
  BY <1>6, <1>7 DEF FramesFit
<1>9. MatchFits(j)
  <2>1. RecordDepth(nesting) = 0
    BY <1>6 DEF RecordDepth, OutermostIsArray
  <2> QED
    BY <1>6, <1>7, <2>1 DEF MatchFits, Spells
<1>10. PlaceFits(j)
  BY <1>5, <1>6 DEF PlaceFits, Inside, KeyComesNext, J!MayStartKey, J!NoKey
<1>11. Fits(j, "BETWEEN", FALSE)
  BY <1>5, <1>8, <1>9, <1>10 DEF Fits, PickFits
<1>12. Fits(json, phase, emitted_any)
  BY <1>1, <1>4, <1>6, <1>11
<1>13. CaughtUp
  BY <1>1, <1>4, <1>5, <1>6, <1>12 DEF CaughtUp, StoppedWhenDue
<1> QED
  BY <1>2, <1>13, CaughtUpPicks

\* Every token of a text, and every pass, keeps the reader and the walk together.
LEMMA PicksNextInv == IInv /\ PicksInv /\ [JNext]_jvars => IInv' /\ PicksInv'
<1> SUFFICES ASSUME IInv, PicksInv, [JNext]_jvars PROVE IInv' /\ PicksInv'
  OBVIOUS
<1>1. ASSUME NEW c \in Structural, TextStructural(c) PROVE IInv' /\ PicksInv'
  <2>1. CaughtUp'
    BY <1>1, StructuralPicks
  <2>2. [Next]_vars
    BY <1>1 DEF TextStructural, Next
  <2> QED
    BY <2>1, <2>2, CaughtUpPicksNext, NextInv
<1>2. ASSUME NEW bytes \in BytesTokens, TextBytes(bytes) PROVE IInv' /\ PicksInv'
  <2>1. PushBytesToken(bytes)
    BY <1>2 DEF TextBytes
  <2>2. [Next]_vars
    BY <2>1 DEF Next
  <2>3. CASE PushBytesOfValue(bytes) \/ PushBytesSkipped(bytes)
    BY <1>2, <2>2, <2>3, BytesOfValuePick, CaughtUpPicksNext, NextInv
  <2>4. CASE PushBytesOfKey(bytes)
    BY <1>2, <2>2, <2>4, BytesOfKeyPick, CaughtUpPicksNext, NextInv
  <2>5. CASE PushBytesBetween(bytes)
    BY <1>2, <2>2, <2>5, BytesBetweenPick, NextInv
  <2> QED
    BY <2>1, <2>3, <2>4, <2>5 DEF PushBytesToken
<1>3. CASE TextPass
  <2>1. [Next]_vars
    BY <1>3 DEF TextPass, Next
  <2>2. IInv'
    BY <2>1, NextInv
  <2>3. PicksInv'
    <3>1. CASE phase = "SCALAR" \/ (phase = "BETWEEN" /\ AtValue)
      BY <1>3, <3>1, PassOfValuePicks
    <3>2. CASE ~ (phase = "SCALAR" \/ (phase = "BETWEEN" /\ AtValue))
      BY <1>3, <3>2, PassOfOtherPicks
    <3> QED
      BY <3>1, <3>2
  <2> QED
    BY <2>2, <2>3
<1>4. CASE UNCHANGED jvars
  <2>1. [Next]_vars
    BY <1>4 DEF jvars
  <2> QED
    BY <1>4, <2>1, StutterPicks, NextInv
<1> QED
  BY <1>1, <1>2, <1>3, <1>4 DEF JNext

\* The reader and the walk stay together.
LEMMA PicksHold == JSpec => [](IInv /\ PicksInv)
BY PicksInitInv, PicksNextInv, PTL DEF JSpec

\* Between two pushes nothing is left to read.
LEMMA BetweenPushes ==
  ASSUME TypeOK, PicksInv, status = "OK", PushDone
  PROVE  json.due = wrote /\ Fits(json, phase, emitted_any) /\ json \in Readers
<1>1. PICK j : Behind(j)
  BY DEF PicksInv
<1>2. <<>> \in Seq(Octet) /\ Len(<<>>) = 0 /\ rest = <<>>
  BY EmptySeq DEF PushDone
<1>3. ReadBytes(j, <<>>, 0) = j
  BY <1>1, <1>2, AlwaysReadsOn DEF ReadsOn, Behind
<1>4. json = j
  BY <1>1, <1>2, <1>3 DEF Behind
<1>5. j.due = wrote /\ Fits(j, phase, emitted_any) /\ j \in Readers
  BY <1>1 DEF Behind
<1> QED
  BY <1>4, <1>5

\* Whatever well-formed text comes, however scan and blocks cut it, a push of
\* jsp_pluck writes the octets of its token that the path picks, separators
\* included, or a part of them if a write fails.
THEOREM PicksAreWritten == JSpec => []WritesWhatIsPicked
<1>1. IInv /\ PicksInv => WritesWhatIsPicked
  <2> SUFFICES ASSUME IInv, PicksInv, PushDone
               PROVE  IF status = "WRITE_FAILED"
                        THEN J!IsStrictPrefix(wrote, json.due)
                        ELSE wrote = json.due
    BY DEF WritesWhatIsPicked
  <2>1. status \in Statuses /\ TypeOK
    BY DEF IInv, TypeOK
  <2>2. CASE status = "OK"
    BY <2>1, <2>2, BetweenPushes
  <2>3. CASE status # "OK"
    <3> HIDE DEF J!IsStrictPrefix
    <3> QED
      BY <2>1, <2>3 DEF PicksInv, StoppedWhenDue, Statuses
  <2> QED
    BY <2>2, <2>3
<1> QED
  BY <1>1, PicksHold, PTL

\* segments_matched is at any time as many of the path's segments as the open
\* objects' current keys spell.
THEOREM MatchesAreSpelled == JSpec => []MatchesWhatIsSpelled
<1>1. IInv /\ PicksInv => MatchesWhatIsSpelled
  <2> SUFFICES ASSUME IInv, PicksInv, PushDone, status = "OK"
               PROVE  segments_matched = J!Spelled(json.frames, path)
    BY DEF MatchesWhatIsSpelled
  <2>1. /\ json \in Readers /\ FramesFit(json) /\ MatchFits(json) /\ TypeOK
    BY BetweenPushes DEF IInv, Fits
  <2>2. PICK j : j = json
    OBVIOUS
  <2>3. j \in Readers /\ FramesFit(j) /\ MatchFits(j)
    BY <2>1, <2>2
  <2>4. /\ RecordDepth(nesting) = Wrappers(j.frames) /\ path \in Seq(Seq(Octet))
        /\ j.frames \in Seq(Frame)
        /\ Spells(j.frames, path, RecordDepth(nesting), segments_matched)
    BY <2>1, <2>3, WrapDepth, Numbers, ReaderFields DEF MatchFits
  <2>5. PICK f, s, r, k : /\ f = j.frames /\ s = path /\ r = RecordDepth(nesting)
                          /\ k = segments_matched
    OBVIOUS
  <2>6. f \in Seq(Frame) /\ s \in Seq(Seq(Octet)) /\ r = Wrappers(f) /\ Spells(f, s, r, k)
    BY <2>4, <2>5
  <2>7. J!Spelled(f, s) = k
    BY <2>6, SpellsOnce, Zenon
  <2> QED
    BY <2>2, <2>5, <2>7
<1> QED
  BY <1>1, PicksHold, PTL

\* A walk over well-formed text stops for nothing but what is due to stop it: an
\* opening bracket past the bound, a picked container that must not go out, or a
\* write of something that failed.
THEOREM WalkStopsWhenDue == JSpec => []StopsWhenDue
<1>1. IInv /\ PicksInv => StopsWhenDue
  <2> SUFFICES ASSUME IInv, PicksInv, PushDone
               PROVE  status = json.verdict \/ (status = "WRITE_FAILED" /\ json.due # <<>>)
    BY DEF StopsWhenDue
  <2>1. status \in Statuses /\ TypeOK
    BY DEF IInv, TypeOK
  <2>2. CASE status = "OK"
    BY <2>1, <2>2, BetweenPushes DEF Fits
  <2>3. CASE status \in {"MALFORMED", "CONTAINER_REFUSED"}
    BY <2>3 DEF PicksInv, StoppedWhenDue
  <2>4. CASE status = "WRITE_FAILED"
    <3>1. J!IsStrictPrefix(wrote, json.due)
      BY <2>4 DEF PicksInv, StoppedWhenDue
    <3>2. json.due # <<>>
      <4>1. PICK w, d : w = wrote /\ d = json.due
        OBVIOUS
      <4>2. J!IsStrictPrefix(w, d) /\ w \in Seq(Piece)
        BY <3>1, <4>1 DEF IInv, TypeOK, Piece
      <4>3. w # d /\ Len(w) <= Len(d) /\ Len(w) \in Nat
        BY <4>2, LenProperties DEF J!IsStrictPrefix, J!IsPrefix
      <4>4. SUFFICES ASSUME d = <<>> PROVE FALSE
        BY <4>1
      <4>5. Len(w) = 0
        BY <4>3, <4>4, EmptySeq
      <4> QED
        BY <4>2, <4>3, <4>4, <4>5, EmptySeq
    <3> QED
      BY <2>4, <3>2
  <2> QED
    BY <2>1, <2>2, <2>3, <2>4 DEF Statuses
<1> QED
  BY <1>1, PicksHold, PTL
=============================================================================
