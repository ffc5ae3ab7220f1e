--------------------------- MODULE PipelineProofs ----------------------------
(***************************************************************************)
(* Proofs about module Pipeline, for texts of JSON, reads, paths and       *)
(* framings of any size and every call that may fail.  They rest on the    *)
(* invariants of the walk, IInv and PicksInv of PluckProofs, and of the    *)
(* scan, KInv of ScanReaderProofs and ScanInv of ScanProofs.               *)
(***************************************************************************)
EXTENDS Pipeline, ScanReaderProofs

-----------------------------------------------------------------------------
(* The reader of a text's octets, one after the other *)

\* The reader t after the first n octets of s.
ReadThrough(t, s, n) == FoldLeft(PastTextOctet, t, SubSeq(s, 1, n))

\* Any row of readers that starts at t and goes past one octet after the other is
\* where the fold over the octets stands.
LEMMA TextFollows ==
  ASSUME NEW X, NEW s \in Seq(X), NEW n \in 0 .. Len(s), NEW p, NEW t, t = p[0],
         \A i \in 1 .. n : p[i] = PastTextOctet(p[i - 1], s[i])
  PROVE  ReadThrough(t, s, n) = p[n]
<1> DEFINE u == SubSeq(s, 1, n)
           Folds(g) == [S \in SUBSET DOMAIN u |->
                          IF S = {} THEN t
                          ELSE PastTextOctet(g[S \ {Max(S)}], u[Max(S)])]
           g == CHOOSE g : g = Folds(g)
           Good(m, h) == \A S \in SUBSET (1 .. m) :
                           h[S] = IF S = {} THEN t
                                  ELSE PastTextOctet(h[S \ {Max(S)}], u[Max(S)])
           N == {m \in 0 .. n : \E h : Good(m, h)}
<1>1. n \in Nat /\ DOMAIN u = 1 .. n /\ \A i \in 1 .. n : u[i] = s[i]
  BY FirstOctets, LenProperties
<1>2. ReadThrough(t, s, n) = g[DOMAIN u]
  BY DEF ReadThrough, FoldLeft, MapThenFoldSet, Max
<1> HIDE DEF u
<1>3. 0 \in N
  <2> DEFINE h == [S \in SUBSET (1 .. 0) |-> t]
  <2>1. \A S \in SUBSET (1 .. 0) : S = {} /\ h[S] = t
    OBVIOUS
  <2> HIDE DEF h
  <2>2. Good(0, h) /\ 0 \in 0 .. n
    BY <1>1, <2>1
  <2> HIDE DEF Good
  <2> QED
    BY <2>2
<1>4. ASSUME NEW m \in 0 .. n - 1, m \in N PROVE m + 1 \in N
  <2>1. PICK f : Good(m, f)
    BY <1>4
  <2> DEFINE h == [S \in SUBSET (1 .. m + 1) |->
                     IF m + 1 \in S THEN PastTextOctet(f[S \ {m + 1}], u[m + 1])
                                    ELSE f[S]]
  <2>2. m \in Nat /\ m + 1 \in 0 .. n
    BY <1>1
  <2>3. ASSUME NEW S \in SUBSET (1 .. m + 1)
        PROVE  h[S] = IF S = {} THEN t
                      ELSE PastTextOctet(h[S \ {Max(S)}], u[Max(S)])
    <3>1. CASE m + 1 \in S
      <4>1. Max(S) = m + 1
        <5>1. \A y \in S : m + 1 >= y
          BY <2>2
        <5>2. \A x \in S : (\A y \in S : x >= y) => x = m + 1
          BY <2>2, <3>1, <5>1
        <5> QED
          BY <3>1, <5>1, <5>2 DEF Max
      <4>2. S \ {m + 1} \in SUBSET (1 .. m + 1) /\ m + 1 \notin S \ {m + 1} /\ S # {}
        BY <3>1
      <4>3. h[S \ {m + 1}] = f[S \ {m + 1}]
        BY <4>2
      <4>4. h[S] = PastTextOctet(f[S \ {m + 1}], u[m + 1])
        BY <3>1
      <4> HIDE DEF h
      <4> QED
        BY <4>1, <4>2, <4>3, <4>4
    <3>2. CASE m + 1 \notin S
      <4>1. S \in SUBSET (1 .. m) /\ h[S] = f[S]
        BY <2>2, <3>2
      <4>2. f[S] = IF S = {} THEN t ELSE PastTextOctet(f[S \ {Max(S)}], u[Max(S)])
        BY <2>1, <4>1
      <4>3. h[S \ {Max(S)}] = f[S \ {Max(S)}]
        <5>1. S \ {Max(S)} \in SUBSET (1 .. m + 1) /\ m + 1 \notin S \ {Max(S)}
          BY <3>2
        <5> QED
          BY <5>1
      <4> HIDE DEF h
      <4> QED
        BY <4>1, <4>2, <4>3
    <3> QED
      BY <3>1, <3>2
  <2> HIDE DEF h
  <2>4. Good(m + 1, h)
    BY <2>3
  <2> QED
    BY <2>2, <2>4
<1>5. n \in N
  <2> HIDE DEF N
  <2>1. \A m \in 0 .. n : m \in N
    BY <1>1, <1>3, <1>4, UpTo
  <2> QED
    BY <1>1, <2>1
<1>6. \E h : h = Folds(h)
  <2>1. PICK f : Good(n, f)
    BY <1>5
  <2> DEFINE h == [S \in SUBSET (1 .. n) |-> f[S]]
  <2>2. ASSUME NEW S \in SUBSET (1 .. n)
        PROVE  h[S] = IF S = {} THEN t
                      ELSE PastTextOctet(h[S \ {Max(S)}], u[Max(S)])
    <3>1. S \ {Max(S)} \in SUBSET (1 .. n)
      OBVIOUS
    <3>2. h[S] = f[S] /\ h[S \ {Max(S)}] = f[S \ {Max(S)}]
      BY <3>1
    <3>3. f[S] = IF S = {} THEN t ELSE PastTextOctet(f[S \ {Max(S)}], u[Max(S)])
      BY <2>1
    <3> HIDE DEF h
    <3> QED
      BY <3>2, <3>3
  <2>3. h = [S \in SUBSET (1 .. n) |-> h[S]]
    OBVIOUS
  <2> HIDE DEF h
  <2>4. h = Folds(h)
    BY <1>1, <2>2, <2>3, Zenon
  <2> QED
    BY <2>4
<1>7. g = Folds(g)
  BY <1>6, Zenon
<1> HIDE DEF g, N
<1>8. \A i \in 0 .. n : (1 .. i) \in SUBSET (1 .. n)
  BY <1>1
<1>9. g[1 .. 0] = t
  <2>1. 1 .. 0 = {} /\ 0 \in 0 .. n
    BY <1>1
  <2> QED
    BY <1>1, <1>7, <1>8, <2>1
<1>10. ASSUME NEW i \in 1 .. n PROVE g[1 .. i] = PastTextOctet(g[1 .. i - 1], s[i])
  <2>1. i \in Nat \ {0} /\ i \in 0 .. n
    BY <1>1
  <2>2. Max(1 .. i) = i /\ (1 .. i) \ {i} = 1 .. i - 1 /\ 1 .. i # {}
    BY <2>1, MaxUpTo
  <2>3. g[1 .. i] = IF 1 .. i = {} THEN t
                    ELSE PastTextOctet(g[(1 .. i) \ {Max(1 .. i)}], u[Max(1 .. i)])
    BY <1>1, <1>7, <1>8, <2>1
  <2> QED
    BY <1>1, <2>2, <2>3
<1> DEFINE S == {i \in 0 .. n : p[i] = g[1 .. i]}
<1>11. \A i \in 0 .. n : i \in S
  <2>1. 0 \in S
    BY <1>1, <1>9
  <2>2. ASSUME NEW i \in 0 .. n - 1, i \in S PROVE i + 1 \in S
    <3>1. i + 1 \in 1 .. n /\ i + 1 \in 0 .. n /\ (i + 1) - 1 = i
      BY <1>1
    <3>2. p[i] = g[1 .. i]
      BY <2>2
    <3>3. /\ p[i + 1] = PastTextOctet(p[i], s[i + 1])
          /\ g[1 .. i + 1] = PastTextOctet(g[1 .. i], s[i + 1])
      BY <1>10, <3>1
    <3> QED
      BY <3>1, <3>2, <3>3
  <2> HIDE DEF S
  <2> QED
    BY <1>1, <2>1, <2>2, UpTo
<1> QED
  BY <1>1, <1>2, <1>11

\* There is such a row over all octets.
LEMMA ThroughRow ==
  ASSUME NEW X, NEW t, NEW s \in Seq(X)
  PROVE  \E p : /\ p[0] = t
                /\ \A n \in 1 .. Len(s) : p[n] = PastTextOctet(p[n - 1], s[n])
                /\ \A n \in 0 .. Len(s) : ReadThrough(t, s, n) = p[n]
<1> DEFINE N == Len(s)
           Row(p, m) == /\ p[0] = t
                        /\ \A i \in 1 .. m : p[i] = PastTextOctet(p[i - 1], s[i])
           S == {m \in 0 .. N : \E p : Row(p, m)}
<1>1. N \in Nat
  BY LenProperties
<1> HIDE DEF N
<1>2. 0 \in S
  <2> DEFINE q == [i \in 0 .. 0 |-> t]
  <2>1. q[0] = t
    OBVIOUS
  <2> HIDE DEF q
  <2>2. Row(q, 0)
    BY <2>1
  <2> QED
    BY <1>1, <2>2
<1>3. ASSUME NEW m \in 0 .. N - 1, m \in S PROVE m + 1 \in S
  <2>1. PICK p : Row(p, m)
    BY <1>3
  <2> DEFINE q == [i \in 0 .. m + 1 |->
                     IF i = m + 1 THEN PastTextOctet(p[m], s[m + 1]) ELSE p[i]]
  <2>2. m \in Nat /\ m + 1 \in 0 .. N
    BY <1>1
  <2>3. q[0] = t /\ q[m + 1] = PastTextOctet(p[m], s[m + 1])
        /\ \A i \in 0 .. m : q[i] = p[i]
    BY <2>1, <2>2
  <2> HIDE DEF q
  <2>4. Row(q, m + 1)
    <3> SUFFICES ASSUME NEW i \in 1 .. m + 1
                 PROVE  q[i] = PastTextOctet(q[i - 1], s[i])
      BY <2>3
    <3>1. CASE i = m + 1
      <4>1. i - 1 = m /\ m \in 0 .. m
        BY <2>2, <3>1
      <4> QED
        BY <2>3, <3>1, <4>1
    <3>2. CASE i # m + 1
      <4>1. i \in 1 .. m /\ i \in 0 .. m /\ i - 1 \in 0 .. m
        BY <2>2, <3>2
      <4> QED
        BY <2>1, <2>3, <4>1
    <3> QED
      BY <3>1, <3>2
  <2> QED
    BY <2>2, <2>4
<1>4. PICK p : Row(p, N)
  <2> HIDE DEF S, Row
  <2>1. \A m \in 0 .. N : m \in S
    BY <1>1, <1>2, <1>3, UpTo
  <2>2. N \in S
    BY <1>1, <2>1
  <2> QED
    BY <2>2 DEF S
<1>5. ASSUME NEW n \in 0 .. N PROVE ReadThrough(t, s, n) = p[n]
  <2>1. /\ \A i \in 1 .. n : p[i] = PastTextOctet(p[i - 1], s[i])
        /\ p[0] = t /\ n \in 0 .. Len(s)
    BY <1>1, <1>4 DEF N
  <2> HIDE DEF Row
  <2> QED
    BY <2>1, TextFollows
<1> QED
  BY <1>4, <1>5 DEF N

\* Nothing read leaves the reader where it is.
LEMMA ThroughNone ==
  ASSUME NEW X, NEW t, NEW s \in Seq(X)
  PROVE  ReadThrough(t, s, 0) = t
<1> DEFINE q == [i \in 0 .. 0 |-> t]
<1>1. 0 \in 0 .. Len(s) /\ \A i \in 1 .. 0 : FALSE
  BY LenProperties
<1>2. q[0] = t
  OBVIOUS
<1> HIDE DEF q
<1>3. \A i \in 1 .. 0 : q[i] = PastTextOctet(q[i - 1], s[i])
  BY <1>1
<1>4. ReadThrough(t, s, 0) = q[0]
  BY <1>1, <1>2, <1>3, TextFollows
<1> QED
  BY <1>2, <1>4

\* One octet after the other.
LEMMA ThroughNext ==
  ASSUME NEW X, NEW t, NEW s \in Seq(X), NEW n \in 1 .. Len(s)
  PROVE  ReadThrough(t, s, n) = PastTextOctet(ReadThrough(t, s, n - 1), s[n])
<1>1. Len(s) \in Nat
  BY LenProperties
<1>2. n \in 0 .. Len(s) /\ n - 1 \in 0 .. Len(s)
  BY <1>1
<1> QED
  BY <1>2, ThroughRow

\* Octets that two sequences begin with alike read alike.
LEMMA ThroughAlike ==
  ASSUME NEW X, NEW t, NEW s \in Seq(X), NEW u \in Seq(X), NEW n \in 0 .. Len(s),
         n <= Len(u), \A i \in 1 .. n : s[i] = u[i]
  PROVE  ReadThrough(t, s, n) = ReadThrough(t, u, n)
<1>1. Len(s) \in Nat /\ Len(u) \in Nat /\ n \in Nat
  BY LenProperties
<1> DEFINE S == {i \in 0 .. n : ReadThrough(t, s, i) = ReadThrough(t, u, i)}
<1>2. 0 \in S
  BY <1>1, ThroughNone
<1>3. ASSUME NEW i \in 0 .. n - 1, i \in S PROVE i + 1 \in S
  <2>1. /\ i + 1 \in 1 .. Len(s) /\ i + 1 \in 1 .. Len(u) /\ (i + 1) - 1 = i
        /\ i + 1 \in 1 .. n /\ i + 1 \in 0 .. n
    BY <1>1
  <2>2. /\ ReadThrough(t, s, i + 1) = PastTextOctet(ReadThrough(t, s, i), s[i + 1])
        /\ ReadThrough(t, u, i + 1) = PastTextOctet(ReadThrough(t, u, i), u[i + 1])
    <3>1. \A m \in 1 .. Len(s) :
            ReadThrough(t, s, m) = PastTextOctet(ReadThrough(t, s, m - 1), s[m])
      BY ThroughNext
    <3>2. \A m \in 1 .. Len(u) :
            ReadThrough(t, u, m) = PastTextOctet(ReadThrough(t, u, m - 1), u[m])
      BY ThroughNext
    <3> QED
      BY <2>1, <3>1, <3>2
  <2>3. ReadThrough(t, s, i) = ReadThrough(t, u, i)
    BY <1>3
  <2> QED
    BY <2>1, <2>2, <2>3
<1>4. \A i \in 0 .. n : i \in S
  <2> HIDE DEF S
  <2> QED
    BY <1>1, <1>2, <1>3, UpTo
<1> QED
  BY <1>1, <1>4

-----------------------------------------------------------------------------
(* Readers of text that differ in what they put out *)

Fields == {"frames", "expect", "lex", "text", "picking", "base", "begun", "due",
           "verdict"}

\* Two readers of module Json, which have read the same.
Alike(a, b) ==
  /\ DOMAIN a = Fields /\ DOMAIN b = Fields
  /\ a.frames = b.frames /\ a.expect = b.expect /\ a.lex = b.lex /\ a.text = b.text
  /\ a.picking = b.picking /\ a.base = b.base /\ a.begun = b.begun
  /\ a.verdict = b.verdict

\* Two readers of this module.
TextAlike(t, u) ==
  /\ DOMAIN t = {"json", "escaped", "before", "path", "flat"}
  /\ DOMAIN u = {"json", "escaped", "before", "path", "flat"}
  /\ Alike(t.json, u.json)
  /\ t.escaped = u.escaped /\ t.path = u.path /\ t.flat = u.flat

\* Alike readers end a scalar alike.
LEMMA ScalarEndAlike ==
  ASSUME NEW a, NEW b, Alike(a, b)
  PROVE  /\ Alike(J!EndScalar(a), J!EndScalar(b))
         /\ J!EndScalar(a).lex = IF a.lex = "scalar" THEN "none" ELSE a.lex
         /\ J!EndScalar(a).verdict = a.verdict
         /\ J!EndScalar(a).expect = a.expect
         /\ J!EndScalar(a).frames = a.frames
BY DEF Alike, Fields, J!EndScalar, J!Ended

\* Alike readers begin a value alike.
LEMMA BeginAlike ==
  ASSUME NEW a, NEW b, Alike(a, b), NEW o, NEW p, NEW kind, NEW sep
  PROVE  /\ Alike(J!Begin(a, o, p, kind, sep), J!Begin(b, o, p, kind, sep))
         /\ J!Begin(a, o, p, kind, sep).lex = a.lex
         /\ J!Begin(a, o, p, kind, sep).verdict = a.verdict
BY DEF Alike, Fields, J!Begin

\* Alike readers take an octet of a string alike.
LEMMA ContentAlike ==
  ASSUME NEW a, NEW b, Alike(a, b), NEW o
  PROVE  /\ Alike(J!ReadContent(a, o), J!ReadContent(b, o))
         /\ J!ReadContent(a, o).lex = a.lex
         /\ J!ReadContent(a, o).verdict = a.verdict
BY DEF Alike, Fields, J!ReadContent

\* Alike readers take a blank alike.
LEMMA BlankAlike ==
  ASSUME NEW a, NEW b, Alike(a, b), NEW o
  PROVE  /\ Alike(J!ReadBlank(a, o), J!ReadBlank(b, o))
         /\ a.lex \notin {"key", "string"} => J!ReadBlank(a, o).lex \notin {"key", "string"}
         /\ J!ReadBlank(a, o).verdict = a.verdict
<1> PICK k, l : k = J!EndScalar(a) /\ l = J!EndScalar(b)
  OBVIOUS
<1>1. /\ Alike(k, l)
      /\ k.lex = IF a.lex = "scalar" THEN "none" ELSE a.lex
      /\ k.verdict = a.verdict
  BY ScalarEndAlike
<1>2. /\ J!ReadBlank(a, o) = [k EXCEPT !.due = J!Copied(k, o)]
      /\ J!ReadBlank(b, o) = [l EXCEPT !.due = J!Copied(l, o)]
  BY DEF J!ReadBlank
<1> QED
  BY <1>1, <1>2 DEF Alike, Fields

\* Alike readers take a letter of a scalar alike.
LEMMA LetterAlike ==
  ASSUME NEW a, NEW b, Alike(a, b), NEW o, NEW p, NEW sep
  PROVE  /\ Alike(J!ReadLetter(a, o, p, sep), J!ReadLetter(b, o, p, sep))
         /\ J!ReadLetter(a, o, p, sep).lex = "scalar"
         /\ J!ReadLetter(a, o, p, sep).verdict = a.verdict
<1>1. CASE a.lex = "scalar"
  BY <1>1 DEF Alike, Fields, J!ReadLetter
<1>2. CASE a.lex # "scalar"
  <2> PICK k, l : /\ k = J!Begin(a, o, p, "scalar", sep)
                  /\ l = J!Begin(b, o, p, "scalar", sep)
    OBVIOUS
  <2>1. Alike(k, l) /\ k.verdict = a.verdict
    BY BeginAlike
  <2>2. /\ J!ReadLetter(a, o, p, sep) =
             [k EXCEPT !.lex = "scalar", !.expect = J!AfterValue(a.frames)]
        /\ J!ReadLetter(b, o, p, sep) =
             [l EXCEPT !.lex = "scalar", !.expect = J!AfterValue(b.frames)]
    BY <1>2 DEF J!ReadLetter, Alike
  <2> QED
    BY <2>1, <2>2 DEF Alike, Fields
<1> QED
  BY <1>1, <1>2

\* Alike readers end a string alike.
LEMMA StringEndAlike ==
  ASSUME NEW a, NEW b, Alike(a, b), NEW o
  PROVE  /\ Alike(J!ReadStringEnd(a, o), J!ReadStringEnd(b, o))
         /\ J!ReadStringEnd(a, o).lex = "none"
BY DEF Alike, Fields, J!ReadStringEnd, J!Ended

\* Alike readers start a string alike.
LEMMA StringStartAlike ==
  ASSUME NEW a, NEW b, Alike(a, b), NEW o, NEW p, NEW sep
  PROVE  /\ Alike(J!ReadStringStart(a, o, p, sep), J!ReadStringStart(b, o, p, sep))
         /\ J!ReadStringStart(a, o, p, sep).lex \in {"key", "string"}
<1> PICK k, l : k = J!EndScalar(a) /\ l = J!EndScalar(b)
  OBVIOUS
<1>1. Alike(k, l)
  BY ScalarEndAlike
<1>2. J!MayStartKey(k) <=> J!MayStartKey(l)
  BY <1>1 DEF Alike, J!MayStartKey, J!TopKind, J!Last
<1>3. CASE J!MayStartKey(k)
  <2>1. /\ J!ReadStringStart(a, o, p, sep) =
             [k EXCEPT !.lex = "key", !.due = J!Copied(k, o)]
        /\ J!ReadStringStart(b, o, p, sep) =
             [l EXCEPT !.lex = "key", !.due = J!Copied(l, o)]
    BY <1>2, <1>3 DEF J!ReadStringStart
  <2> QED
    BY <1>1, <2>1 DEF Alike, Fields
<1>4. CASE ~ J!MayStartKey(k)
  <2> PICK g, h : /\ g = J!Begin(k, o, p, "string", sep)
                  /\ h = J!Begin(l, o, p, "string", sep)
    OBVIOUS
  <2>1. /\ J!ReadStringStart(a, o, p, sep) = [g EXCEPT !.lex = "string"]
        /\ J!ReadStringStart(b, o, p, sep) = [h EXCEPT !.lex = "string"]
    BY <1>2, <1>4 DEF J!ReadStringStart
  <2>2. Alike(g, h)
    BY <1>1, BeginAlike
  <2> QED
    BY <2>1, <2>2 DEF Alike, Fields
<1> QED
  BY <1>3, <1>4

\* Alike readers open a container alike.
LEMMA OpenAlike ==
  ASSUME NEW a, NEW b, Alike(a, b), NEW o, NEW p, NEW kind, NEW sep, NEW bound, NEW flat,
         a.lex \notin {"key", "string"}
  PROVE  /\ Alike(J!ReadOpen(a, o, p, kind, sep, bound, flat),
                  J!ReadOpen(b, o, p, kind, sep, bound, flat))
         /\ J!ReadOpen(a, o, p, kind, sep, bound, flat).lex \notin {"key", "string"}
<1> PICK k, l : k = J!EndScalar(a) /\ l = J!EndScalar(b)
  OBVIOUS
<1>1. Alike(k, l) /\ k.lex \notin {"key", "string"}
  BY ScalarEndAlike
<1> DEFINE wrapper == kind = "array" /\ k.frames = <<>>
           picked == ~wrapper /\ k.picking = "none" /\ J!Picked(k.frames, p)
           opened == Append(k.frames, [kind |-> kind, key |-> J!NoKey])
           g == IF wrapper THEN k ELSE J!Begin(k, o, p, "container", sep)
           h == IF wrapper THEN l ELSE J!Begin(l, o, p, "container", sep)
<1>2. /\ J!ReadOpen(a, o, p, kind, sep, bound, flat) =
           IF Len(k.frames) = bound THEN [k EXCEPT !.verdict = "MALFORMED"]
           ELSE IF picked /\ flat THEN [k EXCEPT !.verdict = "CONTAINER_REFUSED"]
           ELSE [g EXCEPT !.frames = opened, !.expect = "first"]
      /\ J!ReadOpen(b, o, p, kind, sep, bound, flat) =
           IF Len(k.frames) = bound THEN [l EXCEPT !.verdict = "MALFORMED"]
           ELSE IF picked /\ flat THEN [l EXCEPT !.verdict = "CONTAINER_REFUSED"]
           ELSE [h EXCEPT !.frames = opened, !.expect = "first"]
  BY <1>1 DEF J!ReadOpen, Alike
<1>3. Alike(g, h) /\ g.lex \notin {"key", "string"}
  BY <1>1, BeginAlike
<1> HIDE DEF picked, opened, g, h
<1> QED
  BY <1>1, <1>2, <1>3 DEF Alike, Fields

\* Alike readers close a container alike.
LEMMA CloseAlike ==
  ASSUME NEW a, NEW b, Alike(a, b), NEW o, a.lex \notin {"key", "string"}
  PROVE  /\ Alike(J!ReadClose(a, o), J!ReadClose(b, o))
         /\ J!ReadClose(a, o).lex \notin {"key", "string"}
<1> PICK k, l : k = J!EndScalar(a) /\ l = J!EndScalar(b)
  OBVIOUS
<1>1. Alike(k, l) /\ k.lex \notin {"key", "string"}
  BY ScalarEndAlike
<1> DEFINE closed == Front(k.frames)
           left(j) == IF Len(closed) = k.base THEN J!Ended(j, "container") ELSE j.picking
<1>2. /\ J!ReadClose(a, o) =
           [k EXCEPT !.due = J!Copied(k, o), !.frames = closed,
                     !.expect = J!AfterValue(closed), !.picking = left(k)]
      /\ J!ReadClose(b, o) =
           [l EXCEPT !.due = J!Copied(l, o), !.frames = closed,
                     !.expect = J!AfterValue(closed), !.picking = left(l)]
  BY <1>1 DEF J!ReadClose, Alike, Fields, Front, J!Front
<1>3. left(k) = left(l)
  BY <1>1 DEF Alike, J!Ended
<1> HIDE DEF closed, left
<1> QED
  BY <1>1, <1>2, <1>3 DEF Alike, Fields

\* Alike readers take a comma alike.
LEMMA CommaAlike ==
  ASSUME NEW a, NEW b, Alike(a, b), NEW o, a.lex \notin {"key", "string"}
  PROVE  /\ Alike(J!ReadComma(a, o), J!ReadComma(b, o))
         /\ J!ReadComma(a, o).lex \notin {"key", "string"}
<1> PICK k, l : k = J!EndScalar(a) /\ l = J!EndScalar(b)
  OBVIOUS
<1>1. Alike(k, l) /\ k.lex \notin {"key", "string"}
  BY ScalarEndAlike
<1>2. J!TopKind(k) = J!TopKind(l)
  BY <1>1 DEF Alike, J!TopKind
<1>3. CASE J!TopKind(k) = "object"
  <2>1. /\ J!ReadComma(a, o) =
             [k EXCEPT !.due = J!Copied(k, o), !.expect = "key",
                       !.frames[Len(k.frames)].key = J!NoKey]
        /\ J!ReadComma(b, o) =
             [l EXCEPT !.due = J!Copied(l, o), !.expect = "key",
                       !.frames[Len(l.frames)].key = J!NoKey]
    BY <1>2, <1>3 DEF J!ReadComma
  <2> QED
    BY <1>1, <2>1 DEF Alike, Fields
<1>4. CASE J!TopKind(k) # "object"
  <2>1. /\ J!ReadComma(a, o) = [k EXCEPT !.due = J!Copied(k, o), !.expect = "value"]
        /\ J!ReadComma(b, o) = [l EXCEPT !.due = J!Copied(l, o), !.expect = "value"]
    BY <1>2, <1>4 DEF J!ReadComma
  <2> QED
    BY <1>1, <2>1 DEF Alike, Fields
<1> QED
  BY <1>3, <1>4

\* Alike readers take a colon alike.
LEMMA ColonAlike ==
  ASSUME NEW a, NEW b, Alike(a, b), NEW o
  PROVE  /\ Alike(J!ReadColon(a, o), J!ReadColon(b, o))
         /\ J!ReadColon(a, o).lex = a.lex
BY DEF Alike, Fields, J!ReadColon

-----------------------------------------------------------------------------
(* One octet *)

\* An octet outside structure.
LEMMA OctetAlike ==
  ASSUME NEW a, NEW b, Alike(a, b), NEW o, NEW p
  PROVE  /\ Alike(ReadOctetFor(a, o, p), ReadOctetFor(b, o, p))
         /\ Inside(ReadOctetFor(a, o, p)) <=> Inside(a)
         /\ ReadOctetFor(a, o, p).verdict = a.verdict
<1>1. Inside(a) <=> Inside(b)
  BY DEF Alike, Inside
<1>2. CASE Inside(a)
  <2>1. /\ ReadOctetFor(a, o, p) = J!ReadContent(a, o)
        /\ ReadOctetFor(b, o, p) = J!ReadContent(b, o)
    BY <1>1, <1>2 DEF ReadOctetFor
  <2> QED
    BY <2>1, ContentAlike DEF Inside
<1>3. CASE ~ Inside(a) /\ o \in Blank
  <2>1. /\ ReadOctetFor(a, o, p) = J!ReadBlank(a, o)
        /\ ReadOctetFor(b, o, p) = J!ReadBlank(b, o)
    BY <1>1, <1>3 DEF ReadOctetFor
  <2> QED
    BY <1>3, <2>1, BlankAlike DEF Inside
<1>4. CASE ~ Inside(a) /\ o \notin Blank
  <2>1. /\ ReadOctetFor(a, o, p) = J!ReadLetter(a, o, p, Separator)
        /\ ReadOctetFor(b, o, p) = J!ReadLetter(b, o, p, Separator)
    BY <1>1, <1>4 DEF ReadOctetFor
  <2> QED
    BY <1>4, <2>1, LetterAlike DEF Inside
<1> QED
  BY <1>2, <1>3, <1>4

\* An octet of structure: only a quote starts or ends a string.
LEMMA StructuralAlike ==
  ASSUME NEW a, NEW b, Alike(a, b), NEW c \in Structural, NEW p, NEW flat
  PROVE  /\ Alike(ReadStructuralFor(a, c, p, flat), ReadStructuralFor(b, c, p, flat))
         /\ Inside(a) => ~ Inside(ReadStructuralFor(a, c, p, flat))
         /\ ~ Inside(a) => (Inside(ReadStructuralFor(a, c, p, flat)) <=> c = Quote)
<1>1. Inside(a) <=> Inside(b)
  BY DEF Alike, Inside
<1>2. CASE Inside(a)
  <2>1. /\ ReadStructuralFor(a, c, p, flat) = J!ReadStringEnd(a, c)
        /\ ReadStructuralFor(b, c, p, flat) = J!ReadStringEnd(b, c)
    BY <1>1, <1>2 DEF ReadStructuralFor
  <2> QED
    BY <1>2, <2>1, StringEndAlike DEF Inside
<1>3. CASE ~ Inside(a)
  <2>1. a.lex \notin {"key", "string"}
    BY <1>3 DEF Inside
  <2>2. CASE c = Quote
    <3>1. /\ ReadStructuralFor(a, c, p, flat) = J!ReadStringStart(a, c, p, Separator)
          /\ ReadStructuralFor(b, c, p, flat) = J!ReadStringStart(b, c, p, Separator)
      BY <1>1, <1>3, <2>2 DEF ReadStructuralFor, Quote, Opening, Closing
    <3> QED
      BY <1>3, <2>2, <3>1, StringStartAlike DEF Inside
  <2>3. CASE c \in Opening
    <3> PICK kind : kind = IF c = "lbrace" THEN "object" ELSE "array"
      OBVIOUS
    <3>1. /\ ReadStructuralFor(a, c, p, flat) =
               J!ReadOpen(a, c, p, kind, Separator, JSP_MAX_DEPTH, flat)
          /\ ReadStructuralFor(b, c, p, flat) =
               J!ReadOpen(b, c, p, kind, Separator, JSP_MAX_DEPTH, flat)
          /\ c # Quote
      BY <1>1, <1>3, <2>3 DEF ReadStructuralFor, Quote, Opening, Closing
    <3> QED
      BY <1>3, <2>1, <3>1, OpenAlike DEF Inside
  <2>4. CASE c \in Closing
    <3>1. /\ ReadStructuralFor(a, c, p, flat) = J!ReadClose(a, c)
          /\ ReadStructuralFor(b, c, p, flat) = J!ReadClose(b, c)
          /\ c # Quote
      BY <1>1, <1>3, <2>4 DEF ReadStructuralFor, Quote, Opening, Closing
    <3> QED
      BY <1>3, <2>1, <3>1, CloseAlike DEF Inside
  <2>5. CASE c = "comma"
    <3>1. /\ ReadStructuralFor(a, c, p, flat) = J!ReadComma(a, c)
          /\ ReadStructuralFor(b, c, p, flat) = J!ReadComma(b, c)
          /\ c # Quote
      BY <1>1, <1>3, <2>5 DEF ReadStructuralFor, Quote, Opening, Closing
    <3> QED
      BY <1>3, <2>1, <3>1, CommaAlike DEF Inside
  <2>6. CASE c = "colon"
    <3>1. /\ ReadStructuralFor(a, c, p, flat) = J!ReadColon(a, c)
          /\ ReadStructuralFor(b, c, p, flat) = J!ReadColon(b, c)
          /\ c # Quote
      BY <1>1, <1>3, <2>6 DEF ReadStructuralFor, Quote, Opening, Closing
    <3> QED
      BY <1>3, <2>1, <3>1, ColonAlike DEF Inside
  <2> QED
    BY <2>2, <2>3, <2>4, <2>5, <2>6 DEF Structural
<1> QED
  BY <1>2, <1>3

\* What octet o is to a reader that has not stopped.
Content(t, o) == Inside(t.json) /\ (o # Quote \/ t.escaped)

Plain(t, o) == ~ Inside(t.json) /\ o \notin Structural

Bounds(t, o) == ~ Content(t, o) /\ ~ Plain(t, o)

\* An octet is taken in one of three ways.
LEMMA PastIsOne ==
  ASSUME NEW t, DOMAIN t = {"json", "escaped", "before", "path", "flat"}, NEW o,
         t.json.verdict = "OK"
  PROVE  /\ Content(t, o) => PastTextOctet(t, o).json = J!ReadContent(t.json, o)
         /\ Plain(t, o) => PastTextOctet(t, o).json = ReadOctetFor(t.json, o, t.path)
         /\ Bounds(t, o) =>
              /\ PastTextOctet(t, o).json = ReadStructuralFor(t.json, o, t.path, t.flat)
              /\ o \in Structural
              /\ Inside(t.json) => o = Quote /\ ~t.escaped
         /\ PastTextOctet(t, o).escaped = (o = "backslash" /\ ~t.escaped)
         /\ PastTextOctet(t, o).before = t.before
         /\ PastTextOctet(t, o).path = t.path /\ PastTextOctet(t, o).flat = t.flat
         /\ DOMAIN PastTextOctet(t, o) = {"json", "escaped", "before", "path", "flat"}
BY DEF PastTextOctet, Content, Plain, Bounds, Structural

\* Past the same octet, two readers that have read the same have so again.
LEMMA PastAlike ==
  ASSUME NEW t, NEW u, TextAlike(t, u), NEW o
  PROVE  TextAlike(PastTextOctet(t, o), PastTextOctet(u, o))
<1>1. t.json.verdict = u.json.verdict
  BY DEF TextAlike, Alike
<1>2. CASE t.json.verdict # "OK"
  BY <1>1, <1>2 DEF PastTextOctet
<1>3. CASE t.json.verdict = "OK"
  <2>1. /\ Inside(t.json) <=> Inside(u.json)
        /\ t.escaped = u.escaped /\ t.path = u.path /\ t.flat = u.flat
    BY DEF TextAlike, Alike, Inside
  <2> PICK v, w : v = PastTextOctet(t, o) /\ w = PastTextOctet(u, o)
    OBVIOUS
  <2> DEFINE Stands(x, y) ==
        /\ Content(x, o) => y.json = J!ReadContent(x.json, o)
        /\ Plain(x, o) => y.json = ReadOctetFor(x.json, o, x.path)
        /\ Bounds(x, o) => /\ y.json = ReadStructuralFor(x.json, o, x.path, x.flat)
                           /\ o \in Structural
        /\ y.escaped = (o = "backslash" /\ ~x.escaped)
        /\ y.path = x.path /\ y.flat = x.flat
        /\ DOMAIN y = {"json", "escaped", "before", "path", "flat"}
  <2>2. Stands(t, v)
    BY <1>3, PastIsOne DEF TextAlike
  <2>3. Stands(u, w)
    <3>1. /\ u.json.verdict = "OK"
          /\ DOMAIN u = {"json", "escaped", "before", "path", "flat"}
      BY <1>1, <1>3 DEF TextAlike
    <3> QED
      BY <3>1, PastIsOne
  <2>4. /\ Content(t, o) <=> Content(u, o)
        /\ Plain(t, o) <=> Plain(u, o)
        /\ Bounds(t, o) <=> Bounds(u, o)
    BY <2>1 DEF Content, Plain, Bounds
  <2>5. Alike(t.json, u.json)
    BY DEF TextAlike
  <2>6. Alike(v.json, w.json)
    <3>1. CASE Content(t, o)
      BY <2>2, <2>3, <2>4, <2>5, <3>1, ContentAlike
    <3>2. CASE Plain(t, o)
      BY <2>1, <2>2, <2>3, <2>4, <2>5, <3>2, OctetAlike
    <3>3. CASE Bounds(t, o)
      BY <2>1, <2>2, <2>3, <2>4, <2>5, <3>3, StructuralAlike
    <3> QED
      BY <3>1, <3>2, <3>3 DEF Bounds
  <2> QED
    BY <2>1, <2>2, <2>3, <2>6 DEF TextAlike
<1> QED
  BY <1>2, <1>3

-----------------------------------------------------------------------------
(* The scan's reader of single octets and this one *)

\* As long as t goes on they agree on strings and escapes.
Agrees(t, x) ==
  t.json.verdict = "OK" =>
    /\ Inside(t.json) <=> x.in_string
    /\ t.escaped <=> x.escaped
    /\ x.escaped => x.in_string

\* What the octet is to the scan.
LEMMA KindIs ==
  ASSUME NEW o \in StreamOctet
  PROVE  /\ KindOf[o] = "quote" <=> o = Quote
         /\ KindOf[o] = "backslash" <=> o = "backslash"
         /\ KindOf[o] \in {"quote", "bracket"} <=> o \in Structural
BY KindsAssumption DEF Structural

\* An octet is structure to the scan where the reader of text takes it for such.
LEMMA StructureBounds ==
  ASSUME NEW t, NEW x \in TextStates, Agrees(t, x), t.json.verdict = "OK",
         NEW o \in StreamOctet
  PROVE  IsStructure(x, KindOf[o]) <=> Bounds(t, o)
<1>1. x.in_string \in BOOLEAN /\ x.escaped \in BOOLEAN
  BY DEF TextStates
<1> QED
  BY <1>1, KindIs DEF Agrees, IsStructure, Bounds, Content, Plain, Structural

\* They agree past the next octet.
LEMMA AgreesNext ==
  ASSUME NEW t, TextAlike(t, t), NEW x \in TextStates, Agrees(t, x),
         NEW o \in StreamOctet, GoesOnWith(t, o)
  PROVE  Agrees(PastTextOctet(t, o), Past(x, KindOf[o]))
<1>1. CASE t.json.verdict # "OK"
  BY <1>1 DEF PastTextOctet, Agrees
<1>2. CASE t.json.verdict = "OK"
  <2> PICK u, y : u = PastTextOctet(t, o) /\ y = Past(x, KindOf[o])
    OBVIOUS
  <2>1. /\ Content(t, o) => u.json = J!ReadContent(t.json, o)
        /\ Plain(t, o) => u.json = ReadOctetFor(t.json, o, t.path)
        /\ Bounds(t, o) => /\ u.json = ReadStructuralFor(t.json, o, t.path, t.flat)
                           /\ o \in Structural
                           /\ Inside(t.json) => o = Quote /\ ~t.escaped
        /\ u.escaped = (o = "backslash" /\ ~t.escaped)
    BY <1>2, PastIsOne DEF TextAlike
  <2>2. /\ y.in_string <=> ~ (x.in_string <=> (o = Quote /\ ~x.escaped))
        /\ y.escaped <=> o = "backslash" /\ ~x.escaped
    <3>1. x.in_string \in BOOLEAN /\ x.escaped \in BOOLEAN
      BY DEF TextStates
    <3> QED
      BY <3>1, PastIs, KindIs
  <2>3. /\ Inside(t.json) <=> x.in_string
        /\ t.escaped <=> x.escaped
        /\ x.escaped => x.in_string
    BY <1>2 DEF Agrees
  <2>4. Alike(t.json, t.json)
    BY DEF TextAlike
  <2>5. CASE Content(t, o)
    <3>1. Inside(t.json) /\ (o # Quote \/ t.escaped)
      BY <2>5 DEF Content
    <3>2. Inside(u.json) <=> Inside(t.json)
      BY <2>1, <2>4, <2>5, ContentAlike DEF Inside
    <3> QED
      BY <2>1, <2>2, <2>3, <3>1, <3>2 DEF Agrees
  <2>6. CASE Plain(t, o)
    <3>1. ~ Inside(t.json) /\ o \notin Structural
      BY <2>6 DEF Plain
    <3>2. Inside(u.json) <=> Inside(t.json)
      BY <2>1, <2>4, <2>6, OctetAlike
    <3>3. o # "backslash" /\ o # Quote
      BY <1>2, <3>1 DEF GoesOnWith, Structural
    <3> QED
      BY <2>1, <2>2, <2>3, <3>1, <3>2, <3>3 DEF Agrees
  <2>7. CASE Bounds(t, o)
    <3>1. /\ o \in Structural
          /\ Inside(t.json) => o = Quote /\ ~t.escaped
          /\ u.json = ReadStructuralFor(t.json, o, t.path, t.flat)
      BY <2>1, <2>7
    <3>2. /\ Inside(t.json) => ~ Inside(u.json)
          /\ ~ Inside(t.json) => (Inside(u.json) <=> o = Quote)
      BY <2>4, <3>1, StructuralAlike
    <3>3. o # "backslash"
      BY <3>1 DEF Structural, Opening, Closing, Quote
    <3> QED
      BY <2>1, <2>2, <2>3, <3>1, <3>2, <3>3 DEF Agrees
  <2> QED
    BY <2>5, <2>6, <2>7 DEF Bounds
<1> QED
  BY <1>1, <1>2

\* What a reader of text keeps.
Keeps(t, p, flat) == TextAlike(t, t) /\ t.path = p /\ t.flat = flat

\* They agree all along a text.
LEMMA TextAgrees ==
  ASSUME NEW s \in Seq(StreamOctet), NEW p, NEW flat, LegalText(s, p, flat),
         NEW n \in 0 .. Len(s)
  PROVE  /\ Keeps(TextFirst(s, n, p, flat), p, flat)
         /\ Agrees(TextFirst(s, n, p, flat), TextOf(s, n))
<1> DEFINE t(i) == ReadThrough(TextStart(p, flat), s, i)
           Good(i) == Keeps(t(i), p, flat) /\ Agrees(t(i), TextOf(s, i))
           S == {i \in 0 .. Len(s) : Good(i)}
<1>1. Len(s) \in Nat
  BY LenProperties
<1>2. \A i : TextFirst(s, i, p, flat) = t(i)
  BY DEF TextFirst, ReadThrough
<1>3. 0 \in S
  <2>1. t(0) = TextStart(p, flat)
    BY ThroughNone
  <2> HIDE DEF t
  <2>2. Keeps(t(0), p, flat)
    BY <2>1 DEF Keeps, TextStart, TextAlike, Alike, Fields, J!Start
  <2>3. Agrees(t(0), StartOfText)
    BY <2>1 DEF Agrees, TextStart, Inside, J!Start, StartOfText
  <2>4. TextOf(s, 0) = StartOfText
    BY <1>1, TextTypes
  <2> QED
    BY <1>1, <2>2, <2>3, <2>4
<1>4. ASSUME NEW i \in 0 .. Len(s) - 1, i \in S PROVE i + 1 \in S
  <2> PICK k : k = i + 1
    OBVIOUS
  <2>1. k \in 1 .. Len(s) /\ k \in 0 .. Len(s) /\ k - 1 = i /\ i \in 0 .. Len(s)
    BY <1>1
  <2>2. t(k) = PastTextOctet(t(k - 1), s[k])
    BY <2>1, ThroughNext
  <2>3. GoesOnWith(t(i), s[k])
    BY <1>2, <2>1 DEF LegalText
  <2> HIDE DEF t
  <2>4. /\ Kinds(s) \in Seq(Kind) /\ Len(Kinds(s)) = Len(s) /\ Kinds(s)[k] = KindOf[s[k]]
        /\ StartOfText \in TextStates /\ TextOf(s, i) \in TextStates
        /\ s[k] \in StreamOctet
    BY <2>1, KindsAre, TextTypes, ElementOfSeq
  <2>5. TextOf(s, k) = Past(TextOf(s, i), KindOf[s[k]])
    <3>1. k \in 1 .. Len(Kinds(s))
      BY <2>1, <2>4
    <3>2. PastFirst(StartOfText, Kinds(s), k) =
            Past(PastFirst(StartOfText, Kinds(s), k - 1), Kinds(s)[k])
      BY <2>4, <3>1, PastFirstNext
    <3> QED
      BY <2>1, <2>4, <3>2 DEF TextOf
  <2>6. Good(i)
    BY <1>4
  <2>7. t(k) = PastTextOctet(t(i), s[k])
    BY <2>1, <2>2
  <2>8. Agrees(t(k), TextOf(s, k))
    BY <2>3, <2>4, <2>5, <2>6, <2>7, AgreesNext DEF Keeps
  <2>9. Keeps(t(k), p, flat)
    <3>1. TextAlike(t(k), t(k))
      BY <2>6, <2>7, PastAlike DEF Keeps
    <3>2. CASE t(i).json.verdict # "OK"
      BY <2>6, <2>7, <3>1, <3>2 DEF PastTextOctet, Keeps
    <3>3. CASE t(i).json.verdict = "OK"
      BY <2>6, <2>7, <3>1, <3>3, PastIsOne DEF Keeps, TextAlike
    <3> QED
      BY <3>2, <3>3
  <2> QED
    BY <2>1, <2>8, <2>9
<1>5. \A i \in 0 .. Len(s) : i \in S
  <2> HIDE DEF S
  <2> QED
    BY <1>1, <1>3, <1>4, UpTo
<1> QED
  BY <1>2, <1>5

\* A reader goes on through the octets from o as one that has read the same
\* before them.
LEMMA GoesOnAlike ==
  ASSUME NEW s \in Seq(StreamOctet), NEW o \in Nat, NEW n \in Nat, o + n <= Len(s),
         NEW t, NEW b, TextAlike(t, ReadThrough(b, s, o)), NEW i \in 0 .. n
  PROVE  TextAlike(ReadThrough(t, SubSeq(s, o + 1, o + n), i), ReadThrough(b, s, o + i))
<1> PICK u : u = SubSeq(s, o + 1, o + n)
  OBVIOUS
<1>1. /\ u \in Seq(StreamOctet) /\ Len(u) = n
      /\ \A j \in 1 .. n : u[j] = s[o + j]
  BY OctetsFrom
<1>2. Len(s) \in Nat
  BY LenProperties
<1> DEFINE S == {j \in 0 .. n : TextAlike(ReadThrough(t, u, j), ReadThrough(b, s, o + j))}
<1>3. 0 \in S
  <2>1. u \in Seq(StreamOctet)
    BY <1>1
  <2>2. ReadThrough(t, u, 0) = t
    BY <2>1, ThroughNone
  <2>3. o + 0 = o /\ 0 \in 0 .. n
    OBVIOUS
  <2> QED
    BY <2>2, <2>3
<1>4. ASSUME NEW j \in 0 .. n - 1, j \in S PROVE j + 1 \in S
  <2> PICK k, m : k = j + 1 /\ m = o + k
    OBVIOUS
  <2>1. /\ k \in 1 .. n /\ k \in 0 .. n /\ k - 1 = j
        /\ m \in 1 .. Len(s) /\ m - 1 = o + j
    BY <1>2
  <2>2. ReadThrough(t, u, k) = PastTextOctet(ReadThrough(t, u, k - 1), u[k])
    <3>1. u \in Seq(StreamOctet) /\ k \in 1 .. Len(u)
      BY <1>1, <2>1
    <3> QED
      BY <3>1, ThroughNext
  <2>3. ReadThrough(b, s, m) = PastTextOctet(ReadThrough(b, s, m - 1), s[m])
    BY <2>1, ThroughNext, ZenonT(60)
  <2>4. u[k] = s[m]
    BY <1>1, <2>1
  <2>5. TextAlike(ReadThrough(t, u, j), ReadThrough(b, s, o + j))
    BY <1>4
  <2>6. TextAlike(ReadThrough(t, u, k), ReadThrough(b, s, m))
    BY <2>1, <2>2, <2>3, <2>4, <2>5, PastAlike
  <2> QED
    BY <2>1, <2>6
<1>5. \A j \in 0 .. n : j \in S
  <2> HIDE DEF S
  <2> QED
    BY <1>3, <1>4, UpTo
<1> QED
  BY <1>5

-----------------------------------------------------------------------------
(* The walk under the run *)

\* The proofs about jsp_pluck beside the reader of module Json, for the tokens of
\* the program's own stream: within a string a letter may be any octet.
PJ == INSTANCE PluckProofs
        WITH Letter <- Letter \cup Structural,
             BytesTokens <- Seq(StreamOctet) \ {<<>>},
             Keys <- Seq(StreamOctet),
             MaxOpen <- JSP_MAX_DEPTH + 1,
             json <- text.json

\* What they assume holds of it here.
LEMMA WalkAssumptions ==
  /\ PJ!DepthAssumption /\ PJ!PathsAssumption /\ PJ!OctetAssumption
  /\ PJ!BytesAssumption /\ PJ!WordWidthAssumption
<1>1. PJ!DepthAssumption
  BY DepthAssumption DEF PJ!DepthAssumption
<1>2. PJ!OctetAssumption
  BY OctetAssumption, SymbolsAssumption DEF PJ!OctetAssumption, Octet
<1>3. PJ!BytesAssumption
  BY OctetsAssumption DEF PJ!BytesAssumption, PJ!Octet, Octet
<1>4. PJ!PathsAssumption
  BY PathsAssumption DEF PJ!PathsAssumption, PJ!Octet, Octet
<1>5. PJ!WordWidthAssumption
  BY WordWidthAssumption DEF PJ!WordWidthAssumption
<1> QED
  BY <1>1, <1>2, <1>3, <1>4, <1>5

\* They read with the same reader.
LEMMA SameReader ==
  /\ \A j, o : PJ!ReadOctet(j, o) = ReadOctetFor(j, o, path)
  /\ \A j, c : PJ!ReadStructural(j, c) = ReadStructuralFor(j, c, path, scalars_only)
  /\ \A j, o : PJ!AllowsOctet(j, o) <=> AllowsOctet(j, o)
  /\ \A j, c : PJ!AllowsStructural(j, c) <=> AllowsStructural(j, c)
  /\ \A j, o : PJ!J!ReadContent(j, o) = J!ReadContent(j, o)
  /\ \A j : PJ!Inside(j) <=> Inside(j)
  /\ PJ!J!Start = J!Start
  /\ PJ!Structural = Structural
  /\ PJ!Octet = StreamOctet
<1>1. /\ \A j : PJ!Inside(j) <=> Inside(j)
      /\ PJ!J!Start = J!Start
      /\ PJ!Structural = Structural
      /\ PJ!Octet = StreamOctet
  BY OctetsAssumption
  DEF PJ!Inside, Inside, PJ!J!Start, J!Start, PJ!J!NoKey, J!NoKey, PJ!Structural, Structural,
      PJ!Opening, Opening, PJ!Closing, Closing, PJ!Quote, Quote, PJ!Octet, Octet
<1>2. \A j, o : PJ!J!ReadContent(j, o) = J!ReadContent(j, o)
  BY DEF PJ!J!ReadContent, J!ReadContent, PJ!J!Copied, J!Copied
<1>3. \A j, o : PJ!ReadOctet(j, o) = ReadOctetFor(j, o, path)
  BY DEF PJ!ReadOctet, PJ!ReadOctetFor, ReadOctetFor, PJ!Inside, Inside,
      PJ!J!ReadContent, J!ReadContent, PJ!J!Copied, J!Copied, PJ!J!ReadBlank, J!ReadBlank,
      PJ!J!EndScalar, J!EndScalar, PJ!J!Ended, J!Ended, PJ!J!ReadLetter, J!ReadLetter,
      PJ!J!Begin, J!Begin, PJ!J!Picked, J!Picked, PJ!J!Below, J!Below,
      PJ!J!Spelled, J!Spelled, PJ!J!AfterValue, J!AfterValue, PJ!Separator, Separator
<1>4. \A j, o : PJ!AllowsOctet(j, o) <=> AllowsOctet(j, o)
  BY DEF PJ!AllowsOctet, AllowsOctet, PJ!Inside, Inside, PJ!J!MayStartValue, J!MayStartValue,
      PJ!J!TopKind, J!TopKind, PJ!J!Last, J!Last
<1>5. \A j, c : PJ!AllowsStructural(j, c) <=> AllowsStructural(j, c)
  BY DEF PJ!AllowsStructural, AllowsStructural, PJ!Inside, Inside,
      PJ!J!MayStartValue, J!MayStartValue, PJ!J!MayStartKey, J!MayStartKey,
      PJ!J!TopKind, J!TopKind, PJ!J!Last, J!Last,
      PJ!Opening, Opening, PJ!Quote, Quote
<1>6. \A j, c : PJ!ReadStructural(j, c) = ReadStructuralFor(j, c, path, scalars_only)
  BY DEF PJ!ReadStructural, PJ!ReadStructuralFor, ReadStructuralFor, PJ!Inside, Inside,
      PJ!J!ReadStringEnd, J!ReadStringEnd, PJ!J!ReadStringStart, J!ReadStringStart,
      PJ!J!ReadOpen, J!ReadOpen, PJ!J!ReadClose, J!ReadClose, PJ!J!ReadComma, J!ReadComma,
      PJ!J!ReadColon, J!ReadColon, PJ!J!Copied, J!Copied, PJ!J!EndScalar, J!EndScalar,
      PJ!J!Ended, J!Ended, PJ!J!Begin, J!Begin, PJ!J!Picked, J!Picked, PJ!J!Below, J!Below,
      PJ!J!Spelled, J!Spelled, PJ!J!AfterValue, J!AfterValue, PJ!Separator, Separator,
      PJ!J!MayStartKey, J!MayStartKey, PJ!J!TopKind, J!TopKind, PJ!J!Last, J!Last,
      PJ!J!NoKey, J!NoKey, PJ!J!Front, J!Front,
      PJ!Opening, Opening, PJ!Closing, Closing, PJ!Quote, Quote
<1> QED
  BY <1>1, <1>2, <1>3, <1>4, <1>5, <1>6

\* They walk alike past a structural octet.
LEMMA SameStructural ==
  ASSUME NEW c, Scanned(c), PushStructural(c)
  PROVE  PJ!Scanned(c) /\ PJ!PushStructural(c)
<1>1. PJ!Scanned(c)
  BY SMTT(30) DEF PJ!Scanned, Scanned, PJ!Quote, Quote
<1>2. PJ!PushStructural(c)
  BY Zenon DEF PJ!PushStructural, PushStructural, PJ!PushMalformed, PushMalformed,
         PJ!PushWrapper, PushWrapper, PJ!PushStringEnd, PushStringEnd,
         PJ!PushKeyEnd, PushKeyEnd, PJ!PushSkippedEnd, PushSkippedEnd,
         PJ!PushInContainer, PushInContainer, PJ!PushStringValue, PushStringValue,
         PJ!PushKey, PushKey, PJ!PushOtherString, PushOtherString,
         PJ!PushRefused, PushRefused, PJ!PushContainerValue, PushContainerValue,
         PJ!PushOtherOpen, PushOtherOpen, PJ!PushComma, PushComma, PJ!PushClose, PushClose,
         PJ!PushColon, PushColon, PJ!Advance, Advance, PJ!Pushable, Pushable,
         PJ!Verdict, Verdict, PJ!Step, Step, PJ!Opening, Opening, PJ!Closing, Closing,
         PJ!Quote, Quote, PJ!Full, Full, PJ!Empty, Empty, PJ!Top, Top, PJ!Push, Push,
         PJ!Pop, Pop, PJ!OpensWrapper, OpensWrapper, PJ!EmitNothing, EmitNothing,
         PJ!Emit, Emit, PJ!RecordDepth, RecordDepth, PJ!OutermostIsArray, OutermostIsArray,
         PJ!At, At, PJ!AtValue, AtValue, PJ!AtKey, AtKey, PJ!KeyComesNext, KeyComesNext,
         PJ!InnermostIsObject, InnermostIsObject, PJ!BeginValue, BeginValue,
         PJ!SeparatorDue, SeparatorDue, PJ!Separator, Separator, PJ!Between, Between,
         PJ!EndsContainer, EndsContainer, PJ!NextSegment, NextSegment,
         PJ!MatchedAfterComma, MatchedAfterComma, PJ!MatchedAfterClose, MatchedAfterClose,
         PJ!config, config, PJ!walk, walk
<1> QED
  BY <1>1, <1>2

\* And past a BYTES token.
LEMMA SameBytes ==
  ASSUME NEW bytes, PushBytesToken(bytes)
  PROVE  PJ!PushBytesToken(bytes)
BY DEF PJ!PushBytesToken, PushBytesToken, PJ!PushBytesOfValue, PushBytesOfValue,
       PJ!PushBytesSkipped, PushBytesSkipped, PJ!PushBytesOfKey, PushBytesOfKey,
       PJ!PushBytesBetween, PushBytesBetween, PJ!PushBytes, PushBytes, PJ!Emit, Emit,
       PJ!EmitNothing, EmitNothing, PJ!StartsWith, StartsWith, PJ!After, After,
       PJ!PastBlanks, PastBlanks, PJ!PrefixIn, PrefixIn, PJ!config, config

\* The letters of octets outside strings are letters.
LEMMA SameLetters ==
  ASSUME NEW s \in Seq(Octet)
  PROVE  PJ!PrefixIn(s, Letter \cup Structural) = PrefixIn(s, Letter)
<1>1. \A i \in 1 .. Len(s) : s[i] \in Letter \cup Structural <=> s[i] \in Letter
  <2>1. \A i \in 1 .. Len(s) : s[i] \in Octet
    BY ElementOfSeq
  <2> QED
    BY <2>1, SymbolsAssumption
<1>2. Len(s) \in Nat
  BY LenProperties
<1> DEFINE P(n) == /\ \A i \in 1 .. n : s[i] \in Letter \cup Structural
                   /\ n < Len(s) => s[n + 1] \notin Letter \cup Structural
           Q(n) == /\ \A i \in 1 .. n : s[i] \in Letter
                   /\ n < Len(s) => s[n + 1] \notin Letter
<1>3. \A n \in 0 .. Len(s) : P(n) <=> Q(n)
  BY <1>1, <1>2
<1>4. (CHOOSE n \in 0 .. Len(s) : P(n)) = (CHOOSE n \in 0 .. Len(s) : Q(n))
  <2> HIDE DEF P, Q
  <2> QED
    BY <1>3, Zenon
<1> QED
  BY <1>4 DEF PJ!PrefixIn, PrefixIn

\* And past one pass over what is left of a token outside strings.
LEMMA SamePass ==
  ASSUME rest \in Seq(Octet), ScalarPass
  PROVE  PJ!ScalarPass
<1>1. PJ!PrefixIn(rest, Letter \cup Structural) = PrefixIn(rest, Letter)
  BY SameLetters, Zenon
<1>2. /\ \A s, n : PJ!After(s, n) = After(s, n)
      /\ \A s : PJ!PastBlanks(s) = PastBlanks(s)
      /\ PJ!AtValue <=> AtValue
      /\ PJ!SeparatorDue = SeparatorDue
      /\ PJ!config = config /\ PJ!walk = walk
  BY DEF PJ!After, After, PJ!PastBlanks, PastBlanks, PJ!PrefixIn, PrefixIn,
         PJ!AtValue, AtValue, PJ!KeyComesNext, KeyComesNext,
         PJ!InnermostIsObject, InnermostIsObject, PJ!Empty, Empty, PJ!Top, Top,
         PJ!RecordDepth, RecordDepth, PJ!OutermostIsArray, OutermostIsArray, PJ!At, At,
         PJ!SeparatorDue, SeparatorDue, PJ!Separator, Separator, PJ!config, config,
         PJ!walk, walk
<1>3. \A b, p : Emit(b, p) <=> PJ!Emit(b, p)
  BY DEF PJ!Emit, Emit
<1> PICK n, left, lead : /\ n = PrefixIn(rest, Letter)
                         /\ left = After(rest, n)
                         /\ lead = IF phase = "BETWEEN" /\ AtValue THEN SeparatorDue ELSE <<>>
  OBVIOUS
<1>4. /\ status = "OK"
      /\ rest # <<>>
      /\ IF (phase = "BETWEEN" /\ AtValue) \/ phase = "SCALAR"
           THEN /\ Emit(wrote, lead \o SubSeq(rest, 1, n))
                /\ emitted_any' = (emitted_any \/ (phase = "BETWEEN" /\ AtValue))
                /\ IF status' = "OK" /\ n < Len(rest)
                     THEN phase' = "BETWEEN" /\ rest' = PastBlanks(left)
                     ELSE phase' = "SCALAR" /\ rest' = <<>>
           ELSE rest' = PastBlanks(left) /\ UNCHANGED <<phase, emitted_any, wrote, status>>
      /\ UNCHANGED <<config, walk, in_string>>
  BY Zenon DEF ScalarPass
<1>5. /\ PJ!PrefixIn(rest, Letter \cup Structural) = n
      /\ PJ!After(rest, n) = left
      /\ PJ!PastBlanks(left) = PastBlanks(left)
      /\ PJ!Emit(wrote, lead \o SubSeq(rest, 1, n)) <=> Emit(wrote, lead \o SubSeq(rest, 1, n))
      /\ lead = IF phase = "BETWEEN" /\ PJ!AtValue THEN PJ!SeparatorDue ELSE <<>>
      /\ PJ!AtValue <=> AtValue
      /\ PJ!config = config /\ PJ!walk = walk
  BY <1>1, <1>2, <1>3
<1>6. PJ!config' = config' /\ PJ!walk' = walk'
  BY DEF PJ!config, config, PJ!walk, walk
<1> QED
  BY <1>4, <1>5, <1>6 DEF PJ!ScalarPass

-----------------------------------------------------------------------------
(* The scan under the run *)

\* The proofs about jsp_scan over whole blocks, for the stream as the scan over
\* the reader's buffer has read it.
SP ==
  INSTANCE ScanProofs
    WITH MaxBlocks <- MaxStream \div WordWidth + 1,
         trace_mode <- "NONE",
         lines <- <<>>,
         window <- [window EXCEPT !.rest = Kinds(Through(@))],
         blocks <- (stream_offset + WordWidth - 1) \div WordWidth,
         ended <- stream_offset % WordWidth # 0,
         status <- answer,
         token <- [token EXCEPT !.bytes =
                     Kinds(InStream(token.offset, Len(@)))],
         text <- TextAt(window.offset),
         before <- TextAt(token.offset),
         wellescaped <- \A i \in 1 .. window.offset :
           KindOf[stream[i]] = "backslash" => TextAt(i - 1).in_string

\* The scan starts where that module has it start.
LEMMA SameScanInit == AbstractScan!Init => SP!Init
BY DEF AbstractScan!Init, SP!Init, AbstractScan!StartOfText, SP!StartOfText

\* Their operators are those of the scan.
LEMMA SameScanOperators ==
  ASSUME NEW a, NEW b, NEW c
  PROVE  /\ SP!PastFirst(a, b, c) = PastFirst(a, b, c)
         /\ SP!Edge(a) = Edge(a)
         /\ SP!WindowAfter(a, b) = WindowAfter(a, b)
         /\ SP!Trimmed(a, b) = Trimmed(a, b)
         /\ SP!Structure(a, b) = Structure(a, b)
<1>1. SP!PastFirst(a, b, c) = PastFirst(a, b, c)
  BY Zenon DEF SP!PastFirst, PastFirst, SP!FoldLeft, FoldLeft,
               SP!MapThenFoldSet, MapThenFoldSet, SP!Past, Past,
               SP!Max, Max
<1>2. /\ SP!Bit = Bit
      /\ SP!EvenBits = EvenBits
      /\ SP!OddBits = OddBits
      /\ \A x : SP!Not(x) = Not(x)
      /\ \A x : SP!TrailingZeros(x) = TrailingZeros(x)
      /\ \A x : SP!LowMask(x) = LowMask(x)
      /\ \A x, y : SP!Xor(x, y) = Xor(x, y)
      /\ \A x, y : SP!ShiftLeft(x, y) = ShiftLeft(x, y)
      /\ \A x, y : SP!ShiftRight(x, y) = ShiftRight(x, y)
      /\ \A x, y : SP!Masked(x, y) = Masked(x, y)
  BY Zenon DEF SP!Bit, Bit, SP!EvenBits, EvenBits,
               SP!OddBits, OddBits, SP!Not, Not,
               SP!TrailingZeros, TrailingZeros, SP!LowMask, LowMask,
               SP!Xor, Xor, SP!ShiftLeft, ShiftLeft,
               SP!ShiftRight, ShiftRight, SP!Masked, Masked
<1>3. SP!Edge(a) = Edge(a)
  BY <1>2 DEF SP!Edge, Edge
<1>4. SP!WindowAfter(a, b) = WindowAfter(a, b)
  BY <1>2, Zenon DEF SP!WindowAfter, WindowAfter
<1>5. SP!Trimmed(a, b) = Trimmed(a, b)
  BY <1>2 DEF SP!Trimmed, Trimmed
<1>6. \A x, y : SP!PrefixXor(x, y) = PrefixXor(x, y)
  BY Zenon DEF SP!PrefixXor, PrefixXor, SP!Reach, Reach,
               SP!Doublings, Doublings, SP!Not, Not,
               SP!Xor, Xor, SP!ShiftLeft, ShiftLeft,
               SP!Bit, Bit
<1>7. \A x, y : SP!Plus(x, y) = Plus(x, y)
  BY Zenon DEF SP!Plus, Plus, SP!Xor, Xor, SP!Bit, Bit
<1>8. \A x, y : SP!RunParity(x, y) = RunParity(x, y)
  BY <1>2, <1>7 DEF SP!RunParity, RunParity
<1>9. \A x, y : SP!Escaped(x, y) = Escaped(x, y)
  BY <1>2, <1>8 DEF SP!Escaped, Escaped
<1>10. SP!Structure(a, b) = Structure(a, b)
  BY <1>2, <1>6, <1>8, <1>9, Zenon DEF SP!Structure, Structure
<1> QED
  BY <1>1, <1>3, <1>4, <1>5, <1>10

\* Both stand for the same scan.
LEMMA SameScan ==
  /\ AbstractScan!Init => SP!Init
  /\ [AbstractScan!Next]_(AbstractScan!vars) => [SP!Next]_(SP!vars)
<1>1. AbstractScan!Init => SP!Init
  BY DEF AbstractScan!Init, SP!Init, AbstractScan!StartOfText, SP!StartOfText
<1>2. /\ \A a, b, c : AbstractScan!PastFirst(a, b, c) = SP!PastFirst(a, b, c)
      /\ \A a : AbstractScan!Edge(a) = SP!Edge(a)
      /\ \A a, b : AbstractScan!WindowAfter(a, b) = SP!WindowAfter(a, b)
      /\ \A a, b : AbstractScan!Trimmed(a, b) = SP!Trimmed(a, b)
      /\ \A a, b : AbstractScan!Structure(a, b) = SP!Structure(a, b)
  BY SameOperators, SameScanOperators
<1>8. \A w : AbstractScan!HandOut(w) => SP!HandOut(w)
  BY <1>2, Zenon DEF AbstractScan!HandOut, SP!HandOut
<1>3. AbstractScan!ScanOn => SP!ScanOn
  <2> SUFFICES ASSUME AbstractScan!ScanOn PROVE SP!ScanOn
    OBVIOUS
  <2>1. AbstractScan!HandOut([window EXCEPT !.rest = Kinds(Through(@))])
    BY DEF AbstractScan!ScanOn
  <2>2. SP!HandOut([window EXCEPT !.rest = Kinds(Through(@))])
    <3> PICK w : w = [window EXCEPT !.rest = Kinds(Through(@))]
      BY Zenon
    <3>1. AbstractScan!HandOut(w)
      BY <2>1, Zenon DEF AbstractScan!HandOut
    <3>2. SP!HandOut(w)
      BY <1>8, <3>1
    <3> QED
      BY <3>2, Zenon DEF SP!HandOut
  <2>3. SP!Running /\ [window EXCEPT !.rest = Kinds(Through(@))].rest # <<>>
    BY DEF AbstractScan!ScanOn, AbstractScan!Running, SP!Running
  <2>4. UNCHANGED <<carry, BlocksOut, Shorted>>
    BY DEF AbstractScan!ScanOn, BlocksOut, Shorted
  <2> QED
    BY <2>2, <2>3, <2>4 DEF SP!ScanOn, BlocksOut, Shorted
<1>4. \A octets, n : AbstractScan!ScanBlock(octets, n) => SP!ScanBlock(octets, n)
  <2> SUFFICES ASSUME NEW octets, NEW n, AbstractScan!ScanBlock(octets, n)
               PROVE  SP!ScanBlock(octets, n)
    OBVIOUS
  <2>1. \A o, m : AbstractScan!Traced("NONE", o, octets, m) = <<>>
                   /\ SP!Traced("NONE", o, octets, m) = <<>>
    BY DEF AbstractScan!Traced, SP!Traced
  <2> DEFINE w == [rest |-> SubSeq(octets, 1, n),
                   mask |-> AbstractScan!Trimmed(AbstractScan!Structure(octets, carry).mask, n),
                   offset |-> BlocksOut * WordWidth]
  <2>2. /\ AbstractScan!Running
        /\ [window EXCEPT !.rest = Kinds(Through(@))].rest = <<>>
        /\ ~ Shorted
        /\ BlocksOut' = BlocksOut + 1
        /\ Shorted' = (n < WordWidth)
        /\ carry' = AbstractScan!Structure(octets, carry).carry
    BY DEF AbstractScan!ScanBlock, BlocksOut, Shorted
  <2>3. AbstractScan!HandOut(w)
    <3>1. \A k : ~ (k \in 0 .. Len(<<>>) - 1)
      OBVIOUS
    <3> QED
      BY <2>1, <3>1 DEF AbstractScan!ScanBlock, BlocksOut
  <2>4. SP!HandOut(w)
    <3> PICK u : u = w
      BY Zenon
    <3> HIDE DEF w
    <3>1. AbstractScan!HandOut(u)
      BY <2>3, Zenon DEF AbstractScan!HandOut
    <3>2. SP!HandOut(u)
      BY <1>8, <3>1
    <3> QED
      BY <3>2, Zenon DEF SP!HandOut
  <2>5. w = [rest |-> SubSeq(octets, 1, n),
             mask |-> SP!Trimmed(SP!Structure(octets, carry).mask, n),
             offset |-> BlocksOut * WordWidth]
    BY <1>2, Zenon
  <2>6. SP!Structure(octets, carry).carry = AbstractScan!Structure(octets, carry).carry
    BY <1>2
  <2>7. SP!Traced("NONE", BlocksOut * WordWidth, octets, w.mask) = <<>>
    BY <2>1
  <2> HIDE DEF w
  <2> QED
    BY <2>2, <2>4, <2>5, <2>6, <2>7, Zenon
    DEF SP!HandOut, SP!ScanBlock, SP!Running, AbstractScan!Running, BlocksOut, Shorted
<1>5. AbstractScan!ScanAnyBlock => SP!ScanAnyBlock
  BY <1>4 DEF AbstractScan!ScanAnyBlock, SP!ScanAnyBlock, AbstractScan!Kind, SP!Kind
<1>6. AbstractScan!ScanStops => SP!ScanStops
  BY DEF AbstractScan!ScanStops, SP!ScanStops, AbstractScan!Running, SP!Running,
         AbstractScan!ghosts, SP!ghosts
<1>7. UNCHANGED AbstractScan!vars => UNCHANGED SP!vars
  BY DEF AbstractScan!vars, SP!vars, AbstractScan!ghosts, SP!ghosts
<1> QED
  BY <1>1, <1>3, <1>5, <1>6, <1>7 DEF AbstractScan!Next, SP!Next

\* What the proofs about jsp_scan assume holds of it here.
LEMMA ScanAssumptions == SP!WordWidthAssumption /\ SP!MaxBlocksAssumption
<1>1. MaxStream \in Nat /\ WordWidth \in Nat \ {0}
  BY MaxStreamAssumption, WordWidthAssumption
<1>2. MaxStream \div WordWidth \in Nat
  BY <1>1
<1> QED
  BY <1>1, <1>2 DEF SP!WordWidthAssumption, SP!MaxBlocksAssumption

\* Masks and tokens agree with the reader of single octets, at first and after
\* every step.
LEMMA ScanInitStands == KInit => SP!ScanInv
BY KInitRefines, SameScan, SP!InitInv, ScanAssumptions

\* Masks and tokens agree with the reader after every step.
LEMMA ScanNextStands ==
  KInv /\ KInv' /\ SP!ScanInv /\ [KNext]_kvars => SP!ScanInv'
BY KNextRefines, SameScan, SP!NextInv, ScanAssumptions

\* What a token is on the stream itself.
TokenStands ==
  answer = "TOKEN" =>
    LET o == token.offset
        n == Len(token.bytes)
    IN IF token.kind = "STRUCTURAL"
         THEN n = 1 /\ IsStructure(TextOf(stream, o), KindOf[stream[o + 1]])
         ELSE \A i \in 1 .. n :
                ~ IsStructure(TextOf(stream, o + (i - 1)), KindOf[stream[o + i]])

\* The kinds of the octets from o, and the reader along them.
LEMMA KindsFrom ==
  ASSUME NEW s \in Seq(StreamOctet), NEW o \in Nat, NEW n \in Nat, o + n <= Len(s)
  PROVE  LET k == Kinds(SubSeq(s, o + 1, o + n))
         IN /\ Len(k) = n
            /\ \A i \in 1 .. n : k[i] = KindOf[s[o + i]]
            /\ \A i \in 0 .. n : PastFirst(TextOf(s, o), k, i) = TextOf(s, o + i)
<1> PICK u : u = SubSeq(s, o + 1, o + n)
  BY Zenon
<1>1. /\ u \in Seq(StreamOctet) /\ Len(u) = n
      /\ \A i \in 1 .. n : u[i] = s[o + i]
  BY OctetsFrom
<1>2. /\ Kinds(u) \in Seq(Kind) /\ Len(Kinds(u)) = Len(u)
      /\ \A i \in 1 .. Len(u) : Kinds(u)[i] = KindOf[u[i]]
  BY <1>1, KindsAre, Zenon
<1>3. \A i \in 0 .. n : PastFirst(TextOf(s, o), Kinds(u), i) = TextOf(s, o + i)
  BY TextGoesOn, Zenon
<1> QED
  BY <1>1, <1>2, <1>3, ZenonT(60)

\* The reader of single octets bounds every token as jsp_scan does.
LEMMA TokensStand == KInv /\ SP!ScanInv => TokenStands
<1> SUFFICES ASSUME KInv, SP!ScanInv PROVE TokenStands
  OBVIOUS
<1> PICK o, n, s, kind : o = token.offset /\ n = Len(token.bytes) /\ s = stream
                         /\ kind = token.kind
  BY Zenon
<1> PICK u : u = SubSeq(s, o + 1, o + n)
  BY Zenon
<1> PICK k : k = Kinds(u)
  OBVIOUS
<1>1. SeenFits
  BY SeenIs
<1>2. s \in Seq(StreamOctet) /\ o \in Nat /\ n \in Nat /\ o + n <= Len(s) /\ Len(s) \in Nat
  <2>1. stream \in Seq(StreamOctet) /\ Len(stream) \in Nat
    BY ReaderTypes DEF KInv
  <2>2. stream_offset \in Nat
    BY ReaderTypes DEF KInv
  <2> QED
    BY <1>1, <2>1, <2>2 DEF SeenFits
<1>3. [token EXCEPT !.bytes = Kinds(InStream(token.offset, Len(@)))] =
        [kind |-> kind, bytes |-> k, offset |-> o]
  BY <1>1 DEF SeenFits, InStream
<1>4. SP!TokenIsText
  BY DEF SP!ScanInv, SP!ScanMatchesText
<1>5. answer = "TOKEN" =>
        IF kind = "STRUCTURAL"
          THEN Len(k) = 1 /\ IsStructure(TextOf(s, o), k[1])
          ELSE \A i \in 1 .. Len(k) :
                 ~ IsStructure(PastFirst(TextOf(s, o), k, i - 1), k[i])
  <2>1. \A a, b, c : SP!PastFirst(a, b, c) = PastFirst(a, b, c)
    BY SameScanOperators
  <2>2. \A a, b : SP!IsStructure(a, b) <=> IsStructure(a, b)
    BY DEF SP!IsStructure, IsStructure
  <2>3. TextAt(token.offset) = TextOf(s, o)
    BY DEF TextAt, TextOf
  <2>4. answer = "TOKEN" =>
        IF kind = "STRUCTURAL"
          THEN Len(k) = 1 /\ SP!IsStructure(TextOf(s, o), k[1])
          ELSE \A i \in 1 .. Len(k) :
                 ~ SP!IsStructure(SP!PastFirst(TextOf(s, o), k, i - 1), k[i])
    BY <1>3, <1>4, <2>3 DEF SP!TokenIsText
  <2> QED
    BY <2>1, <2>2, <2>4
<1>6. /\ Len(k) = n
      /\ \A i \in 1 .. n : k[i] = KindOf[s[o + i]]
      /\ \A i \in 0 .. n : PastFirst(TextOf(s, o), k, i) = TextOf(s, o + i)
  <2>1. LET h == Kinds(SubSeq(s, o + 1, o + n))
        IN /\ Len(h) = n
           /\ \A i \in 1 .. n : h[i] = KindOf[s[o + i]]
           /\ \A i \in 0 .. n : PastFirst(TextOf(s, o), h, i) = TextOf(s, o + i)
    BY <1>2, KindsFrom
  <2>2. k = Kinds(SubSeq(s, o + 1, o + n))
    OBVIOUS
  <2> QED
    BY <2>1, <2>2, Zenon
<1>7. \A i \in 1 .. n : i - 1 \in 0 .. n
  BY <1>2
<1>8. answer = "TOKEN" =>
        IF kind = "STRUCTURAL"
          THEN n = 1 /\ IsStructure(TextOf(s, o), KindOf[s[o + 1]])
          ELSE \A i \in 1 .. n :
                 ~ IsStructure(TextOf(s, o + (i - 1)), KindOf[s[o + i]])
  <2>1. n = 1 => k[1] = KindOf[s[o + 1]]
    BY <1>6
  <2>2. ASSUME NEW i \in 1 .. n
        PROVE  /\ PastFirst(TextOf(s, o), k, i - 1) = TextOf(s, o + (i - 1))
               /\ k[i] = KindOf[s[o + i]]
    BY <1>6, <1>7
  <2> QED
    BY <1>5, <1>6, <2>1, <2>2
<1> QED
  BY <1>8 DEF TokenStands

-----------------------------------------------------------------------------
(* How a text flows through the scan into the run *)

\* The stream so far is the beginning of a text.
FromText == stream = <<>> \/ \E whole \in Texts : IsPrefix(stream, whole)

\* The octets of the stream that the run has taken.
Reached == IF held THEN token.offset ELSE window.offset

FlowInv ==
  /\ held => answer = "TOKEN" /\ stage = "loop" /\ rest = <<>>
  /\ answer \in {"END", "ERROR"} => window.rest = <<>> /\ ~held
  /\ FromText
  /\ done => stream \in Texts
  /\ answer = "END" => done
  /\ answer = "TOKEN" => token.bytes # <<>>
  /\ read = SubSeq(stream, 1, Reached)

\* What is taken lies in the stream.
LEMMA ReachedFits ==
  ASSUME KInv
  PROVE  /\ stream \in Seq(StreamOctet)
         /\ Len(stream) \in Nat
         /\ token.offset \in Nat /\ Len(token.bytes) \in Nat
         /\ token.offset + Len(token.bytes) = window.offset
         /\ window.offset <= Len(stream)
         /\ Reached \in 0 .. Len(stream)
         /\ window.offset \in Nat /\ stream_offset \in Nat
         /\ window.rest = <<>> => window.offset = stream_offset
<1>1. SeenFits
  BY SeenIs
<1>2. stream \in Seq(StreamOctet) /\ Len(stream) \in Nat /\ stream_offset \in Nat
  BY ReaderTypes DEF KInv
<1>3. window.rest = <<>> => Len(window.rest) = 0
  BY EmptySeq
<1> QED
  BY <1>1, <1>2, <1>3 DEF SeenFits, Reached

\* More of a text.
LEMMA TextGrows ==
  ASSUME NEW s \in Seq(StreamOctet), NEW whole \in Seq(StreamOctet), IsPrefix(s, whole),
         NEW n \in 1 .. Len(whole) - Len(s)
  PROVE  LET chunk == SubSeq(whole, Len(s) + 1, Len(s) + n)
         IN /\ chunk \in [1 .. n -> StreamOctet]
            /\ chunk \in Seq(StreamOctet)
            /\ IsPrefix(s \o chunk, whole)
<1> PICK o, u, t : /\ o = Len(s) /\ u = SubSeq(whole, o + 1, o + n)
                   /\ t = s \o u
  BY Zenon
<1>1. o \in Nat /\ n \in Nat /\ Len(whole) \in Nat /\ o + n <= Len(whole)
  BY LenProperties
<1>2. /\ u \in Seq(StreamOctet) /\ Len(u) = n
      /\ DOMAIN u = 1 .. n
      /\ \A i \in 1 .. n : u[i] = whole[o + i]
  <2>1. u = SubSeq(whole, o + 1, o + n) /\ whole \in Seq(StreamOctet)
    OBVIOUS
  <2>2. /\ SubSeq(whole, o + 1, o + n) \in Seq(StreamOctet)
        /\ Len(SubSeq(whole, o + 1, o + n)) = n
        /\ DOMAIN SubSeq(whole, o + 1, o + n) = 1 .. n
        /\ \A i \in 1 .. n : SubSeq(whole, o + 1, o + n)[i] = whole[o + i]
    BY ONLY <1>1, <2>1, OctetsFrom
  <2> QED
    BY ONLY <2>1, <2>2, Zenon
<1>3. u \in [1 .. n -> StreamOctet]
  <2>1. u \in [1 .. Len(u) -> StreamOctet]
    BY <1>2, LenProperties, Zenon
  <2> QED
    BY <1>2, <2>1, Zenon
<1>4. \A i \in 1 .. o : s[i] = whole[i]
  <2>1. SubSeq(s, 1, o) = SubSeq(whole, 1, o)
    BY DEF IsPrefix
  <2>2. \A i \in 1 .. o : SubSeq(s, 1, o)[i] = s[i]
    BY <1>1, FirstOctets
  <2>3. \A i \in 1 .. o : SubSeq(whole, 1, o)[i] = whole[i]
    BY <1>1, FirstOctets
  <2> QED
    BY <2>1, <2>2, <2>3
<1>5. /\ t \in Seq(StreamOctet) /\ Len(t) = o + n
      /\ \A i \in 1 .. o : t[i] = s[i]
      /\ \A i \in 1 .. n : t[o + i] = u[i]
  BY <1>1, <1>2
<1>6. \A i \in 1 .. o + n : t[i] = whole[i]
  <2> SUFFICES ASSUME NEW i \in 1 .. o + n PROVE t[i] = whole[i]
    OBVIOUS
  <2>1. CASE i \in 1 .. o
    BY <1>4, <1>5, <2>1
  <2>2. CASE i \notin 1 .. o
    <3> PICK j : j = i - o
      OBVIOUS
    <3>1. j \in 1 .. n /\ i = o + j
      BY <1>1, <2>2
    <3> QED
      BY <1>2, <1>5, <3>1
  <2> QED
    BY <2>1, <2>2, Zenon
<1>7. SubSeq(t, 1, o + n) = SubSeq(whole, 1, o + n)
  <2> PICK a, b : a = SubSeq(t, 1, o + n) /\ b = SubSeq(whole, 1, o + n)
    BY Zenon
  <2>1. /\ a \in Seq(StreamOctet) /\ Len(a) = o + n
        /\ \A i \in 1 .. o + n : a[i] = t[i]
    BY <1>1, <1>5, FirstOctets
  <2>2. /\ b \in Seq(StreamOctet) /\ Len(b) = o + n
        /\ \A i \in 1 .. o + n : b[i] = whole[i]
    BY <1>1, FirstOctets
  <2>3. a = b
    BY <1>6, <2>1, <2>2, SeqEqual
  <2> QED
    BY <2>3
<1> QED
  BY <1>1, <1>2, <1>3, <1>5, <1>7 DEF IsPrefix

\* A step of the scan brings more of a text or none.
LEMMA PullSteps ==
  ASSUME KInv, FromText, done => stream \in Texts, Pull
  PROVE  /\ NextInBlock \/ Fetching
         /\ [KNext]_kvars
         /\ FromText'
         /\ done' => stream' \in Texts
<1>1. stream \in Seq(StreamOctet) /\ Len(stream) \in Nat
  BY ReaderTypes DEF KInv
<1>2. CASE NextInBlock
  BY <1>2 DEF NextInBlock, reader, FromText, KNext
<1>3. CASE FetchBuffered
  <2>1. R!NextDone \/ R!NextBuffered \/ R!NextCompact
    BY <1>3 DEF FetchBuffered, Fetch
  <2>2. stream' = stream /\ done' = done
    BY <2>1 DEF R!NextDone, R!NextBuffered, R!NextCompact
  <2> QED
    BY <1>3, <2>2, FetchIs DEF FromText, KNext
<1>4. CASE FetchFails
  <2>1. stream' = stream /\ done' = done
    BY <1>4 DEF FetchFails, Fetch, R!ReadError
  <2> QED
    BY <1>4, <2>1, FetchIs DEF FromText, KNext
<1>5. CASE stream \in Texts /\ FetchEnd
  <2>1. stream' = stream
    BY <1>5 DEF FetchEnd, Fetch, R!ReadNothing
  <2> QED
    BY <1>5, <2>1, FetchIs DEF FromText, KNext
<1>6. CASE FetchText
  <2>1. PICK whole \in Texts :
          /\ IsPrefix(stream, whole)
          /\ \E n \in 1 .. Len(whole) - Len(stream) :
               FetchSome(SubSeq(whole, Len(stream) + 1, Len(stream) + n))
    BY <1>6 DEF FetchText
  <2>2. PICK n \in 1 .. Len(whole) - Len(stream) :
          FetchSome(SubSeq(whole, Len(stream) + 1, Len(stream) + n))
    BY <2>1
  <2> PICK chunk : chunk = SubSeq(whole, Len(stream) + 1, Len(stream) + n)
    BY Zenon
  <2>3. whole \in Seq(StreamOctet) /\ Len(whole) <= MaxStream
    BY TextsAssumption
  <2>4. chunk \in [1 .. n -> StreamOctet] /\ IsPrefix(stream \o chunk, whole)
    BY <1>1, <2>1, <2>3, TextGrows
  <2>5. n \in 1 .. MaxStream - Len(stream)
    <3>1. Len(whole) \in Nat
      BY <2>3, LenProperties
    <3> QED
      BY <1>1, <2>3, <3>1, MaxStreamAssumption
  <2>6. chunk \in R!Chunk
    BY <2>4, <2>5 DEF R!Chunk
  <2>7. R!ReadSome(chunk)
    BY <2>2 DEF FetchSome, Fetch
  <2>8. FetchSome(chunk)
    BY <2>2 DEF FetchSome
  <2>9. stream' = stream \o chunk /\ done' = done /\ pc = "reading"
    BY <2>7 DEF R!ReadSome
  <2>10. ~done
    BY <2>9 DEF KInv, RP!IInv, RP!InLoop
  <2> QED
    BY <2>4, <2>6, <2>8, <2>9, <2>10, FetchIs DEF FromText, KNext
<1> QED
  BY <1>2, <1>3, <1>4, <1>5, <1>6 DEF Pull

\* Octets that were read stay as they are.
LEMMA ReadStaysRead ==
  ASSUME NEW s \in Seq(StreamOctet), NEW n \in 0 .. Len(s), NEW u,
         u = s \/ \E chunk \in Seq(StreamOctet) : u = s \o chunk
  PROVE  SubSeq(u, 1, n) = SubSeq(s, 1, n)
<1>1. CASE u = s
  BY <1>1
<1>2. ASSUME NEW chunk \in Seq(StreamOctet), u = s \o chunk
      PROVE  SubSeq(u, 1, n) = SubSeq(s, 1, n)
  <2> PICK o : o = 0
    OBVIOUS
  <2>1. o \in Nat /\ n \in Nat /\ o + n <= Len(s) /\ o + 1 = 1 /\ o + n = n
    BY LenProperties
  <2>2. SubSeq(s \o chunk, o + 1, o + n) = SubSeq(s, o + 1, o + n)
    BY <2>1, PrefixStays
  <2> QED
    BY <1>2, <2>1, <2>2
<1> QED
  BY <1>1, <1>2

\* The reader's offsets are numbers.
LEMMA OffsetsCount == RP!IInv => buf_offset \in Nat /\ stream_offset \in Nat
BY ReaderTypes

\* A token that is handed out begins where the run has come to.
LEMMA PullHands ==
  ASSUME KInv, NextInBlock \/ Fetching
  PROVE  /\ ~held /\ answer \in {"NONE", "TOKEN"}
         /\ stream' = stream \/ \E chunk \in Seq(StreamOctet) : stream' = stream \o chunk
         /\ \/ /\ held' /\ answer' = "TOKEN"
               /\ token'.offset = window.offset /\ token'.bytes # <<>>
            \/ /\ UNCHANGED <<window, token, held>>
               /\ window.rest = <<>>
               /\ answer' \in {"END", "ERROR"} /\ answer' = block'.status
            \/ UNCHANGED scan
<1>1. CASE NextInBlock
  <2>1. /\ ~held /\ answer \in {"NONE", "TOKEN"} /\ window.rest # <<>> /\ HandView(window)
        /\ UNCHANGED reader
    BY <1>1 DEF NextInBlock, Asking, WindowSpent
  <2>2. stream' = stream /\ buf_offset' = buf_offset /\ stream_offset' = stream_offset
    BY <2>1 DEF reader
  <2>3. held' = TRUE /\ answer' = "TOKEN"
    BY <2>1 DEF HandView
  <2>4. token'.offset = window.offset /\ token'.bytes # <<>>
    <3> PICK w, to, end : w = window /\ to = buf_offset /\ end = stream_offset
      OBVIOUS
    <3>1. /\ to \in Nat /\ end \in Nat /\ Ends(w, to, end) /\ w.rest # <<>>
          /\ buf_offset' = to /\ stream_offset' = end
      BY <2>1, <2>2, ReaderTypes DEF KInv
    <3>2. HandView(w)
      BY <2>1 DEF HandView
    <3>3. token'.offset = w.offset /\ token'.bytes # <<>>
      BY <3>1, <3>2, HandViewKeeps
    <3> QED
      BY <3>3
  <2> QED
    BY <2>1, <2>2, <2>3, <2>4
<1>2. CASE Fetching
  <2>1. ~held /\ answer \in {"NONE", "TOKEN"} /\ window.rest = <<>> /\ ReaderStep /\ RP!IInv
    BY <1>2 DEF Fetching, Asking, KInv
  <2>2. stream' = stream \/ \E chunk \in Seq(StreamOctet) : stream' = stream \o chunk
    BY <2>1, ReaderGoesOn
  <2>3. CASE block'.status = "BLOCK"
    <3>1. PICK w : /\ w.offset = stream_offset /\ w.rest # <<>> /\ HandView(w)
                   /\ Ends(w, buf_offset', stream_offset')
      <4>1. PICK octets \in [1 .. WordWidth -> Kind], w \in ViewWindow :
              /\ w = [rest |-> View(block'.ptr, block'.len),
                      mask |-> Trimmed(Structure(octets, carry).mask, block'.len),
                      offset |-> stream_offset]
              /\ w.rest # <<>>
              /\ Ends(w, buf_offset', stream_offset')
              /\ HandView(w)
        BY <1>2, <2>3, BlockTaken
      <4>2. w.offset = stream_offset
        BY <4>1
      <4> QED
        BY <4>1, <4>2
    <3>2. RP!IInv'
      BY <2>1, ReaderGoesOn
    <3>3. (RP!IInv => buf_offset \in Nat /\ stream_offset \in Nat)'
      BY OffsetsCount, PTL
    <3>4. token'.offset = w.offset /\ token'.bytes # <<>>
      BY <3>1, <3>2, <3>3, HandViewKeeps
    <3>5. held' = TRUE /\ answer' = "TOKEN"
      BY <3>1 DEF HandView
    <3>6. window.offset = stream_offset
      BY <2>1, ReachedFits
    <3> QED
      BY <2>1, <2>2, <3>1, <3>4, <3>5, <3>6
  <2>4. CASE block'.status # "BLOCK"
    <3>1. \/ /\ block'.status \in {"END", "ERROR"}
             /\ answer' = block'.status
             /\ UNCHANGED <<carry, window, token, held>>
          \/ UNCHANGED scan
      BY <1>2, <2>1, <2>4, FetchingIs
    <3> QED
      BY <2>1, <2>2, <3>1
  <2> QED
    BY <2>3, <2>4
<1> QED
  BY <1>1, <1>2

\* jsp_scan_next reads on in the same text.
LEMMA PullFlows ==
  ASSUME KInv, KInv', FlowInv, Pull
  PROVE  FlowInv'
<1>1. /\ stage = "loop" /\ rest = <<>> /\ stage' = stage /\ rest' = rest /\ read' = read
  BY DEF Pull, runvars, vars, run
<1>2. /\ NextInBlock \/ Fetching
      /\ FromText'
      /\ done' => stream' \in Texts
  BY PullSteps DEF FlowInv
<1>3. /\ ~held /\ answer \in {"NONE", "TOKEN"}
      /\ stream' = stream \/ \E chunk \in Seq(StreamOctet) : stream' = stream \o chunk
      /\ \/ /\ held' /\ answer' = "TOKEN"
            /\ token'.offset = window.offset /\ token'.bytes # <<>>
         \/ /\ UNCHANGED <<window, token, held>>
            /\ window.rest = <<>>
            /\ answer' \in {"END", "ERROR"} /\ answer' = block'.status
         \/ UNCHANGED scan
  BY <1>2, PullHands
<1>4. Reached = window.offset /\ Reached' = Reached
  BY <1>3 DEF Reached, scan
<1>5. read' = SubSeq(stream', 1, Reached')
  <2>1. stream \in Seq(StreamOctet) /\ Reached \in 0 .. Len(stream)
    BY ReachedFits
  <2>2. SubSeq(stream', 1, Reached) = SubSeq(stream, 1, Reached)
    <3> PICK s, n, u : s = stream /\ n = Reached /\ u = stream'
      OBVIOUS
    <3>1. SubSeq(u, 1, n) = SubSeq(s, 1, n)
      BY <1>3, <2>1, ReadStaysRead
    <3> QED
      BY <3>1, Zenon
  <2> QED
    BY <1>1, <1>4, <2>2, Zenon DEF FlowInv
<1>6. answer' = "END" => done'
  <2>1. block'.status = "END" => done'
    BY DEF KInv, RP!IInv, RP!AtEnd
  <2> QED
    BY <1>3, <2>1 DEF scan
<1>7. held' => answer' = "TOKEN"
  BY <1>3, Zenon DEF scan
<1>8. answer' \in {"END", "ERROR"} => window'.rest = <<>> /\ ~held'
  BY <1>3 DEF scan
<1>9. answer' = "TOKEN" => token'.bytes # <<>>
  BY <1>3 DEF scan, FlowInv
<1> QED
  BY <1>1, <1>2, <1>5, <1>6, <1>7, <1>8, <1>9, Zenon DEF FlowInv

\* r is the octets of a sequence before o, and u the n after them.
IsPart(X, s, o, n, u, r) ==
  /\ u = SubSeq(s, o + 1, o + n) /\ r = SubSeq(s, 1, o)
  /\ u \in Seq(X) /\ Len(u) = n /\ u # <<>>
  /\ \A i \in 1 .. n : u[i] = s[o + i]
  /\ r \in Seq(X) /\ Len(r) = o
  /\ SubSeq(u, 1, n) = u
  /\ r \o u = SubSeq(s, 1, o + n)
  /\ n = 1 => u = <<u[1]>>

\* A sequence of one octet is that octet.
LEMMA OneOctet ==
  ASSUME NEW X, NEW u \in Seq(X), Len(u) = 1
  PROVE  u = <<u[1]>>
<1>1. 1 \in 1 .. Len(u) /\ u[1] \in X
  BY ElementOfSeq
<1>2. /\ <<u[1]>> \in Seq(X) /\ Len(<<u[1]>>) = 1
      /\ <<u[1]>>[1] = u[1]
  BY <1>1
<1> PICK z : z = <<u[1]>>
  BY Zenon
<1>3. z \in Seq(X) /\ Len(z) = 1 /\ z[1] = u[1]
  BY <1>2
<1>4. Len(u) = Len(z) /\ \A i \in 1 .. Len(u) : u[i] = z[i]
  BY <1>3
<1>5. u = z
  BY <1>3, <1>4, SeqEqual, Zenon
<1> QED
  BY <1>5

\* There are such.
LEMMA PartRead ==
  ASSUME NEW X, NEW s \in Seq(X), NEW o \in Nat, NEW n \in Nat \ {0}, o + n <= Len(s)
  PROVE  \E u, r : IsPart(X, s, o, n, u, r)
<1>0. Len(s) \in Nat /\ o \in 0 .. Len(s) /\ o + n \in 0 .. Len(s) /\ n \in Nat
  BY LenProperties
<1>1. PICK u : /\ u = SubSeq(s, o + 1, o + n)
               /\ u \in Seq(X) /\ Len(u) = n
               /\ \A i \in 1 .. n : u[i] = s[o + i]
  <2>1. /\ SubSeq(s, o + 1, o + n) \in Seq(X) /\ Len(SubSeq(s, o + 1, o + n)) = n
        /\ \A i \in 1 .. n : SubSeq(s, o + 1, o + n)[i] = s[o + i]
    BY <1>0, OctetsFrom
  <2> QED
    BY <2>1, Zenon
<1>2. PICK r : /\ r = SubSeq(s, 1, o)
               /\ r \in Seq(X) /\ Len(r) = o
               /\ \A i \in 1 .. o : r[i] = s[i]
  BY <1>0, FirstOctets, ZenonT(60)
<1>3. PICK v : /\ v = SubSeq(s, 1, o + n)
               /\ v \in Seq(X) /\ Len(v) = o + n
               /\ \A i \in 1 .. o + n : v[i] = s[i]
  BY <1>0, FirstOctets, Zenon
<1>4. PICK t : /\ t = r \o u
               /\ t \in Seq(X) /\ Len(t) = o + n
               /\ \A i \in 1 .. o : t[i] = r[i]
               /\ \A i \in 1 .. n : t[o + i] = u[i]
  <2> PICK w : w = r \o u
    BY Zenon
  <2>1. /\ r \o u \in Seq(X) /\ Len(r \o u) = Len(r) + Len(u)
        /\ \A i \in 1 .. Len(r) + Len(u) :
             (r \o u)[i] = IF i <= Len(r) THEN r[i] ELSE u[i - Len(r)]
    BY <1>1, <1>2, ConcatProperties
  <2>2. /\ w \in Seq(X) /\ Len(w) = o + n
        /\ \A i \in 1 .. o + n : w[i] = IF i <= o THEN r[i] ELSE u[i - o]
    BY <1>0, <1>1, <1>2, <2>1, Zenon
  <2>3. \A i \in 1 .. o : w[i] = r[i]
    <3> SUFFICES ASSUME NEW i \in 1 .. o PROVE w[i] = r[i]
      BY Zenon
    <3>1. i \in 1 .. o + n /\ i <= o
      BY <1>0
    <3> QED
      BY <2>2, <3>1
  <2>4. \A i \in 1 .. n : w[o + i] = u[i]
    <3> SUFFICES ASSUME NEW i \in 1 .. n PROVE w[o + i] = u[i]
      BY Zenon
    <3>1. o + i \in 1 .. o + n /\ ~ (o + i <= o) /\ (o + i) - o = i
      BY <1>0
    <3> QED
      BY <2>2, <3>1
  <2> QED
    BY <2>2, <2>3, <2>4, Zenon
<1>5. t = v
  <2>1. ASSUME NEW i \in 1 .. o + n PROVE t[i] = v[i]
    <3>1. CASE i \in 1 .. o
      BY <1>2, <1>3, <1>4, <3>1
    <3>2. CASE i \notin 1 .. o
      <4> PICK j : j = i - o
        OBVIOUS
      <4>1. j \in 1 .. n /\ i = o + j
        BY <1>0, <3>2
      <4> QED
        BY <1>1, <1>3, <1>4, <4>1
    <3> QED
      BY <3>1, <3>2
  <2> QED
    BY <1>0, <1>3, <1>4, <2>1, SeqEqual
<1>6. SubSeq(u, 1, n) = u
  BY <1>0, <1>1
<1>7. u # <<>> /\ (n = 1 => u = <<u[1]>>)
  <2>1. u # <<>>
    BY <1>0, <1>1, EmptySeq
  <2>2. ASSUME n = 1 PROVE u = <<u[1]>>
    <3>1. u \in Seq(X) /\ Len(u) = 1
      BY <1>1, <2>2
    <3> QED
      BY ONLY <3>1, OneOctet
  <2> QED
    BY <2>1, <2>2
<1> QED
  BY ONLY <1>1, <1>2, <1>3, <1>4, <1>5, <1>6, <1>7, ZenonT(60) DEF IsPart

\* The token that the run holds, on the stream.
LEMMA TokenIs ==
  ASSUME KInv, TokenStands, FlowInv, held
  PROVE  \E o, n, s, u :
           /\ o = token.offset /\ n = Len(token.bytes) /\ s = stream
           /\ s \in Seq(StreamOctet) /\ o \in Nat /\ n \in Nat \ {0}
           /\ Len(s) \in Nat /\ o + n <= Len(s) /\ o + n = window.offset
           /\ TokenOctets = u /\ u = SubSeq(s, o + 1, o + n)
           /\ u \in Seq(StreamOctet) /\ Len(u) = n /\ u # <<>>
           /\ \A i \in 1 .. n : u[i] = s[o + i]
           /\ read = SubSeq(s, 1, o) /\ Len(read) = o /\ read \in Seq(StreamOctet)
           /\ SubSeq(u, 1, n) = u
           /\ read \o u = SubSeq(s, 1, o + n)
           /\ token.kind = "STRUCTURAL" => n = 1 /\ u = <<u[1]>>
<1> PICK o, n, s : o = token.offset /\ n = Len(token.bytes) /\ s = stream
  BY Zenon
<1>1. /\ s \in Seq(StreamOctet) /\ o \in Nat /\ n \in Nat
      /\ Len(s) \in Nat /\ o + n <= Len(s) /\ o + n = window.offset
  BY ReachedFits
<1>2. n # 0
  <2>1. token.bytes # <<>> /\ token.bytes \in Seq(Nat)
    BY DEF FlowInv, KInv, TokenBefore, ViewToken
  <2> QED
    BY <2>1, EmptySeq
<1>3. PICK u, r : IsPart(StreamOctet, s, o, n, u, r)
  <2>1. n \in Nat \ {0}
    BY <1>1, <1>2
  <2> QED
    BY <1>1, <2>1, PartRead
<1>4. TokenOctets = SubSeq(s, o + 1, o + n)
  BY KInvViews DEF ViewsAreStream, TokenOctets, InStream
<1>5. read = SubSeq(s, 1, o)
  BY DEF FlowInv, Reached
<1>6. token.kind = "STRUCTURAL" => n = 1
  BY DEF TokenStands, FlowInv
<1> QED
  BY <1>1, <1>2, <1>3, <1>4, <1>5, <1>6, ZenonT(60) DEF IsPart

\* A push takes the token's octets.
LEMMA PushTakes ==
  ASSUME KInv, TokenStands, FlowInv, PushToken
  PROVE  /\ held /\ held' = FALSE /\ answer' = answer /\ answer = "TOKEN"
         /\ UNCHANGED <<reader, window, token>>
         /\ stage = "loop" /\ rest = <<>>
         /\ read' = read \o TokenOctets
         /\ output' = output
         /\ exit' = exit
<1>1. held /\ held' = FALSE /\ UNCHANGED <<reader, carry, window, answer, token>> /\ exit' = exit
  BY DEF PushToken, Release
<1>2. CASE token.kind = "STRUCTURAL"
  <2>1. Take(<<TokenOctets[1]>>)
    BY <1>2 DEF PushToken, RunStructural, SinkStructural
  <2>2. TokenOctets = <<TokenOctets[1]>>
    <3>1. \E u : TokenOctets = u /\ u = <<u[1]>>
      BY <1>1, <1>2, TokenIs
    <3> QED
      BY <3>1
  <2> QED
    BY <1>1, <2>1, <2>2, Zenon DEF Take, FlowInv
<1>3. CASE token.kind # "STRUCTURAL"
  <2>1. Take(TokenOctets)
    BY <1>3 DEF PushToken, RunBytes, SinkBytes
  <2> QED
    BY <1>1, <2>1 DEF Take, FlowInv
<1> QED
  BY <1>2, <1>3, Zenon

\* A push takes the octets of its token off the stream, and no others.
LEMMA PushFlows ==
  ASSUME KInv, TokenStands, FlowInv, PushToken
  PROVE  FlowInv' /\ read' = SubSeq(stream, 1, window.offset)
<1>1. /\ held /\ held' = FALSE /\ answer' = answer /\ answer = "TOKEN"
      /\ UNCHANGED <<reader, window, token>>
      /\ read' = read \o TokenOctets
  BY PushTakes
<1>2. read' = SubSeq(stream, 1, window.offset)
  <2>1. read \o TokenOctets = SubSeq(stream, 1, window.offset)
    BY <1>1, TokenIs
  <2> QED
    BY <1>1, <2>1
<1>3. Reached' = window.offset
  BY <1>1 DEF Reached
<1> QED
  BY <1>1, <1>2, <1>3, Zenon DEF FlowInv, reader, FromText

\* Steps that leave the scan alone.
LEMMA StillFlows ==
  ASSUME FlowInv, UNCHANGED <<reader, scan, read>>,
         ~held \/ UNCHANGED <<stage, rest>>
  PROVE  FlowInv'
BY DEF FlowInv, reader, scan, FromText, Reached

\* The rest of the steps are such.
LEMMA AsideIs ==
  ASSUME FlowInv,
         Before \/ PassOn \/ ScanStops \/ Close \/ MainReturns \/ UNCHANGED pvars
  PROVE  /\ UNCHANGED <<reader, scan, read>>
         /\ ~held \/ UNCHANGED <<stage, rest>>
<1>1. CASE Before
  BY <1>1 DEF Before, RunAlloc, RunOpen, FlowInv
<1>2. CASE PassOn
  BY <1>2 DEF PassOn, RunPass, ScalarPass, FlowInv
<1>3. CASE ScanStops
  BY <1>3 DEF ScanStops, RunScanEnds, RunScanFails, Stops
<1>4. CASE Close
  BY <1>4 DEF Close, RunClose, FlowInv
<1>5. CASE MainReturns \/ UNCHANGED pvars
  BY <1>5 DEF MainReturns, pvars, runvars, run, vars
<1> QED
  BY <1>1, <1>2, <1>3, <1>4, <1>5

-----------------------------------------------------------------------------
(* The reader of text under the run *)

\* The reader stands past the octets in the tokens so far.
TextInv ==
  /\ path \in Paths /\ scalars_only \in BOOLEAN
  /\ TextAlike(text, TextFirst(stream, Len(read), path, scalars_only))

\* At the start it has read nothing, and the run nothing to push.
LEMMA TextStarts == PInit => FlowInv /\ TextInv /\ KInit
<1> SUFFICES ASSUME PInit PROVE FlowInv /\ TextInv /\ KInit
  OBVIOUS
<1>1. /\ KInit /\ RInit /\ text = TextStart(path, scalars_only)
      /\ path \in Paths /\ scalars_only \in BOOLEAN /\ rest = <<>> /\ read = <<>>
  BY DEF PInit, RInit, Init
<1>2. /\ stream = <<>> /\ done = FALSE /\ answer = "NONE" /\ held = FALSE
      /\ window.offset = 0
  BY <1>1 DEF KInit, R!Init
<1>3. <<>> \in Seq(StreamOctet) /\ Len(<<>>) = 0
  BY EmptySeq
<1>4. SubSeq(stream, 1, 0) = <<>>
  <2> PICK u : u = SubSeq(<<>>, 1, 0)
    BY Zenon
  <2>1. 0 \in 0 .. Len(<<>>)
    BY <1>3
  <2>2. u \in Seq(StreamOctet) /\ Len(u) = 0
    BY <1>3, <2>1, FirstOctets
  <2>3. u = <<>>
    BY <2>2, EmptySeq
  <2> QED
    BY <1>2, <2>3
<1>5. FlowInv
  <2>1. Reached = 0
    BY <1>2 DEF Reached
  <2> QED
    BY <1>1, <1>2, <1>4, <2>1 DEF FlowInv, FromText
<1>6. TextInv
  <2> PICK t : t = TextStart(path, scalars_only)
    OBVIOUS
  <2>1. TextFirst(stream, Len(read), path, scalars_only) = t
    <3>1. ReadThrough(t, <<>>, 0) = t
      BY <1>3, ThroughNone, Zenon
    <3>2. stream = <<>> /\ Len(read) = 0
      BY <1>1, <1>2, <1>3
    <3> QED
      BY <3>1, <3>2 DEF TextFirst, ReadThrough
  <2>2. TextAlike(t, t)
    BY DEF TextStart, TextAlike, Alike, Fields, J!Start
  <2> QED
    BY <1>1, <2>1, <2>2 DEF TextInv
<1> QED
  BY <1>1, <1>5, <1>6

\* Where the reader may go on with an octet, one that has read the same may.
LEMMA AlikeGoesOn ==
  ASSUME NEW t, NEW u, TextAlike(t, u), NEW o
  PROVE  GoesOnWith(t, o) <=> GoesOnWith(u, o)
<1> PICK a, b : a = t.json /\ b = u.json
  OBVIOUS
<1>1. Alike(a, b)
  BY DEF TextAlike
<1>2. /\ a.verdict = b.verdict
      /\ Inside(a) <=> Inside(b)
      /\ AllowsStructural(a, o) <=> AllowsStructural(b, o)
      /\ AllowsOctet(a, o) <=> AllowsOctet(b, o)
  BY <1>1 DEF Alike, Inside, AllowsStructural, AllowsOctet, J!MayStartValue, J!MayStartKey,
              J!TopKind, J!Last
<1> QED
  BY <1>2 DEF GoesOnWith

\* The beginning of a text is one, as far as JSON goes.
LEMMA StreamLegal ==
  ASSUME stream \in Seq(StreamOctet), FromText, NEW p \in Paths, NEW flat \in BOOLEAN
  PROVE  LegalText(stream, p, flat)
<1> PICK s : s = stream
  OBVIOUS
<1>1. s \in Seq(StreamOctet) /\ Len(s) \in Nat
  BY LenProperties
<1>2. CASE s = <<>>
  BY <1>1, <1>2, EmptySeq DEF LegalText
<1>3. ASSUME NEW whole \in Texts, IsPrefix(s, whole) PROVE LegalText(s, p, flat)
  <2>1. whole \in Seq(StreamOctet) /\ LegalText(whole, p, flat) /\ Len(whole) \in Nat
    BY TextsAssumption, LenProperties
  <2>2. Len(s) <= Len(whole) /\ SubSeq(s, 1, Len(s)) = SubSeq(whole, 1, Len(s))
    BY <1>3 DEF IsPrefix
  <2>3. ASSUME NEW i \in 1 .. Len(s) PROVE s[i] = whole[i]
    <3>1. Len(s) \in 0 .. Len(s) /\ Len(s) \in 0 .. Len(whole)
      BY <1>1, <2>1, <2>2
    <3>2. \A j \in 1 .. Len(s) : SubSeq(s, 1, Len(s))[j] = s[j]
      BY <1>1, <3>1, FirstOctets
    <3>3. \A j \in 1 .. Len(s) : SubSeq(whole, 1, Len(s))[j] = whole[j]
      BY <2>1, <3>1, FirstOctets
    <3> QED
      BY <2>2, <3>2, <3>3
  <2>4. ASSUME NEW n \in 1 .. Len(s)
        PROVE  GoesOnWith(TextFirst(s, n - 1, p, flat), s[n])
    <3> PICK m, t : m = n - 1 /\ t = TextStart(p, flat)
      OBVIOUS
    <3>1. /\ m \in 0 .. Len(s) /\ m <= Len(whole) /\ n \in 1 .. Len(whole)
          /\ \A i \in 1 .. m : i \in 1 .. Len(s)
      BY <1>1, <2>1, <2>2
    <3>2. \A i \in 1 .. m : s[i] = whole[i]
      BY <2>3, <3>1
    <3>3. ReadThrough(t, s, m) = ReadThrough(t, whole, m)
      BY <1>1, <2>1, <3>1, <3>2, ThroughAlike
    <3>4. GoesOnWith(TextFirst(whole, n - 1, p, flat), whole[n])
      BY <2>1, <3>1 DEF LegalText
    <3> QED
      BY <2>3, <3>3, <3>4 DEF TextFirst, ReadThrough
  <2> QED
    BY <2>4 DEF LegalText
<1> QED
  BY <1>2, <1>3 DEF FromText

\* More of the stream leaves the reader where it is.
LEMMA ReadTextStays ==
  ASSUME KInv, FlowInv, TextInv, UNCHANGED <<text, read, config>>,
         stream' = stream \/ \E chunk \in Seq(StreamOctet) : stream' = stream \o chunk
  PROVE  TextInv'
<1>1. /\ read = SubSeq(stream, 1, Reached) /\ stream \in Seq(StreamOctet)
      /\ Reached \in 0 .. Len(stream)
  <2>1. stream \in Seq(StreamOctet) /\ Reached \in 0 .. Len(stream)
    BY ReachedFits
  <2>2. read = SubSeq(stream, 1, Reached)
    BY DEF FlowInv
  <2> QED
    BY <2>1, <2>2
<1>2. Len(read) = Reached
  <2> PICK s, n : s = stream /\ n = Reached
    OBVIOUS
  <2>1. s \in Seq(StreamOctet) /\ n \in 0 .. Len(s)
    BY <1>1
  <2>2. Len(SubSeq(s, 1, n)) = n
    BY <2>1, FirstOctets
  <2> QED
    BY <1>1, <2>2
<1>3. SubSeq(stream', 1, Len(read)) = SubSeq(stream, 1, Len(read))
  <2> PICK s, n, u : s = stream /\ n = Len(read) /\ u = stream'
    BY Zenon
  <2>1. SubSeq(u, 1, n) = SubSeq(s, 1, n)
    BY <1>1, <1>2, ReadStaysRead
  <2> QED
    BY <2>1
<1>4. TextFirst(stream', Len(read'), path', scalars_only') =
        TextFirst(stream, Len(read), path, scalars_only)
  BY <1>3, Zenon DEF TextFirst, config
<1>5. UNCHANGED <<text, read, path, scalars_only>>
  BY DEF config
<1> QED
  BY <1>4, <1>5, Zenon DEF TextInv

\* What the reader t, which has read the stream up to the token, finds of the
\* token's octets u: the grammar allows each, and each is structure if the scan
\* says so.
TokenText(t, u) ==
  \A i \in 1 .. Len(u) :
    LET x == ReadThrough(t, u, i - 1)
    IN /\ Keeps(x, path, scalars_only)
       /\ GoesOnWith(x, u[i])
       /\ x.json.verdict = "OK" => (Bounds(x, u[i]) <=> token.kind = "STRUCTURAL")

\* Offsets of a token's octets.
LEMMA OffsetsAlong ==
  ASSUME NEW l \in Nat, NEW o \in Nat, NEW n \in Nat \ {0}, o + n <= l, NEW i \in 1 .. n
  PROVE  /\ i - 1 \in 0 .. n /\ o + (i - 1) \in 0 .. l /\ o + i \in 1 .. l
         /\ (o + i) - 1 = o + (i - 1)
OBVIOUS

\* So it is for every token.
LEMMA TokenReads ==
  ASSUME KInv, TokenStands, FlowInv, TextInv, held,
         NEW t, TextAlike(t, text)
  PROVE  /\ TokenText(t, TokenOctets)
         /\ TextAlike(ReadThrough(t, TokenOctets, Len(TokenOctets)),
                      TextFirst(stream, Len(read) + Len(TokenOctets), path, scalars_only))
<1> PICK o, n, s, u :
           /\ o = token.offset /\ n = Len(token.bytes) /\ s = stream
           /\ s \in Seq(StreamOctet) /\ o \in Nat /\ n \in Nat \ {0}
           /\ Len(s) \in Nat /\ o + n <= Len(s)
           /\ TokenOctets = u /\ u = SubSeq(s, o + 1, o + n)
           /\ Len(u) = n
           /\ \A i \in 1 .. n : u[i] = s[o + i]
           /\ Len(read) = o
           /\ token.kind = "STRUCTURAL" => n = 1
  BY TokenIs
<1> PICK p, flat, b : p = path /\ flat = scalars_only /\ b = TextStart(p, flat)
  OBVIOUS
<1>1. p \in Paths /\ flat \in BOOLEAN
  BY DEF TextInv
<1>2. TextAlike(t, ReadThrough(b, s, o))
  <2>1. TextAlike(text, ReadThrough(b, s, o))
    BY DEF TextInv, TextFirst, ReadThrough
  <2> QED
    BY <2>1 DEF TextAlike, Alike
<1>3. LegalText(s, p, flat)
  BY <1>1, StreamLegal DEF FlowInv
<1>4. \A i \in 0 .. n : TextAlike(ReadThrough(t, u, i), ReadThrough(b, s, o + i))
  <2>1. ASSUME NEW i \in 0 .. n
        PROVE  TextAlike(ReadThrough(t, SubSeq(s, o + 1, o + n), i), ReadThrough(b, s, o + i))
    <3>1. n \in Nat
      OBVIOUS
    <3> QED
      BY <1>2, <3>1, GoesOnAlike, SMTT(30)
  <2> QED
    BY <2>1
<1>5. ASSUME NEW i \in 1 .. n
      PROVE  LET x == ReadThrough(t, u, i - 1)
             IN /\ Keeps(x, p, flat)
                /\ GoesOnWith(x, u[i])
                /\ x.json.verdict = "OK" => (Bounds(x, u[i]) <=> token.kind = "STRUCTURAL")
  <2> PICK k, m, c : k = i - 1 /\ m = o + k /\ c = s[o + i]
    OBVIOUS
  <2> PICK x, y : x = ReadThrough(t, u, k) /\ y = TextFirst(s, m, p, flat)
    OBVIOUS
  <2>1. /\ k \in 0 .. n /\ m \in 0 .. Len(s) /\ o + i \in 1 .. Len(s) /\ (o + i) - 1 = m
        /\ u[i] = c
    <3>1. u[i] = c
      BY Zenon
    <3>2. /\ i - 1 \in 0 .. n /\ o + (i - 1) \in 0 .. Len(s) /\ o + i \in 1 .. Len(s)
          /\ (o + i) - 1 = o + (i - 1)
      <4> PICK l : l = Len(s)
        OBVIOUS
      <4>1. l \in Nat /\ o \in Nat /\ n \in Nat \ {0} /\ o + n <= l /\ i \in 1 .. n
        OBVIOUS
      <4>2. /\ i - 1 \in 0 .. n /\ o + (i - 1) \in 0 .. l /\ o + i \in 1 .. l
            /\ (o + i) - 1 = o + (i - 1)
        BY ONLY <4>1, OffsetsAlong
      <4> QED
        BY <4>2
    <3> QED
      BY <3>1, <3>2
  <2>2. TextAlike(x, y)
    BY <1>4, <2>1, Zenon DEF TextFirst, ReadThrough
  <2>3. Keeps(y, p, flat) /\ Agrees(y, TextOf(s, m))
    BY <1>3, <2>1, TextAgrees
  <2>4. Keeps(x, p, flat) /\ Agrees(x, TextOf(s, m))
    BY <2>2, <2>3 DEF Keeps, Agrees, TextAlike, Alike, Inside
  <2>5. GoesOnWith(x, c)
    <3>1. GoesOnWith(y, c)
      BY <1>3, <2>1 DEF LegalText
    <3> QED
      BY <2>2, <3>1, AlikeGoesOn
  <2>6. x.json.verdict = "OK" => (Bounds(x, c) <=> token.kind = "STRUCTURAL")
    <3>1. c \in StreamOctet
      BY <2>1, ElementOfSeq
    <3>2. TextOf(s, m) \in TextStates
      BY <2>1, TextTypes
    <3>3. x.json.verdict = "OK" => (IsStructure(TextOf(s, m), KindOf[c]) <=> Bounds(x, c))
      BY <2>4, <3>1, <3>2, StructureBounds, Zenon
    <3>4. answer = "TOKEN"
      BY DEF FlowInv
    <3>5. token.kind = "STRUCTURAL" => IsStructure(TextOf(s, m), KindOf[c])
      <4>1. token.kind = "STRUCTURAL" => n = 1 /\ IsStructure(TextOf(s, o), KindOf[s[o + 1]])
        BY <3>4 DEF TokenStands
      <4>2. n = 1 => i = 1 /\ m = o
        OBVIOUS
      <4> QED
        BY <4>1, <4>2
    <3>6. token.kind # "STRUCTURAL" => ~ IsStructure(TextOf(s, m), KindOf[c])
      <4>1. token.kind # "STRUCTURAL" =>
              \A h \in 1 .. n : ~ IsStructure(TextOf(s, o + (h - 1)), KindOf[s[o + h]])
        BY <3>4, Zenon DEF TokenStands
      <4> QED
        BY <4>1
    <3> QED
      BY <3>3, <3>5, <3>6, Zenon
  <2> QED
    BY <2>1, <2>4, <2>5, <2>6, Zenon
<1>6. TokenText(t, u)
  BY <1>5, Zenon DEF TokenText
<1>7. TextAlike(ReadThrough(t, u, n), ReadThrough(b, s, o + n))
  <2>1. n \in 0 .. n
    OBVIOUS
  <2> HIDE DEF TextAlike
  <2> QED
    BY <1>4, <2>1, Zenon
<1> QED
  BY <1>6, <1>7 DEF TextFirst, ReadThrough

\* A reader that owes nothing has read the same.
LEMMA NextAlike ==
  ASSUME TextInv
  PROVE  /\ TextAlike(text, text) /\ TextAlike(NextText, text)
         /\ NextText.before = text.before \o text.json.due
         /\ NextText.json = PJ!NextToken
         /\ DOMAIN text.json = Fields
BY DEF TextInv, TextAlike, Alike, Fields, NextText, PJ!NextToken

\* A push keeps what the run was asked for.
LEMMA PushConfig ==
  ASSUME PushToken
  PROVE  path' = path /\ scalars_only' = scalars_only
BY DEF PushToken, RunStructural, SinkStructural, RunBytes, SinkBytes, vars, config,
       PushStructural, PushMalformed, PushWrapper, PushStringEnd, PushKeyEnd,
       PushSkippedEnd, PushInContainer, PushStringValue, PushKey, PushOtherString,
       PushRefused, PushContainerValue, PushOtherOpen, PushComma, PushClose, PushColon,
       Between, Advance, PushBytesToken, PushBytesOfValue, PushBytesSkipped,
       PushBytesOfKey, PushBytesBetween, PushBytes

\* A push takes the reader past the token.
LEMMA PushReads ==
  ASSUME KInv, TokenStands, FlowInv, TextInv, PushToken
  PROVE  /\ text' = ReadThrough(NextText, TokenOctets, Len(TokenOctets))
         /\ TextInv'
<1>1. /\ held /\ UNCHANGED <<reader, token>> /\ read' = read \o TokenOctets
  BY PushTakes
<1>2. \E o, n, s, u :
           /\ n = Len(token.bytes) /\ s = stream
           /\ TokenOctets = u /\ u = SubSeq(s, o + 1, o + n)
           /\ u \in Seq(StreamOctet) /\ Len(u) = n
           /\ read \in Seq(StreamOctet) /\ Len(read) = o
           /\ SubSeq(u, 1, n) = u
  BY <1>1, TokenIs
<1> PICK u : u = TokenOctets
  OBVIOUS
<1>3. /\ InStream(Len(read), Len(token.bytes)) = u /\ Len(u) = Len(token.bytes)
      /\ SubSeq(u, 1, Len(u)) = u
      /\ u \in Seq(StreamOctet) /\ read \in Seq(StreamOctet)
  BY <1>2, Zenon DEF InStream
<1>4. text' = ReadThrough(NextText, u, Len(u))
  BY <1>3, Zenon DEF PushToken, ReadOn, ReadThrough
<1>5. Len(read') = Len(read) + Len(u)
  BY <1>1, <1>3, ConcatProperties, ZenonT(60)
<1>6. path' = path /\ scalars_only' = scalars_only
  BY PushConfig
<1>7. TextInv'
  <2>1. TextAlike(NextText, text)
    BY NextAlike
  <2>2. TextAlike(ReadThrough(NextText, u, Len(u)),
                  TextFirst(stream, Len(read) + Len(u), path, scalars_only))
    BY <1>1, <2>1, TokenReads
  <2>3. stream' = stream
    BY <1>1 DEF reader
  <2> QED
    BY <1>4, <1>5, <1>6, <2>2, <2>3 DEF TextInv, TextFirst
<1> QED
  BY <1>4, <1>7

\* A token of octets between structure reads as one of the walk's own.
LEMMA BytesRead ==
  ASSUME NEW t, t.json \in PJ!Readers, t.json.verdict = "OK", NEW u \in Seq(StreamOctet),
         TokenText(t, u), token.kind # "STRUCTURAL"
  PROVE  /\ PJ!LegalFrom(t.json, u)
         /\ ReadThrough(t, u, Len(u)).json = PJ!ReadBytes(t.json, u, Len(u))
         /\ ReadThrough(t, u, Len(u)).before = t.before
         /\ ~ Inside(t.json) => u \in Seq(Octet)
<1> PICK a, n : a = t.json /\ n = Len(u)
  OBVIOUS
<1> DEFINE Good(i) ==
      /\ ReadThrough(t, u, i).json = PJ!ReadBytes(a, u, i)
      /\ ReadThrough(t, u, i).json.verdict = "OK"
      /\ Inside(ReadThrough(t, u, i).json) <=> Inside(a)
      /\ ReadThrough(t, u, i).before = t.before
           S == {i \in 0 .. n : Good(i)}
<1>1. n \in Nat /\ u \in Seq(PJ!Octet) /\ a \in PJ!Readers /\ PJ!Octet = StreamOctet
  BY LenProperties, SameReader
<1>2. /\ PJ!ReadBytes(a, u, 0) = a
      /\ \A i \in 0 .. n : PJ!ReadBytes(a, u, i) \in PJ!Readers
      /\ \A i \in 0 .. n - 1 :
           PJ!ReadBytes(a, u, i + 1) = PJ!ReadOctet(PJ!ReadBytes(a, u, i), u[i + 1])
  BY <1>1, WalkAssumptions, PJ!AlwaysReadsOn DEF PJ!ReadsOn
<1>3. 0 \in S
  <2>1. ReadThrough(t, u, 0) = t
    BY ThroughNone
  <2> QED
    BY <1>1, <1>2, <2>1
<1>4. ASSUME NEW i \in 0 .. n - 1, Good(i)
      PROVE  LET x == ReadThrough(t, u, i)
                 o == u[i + 1]
             IN /\ Keeps(x, path, scalars_only) /\ x.json \in PJ!Readers
                /\ o \in StreamOctet
                /\ PJ!LegalOctet(x.json, o)
                /\ ~ Inside(x.json) => o \in Octet
                /\ Good(i + 1)
  <2> PICK k : k = i + 1
    OBVIOUS
  <2> PICK x, o, y : /\ x = ReadThrough(t, u, i) /\ o = u[k]
                     /\ y = ReadThrough(t, u, k)
    OBVIOUS
  <2>1. k \in 1 .. n /\ k \in 0 .. n /\ i \in 0 .. n /\ k - 1 = i
    BY <1>1
  <2>2. y = PastTextOctet(x, o)
    <3>1. ReadThrough(t, u, k) = PastTextOctet(ReadThrough(t, u, k - 1), u[k])
      BY <2>1, ThroughNext, Zenon
    <3> QED
      BY <2>1, <3>1
  <2>3. /\ Keeps(x, path, scalars_only)
        /\ GoesOnWith(x, o)
        /\ x.json.verdict = "OK" => ~ Bounds(x, o)
    <3>1. LET z == ReadThrough(t, u, k - 1)
          IN /\ Keeps(z, path, scalars_only)
             /\ GoesOnWith(z, u[k])
             /\ z.json.verdict = "OK" => (Bounds(z, u[k]) <=> token.kind = "STRUCTURAL")
      BY <2>1 DEF TokenText
    <3> QED
      BY <2>1, <3>1
  <2>4. /\ x.json = PJ!ReadBytes(a, u, i) /\ x.json.verdict = "OK"
        /\ Inside(x.json) <=> Inside(a)
        /\ x.before = t.before
    BY <1>4
  <2>5. /\ TextAlike(x, x) /\ x.path = path /\ Alike(x.json, x.json)
        /\ DOMAIN x = {"json", "escaped", "before", "path", "flat"}
    BY <2>3 DEF Keeps, TextAlike
  <2>6. /\ Content(x, o) \/ Plain(x, o)
        /\ Content(x, o) => y.json = J!ReadContent(x.json, o)
        /\ Plain(x, o) => y.json = ReadOctetFor(x.json, o, x.path)
        /\ y.before = x.before
    BY <2>2, <2>3, <2>4, <2>5, PastIsOne DEF Bounds
  <2>7. y.json = ReadOctetFor(x.json, o, path)
    BY <2>5, <2>6 DEF Content, ReadOctetFor
  <2>8. y.json.verdict = "OK" /\ (Inside(y.json) <=> Inside(a))
    BY <2>4, <2>5, <2>7, OctetAlike
  <2>9. y.json = PJ!ReadBytes(a, u, k)
    <3>1. PJ!ReadBytes(a, u, i + 1) = PJ!ReadOctet(PJ!ReadBytes(a, u, i), u[i + 1])
      BY <1>2
    <3>2. PJ!ReadOctet(x.json, o) = ReadOctetFor(x.json, o, path)
      BY SameReader
    <3> QED
      BY <2>4, <2>7, <3>1, <3>2
  <2>10. x.json \in PJ!Readers /\ o \in StreamOctet
    <3>1. o \in StreamOctet
      BY <2>1, ElementOfSeq
    <3> QED
      BY <1>2, <2>1, <2>4, <3>1
  <2>11. ~ Inside(x.json) => o \notin Structural /\ AllowsOctet(x.json, o)
    BY <2>3, <2>4, <2>6 DEF GoesOnWith, Content, Plain
  <2>12. PJ!LegalOctet(x.json, o)
    <3> PICK j : j = x.json
      OBVIOUS
    <3>1. AllowsOctet(j, o)
      BY <2>11 DEF AllowsOctet
    <3>2. Append(j.text, o) \in Seq(StreamOctet)
      <4>1. j.text \in Seq(StreamOctet)
        BY <1>1, <2>10 DEF PJ!Readers
      <4> QED
        BY <2>10, <4>1, AppendProperties
    <3>3. PJ!AllowsOctet(j, o)
      BY <3>1, SameReader
    <3> QED
      BY <3>2, <3>3 DEF PJ!LegalOctet
  <2>13. ~ Inside(x.json) => o \in Octet
    BY <2>10, <2>11, OctetsAssumption
  <2>14. Good(k)
    BY <2>4, <2>6, <2>8, <2>9
  <2> QED
    BY <2>3, <2>10, <2>12, <2>13, <2>14
<1>5. ASSUME NEW i \in 0 .. n - 1, i \in S PROVE i + 1 \in S
  <2>1. Good(i) /\ i + 1 \in 0 .. n
    BY <1>1, <1>5
  <2> HIDE DEF Good
  <2>2. Good(i + 1)
    BY <1>4, <2>1
  <2> QED
    BY <2>1, <2>2
<1>6. \A i \in 0 .. n : i \in S
  <2> HIDE DEF S
  <2> QED
    BY <1>1, <1>3, <1>5, UpTo, Zenon
<1>7. ASSUME NEW k \in 1 .. n
      PROVE  /\ PJ!LegalOctet(PJ!ReadBytes(a, u, k - 1), u[k])
             /\ ~ Inside(a) => u[k] \in Octet
  <2> PICK i : i = k - 1
    OBVIOUS
  <2>1. i \in 0 .. n - 1 /\ i \in 0 .. n /\ i + 1 = k
    BY <1>1
  <2>2. Good(i)
    BY <1>6, <2>1
  <2>3. LET x == ReadThrough(t, u, i)
            o == u[i + 1]
        IN /\ PJ!LegalOctet(x.json, o)
           /\ ~ Inside(x.json) => o \in Octet
    <3> HIDE DEF Good
    <3> QED
      BY <1>4, <2>1, <2>2
  <2> QED
    BY <2>1, <2>2, <2>3
<1>8. PJ!LegalFrom(a, u)
  BY <1>7 DEF PJ!LegalFrom
<1>9. ~ Inside(a) => u \in Seq(Octet)
  <2> SUFFICES ASSUME ~ Inside(a) PROVE u \in Seq(Octet)
    OBVIOUS
  <2>1. \A k \in 1 .. n : u[k] \in Octet
    BY <1>7
  <2>2. u \in [1 .. n -> Octet]
    <3>1. u = [k \in 1 .. n |-> u[k]]
      BY <1>1
    <3> QED
      BY <2>1, <3>1
  <2> QED
    BY <1>1, <2>2, SeqDef
<1>10. Good(n)
  <2>1. n \in 0 .. n
    BY <1>1
  <2> QED
    BY <1>6, <2>1
<1> QED
  BY <1>8, <1>9, <1>10

\* How many leading octets are of a kind.
LEMMA PrefixFits ==
  ASSUME NEW X, NEW s \in Seq(X), NEW S
  PROVE  /\ PrefixIn(s, S) \in 0 .. Len(s)
         /\ \A i \in 1 .. PrefixIn(s, S) : s[i] \in S
         /\ PrefixIn(s, S) < Len(s) => s[PrefixIn(s, S) + 1] \notin S
<1> DEFINE T == {n \in 0 .. Len(s) : n < Len(s) => s[n + 1] \notin S}
<1>1. Len(s) \in Nat
  BY LenProperties
<1>2. T \in SUBSET Nat /\ Len(s) \in T
  BY <1>1
<1>3. PICK n \in T : \A m \in T : n <= m
  <2> HIDE DEF T
  <2> QED
    BY <1>2, LeastNatural
<1>4. \A i \in 1 .. n : s[i] \in S
  <2> SUFFICES ASSUME NEW i \in 1 .. n, s[i] \notin S PROVE FALSE
    OBVIOUS
  <2>1. n \in 0 .. Len(s) /\ i - 1 \in 0 .. Len(s) /\ i - 1 < n
    BY <1>1, <1>3
  <2>2. i - 1 \in T
    BY <2>1
  <2> QED
    BY <1>3, <2>1, <2>2
<1>5. \E m \in 0 .. Len(s) : /\ \A i \in 1 .. m : s[i] \in S
                             /\ m < Len(s) => s[m + 1] \notin S
  BY <1>3, <1>4
<1> QED
  BY <1>5 DEF PrefixIn

\* What is left behind the first octets.
LEMMA RestFits ==
  ASSUME NEW X, NEW s \in Seq(X), NEW n \in 0 .. Len(s)
  PROVE  /\ After(s, n) \in Seq(X)
         /\ Len(After(s, n)) = Len(s) - n
         /\ \A i \in 1 .. Len(s) - n : After(s, n)[i] = s[n + i]
<1>1. Len(s) \in Nat
  BY LenProperties
<1>2. \A i \in n + 1 .. Len(s) : s[i] \in X
  BY <1>1, ElementOfSeq
<1>3. /\ SubSeq(s, n + 1, Len(s)) \in Seq(X)
      /\ Len(SubSeq(s, n + 1, Len(s))) =
           IF n + 1 <= Len(s) THEN Len(s) - (n + 1) + 1 ELSE 0
      /\ \A i \in 1 .. Len(s) - (n + 1) + 1 :
           SubSeq(s, n + 1, Len(s))[i] = s[(n + 1) + i - 1]
  BY <1>1, <1>2, SubSeqProperties
<1> QED
  BY <1>1, <1>3 DEF After

\* Two sequences one after the other.
LEMMA TwoInOrder ==
  ASSUME NEW X, NEW s \in Seq(X), NEW t \in Seq(X)
  PROVE  /\ s \o t \in Seq(X) /\ Len(s \o t) = Len(s) + Len(t)
         /\ Len(s) \in Nat /\ Len(t) \in Nat
         /\ \A j \in 1 .. Len(s) : (s \o t)[j] = s[j]
         /\ \A j \in 1 .. Len(t) : (s \o t)[Len(s) + j] = t[j]
         /\ \A j \in Len(s) + 1 .. Len(s) + Len(t) : (s \o t)[j] = t[j - Len(s)]
BY LenProperties

\* With a path, the walk over the stream is one over JSON text beside its reader,
\* and outside strings what is left of a token holds no structure.
WalkInv ==
  output = "PLUCK" =>
    /\ rest \in Seq(Octet)
    /\ text.before \in Seq(PJ!Piece)
    /\ PJ!IInv
    /\ PJ!PicksInv

\* The walk starts so.
LEMMA WalkStarts == PInit => WalkInv
<1> SUFFICES ASSUME PInit PROVE WalkInv
  OBVIOUS
<1>1. Init /\ text = TextStart(path, scalars_only)
  BY DEF PInit, RInit
<1>2. PJ!Init
  BY <1>1 DEF PJ!Init, Init, PJ!EmptyStack, EmptyStack
<1>3. text.json = PJ!J!Start /\ text.before = <<>>
  BY <1>1, SameReader DEF TextStart
<1>4. PJ!IInv /\ PJ!PicksInv
  BY <1>2, <1>3, PJ!PicksInitInv, WalkAssumptions DEF PJ!JInit
<1>5. rest = <<>> /\ <<>> \in Seq(Octet) /\ <<>> \in Seq(PJ!Piece)
  BY <1>1, EmptySeq DEF Init
<1> QED
  BY <1>3, <1>4, <1>5 DEF WalkInv

\* A step that pushes nothing leaves both where they are.
LEMMA WalkStays ==
  ASSUME WalkInv, UNCHANGED <<vars, output, text>>
  PROVE  WalkInv'
<1> SUFFICES ASSUME output = "PLUCK"
             PROVE  /\ rest' \in Seq(Octet)
                    /\ text'.before \in Seq(PJ!Piece)
                    /\ PJ!IInv'
                    /\ PJ!PicksInv'
  BY DEF WalkInv
<1>1. UNCHANGED PJ!jvars
  BY DEF PJ!jvars, PJ!vars, vars, PJ!config, config, PJ!walk, walk
<1>2. PJ!IInv' /\ PJ!PicksInv'
  BY <1>1, PJ!PicksNextInv, WalkAssumptions DEF WalkInv
<1> QED
  BY <1>2 DEF WalkInv, vars

\* The reader reads for the run's path and framing.
LEMMA TextKept ==
  ASSUME KInv, FlowInv, TextInv
  PROVE  Keeps(text, path, scalars_only) /\ Keeps(NextText, path, scalars_only)
<1> PICK s, n, y : s = stream /\ n = Reached /\ y = TextFirst(s, n, path, scalars_only)
  OBVIOUS
<1>1. s \in Seq(StreamOctet) /\ n \in 0 .. Len(s) /\ read = SubSeq(s, 1, n)
  <2>1. s \in Seq(StreamOctet) /\ n \in 0 .. Len(s)
    BY ReachedFits
  <2> QED
    BY <2>1 DEF FlowInv
<1>2. Len(SubSeq(s, 1, n)) = n
  BY <1>1, FirstOctets
<1>3. TextAlike(text, y)
  BY <1>1, <1>2 DEF TextInv
<1>4. Keeps(y, path, scalars_only)
  <2>1. LegalText(s, path, scalars_only)
    BY <1>1, StreamLegal DEF TextInv, FlowInv
  <2> QED
    BY <1>1, <2>1, TextAgrees
<1>5. TextAlike(NextText, text) /\ TextAlike(text, text)
  BY NextAlike
<1>6. TextAlike(NextText, NextText)
  BY <1>5 DEF TextAlike, Alike
<1> QED
  BY <1>3, <1>4, <1>5, <1>6 DEF Keeps, TextAlike

\* Where the walk stands when a token is pushed.
LEMMA WalkBetween ==
  ASSUME KInv, FlowInv, TextInv, WalkInv, output = "PLUCK", rest = <<>>, status = "OK"
  PROVE  /\ text.json.due = wrote /\ text.json \in PJ!Readers
         /\ PJ!Fits(text.json, phase, emitted_any)
         /\ text.json.verdict = "OK" /\ NextText.json.verdict = "OK"
         /\ NextText.json \in PJ!Readers
         /\ Keeps(text, path, scalars_only) /\ Keeps(NextText, path, scalars_only)
         /\ in_string <=> Inside(text.json)
         /\ Len(text.json.frames) <= JSP_MAX_DEPTH
<1>1. PJ!TypeOK /\ PJ!PicksInv
  BY DEF WalkInv, PJ!IInv
<1>2. /\ text.json.due = wrote /\ text.json \in PJ!Readers
      /\ PJ!Fits(text.json, phase, emitted_any)
  BY <1>1, PJ!BetweenPushes, WalkAssumptions DEF PJ!PushDone
<1>3. text.json.verdict = "OK"
  BY <1>2 DEF PJ!Fits
<1>4. Keeps(text, path, scalars_only) /\ Keeps(NextText, path, scalars_only)
  BY TextKept
<1>5. NextText.json = [text.json EXCEPT !.due = <<>>]
  BY NextAlike DEF PJ!NextToken
<1>6. NextText.json \in PJ!Readers /\ NextText.json.verdict = "OK"
  <2> PICK j : j = text.json
    OBVIOUS
  <2>1. <<>> \in Seq(PJ!Piece)
    BY EmptySeq
  <2> QED
    BY <1>2, <1>3, <1>5, <2>1, Zenon DEF PJ!Readers
<1>7. in_string <=> Inside(text.json)
  BY <1>2, SameReader DEF PJ!Fits, PJ!PlaceFits
<1>8. Len(text.json.frames) <= JSP_MAX_DEPTH
  <2>1. Len(text.json.frames) = nesting.depth
    BY <1>2 DEF PJ!Fits, PJ!FramesFit
  <2>2. nesting.depth \in 0 .. JSP_MAX_DEPTH
    BY <1>1 DEF PJ!TypeOK, PJ!BitStack
  <2> QED
    BY <2>1, <2>2, DepthAssumption
<1> QED
  BY <1>2, <1>3, <1>4, <1>6, <1>7, <1>8

\* A token of structure is one to the walk and to the reader.
LEMMA WalkStructural ==
  ASSUME KInv, TokenStands, FlowInv, TextInv, WalkInv, output = "PLUCK",
         PushToken, token.kind = "STRUCTURAL"
  PROVE  /\ \E c \in Structural : PJ!TextStructural(c)
         /\ rest' = <<>>
         /\ text'.before = text.before \o wrote
<1> PICK c, u : u = TokenOctets /\ c = u[1]
  OBVIOUS
<1>1. held /\ rest = <<>> /\ text' = ReadThrough(NextText, u, Len(u))
  BY PushTakes, PushReads
<1>2. u \in Seq(StreamOctet) /\ Len(u) = 1
  BY <1>1, TokenIs
<1>3. Scanned(c) /\ PushStructural(c)
  BY DEF PushToken, RunStructural, SinkStructural
<1>4. status = "OK" /\ rest' = rest
  BY <1>3 DEF PushStructural, Pushable, PushMalformed, PushWrapper, PushStringEnd, PushKeyEnd,
         PushSkippedEnd, PushInContainer, PushStringValue, PushKey, PushOtherString,
         PushRefused, PushContainerValue, PushOtherOpen, PushComma, PushClose, PushColon,
         Between, Advance
<1>5. /\ text.json.verdict = "OK" /\ NextText.json.verdict = "OK"
      /\ Keeps(text, path, scalars_only) /\ Keeps(NextText, path, scalars_only)
      /\ Len(text.json.frames) <= JSP_MAX_DEPTH /\ text.json.due = wrote
      /\ text.json \in PJ!Readers
  BY <1>1, <1>4, WalkBetween
<1>6. ASSUME NEW t, TextAlike(t, text), t.json.verdict = "OK"
      PROVE  GoesOnWith(t, c) /\ Bounds(t, c)
  <2>1. TokenText(t, u)
    BY <1>1, <1>6, TokenReads
  <2>2. 1 \in 1 .. Len(u)
    BY <1>2
  <2>3. LET x == ReadThrough(t, u, 1 - 1)
        IN /\ GoesOnWith(x, u[1])
           /\ x.json.verdict = "OK" => (Bounds(x, u[1]) <=> token.kind = "STRUCTURAL")
    BY <2>1, <2>2 DEF TokenText
  <2>4. 1 - 1 = 0 /\ ReadThrough(t, u, 0) = t
    BY <1>2, ThroughNone
  <2> QED
    BY <1>6, <2>3, <2>4
<1>7. /\ GoesOnWith(text, c) /\ Bounds(text, c)
      /\ GoesOnWith(NextText, c) /\ Bounds(NextText, c)
  BY <1>5, <1>6, NextAlike
<1>8. c \in Structural /\ AllowsStructural(text.json, c)
  <2>1. c \in Structural /\ (Inside(text.json) => c = Quote)
    BY <1>7 DEF Bounds, Content, Plain, Structural
  <2>2. Inside(text.json) => AllowsStructural(text.json, c)
    BY <2>1 DEF AllowsStructural
  <2>3. ~ Inside(text.json) => AllowsStructural(text.json, c)
    BY <1>5, <1>7, <2>1 DEF GoesOnWith
  <2> QED
    BY <2>1, <2>2, <2>3
<1>9. PJ!LegalStructural(c)
  <2> PICK j, n : j = text.json /\ n = Len(j.frames)
    BY Zenon
  <2>1. n \in Nat
    BY <1>5, LenProperties DEF PJ!Readers
  <2>2. n < JSP_MAX_DEPTH + 1
    BY <1>5, <2>1, DepthAssumption
  <2>3. PJ!AllowsStructural(text.json, c)
    BY <1>8, SameReader
  <2> QED
    BY <2>2, <2>3 DEF PJ!LegalStructural
<1>10. text' = PastTextOctet(NextText, c)
  <2>1. 1 \in 1 .. Len(u)
    BY <1>2
  <2>2. ReadThrough(NextText, u, 1) = PastTextOctet(ReadThrough(NextText, u, 1 - 1), u[1])
    BY <1>2, <2>1, ThroughNext, ZenonT(60)
  <2>3. 1 - 1 = 0 /\ ReadThrough(NextText, u, 0) = NextText
    BY <1>2, ThroughNone
  <2> QED
    BY <1>1, <1>2, <2>2, <2>3
<1>11. /\ text'.json = ReadStructuralFor(NextText.json, c, path, scalars_only)
       /\ text'.before = NextText.before
  <2> PICK t, w : t = NextText /\ w = text'
    OBVIOUS
  <2>1. /\ DOMAIN t = {"json", "escaped", "before", "path", "flat"}
        /\ t.path = path /\ t.flat = scalars_only /\ t.json.verdict = "OK"
        /\ Bounds(t, c) /\ w = PastTextOctet(t, c)
    BY <1>5, <1>7, <1>10 DEF Keeps, TextAlike
  <2>2. w.json = ReadStructuralFor(t.json, c, path, scalars_only) /\ w.before = t.before
    BY <2>1, PastIsOne
  <2> QED
    BY <2>2
<1>12. PJ!TextStructural(c)
  <2>1. PJ!Scanned(c) /\ PJ!PushStructural(c)
    BY <1>3, SameStructural
  <2>2. text'.json = PJ!ReadStructural(PJ!NextToken, c)
    BY <1>11, NextAlike, SameReader
  <2> QED
    BY <1>9, <2>1, <2>2 DEF PJ!TextStructural
<1>13. text'.before = text.before \o wrote
  BY <1>5, <1>11, NextAlike
<1> QED
  BY <1>1, <1>4, <1>8, <1>12, <1>13

\* And so is a token of other octets.
LEMMA WalkBytes ==
  ASSUME KInv, TokenStands, FlowInv, TextInv, WalkInv, output = "PLUCK",
         PushToken, token.kind # "STRUCTURAL"
  PROVE  /\ \E bytes \in Seq(StreamOctet) \ {<<>>} : PJ!TextBytes(bytes)
         /\ rest' \in Seq(Octet)
         /\ text'.before = text.before \o wrote
<1> PICK u : u = TokenOctets
  OBVIOUS
<1>1. held /\ rest = <<>> /\ text' = ReadThrough(NextText, u, Len(u))
  BY PushTakes, PushReads
<1>2. u \in Seq(StreamOctet) /\ u # <<>>
  BY <1>1, TokenIs
<1>3. PushBytesToken(u)
  BY DEF PushToken, RunBytes, SinkBytes
<1>4. status = "OK"
  BY <1>3 DEF PushBytesToken, PushBytes, PushBytesOfValue, PushBytesSkipped, PushBytesOfKey,
              PushBytesBetween
<1>5. /\ text.json.verdict = "OK" /\ NextText.json.verdict = "OK"
      /\ text.json \in PJ!Readers /\ NextText.json \in PJ!Readers
      /\ in_string <=> Inside(text.json)
      /\ text.json.due = wrote
  BY <1>1, <1>4, WalkBetween
<1>6. TokenText(text, u) /\ TokenText(NextText, u)
  BY <1>1, NextAlike, TokenReads
<1>7. PJ!LegalFrom(text.json, u) /\ (~ Inside(text.json) => u \in Seq(Octet))
  BY <1>2, <1>5, <1>6, BytesRead
<1>8. /\ text'.json = PJ!ReadBytes(NextText.json, u, Len(u))
      /\ text'.before = NextText.before
  <2> PICK t, w : t = NextText /\ w = text'
    OBVIOUS
  <2>1. w = ReadThrough(t, u, Len(u))
    BY <1>1
  <2>2. /\ ReadThrough(t, u, Len(u)).json = PJ!ReadBytes(t.json, u, Len(u))
        /\ ReadThrough(t, u, Len(u)).before = t.before
    BY <1>2, <1>5, <1>6, BytesRead
  <2> QED
    BY <2>1, <2>2
<1>9. PJ!TextBytes(u)
  <2>1. PJ!PushBytesToken(u)
    BY <1>3, SameBytes
  <2>2. PJ!LegalBytes(u)
    BY <1>7 DEF PJ!LegalFrom, PJ!LegalBytes
  <2> QED
    BY <1>8, <2>1, <2>2, NextAlike DEF PJ!TextBytes
<1>10. rest' \in Seq(Octet)
  <2>1. CASE phase \in {"BETWEEN", "SCALAR"}
    <3>1. ~ in_string
      BY <1>4, <2>1 DEF WalkInv, PJ!IInv, PJ!PhaseFitsString
    <3>2. u \in Seq(Octet)
      BY <1>5, <1>7, <3>1
    <3>3. rest' = u \/ rest' = PastBlanks(u)
      BY <1>3, <2>1 DEF PushBytesToken, PushBytesOfValue, PushBytesSkipped, PushBytesOfKey,
                        PushBytesBetween
    <3>4. PastBlanks(u) \in Seq(Octet)
      BY <3>2, PrefixFits, RestFits DEF PastBlanks
    <3> QED
      BY <3>2, <3>3, <3>4
  <2>2. CASE phase \notin {"BETWEEN", "SCALAR"}
    <3>1. rest' = rest
      BY <1>3, <2>2 DEF PushBytesToken, PushBytesOfValue, PushBytesSkipped, PushBytesOfKey,
                        PushBytesBetween
    <3> QED
      BY <1>1, <3>1, EmptySeq
  <2> QED
    BY <2>1, <2>2
<1>11. text'.before = text.before \o wrote
  BY <1>5, <1>8, NextAlike
<1> QED
  BY <1>2, <1>9, <1>10, <1>11

\* A pass of the walk is one beside the reader.
LEMMA WalkPasses ==
  ASSUME WalkInv, PassOn, output = "PLUCK"
  PROVE  PJ!TextPass /\ rest' \in Seq(Octet)
<1>1. ScalarPass /\ UNCHANGED <<output, text>> /\ rest \in Seq(Octet)
  BY DEF PassOn, RunPass, WalkInv
<1>2. PJ!TextPass
  BY <1>1, SamePass DEF PJ!TextPass
<1>3. rest' \in Seq(Octet)
  <2> PICK n : n = PrefixIn(rest, Letter)
    OBVIOUS
  <2>1. rest' = <<>> \/ rest' = PastBlanks(After(rest, n))
    BY <1>1 DEF ScalarPass
  <2>2. n \in 0 .. Len(rest)
    BY <1>1, PrefixFits
  <2>3. After(rest, n) \in Seq(Octet)
    BY <1>1, <2>2, RestFits
  <2>4. PastBlanks(After(rest, n)) \in Seq(Octet)
    <3> PICK s, m : s = After(rest, n) /\ m = PrefixIn(s, Blank)
      OBVIOUS
    <3>1. s \in Seq(Octet) /\ m \in 0 .. Len(s)
      BY <2>3, PrefixFits
    <3>2. After(s, m) \in Seq(Octet)
      BY <3>1, RestFits
    <3> QED
      BY <3>2 DEF PastBlanks
  <2>5. <<>> \in Seq(Octet)
    BY EmptySeq
  <2> QED
    BY <2>1, <2>4, <2>5, Zenon
<1> QED
  BY <1>2, <1>3

\* What was put out for the tokens before this one is of pieces.
LEMMA BeforeGrows ==
  ASSUME WalkInv, output = "PLUCK", text'.before = text.before \o wrote
  PROVE  text'.before \in Seq(PJ!Piece)
<1>1. text.before \in Seq(PJ!Piece)
  BY DEF WalkInv
<1>2. wrote \in Seq(PJ!Piece)
  BY DEF WalkInv, PJ!IInv, PJ!TypeOK, PJ!Piece
<1> QED
  BY <1>1, <1>2, ConcatProperties

\* Every step of the program leaves the walk so.
LEMMA WalkNext ==
  ASSUME KInv, TokenStands, FlowInv, TextInv, WalkInv, [PNext]_pvars
  PROVE  WalkInv'
<1>1. CASE PushToken
  <2> SUFFICES ASSUME output' = "PLUCK" PROVE WalkInv'
    BY DEF WalkInv
  <2>1. output = "PLUCK"
    BY <1>1, PushTakes
  <2>2. CASE token.kind = "STRUCTURAL"
    <3>1. /\ \E c \in Structural : PJ!TextStructural(c)
          /\ rest' = <<>>
          /\ text'.before = text.before \o wrote
      BY <1>1, <2>1, <2>2, WalkStructural
    <3>2. PJ!JNext
      BY <3>1, SameReader DEF PJ!JNext
    <3>3. PJ!IInv' /\ PJ!PicksInv'
      BY <2>1, <3>2, PJ!PicksNextInv, WalkAssumptions DEF WalkInv
    <3>4. rest' \in Seq(Octet)
      BY <3>1, EmptySeq
    <3>5. text'.before \in Seq(PJ!Piece)
      BY <2>1, <3>1, BeforeGrows
    <3> QED
      BY <3>3, <3>4, <3>5 DEF WalkInv
  <2>3. CASE token.kind # "STRUCTURAL"
    <3>1. /\ \E bytes \in Seq(StreamOctet) \ {<<>>} : PJ!TextBytes(bytes)
          /\ rest' \in Seq(Octet)
          /\ text'.before = text.before \o wrote
      BY <1>1, <2>1, <2>3, WalkBytes
    <3>2. PJ!JNext
      BY <3>1 DEF PJ!JNext
    <3>3. PJ!IInv' /\ PJ!PicksInv'
      BY <2>1, <3>2, PJ!PicksNextInv, WalkAssumptions DEF WalkInv
    <3>4. text'.before \in Seq(PJ!Piece)
      BY <2>1, <3>1, BeforeGrows
    <3> QED
      BY <3>1, <3>3, <3>4 DEF WalkInv
  <2> QED
    BY <2>2, <2>3
<1>2. CASE PassOn
  <2> SUFFICES ASSUME output' = "PLUCK" PROVE WalkInv'
    BY DEF WalkInv
  <2>1. output = "PLUCK" /\ text' = text
    BY <1>2 DEF PassOn, RunPass
  <2>2. PJ!TextPass /\ rest' \in Seq(Octet)
    BY <1>2, <2>1, WalkPasses
  <2>3. PJ!IInv' /\ PJ!PicksInv'
    BY <2>1, <2>2, PJ!PicksNextInv, WalkAssumptions DEF WalkInv, PJ!JNext
  <2> QED
    BY <2>1, <2>2, <2>3 DEF WalkInv
<1>3. CASE Before \/ Pull \/ ScanStops \/ Close \/ MainReturns \/ UNCHANGED pvars
  <2>1. UNCHANGED <<vars, output, text>>
    BY <1>3 DEF Before, RunAlloc, RunOpen, Pull, ScanStops, RunScanEnds, RunScanFails, Stops,
                Close, RunClose, MainReturns, pvars, runvars, run
  <2> QED
    BY <2>1, WalkStays
<1> QED
  BY <1>1, <1>2, <1>3 DEF PNext

\* A step of the program is one of the scan or leaves it alone.
LEMMA ScanSteps ==
  ASSUME KInv, FlowInv, [PNext]_pvars
  PROVE  [KNext]_kvars
<1>1. CASE Pull
  BY <1>1, PullSteps DEF FlowInv
<1>2. CASE PushToken
  BY <1>2 DEF PushToken, KNext
<1>3. CASE Before \/ PassOn \/ ScanStops \/ Close \/ MainReturns \/ UNCHANGED pvars
  BY <1>3 DEF Before, PassOn, ScanStops, Close, MainReturns, pvars, kvars
<1> QED
  BY <1>1, <1>2, <1>3 DEF PNext

\* A token flows from the scan into the run in every step.
LEMMA FlowNext ==
  ASSUME KInv, KInv', TokenStands, FlowInv, [PNext]_pvars
  PROVE  FlowInv'
<1>1. CASE Pull
  BY <1>1, PullFlows
<1>2. CASE PushToken
  BY <1>2, PushFlows
<1>3. CASE Before \/ PassOn \/ ScanStops \/ Close \/ MainReturns \/ UNCHANGED pvars
  BY <1>3, AsideIs, StillFlows
<1> QED
  BY <1>1, <1>2, <1>3 DEF PNext

\* And the reader of text stays past the tokens.
LEMMA TextNext ==
  ASSUME KInv, TokenStands, FlowInv, TextInv, [PNext]_pvars
  PROVE  TextInv'
<1>1. CASE Pull
  <2>1. UNCHANGED <<text, read, config>>
    BY <1>1 DEF Pull, runvars, vars, run
  <2>2. stream' = stream \/ \E chunk \in Seq(StreamOctet) : stream' = stream \o chunk
    BY <1>1, PullSteps, PullHands DEF FlowInv
  <2> QED
    BY <2>1, <2>2, ReadTextStays
<1>2. CASE PushToken
  BY <1>2, PushReads
<1>3. CASE Before \/ PassOn \/ ScanStops \/ Close \/ MainReturns \/ UNCHANGED pvars
  <2>1. UNCHANGED <<text, config>>
    BY <1>3 DEF Before, RunAlloc, RunOpen, PassOn, RunPass, ScalarPass, ScanStops,
                RunScanEnds, RunScanFails, Stops, Close, RunClose, MainReturns, pvars,
                runvars, run, vars
  <2>2. read' = read /\ stream' = stream
    BY <1>3, AsideIs DEF reader
  <2> QED
    BY <2>1, <2>2, ReadTextStays
<1> QED
  BY <1>1, <1>2, <1>3 DEF PNext

\* The program up to the octets that go out.
BaseInv == KInv /\ SP!ScanInv /\ FlowInv /\ TextInv /\ WalkInv

\* The program starts so.
LEMMA BaseStarts == PInit => BaseInv
BY TextStarts, KInitInv, ScanInitStands, WalkStarts DEF BaseInv

\* Every step of the program leaves it so.
LEMMA BaseNext == BaseInv /\ [PNext]_pvars => BaseInv'
<1> SUFFICES ASSUME BaseInv, [PNext]_pvars PROVE BaseInv'
  OBVIOUS
<1>1. KInv /\ SP!ScanInv /\ FlowInv /\ TextInv /\ WalkInv /\ TokenStands
  BY TokensStand DEF BaseInv
<1>2. [KNext]_kvars
  BY <1>1, ScanSteps
<1>3. KInv'
  BY <1>1, <1>2, KNextInv
<1>4. SP!ScanInv'
  BY <1>1, <1>2, <1>3, ScanNextStands
<1>5. FlowInv' /\ TextInv' /\ WalkInv'
  BY <1>1, <1>3, FlowNext, TextNext, WalkNext
<1> QED
  BY <1>3, <1>4, <1>5 DEF BaseInv

-----------------------------------------------------------------------------
(* What goes out *)

\* How far the run has come, and what its status says of it.
ResultInv ==
  /\ output \in {"SINK", "PLUCK"}
  /\ stage \in {"alloc", "open", "loop", "close", "done"}
  /\ result.status \in {"OK", "ALLOC", "IO", "MALFORMED", "LINES_CONTAINER"}
  /\ stage \in {"alloc", "open", "loop"} => result.status = "OK"
  /\ exit # "none" => stage = "done" /\ exit = ExitStatus[result.status]
  /\ result.status = "OK" => status = "OK"
  /\ status = "WRITE_FAILED" => result.status = "IO"
  /\ stage # "loop" => rest = <<>>
  /\ stage \in {"close", "done"} /\ result.status = "OK" =>
       read = stream /\ stream \in Texts

\* What the last push has put out so far.
Shown == IF rest = <<>> THEN wrote ELSE <<>>

\* Everything put out before it, and by it.
PutOut == (OpenText \o text.before) \o Shown

\* What is in the output.
OutInv ==
  /\ output = "SINK" => out = <<>> /\ status = "OK" /\ rest = <<>>
  /\ output = "PLUCK" =>
       /\ stage \in {"alloc", "open"} => out = <<>> /\ text.before = <<>> /\ wrote = <<>>
       /\ stage \in {"loop", "close"} => out = PutOut
       /\ stage = "done" /\ result.status = "OK" => out \in {PutOut, PutOut \o CloseText}

\* Sequences of pieces one after the other.
LEMMA PiecesOneByOne ==
  ASSUME NEW X, NEW a \in Seq(X), NEW b \in Seq(X), NEW c \in Seq(X)
  PROVE  /\ a \o b \in Seq(X)
         /\ (a \o b) \o c = a \o (b \o c)
         /\ a \o <<>> = a
         /\ (<<>> \o <<>>) \o <<>> = <<>>
<1>1. a \o b \in Seq(X)
  BY ConcatProperties
<1>2. (a \o b) \o c = a \o (b \o c)
  <2>1. Associate(X)
    BY AllAssociate, Zenon
  <2> QED
    BY <2>1 DEF Associate
<1>3. a \o <<>> = a
  BY ConcatEmptySeq
<1>4. <<>> \o <<>> = <<>> /\ <<>> \in Seq(X)
  BY ConcatEmptySeq, EmptySeq
<1> QED
  BY <1>1, <1>2, <1>3, <1>4

\* A part of what is due, after the same pieces.
LEMMA PrefixAfter ==
  ASSUME NEW X, NEW a \in Seq(X), NEW w \in Seq(X), NEW d \in Seq(X),
         Len(w) <= Len(d), SubSeq(w, 1, Len(w)) = SubSeq(d, 1, Len(w))
  PROVE  IsPrefix(a \o w, a \o d)
<1> PICK l, m, n : l = Len(a) /\ m = Len(w) /\ n = Len(d)
  BY Zenon
<1>1. l \in Nat /\ m \in Nat /\ n \in Nat /\ m <= n
  BY LenProperties
<1> PICK s, t : s = a \o w /\ t = a \o d
  BY Zenon
<1>2. /\ s \in Seq(X) /\ Len(s) = l + m
      /\ \A i \in 1 .. l : s[i] = a[i]
      /\ \A i \in 1 .. m : s[l + i] = w[i]
  BY TwoInOrder
<1>3. /\ t \in Seq(X) /\ Len(t) = l + n
      /\ \A i \in 1 .. l : t[i] = a[i]
      /\ \A i \in 1 .. n : t[l + i] = d[i]
  BY TwoInOrder
<1>4. \A i \in 1 .. m : w[i] = d[i]
  <2>1. m \in 0 .. Len(w) /\ m \in 0 .. Len(d)
    BY <1>1
  <2>2. \A i \in 1 .. m : SubSeq(w, 1, m)[i] = w[i]
    BY <2>1, FirstOctets
  <2>3. \A i \in 1 .. m : SubSeq(d, 1, m)[i] = d[i]
    BY <2>1, FirstOctets
  <2> QED
    BY <2>2, <2>3
<1>5. ASSUME NEW i \in 1 .. l + m PROVE s[i] = t[i]
  <2>1. CASE i \in 1 .. l
    BY <1>2, <1>3, <2>1
  <2>2. CASE i \notin 1 .. l
    <3> PICK j : j = i - l
      OBVIOUS
    <3>1. j \in 1 .. m /\ j \in 1 .. n /\ i = l + j
      BY ONLY <1>1, <1>5, <2>2, j = i - l
    <3> QED
      BY <1>2, <1>3, <1>4, <3>1
  <2> QED
    BY <2>1, <2>2
<1>6. l + m \in 0 .. Len(s) /\ l + m \in 0 .. Len(t)
  BY <1>1, <1>2, <1>3
<1>7. SubSeq(s, 1, l + m) = SubSeq(t, 1, l + m)
  <2> PICK k, g, h : k = l + m /\ g = SubSeq(s, 1, k) /\ h = SubSeq(t, 1, k)
    BY Zenon
  <2>1. g \in Seq(X) /\ Len(g) = k /\ \A i \in 1 .. k : g[i] = s[i]
    BY <1>2, <1>6, FirstOctets
  <2>2. h \in Seq(X) /\ Len(h) = k /\ \A i \in 1 .. k : h[i] = t[i]
    BY <1>3, <1>6, FirstOctets
  <2>3. g = h
    BY <1>5, <2>1, <2>2, SeqEqual
  <2> QED
    BY <2>3
<1> QED
  BY <1>1, <1>2, <1>3, <1>7 DEF IsPrefix

\* What goes out is of pieces.
LEMMA OutTypes ==
  ASSUME WalkInv, output = "PLUCK"
  PROVE  /\ OpenText \in Seq(PJ!Piece) /\ CloseText \in Seq(PJ!Piece)
         /\ text.before \in Seq(PJ!Piece) /\ wrote \in Seq(PJ!Piece)
         /\ text.json.due \in Seq(PJ!Piece)
         /\ Shown \in Seq(PJ!Piece)
<1>1. "lbracket" \in PJ!Piece /\ "rbracket" \in PJ!Piece /\ Separator \in PJ!Piece
  BY DEF PJ!Piece, PJ!Structural, PJ!Opening, PJ!Closing, PJ!Separator, Separator
<1>2. OpenText \in Seq(PJ!Piece) /\ CloseText \in Seq(PJ!Piece)
  BY <1>1, EmptySeq DEF OpenText, CloseText
<1>3. wrote \in Seq(PJ!Piece)
  BY DEF WalkInv, PJ!IInv, PJ!TypeOK, PJ!Piece
<1>4. text.before \in Seq(PJ!Piece) /\ text.json \in PJ!Readers
  BY DEF WalkInv, PJ!PicksInv
<1>5. text.json.due \in Seq(PJ!Piece)
  BY <1>4 DEF PJ!Readers
<1> QED
  BY <1>2, <1>3, <1>4, <1>5, EmptySeq DEF Shown

\* Nothing has gone out at first.
LEMMA OutStarts == PInit => ResultInv /\ OutInv
<1> SUFFICES ASSUME PInit PROVE ResultInv /\ OutInv
  OBVIOUS
<1>1. /\ output \in {"SINK", "PLUCK"} /\ stage = "alloc" /\ result.status = "OK"
      /\ exit = "none" /\ status = "OK" /\ rest = <<>> /\ wrote = <<>> /\ out = <<>>
      /\ text.before = <<>>
  BY DEF PInit, RInit, Init, Result, TextStart
<1> QED
  BY <1>1 DEF ResultInv, OutInv

\* A stream that the scan has ended is one that the run has read.
LEMMA EndIsRead ==
  ASSUME KInv, FlowInv, answer = "END"
  PROVE  read = stream /\ stream \in Texts
<1>1. done /\ stream \in Texts /\ window.rest = <<>> /\ ~held
  BY DEF FlowInv
<1>2. stream_offset = Len(stream)
  BY <1>1 DEF KInv, RP!IInv, RP!AtEnd
<1>3. Reached = Len(stream) /\ stream \in Seq(StreamOctet) /\ Len(stream) \in Nat
  BY <1>1, <1>2, ReachedFits DEF Reached
<1>4. SubSeq(stream, 1, Len(stream)) = stream
  <2> PICK s, n, u : s = stream /\ n = Len(s) /\ u = SubSeq(s, 1, n)
    BY Zenon
  <2>1. s \in Seq(StreamOctet) /\ n \in 0 .. Len(s)
    BY <1>3
  <2>2. u \in Seq(StreamOctet) /\ Len(u) = n /\ \A i \in 1 .. n : u[i] = s[i]
    BY <2>1, FirstOctets
  <2>3. u = s
    BY <2>1, <2>2, SeqEqual
  <2> QED
    BY <2>3
<1> QED
  BY <1>1, <1>3, <1>4 DEF FlowInv

\* What a push makes of the run, with a path.
LEMMA PushedRun ==
  ASSUME WalkInv', ResultInv, NEW offset, Pushed(offset), output = "PLUCK", output' = output,
         stage = "loop", exit' = exit
  PROVE  /\ ResultInv'
         /\ stage' \in {"loop", "close"}
         /\ out' = IF rest' = <<>> THEN out \o wrote' ELSE out
<1>1. result.status = "OK" /\ exit = "none"
  BY DEF ResultInv
<1>2. status' \in Statuses /\ (rest' # <<>> => status' = "OK")
  BY DEF WalkInv, PJ!PicksInv, PJ!IInv, PJ!TypeOK, PJ!Statuses, Statuses
<1>3. CASE /\ status' = "OK"
           /\ rest' # <<>>
           /\ UNCHANGED <<stage, result, out, failed>>
  BY <1>1, <1>3 DEF ResultInv
<1>4. CASE /\ status' = "OK" => rest' = <<>>
           /\ out' = out \o wrote'
           /\ status' = "OK" /\ UNCHANGED <<stage, result, failed>>
  BY <1>1, <1>4 DEF ResultInv
<1>5. CASE /\ out' = out \o wrote'
           /\ status' = "WRITE_FAILED" /\ stage' = "close" /\ FailsWith("IO", "write")
  <2>1. result'.status = "IO"
    BY <1>5 DEF FailsWith, Result
  <2>2. rest' = <<>>
    BY <1>2, <1>5
  <2> QED
    BY <1>1, <1>5, <2>1, <2>2 DEF ResultInv
<1>6. CASE /\ out' = out \o wrote'
           /\ status' \in DOMAIN RunStatus
           /\ stage' = "close"
           /\ Failure(status', offset)
  <2>1. status' \in {"MALFORMED", "CONTAINER_REFUSED"}
    BY <1>6 DEF RunStatus
  <2>2. result'.status \in {"MALFORMED", "LINES_CONTAINER"}
    BY <1>6, <2>1 DEF Failure, Result, RunStatus
  <2>3. rest' = <<>>
    BY <1>2, <2>1
  <2> QED
    BY <1>1, <1>6, <2>1, <2>2, <2>3 DEF ResultInv
<1> QED
  BY <1>3, <1>4, <1>5, <1>6 DEF Pushed

\* Without a path nothing comes of a token.
LEMMA SunkRun ==
  ASSUME ResultInv, OutInv, PushToken, output = "SINK"
  PROVE  ResultInv' /\ OutInv'
<1>1. \/ \E c : SinkStructural(c)
      \/ \E bytes : SinkBytes(bytes)
  BY DEF PushToken, RunStructural, RunBytes
<1>2. UNCHANGED <<output, stage, result, out, rest, status>> /\ stage = "loop"
  BY <1>1, Zenon DEF SinkStructural, SinkBytes, Take, vars
<1>3. exit' = exit
  BY DEF PushToken
<1> QED
  BY <1>2, <1>3 DEF ResultInv, OutInv

\* With a path, what the token before this one put out is before what this one
\* does.
LEMMA PushedOut ==
  ASSUME BaseInv, BaseInv', ResultInv, OutInv, PushToken, output = "PLUCK"
  PROVE  ResultInv' /\ OutInv'
<1>1. /\ KInv /\ FlowInv /\ TextInv /\ WalkInv /\ TokenStands /\ WalkInv'
  BY TokensStand DEF BaseInv
<1>2. /\ stage = "loop" /\ rest = <<>> /\ output' = output /\ exit' = exit
  BY <1>1, PushTakes
<1>3. \E offset : Pushed(offset)
  BY DEF PushToken, RunStructural, SinkStructural, RunBytes, SinkBytes
<1>4. text'.before = text.before \o wrote
  BY <1>1, WalkStructural, WalkBytes
<1>5. /\ ResultInv'
      /\ stage' \in {"loop", "close"}
      /\ out' = IF rest' = <<>> THEN out \o wrote' ELSE out
  BY <1>1, <1>2, <1>3, PushedRun
<1>6. OpenText' = OpenText
  <2>1. UNCHANGED scalars_only
    BY <1>1, PushConfig
  <2> QED
    BY <1>2, <2>1 DEF OpenText
<1>7. out' = PutOut'
  <2> PICK X, a, b, w, y :
        /\ X = PJ!Piece /\ a = OpenText /\ b = text.before /\ w = wrote /\ y = wrote'
    OBVIOUS
  <2>1. a \in Seq(X) /\ b \in Seq(X) /\ w \in Seq(X)
    BY <1>1, OutTypes
  <2>2. out = (a \o b) \o w
    BY <1>2 DEF OutInv, PutOut, Shown
  <2>3. PutOut' = (a \o (b \o w)) \o (IF rest' = <<>> THEN y ELSE <<>>)
    BY <1>4, <1>6 DEF PutOut, Shown
  <2>4. (a \o b) \o w = a \o (b \o w) /\ a \o b \in Seq(X)
    BY ONLY <2>1, PiecesOneByOne
  <2>5. a \o (b \o w) \in Seq(X)
    <3>1. b \o w \in Seq(X)
      BY ONLY <2>1, ConcatProperties
    <3> QED
      BY ONLY <2>1, <3>1, ConcatProperties
  <2>6. (a \o (b \o w)) \o <<>> = a \o (b \o w)
    BY <2>5, PiecesOneByOne
  <2> QED
    BY <1>5, <2>2, <2>3, <2>4, <2>6, Zenon
<1> QED
  BY <1>2, <1>5, <1>7 DEF OutInv

\* So has a pass of it.
LEMMA PassedOut ==
  ASSUME BaseInv, BaseInv', ResultInv, OutInv, PassOn
  PROVE  ResultInv' /\ OutInv'
<1>1. WalkInv /\ WalkInv'
  BY DEF BaseInv
<1>2. /\ stage = "loop" /\ rest # <<>> /\ output' = output /\ exit' = exit /\ Pushed(0)
      /\ UNCHANGED <<text, scalars_only>>
  BY DEF PassOn, RunPass, ScalarPass, config
<1>3. output = "PLUCK"
  BY <1>2 DEF OutInv, ResultInv
<1>4. /\ ResultInv'
      /\ stage' \in {"loop", "close"}
      /\ out' = IF rest' = <<>> THEN out \o wrote' ELSE out
  BY <1>1, <1>2, <1>3, PushedRun
<1>5. OpenText' = OpenText
  BY <1>2 DEF OpenText
<1>6. out' = PutOut'
  <2> PICK X, a, b, y : X = PJ!Piece /\ a = OpenText /\ b = text.before /\ y = wrote'
    OBVIOUS
  <2>1. a \in Seq(X) /\ b \in Seq(X)
    BY <1>1, <1>3, OutTypes
  <2>2. out = (a \o b) \o <<>>
    BY <1>2, <1>3 DEF OutInv, PutOut, Shown
  <2>3. PutOut' = (a \o b) \o (IF rest' = <<>> THEN y ELSE <<>>)
    BY <1>2, <1>5 DEF PutOut, Shown
  <2>4. a \o b \in Seq(X)
    BY <2>1, PiecesOneByOne
  <2>5. (a \o b) \o <<>> = a \o b
    BY <2>4, PiecesOneByOne
  <2> QED
    BY <1>4, <2>2, <2>3, <2>5, Zenon
<1> QED
  BY <1>2, <1>3, <1>4, <1>6 DEF OutInv

\* The rest of the run puts out only its framing.
LEMMA RestOut ==
  ASSUME BaseInv, ResultInv, OutInv,
         Before \/ Pull \/ ScanStops \/ Close \/ MainReturns \/ UNCHANGED pvars
  PROVE  ResultInv' /\ OutInv'
<1>1. UNCHANGED <<vars, output, text, read>>
  BY DEF Before, RunAlloc, RunOpen, Pull, ScanStops, RunScanEnds, RunScanFails, Stops,
         Close, RunClose, MainReturns, pvars, runvars, run
<1>2. UNCHANGED <<rest, status, wrote, scalars_only, output, text>>
  BY <1>1 DEF vars, config
<1>3. UNCHANGED <<OpenText, CloseText, Shown, PutOut>>
  BY <1>2 DEF OpenText, CloseText, Shown, PutOut
<1>4. CASE Before
  <2>1. UNCHANGED <<exit, stream>>
    BY <1>4 DEF Before, reader
  <2>2. CASE RunAlloc
    <3>1. CASE stage' = "open" /\ UNCHANGED <<result, failed>>
      BY <1>2, <2>1, <2>2, <3>1 DEF RunAlloc, ResultInv, OutInv
    <3>2. CASE stage' = "done" /\ FailsWith("ALLOC", "calloc")
      <4>1. result'.status = "ALLOC"
        BY <3>2 DEF FailsWith, Result
      <4> QED
        BY <1>2, <2>1, <2>2, <3>2, <4>1 DEF RunAlloc, ResultInv, OutInv
    <3> QED
      BY <2>2, <3>1, <3>2 DEF RunAlloc
  <2>3. CASE RunOpen
    <3>1. CASE out' = OpenText /\ stage' = "loop" /\ UNCHANGED <<result, failed>>
      <4>1. output = "SINK" => OpenText = <<>>
        BY DEF OpenText
      <4>2. output = "PLUCK" => PutOut = OpenText
        <5> SUFFICES ASSUME output = "PLUCK" PROVE PutOut = OpenText
          OBVIOUS
        <5>1. text.before = <<>> /\ wrote = <<>>
          BY <2>3 DEF RunOpen, OutInv
        <5>2. PutOut = (OpenText \o <<>>) \o <<>>
          BY <5>1 DEF PutOut, Shown
        <5>3. OpenText \in Seq(PJ!Piece)
          BY OutTypes DEF BaseInv
        <5>4. OpenText \o <<>> = OpenText
          BY <5>3, PiecesOneByOne
        <5> QED
          BY <5>2, <5>4
      <4> QED
        BY <1>2, <1>3, <2>1, <2>3, <3>1, <4>1, <4>2 DEF RunOpen, ResultInv, OutInv
    <3>2. CASE stage' = "done" /\ FailsWith("IO", "write") /\ UNCHANGED out
      <4>1. result'.status = "IO"
        BY <3>2 DEF FailsWith, Result
      <4> QED
        BY <1>2, <2>1, <2>3, <3>2, <4>1 DEF RunOpen, ResultInv, OutInv
    <3> QED
      BY <2>3, <3>1, <3>2 DEF RunOpen
  <2> QED
    BY <1>4, <2>2, <2>3 DEF Before
<1>5. CASE Pull
  <2>1. stage = "loop" /\ UNCHANGED <<stage, result, out, exit>>
    BY <1>5 DEF Pull, runvars, run
  <2> QED
    BY <1>2, <1>3, <2>1 DEF ResultInv, OutInv
<1>6. CASE ScanStops
  <2>1. /\ stage = "loop" /\ rest = <<>> /\ stage' = "close" /\ UNCHANGED <<out, exit, stream>>
    BY <1>6 DEF ScanStops, RunScanEnds, RunScanFails, Stops, reader
  <2>2. CASE answer = "END" /\ RunScanEnds
    <3>1. read = stream /\ stream \in Texts
      BY <2>2, EndIsRead DEF BaseInv
    <3>2. result' = result
      BY <2>2 DEF RunScanEnds
    <3> QED
      BY <1>1, <1>2, <1>3, <2>1, <3>1, <3>2 DEF ResultInv, OutInv
  <2>3. CASE RunScanFails("read")
    <3>1. result'.status = "IO"
      BY <2>3 DEF RunScanFails, FailsWith, Result
    <3> QED
      BY <1>2, <1>3, <2>1, <3>1 DEF ResultInv, OutInv
  <2> QED
    BY <1>6, <2>2, <2>3 DEF ScanStops
<1>7. CASE Close
  <2>1. /\ stage = "close" /\ stage' = "done" /\ UNCHANGED <<result, exit, stream>>
        /\ out' \in {out, out \o CloseText}
    BY <1>7 DEF Close, RunClose, ResultKept, reader
  <2>2. output = "SINK" => out' = <<>>
    <3>1. output = "SINK" => CloseText = <<>> /\ <<>> \o <<>> = <<>>
      BY ConcatEmptySeq, EmptySeq DEF CloseText
    <3> QED
      BY <2>1, <3>1 DEF OutInv
  <2> QED
    BY <1>1, <1>2, <1>3, <2>1, <2>2, Zenon DEF ResultInv, OutInv
<1>8. CASE MainReturns
  <2>1. stage = "done" /\ exit' = ExitStatus[result.status]
        /\ UNCHANGED <<stage, result, out, stream>>
    BY <1>8 DEF MainReturns, runvars, run, reader
  <2> QED
    BY <1>1, <1>2, <1>3, <2>1 DEF ResultInv, OutInv
<1>9. CASE UNCHANGED pvars
  <2>1. UNCHANGED <<stage, result, out, exit, stream>>
    BY <1>9 DEF pvars, runvars, run, reader
  <2> QED
    BY <1>1, <1>2, <1>3, <2>1 DEF ResultInv, OutInv
<1> QED
  BY <1>4, <1>5, <1>6, <1>7, <1>8, <1>9

\* The whole program.
ProgramInv == BaseInv /\ ResultInv /\ OutInv

\* The program starts in its invariant.
LEMMA ProgramStarts == PInit => ProgramInv
BY BaseStarts, OutStarts DEF ProgramInv

\* Every step of the program keeps its invariant.
LEMMA ProgramNext == ProgramInv /\ [PNext]_pvars => ProgramInv'
<1> SUFFICES ASSUME ProgramInv, [PNext]_pvars PROVE ProgramInv'
  OBVIOUS
<1>1. BaseInv /\ ResultInv /\ OutInv /\ BaseInv'
  BY BaseNext DEF ProgramInv
<1>2. CASE PushToken
  <2>1. output \in {"SINK", "PLUCK"}
    BY <1>1 DEF ResultInv
  <2> QED
    BY <1>1, <1>2, <2>1, SunkRun, PushedOut DEF ProgramInv
<1>3. CASE PassOn
  BY <1>1, <1>3, PassedOut DEF ProgramInv
<1>4. CASE Before \/ Pull \/ ScanStops \/ Close \/ MainReturns \/ UNCHANGED pvars
  BY <1>1, <1>4, RestOut DEF ProgramInv
<1> QED
  BY <1>2, <1>3, <1>4 DEF PNext

\* The invariant holds throughout.
LEMMA ProgramHolds == PSpec => []ProgramInv
BY ProgramStarts, ProgramNext, PTL DEF PSpec

\* What is put out for the last token is what is due for it.
LEMMA ShownIsDue ==
  ASSUME ProgramInv, output = "PLUCK", rest = <<>>
  PROVE  /\ status = "OK" => wrote = text.json.due
         /\ status # "WRITE_FAILED" => PutOut = Picked
         /\ status = "WRITE_FAILED" => IsPrefix(PutOut, Picked)
<1>1. KInv /\ FlowInv /\ TextInv /\ WalkInv
  BY DEF ProgramInv, BaseInv
<1> PICK X, a, b, w, d : /\ X = PJ!Piece /\ a = OpenText /\ b = text.before
                         /\ w = wrote /\ d = text.json.due
  OBVIOUS
<1>2. a \in Seq(X) /\ b \in Seq(X) /\ w \in Seq(X) /\ d \in Seq(X)
  BY <1>1, OutTypes
<1>3. PutOut = (a \o b) \o w /\ Picked = (a \o b) \o d
  BY DEF PutOut, Shown, Picked
<1>4. status \in Statuses
  BY <1>1 DEF WalkInv, PJ!IInv, PJ!TypeOK, PJ!Statuses, Statuses
<1>5. status = "OK" => w = d
  BY <1>1, WalkBetween
<1>6. PJ!StoppedWhenDue
  BY <1>1 DEF WalkInv, PJ!PicksInv
<1>7. status \in {"MALFORMED", "CONTAINER_REFUSED"} => w = d
  BY <1>6 DEF PJ!StoppedWhenDue
<1>8. status = "WRITE_FAILED" => IsPrefix((a \o b) \o w, (a \o b) \o d)
  <2> SUFFICES ASSUME status = "WRITE_FAILED"
               PROVE  IsPrefix((a \o b) \o w, (a \o b) \o d)
    OBVIOUS
  <2>1. PJ!J!IsStrictPrefix(wrote, text.json.due)
    BY <1>6 DEF PJ!StoppedWhenDue
  <2>2. Len(w) <= Len(d) /\ SubSeq(w, 1, Len(w)) = SubSeq(d, 1, Len(w))
    BY <2>1 DEF PJ!J!IsStrictPrefix, PJ!J!IsPrefix
  <2>3. a \o b \in Seq(X)
    BY <1>2, ConcatProperties
  <2> QED
    BY <1>2, <2>2, <2>3, PrefixAfter, Zenon
<1> QED
  BY <1>3, <1>4, <1>5, <1>7, <1>8, Zenon DEF Statuses

\* Whatever texts come, however read(2) cuts them into blocks, whatever the path,
\* the sink and the framing: when jsp_run asks for the next token, and when it
\* stops for anything but failed I/O, what jsp_pluck put out is what the path picks
\* out of the tokens so far; when I/O failed it is a beginning of that.
THEOREM OutputIsThePicks == PSpec => []OutputIsPicked
<1>1. ProgramInv => OutputIsPicked
  <2> SUFFICES ASSUME ProgramInv PROVE OutputIsPicked
    OBVIOUS
  <2>1. ResultInv /\ OutInv
    BY DEF ProgramInv
  <2>2. CASE output = "SINK"
    <3>1. out = <<>> /\ Picked = <<>>
      BY <2>1, <2>2 DEF OutInv, Picked
    <3>2. IsPrefix(<<>>, <<>>)
      BY EmptySeq DEF IsPrefix
    <3> QED
      BY <3>1, <3>2 DEF OutputIsPicked
  <2>3. CASE output = "PLUCK"
    <3>1. ASSUME stage \in {"loop", "close"}, rest = <<>>
          PROVE  /\ out = PutOut
                 /\ result.status # "IO" => out = Picked
                 /\ IsPrefix(out, Picked)
      <4>1. out = PutOut
        BY <2>1, <2>3, <3>1 DEF OutInv
      <4>2. result.status # "IO" => status # "WRITE_FAILED"
        BY <2>1 DEF ResultInv
      <4>3. /\ status # "WRITE_FAILED" => PutOut = Picked
            /\ status = "WRITE_FAILED" => IsPrefix(PutOut, Picked)
        BY <2>3, <3>1, ShownIsDue
      <4>4. PutOut = Picked => IsPrefix(PutOut, Picked)
        BY DEF IsPrefix
      <4> QED
        BY <4>1, <4>2, <4>3, <4>4
    <3>2. stage = "close" => rest = <<>>
      BY <2>1 DEF ResultInv
    <3>3. stage = "loop" => result.status = "OK"
      BY <2>1 DEF ResultInv
    <3> QED
      BY <3>1, <3>2, <3>3 DEF OutputIsPicked
  <2> QED
    BY <2>1, <2>2, <2>3 DEF ResultInv
<1> QED
  BY <1>1, ProgramHolds, PTL

\* main returns 0 only after jsp_scan read the whole of a text and everything
\* that the path picks out of it was put out, the closing bracket perhaps aside.
THEOREM ZeroIsWhole == PSpec => []ZeroMeansWhole
<1>1. ProgramInv => ZeroMeansWhole
  <2> SUFFICES ASSUME ProgramInv, exit = "0"
               PROVE  /\ read = stream
                      /\ stream \in Texts
                      /\ out \in {Picked, Picked \o CloseText}
    BY DEF ZeroMeansWhole
  <2>1. ResultInv /\ OutInv
    BY DEF ProgramInv
  <2>2. stage = "done" /\ result.status = "OK"
    BY <2>1 DEF ResultInv, ExitStatus
  <2>3. read = stream /\ stream \in Texts /\ rest = <<>> /\ status = "OK"
    BY <2>1, <2>2 DEF ResultInv
  <2>4. out \in {Picked, Picked \o CloseText}
    <3>1. CASE output = "SINK"
      BY <2>1, <3>1 DEF OutInv, Picked
    <3>2. CASE output = "PLUCK"
      <4>1. PutOut = Picked
        BY <2>3, <3>2, ShownIsDue
      <4> QED
        BY <2>1, <2>2, <3>2, <4>1 DEF OutInv
    <3> QED
      BY <2>1, <3>1, <3>2 DEF ResultInv
  <2> QED
    BY <2>3, <2>4
<1> QED
  BY <1>1, ProgramHolds, PTL

-----------------------------------------------------------------------------
(* Where a run stops *)

Blamed == {"MALFORMED", "LINES_CONTAINER"}

\* The last push stopped the run, with its only octet, where all was well so far.
StopInv ==
  result.status \in Blamed =>
    /\ status \in DOMAIN RunStatus /\ RunStatus[status] = result.status
    /\ output = "PLUCK"
    /\ result.offset = token.offset
    /\ Len(read) = token.offset + 1
    /\ TextFirst(stream, token.offset, path, scalars_only).json.verdict = "OK"

\* A push that stops the run leaves it so.
LEMMA PushStops ==
  ASSUME ProgramInv, PushToken, result'.status \in Blamed
  PROVE  StopInv'
<1>1. KInv /\ TokenStands /\ FlowInv /\ TextInv /\ WalkInv /\ ResultInv
  BY TokensStand DEF ProgramInv, BaseInv
<1>2. /\ held /\ UNCHANGED <<reader, token>> /\ stage = "loop" /\ rest = <<>>
      /\ read' = read \o TokenOctets /\ output' = output
  BY <1>1, PushTakes
<1>3. result.status = "OK" /\ status = "OK"
  BY <1>1, <1>2 DEF ResultInv
<1>4. ASSUME NEW offset, Pushed(offset)
      PROVE  status' \in DOMAIN RunStatus /\ Failure(status', offset)
  <2>1. ~ FailsWith("IO", "write")
    BY DEF FailsWith, Result, Blamed
  <2>2. result' # result
    BY <1>3 DEF Blamed
  <2> QED
    BY <1>4, <2>1, <2>2 DEF Pushed
<1>5. token.kind = "STRUCTURAL" /\ output = "PLUCK" /\ Pushed(Len(read))
  <2>1. result' # result
    BY <1>3 DEF Blamed
  <2>2. CASE token.kind = "STRUCTURAL"
    BY <2>1, <2>2 DEF PushToken, SinkStructural, RunStructural
  <2>3. CASE token.kind # "STRUCTURAL"
    <3>1. RunBytes(TokenOctets)
      BY <2>1, <2>3 DEF PushToken, SinkBytes
    <3>2. status' \in DOMAIN RunStatus
      BY <1>4, <3>1 DEF RunBytes
    <3>3. status' \in {"OK", "WRITE_FAILED"}
      BY <3>1 DEF RunBytes, PushBytesToken, PushBytesOfValue, PushBytesSkipped,
                  PushBytesOfKey, PushBytesBetween, Emit, EmitNothing
    <3> QED
      BY <3>2, <3>3 DEF RunStatus
  <2> QED
    BY <2>2, <2>3
<1>6. Len(read) = token.offset /\ Len(read') = token.offset + 1
  <2> PICK u, r : u = TokenOctets /\ r = read
    OBVIOUS
  <2>1. /\ u \in Seq(StreamOctet) /\ Len(u) = 1
        /\ r \in Seq(StreamOctet) /\ Len(r) = token.offset
    <3>1. \E o, n, v :
            /\ o = token.offset /\ TokenOctets = v
            /\ v \in Seq(StreamOctet) /\ Len(v) = n
            /\ Len(read) = o /\ read \in Seq(StreamOctet)
            /\ token.kind = "STRUCTURAL" => n = 1
      BY <1>1, <1>2, TokenIs
    <3> QED
      BY <1>5, <3>1
  <2>2. Len(r \o u) = Len(r) + Len(u)
    BY <2>1, ConcatProperties
  <2> QED
    BY <1>2, <2>1, <2>2
<1>7. TextFirst(stream, token.offset, path, scalars_only).json.verdict = "OK"
  <2>1. text.json.verdict = "OK"
    BY <1>1, <1>2, <1>3, <1>5, WalkBetween
  <2> QED
    BY <1>1, <1>6, <2>1 DEF TextInv, TextAlike, Alike
<1>8. /\ result'.offset = token.offset
      /\ status' \in DOMAIN RunStatus /\ RunStatus[status'] = result'.status
  BY <1>4, <1>5, <1>6 DEF Failure, Result
<1>9. UNCHANGED <<stream, path, scalars_only>>
  BY <1>2, PushConfig DEF reader
<1> QED
  BY <1>2, <1>5, <1>6, <1>7, <1>8, <1>9 DEF StopInv, TextFirst

\* Nothing after it moves what it found, and nothing else is to blame.
LEMMA StopNext == ProgramInv /\ StopInv /\ [PNext]_pvars => StopInv'
<1> SUFFICES ASSUME ProgramInv, StopInv, [PNext]_pvars, result'.status \in Blamed
             PROVE  StopInv'
  BY DEF StopInv
<1>1. stage \in {"alloc", "open", "loop"} => result.status = "OK"
  BY DEF ProgramInv, ResultInv
<1>2. CASE PushToken
  BY <1>2, PushStops
<1>3. ~ PassOn
  <2> SUFFICES ASSUME PassOn PROVE FALSE
    OBVIOUS
  <2>1. stage = "loop" /\ ScalarPass /\ Pushed(0)
    BY DEF PassOn, RunPass
  <2>2. status' \in {"OK", "WRITE_FAILED"}
    BY <2>1 DEF ScalarPass, Emit, EmitNothing
  <2>3. status' \notin DOMAIN RunStatus
    BY <2>2 DEF RunStatus
  <2> QED
    BY <1>1, <2>1, <2>3 DEF Pushed, FailsWith, Result, Blamed
<1>4. CASE Before \/ Pull \/ ScanStops
  BY <1>1, <1>4 DEF Before, RunAlloc, RunOpen, Pull, ScanStops, RunScanEnds,
                    RunScanFails, Stops, FailsWith, Result, Blamed, runvars, run
<1>5. CASE Close \/ MainReturns \/ UNCHANGED pvars
  <2>1. UNCHANGED <<result, status, output, token, read, stream, path, scalars_only>>
    BY <1>5 DEF Close, RunClose, ResultKept, MainReturns, pvars, runvars, run, vars,
                config, reader, scan
  <2> QED
    BY <2>1 DEF StopInv, TextFirst
<1> QED
  BY <1>2, <1>3, <1>4, <1>5 DEF PNext

\* Whatever texts come and however read(2) cuts them into blocks: a run that
\* jsp_pluck stopped is MALFORMED or LINES_CONTAINER exactly as the reader of Json
\* stops, and the token's offset is that of the octet with which it does.
THEOREM StopLocated == PSpec => []StopIsLocated
<1>1. PInit => StopInv
  BY DEF PInit, RInit, Result, StopInv, Blamed
<1>2. PSpec => [](ProgramInv /\ StopInv)
  BY <1>1, ProgramHolds, StopNext, PTL DEF PSpec
<1>3. ProgramInv /\ StopInv => StopIsLocated
  <2> SUFFICES ASSUME ProgramInv, StopInv, result.status \in Blamed
               PROVE  StopIsLocated
    BY DEF StopIsLocated, Blamed
  <2>1. /\ status \in DOMAIN RunStatus /\ RunStatus[status] = result.status
        /\ output = "PLUCK" /\ result.offset = token.offset
        /\ Len(read) = token.offset + 1
        /\ TextFirst(stream, token.offset, path, scalars_only).json.verdict = "OK"
    BY DEF StopInv
  <2>2. TextInv /\ WalkInv
    BY DEF ProgramInv, BaseInv
  <2>3. TextFirst(stream, token.offset + 1, path, scalars_only).json.verdict =
          text.json.verdict
    BY <2>1, <2>2 DEF TextInv, TextAlike, Alike
  <2>4. text.json.verdict = status
    <3>1. status \in {"MALFORMED", "CONTAINER_REFUSED"}
      BY <2>1 DEF RunStatus
    <3>2. PJ!StoppedWhenDue
      BY <2>1, <2>2 DEF WalkInv, PJ!PicksInv
    <3> QED
      BY <3>1, <3>2 DEF PJ!StoppedWhenDue
  <2> QED
    BY <2>1, <2>3, <2>4 DEF StopIsLocated
<1> QED
  BY <1>2, <1>3, PTL
=============================================================================
