------------------------------ MODULE RunProofs -------------------------------
(***************************************************************************)
(* Proofs about module Run, for every stream and every call that may fail: *)
(* they rest on the walk's invariant, IInv of PluckProofs.                 *)
(***************************************************************************)
EXTENDS Run, PluckProofs

-----------------------------------------------------------------------------
(* jsp_run *)

\* Nothing failed before the run stops; afterwards the first failure is the one
\* that the result is of, if the result is of a failure at all.
RInv ==
  /\ failed \in Seq({"calloc", "write", "read", "trace"})
  /\ stage \in {"alloc", "open", "loop"} =>
       failed = <<>> /\ result = Result("OK", 0)
  /\ result.status \in {"ALLOC", "IO"} => failed # <<>>
  /\ ErrnoIsOfFirstFailure

\* With nothing failed before, a failing call is the first.
LEMMA FirstFailure ==
  ASSUME failed = <<>>, NEW how \in {"ALLOC", "IO"},
         NEW call \in {"calloc", "write", "read", "trace"},
         FailsWith(how, call)
  PROVE  /\ failed' \in Seq({"calloc", "write", "read", "trace"})
         /\ failed' # <<>>
         /\ ErrnoIsOfFirstFailure'
  <1>1. failed' = <<call>>
    BY DEF FailsWith
  <1>2. Last(failed') = call
    BY <1>1 DEF Last
  <1>3. result'.status = how /\ result'.sys_errno = call
    BY <1>2 DEF FailsWith, Result
  <1>. QED  BY <1>1, <1>3 DEF ErrnoIsOfFirstFailure

\* A result that no call failed for.
LEMMA NoFailure ==
  ASSUME RInv, NEW how, NEW offset, how \notin {"ALLOC", "IO"},
         result' = Result(how, offset), UNCHANGED failed,
         stage' \notin {"alloc", "open", "loop"}
  PROVE  RInv'
  BY DEF RInv, Result, ErrnoIsOfFirstFailure

\* What a push returns is the first failure or none.
LEMMA PushedKeeps ==
  ASSUME RInv, NEW offset, stage = "loop", Pushed(offset)
  PROVE  RInv'
  <1>1. CASE UNCHANGED <<stage, result, failed>>
    BY <1>1 DEF RInv, ErrnoIsOfFirstFailure
  <1>2. CASE stage' = "close" /\ FailsWith("IO", "write")
    BY <1>2, FirstFailure DEF RInv
  <1>3. CASE /\ status' \in DOMAIN RunStatus
             /\ stage' = "close"
             /\ Failure(status', offset)
    <2>1. RunStatus[status'] \notin {"ALLOC", "IO"}
      BY <1>3 DEF RunStatus
    <2>. QED  BY <1>3, <2>1, NoFailure DEF Failure
  <1>4. \/ UNCHANGED <<stage, result, failed>>
        \/ stage' = "close" /\ FailsWith("IO", "write")
        \/ /\ status' \in DOMAIN RunStatus
           /\ stage' = "close"
           /\ Failure(status', offset)
    BY DEF Pushed
  <1>. QED  BY <1>1, <1>2, <1>3, <1>4

\* Nothing fails before the run starts.
LEMMA RInitInv == RInit => RInv
  BY DEF RInit, RInv, Result, ErrnoIsOfFirstFailure

\* After its first failure a run makes no call whose failure would show.
LEMMA RNextInv == RInv /\ [RNext]_runvars => RInv'
  <1>. SUFFICES ASSUME RInv, [RNext]_runvars  PROVE RInv'
    OBVIOUS
  <1>1. CASE RunAlloc
    BY <1>1, FirstFailure DEF RunAlloc, RInv, ErrnoIsOfFirstFailure
  <1>2. CASE RunOpen
    BY <1>2, FirstFailure DEF RunOpen, RInv, ErrnoIsOfFirstFailure
  <1>3. ASSUME NEW c \in Structural, SinkStructural(c)
        PROVE  RInv'
    BY <1>3 DEF SinkStructural, RInv, ErrnoIsOfFirstFailure
  <1>4. ASSUME NEW bytes \in BytesTokens, SinkBytes(bytes)
        PROVE  RInv'
    BY <1>4 DEF SinkBytes, RInv, ErrnoIsOfFirstFailure
  <1>5. ASSUME NEW c \in Structural, RunStructural(c)
        PROVE  RInv'
    BY <1>5, PushedKeeps DEF RunStructural, Take
  <1>6. ASSUME NEW bytes \in BytesTokens, RunBytes(bytes)
        PROVE  RInv'
    BY <1>6, PushedKeeps DEF RunBytes, Take
  <1>7. CASE RunPass
    BY <1>7, PushedKeeps DEF RunPass
  <1>8. CASE RunScanEnds
    BY <1>8 DEF RunScanEnds, Stops, RInv, ErrnoIsOfFirstFailure
  <1>9. CASE RunScanFails("read") \/ RunScanFails("trace")
    BY <1>9, FirstFailure DEF RunScanFails, Stops, RInv
  <1>10. CASE RunClose
    <2>1. result' = result /\ stage = "close" /\ stage' = "done"
      BY <1>10 DEF RunClose, ResultKept
    <2>2. failed' = failed \/ failed' = Append(failed, "write")
      BY <1>10 DEF RunClose
    <2>3. failed # <<>> => failed'[1] = failed[1] /\ failed' # <<>>
      BY <2>2 DEF RInv
    <2>. QED  BY <2>1, <2>2, <2>3 DEF RInv, ErrnoIsOfFirstFailure
  <1>11. CASE UNCHANGED runvars
    BY <1>11 DEF runvars, run, RInv, ErrnoIsOfFirstFailure
  <1>. QED
    BY <1>1, <1>2, <1>3, <1>4, <1>5, <1>6, <1>7, <1>8, <1>9, <1>10, <1>11 DEF RNext

\* The errno that a run reports is of the call that stopped it: the closing
\* framing, written or not, never changes it.
THEOREM ErrnoIsKept == RSpec => []ErrnoIsOfFirstFailure
  <1>1. RInv => ErrnoIsOfFirstFailure
    BY DEF RInv
  <1>. QED  BY <1>1, RInitInv, RNextInv, PTL DEF RSpec

-----------------------------------------------------------------------------
(* Brackets read by a plain stack *)

\* What a reader of the brackets may be.
BracketReaders ==
  [open : Seq(Opening), in_string : BOOLEAN, offset : Nat, fault : SUBSET Nat,
   bound : Nat]

\* A reader that has found no fault.
Reading(open, quoted, offset, bound) ==
  [open |-> open, in_string |-> quoted, offset |-> offset, fault |-> {},
   bound |-> bound]

\* A reader of brackets who has found no fault.
LEMMA ReadingType ==
  ASSUME NEW open \in Seq(Opening), NEW quoted \in BOOLEAN, NEW offset \in Nat,
         NEW bound \in Nat
  PROVE  Reading(open, quoted, offset, bound) \in BracketReaders
BY DEF Reading, BracketReaders

\* A reader goes past any octet, and stops at its first fault.
LEMMA PastOctetType ==
  ASSUME NEW b \in BracketReaders, NEW o
  PROVE  PastOctet(b, o) \in BracketReaders
<1> DEFINE next == [b EXCEPT !.offset = b.offset + 1]
<1>1. /\ b.open \in Seq(Opening) /\ b.in_string \in BOOLEAN /\ b.offset \in Nat
      /\ b.fault \in SUBSET Nat
  BY DEF BracketReaders
<1>2. next \in BracketReaders /\ next.open = b.open /\ next.in_string = b.in_string
  BY <1>1 DEF BracketReaders
<1> HIDE DEF next
<1>3. [next EXCEPT !.in_string = ~next.in_string] \in BracketReaders
  BY <1>1, <1>2 DEF BracketReaders
<1>4. [b EXCEPT !.fault = {b.offset}] \in BracketReaders
  BY <1>1 DEF BracketReaders
<1>5. o \in Opening => [next EXCEPT !.open = Append(next.open, o)] \in BracketReaders
  <2>1. o \in Opening => Append(b.open, o) \in Seq(Opening)
    BY <1>1, AppendProperties
  <2> QED
    BY <1>2, <2>1 DEF BracketReaders
<1>6. b.open # <<>> => [next EXCEPT !.open = Front(next.open)] \in BracketReaders
  <2>1. b.open # <<>> => Len(b.open) - 1 \in 0 .. Len(b.open)
    BY <1>1, LenProperties, EmptySeq
  <2>2. b.open # <<>> => Front(b.open) \in Seq(Opening)
    BY <1>1, <2>1, FirstOctets DEF Front
  <2> QED
    BY <1>2, <2>2 DEF BracketReaders
<1> QED
  BY <1>2, <1>3, <1>4, <1>5, <1>6 DEF PastOctet, next

\* The reader that starts a stream.
Fresh(bound) == Reading(<<>>, FALSE, 0, bound)

\* One who has read nothing.
LEMMA FreshType == \A bound \in Nat : Fresh(bound) \in BracketReaders
BY ReadingType, EmptySeq DEF Fresh

\* Where the brackets among the first n octets leave a reader.
NestedFirst(s, n, bound) == Nested(SubSeq(s, 1, n), bound)

\* Whatever starts fresh and goes past one octet after the other is where the
\* fold over the octets stands.
LEMMA NestedFollows ==
  ASSUME NEW X, NEW s \in Seq(X), NEW n \in 0 .. Len(s), NEW bound \in Nat,
         NEW p, p[0] = Fresh(bound), \A k \in 1 .. n : p[k] = PastOctet(p[k - 1], s[k])
  PROVE  NestedFirst(s, n, bound) = p[n]
<1> DEFINE u == SubSeq(s, 1, n)
           Folds(g) == [S \in SUBSET DOMAIN u |->
                          IF S = {} THEN Fresh(bound)
                          ELSE PastOctet(g[S \ {Max(S)}], u[Max(S)])]
           g == CHOOSE g : g = Folds(g)
           op == [k \in 1 .. n |-> [x \in BracketReaders |-> PastOctet(x, s[k])]]
<1>1. n \in Nat /\ DOMAIN u = 1 .. n /\ \A k \in 1 .. n : u[k] = s[k]
  BY FirstOctets, LenProperties
<1>2. NestedFirst(s, n, bound) = g[DOMAIN u]
  BY DEF NestedFirst, Nested, Fresh, Reading, FoldLeft, MapThenFoldSet, Max
<1> HIDE DEF u
<1>3. op \in Steps(n, BracketReaders)
  BY PastOctetType DEF Steps
<1>4. \E h : h = Folds(h)
  <2>1. PICK h : FollowsSets(h, n, BracketReaders, Fresh(bound), op)
    <3> HIDE DEF op
    <3> QED
      BY <1>1, <1>3, FreshType, FoldExists
  <2>2. ASSUME NEW S \in SUBSET (1 .. n), S # {}
        PROVE  h[S] = PastOctet(h[S \ {Max(S)}], u[Max(S)])
    <3>1. Max(S) \in 1 .. n
      <4>1. n \in Nat
        BY <1>1
      <4> HIDE DEF op, Folds
      <4> QED
        BY <2>2, <4>1, MaxIsIn
    <3>2. h[S] = op[Max(S)][h[S \ {Max(S)}]] /\ h[S \ {Max(S)}] \in BracketReaders
      <4>1. S \ {Max(S)} \in SUBSET (1 .. n)
        OBVIOUS
      <4> HIDE DEF op, Folds
      <4> QED
        BY <2>1, <2>2, <4>1 DEF FollowsSets
    <3>3. op[Max(S)][h[S \ {Max(S)}]] = PastOctet(h[S \ {Max(S)}], s[Max(S)])
      BY <3>1, <3>2
    <3> QED
      BY <1>1, <3>1, <3>2, <3>3
  <2>3. h[{}] = Fresh(bound) /\ h = [S \in SUBSET (1 .. n) |-> h[S]]
    <3>1. {} \in SUBSET (1 .. n)
      OBVIOUS
    <3> HIDE DEF op
    <3> QED
      BY <2>1, <3>1 DEF FollowsSets
  <2>4. h = Folds(h)
    <3> HIDE DEF op
    <3> QED
      BY <1>1, <2>2, <2>3
  <2> QED
    BY <2>4
<1>5. g = Folds(g)
  BY <1>4
<1> HIDE DEF g
<1>6. \A k \in 0 .. n : (1 .. k) \in SUBSET (1 .. n)
  BY <1>1
<1>7. g[1 .. 0] = Fresh(bound)
  <2>1. 1 .. 0 = {} /\ 0 \in 0 .. n
    BY <1>1
  <2> QED
    BY <1>1, <1>5, <1>6, <2>1
<1>8. ASSUME NEW k \in 1 .. n PROVE g[1 .. k] = PastOctet(g[1 .. k - 1], s[k])
  <2>1. k \in Nat \ {0} /\ k \in 0 .. n
    BY <1>1
  <2>2. Max(1 .. k) = k /\ (1 .. k) \ {k} = 1 .. k - 1 /\ 1 .. k # {}
    BY <2>1, MaxUpTo
  <2>3. g[1 .. k] = IF 1 .. k = {} THEN Fresh(bound)
                    ELSE PastOctet(g[(1 .. k) \ {Max(1 .. k)}], u[Max(1 .. k)])
    BY <1>1, <1>5, <1>6, <2>1
  <2> QED
    BY <1>1, <2>2, <2>3
<1> DEFINE S == {k \in 0 .. n : p[k] = g[1 .. k]}
<1>9. \A k \in 0 .. n : k \in S
  <2>1. 0 \in S
    BY <1>1, <1>7
  <2>2. ASSUME NEW k \in 0 .. n - 1, k \in S PROVE k + 1 \in S
    <3>1. k + 1 \in 1 .. n /\ k + 1 \in 0 .. n /\ (k + 1) - 1 = k
      BY <1>1
    <3>2. p[k] = g[1 .. k]
      BY <2>2
    <3>3. /\ p[k + 1] = PastOctet(p[k], s[k + 1])
          /\ g[1 .. k + 1] = PastOctet(g[1 .. k], s[k + 1])
      BY <1>8, <3>1
    <3> QED
      BY <3>1, <3>2, <3>3
  <2> HIDE DEF S
  <2> QED
    BY <1>1, <2>1, <2>2, UpTo
<1> QED
  BY <1>1, <1>2, <1>9

\* One octet after the other.
LEMMA NestedNext ==
  ASSUME NEW X, NEW s \in Seq(X), NEW bound \in Nat
  PROVE  /\ NestedFirst(s, 0, bound) = Fresh(bound)
         /\ \A n \in 0 .. Len(s) : NestedFirst(s, n, bound) \in BracketReaders
         /\ \A n \in 1 .. Len(s) :
              NestedFirst(s, n, bound) = PastOctet(NestedFirst(s, n - 1, bound), s[n])
<1> DEFINE N == Len(s)
           op == [k \in 1 .. N |-> [x \in BracketReaders |-> PastOctet(x, s[k])]]
<1>1. N \in Nat
  BY LenProperties
<1> HIDE DEF N
<1>2. PICK p : Follows(p, N, BracketReaders, Fresh(bound), op)
  <2>1. op \in Steps(N, BracketReaders)
    BY <1>1, PastOctetType DEF Steps
  <2> HIDE DEF op
  <2> QED
    BY <1>1, <2>1, FreshType, RecursionExists
<1>3. p \in [0 .. N -> BracketReaders] /\ p[0] = Fresh(bound)
  BY <1>2 DEF Follows
<1>4. ASSUME NEW k \in 1 .. N PROVE p[k] = PastOctet(p[k - 1], s[k])
  <2>1. p[k] = op[k][p[k - 1]]
    <3> HIDE DEF op
    <3> QED
      BY <1>2 DEF Follows
  <2>2. p[k - 1] \in BracketReaders
    BY <1>1, <1>3
  <2> QED
    BY <2>1, <2>2
<1>5. ASSUME NEW n \in 0 .. N PROVE NestedFirst(s, n, bound) = p[n]
  <2>1. \A k \in 1 .. n : p[k] = PastOctet(p[k - 1], s[k])
    BY <1>1, <1>4
  <2> QED
    BY <1>3, <2>1, NestedFollows DEF N
<1>6. NestedFirst(s, 0, bound) = Fresh(bound)
  BY <1>1, <1>3, <1>5
<1>7. ASSUME NEW n \in 1 .. N
      PROVE  NestedFirst(s, n, bound) = PastOctet(NestedFirst(s, n - 1, bound), s[n])
  <2>1. n \in 0 .. N /\ n - 1 \in 0 .. N
    BY <1>1
  <2> QED
    BY <1>4, <1>5, <2>1
<1>8. ASSUME NEW n \in 0 .. N PROVE NestedFirst(s, n, bound) \in BracketReaders
  BY <1>3, <1>5
<1> QED
  BY <1>6, <1>7, <1>8 DEF N

\* The last octet of a longer sequence.
LEMMA NestedAppend ==
  ASSUME NEW X, NEW s \in Seq(X), NEW o \in X, NEW bound \in Nat
  PROVE  Nested(s \o <<o>>, bound) = PastOctet(Nested(s, bound), o)
<1> DEFINE t == s \o <<o>>
<1>1. t \in Seq(X) /\ Len(t) = Len(s) + 1 /\ t[Len(s) + 1] = o
  OBVIOUS
<1>2. SubSeq(t, 1, Len(s)) = s /\ SubSeq(t, 1, Len(s) + 1) = t
  OBVIOUS
<1>3. Len(s) \in Nat
  BY LenProperties
<1> HIDE DEF t
<1>4. NestedFirst(t, Len(s) + 1, bound) = PastOctet(NestedFirst(t, Len(s), bound), o)
  <2> DEFINE n == Len(s) + 1
  <2>1. n \in 1 .. Len(t) /\ n - 1 = Len(s) /\ t[n] = o
    BY <1>1, <1>3
  <2> HIDE DEF n
  <2>2. NestedFirst(t, n, bound) = PastOctet(NestedFirst(t, n - 1, bound), t[n])
    BY <1>1, <2>1, NestedNext
  <2> QED
    BY <2>1, <2>2 DEF n
<1> QED
  BY <1>2, <1>4 DEF NestedFirst, t

\* Octets of tokens change nothing but where the reader stands.
LEMMA OctetsPassed ==
  ASSUME NEW X, NEW s \in Seq(X), NEW bytes \in Seq(Octet), Octet \subseteq X,
         NEW open \in Seq(Opening), NEW quoted \in BOOLEAN, NEW bound \in Nat,
         Nested(s, bound) = Reading(open, quoted, Len(s), bound)
  PROVE  Nested(s \o bytes, bound) =
           Reading(open, quoted, Len(s) + Len(bytes), bound)
<1> DEFINE t == s \o bytes
           m == Len(s)
           n == Len(bytes)
           S == {j \in 0 .. n : NestedFirst(t, m + j, bound) =
                                  Reading(open, quoted, m + j, bound)}
<1>1. m \in Nat /\ n \in Nat /\ bytes \in Seq(X)
  BY LenProperties, SeqMonotonic
<1>2. /\ t \in Seq(X) /\ Len(t) = m + n
      /\ \A j \in 1 .. n : t[m + j] = bytes[j]
      /\ SubSeq(t, 1, m) = s /\ SubSeq(t, 1, m + n) = t
  BY <1>1
<1>3. \A j \in 1 .. n : bytes[j] \in Octet
  BY ElementOfSeq
<1> HIDE DEF t, n
<1>4. 0 \in S
  <2>1. m + 0 = m /\ 0 \in 0 .. n
    BY <1>1
  <2> QED
    BY <1>2, <2>1 DEF NestedFirst
<1>5. ASSUME NEW j \in 0 .. n - 1, j \in S PROVE j + 1 \in S
  <2> DEFINE q == m + (j + 1)
  <2>1. q \in 1 .. Len(t) /\ q - 1 = m + j /\ j + 1 \in 1 .. n /\ q - 1 \in Nat
    BY <1>1, <1>2
  <2>2. t[q] \in Octet
    BY <1>2, <1>3, <2>1
  <2> HIDE DEF q
  <2>3. NestedFirst(t, q, bound) = PastOctet(NestedFirst(t, q - 1, bound), t[q])
    BY <1>2, <2>1, NestedNext
  <2>4. NestedFirst(t, q - 1, bound) = Reading(open, quoted, q - 1, bound)
    BY <1>5, <2>1
  <2>5. PastOctet(Reading(open, quoted, q - 1, bound), t[q]) =
          Reading(open, quoted, q, bound)
    <3>1. t[q] # Quote /\ t[q] \notin Opening \cup Closing
      BY <2>2, SymbolsAssumption DEF Structural
    <3>2. (q - 1) + 1 = q
      BY <2>1
    <3> QED
      BY <3>1, <3>2 DEF PastOctet, Reading
  <2>6. NestedFirst(t, q, bound) = Reading(open, quoted, q, bound)
    BY <2>3, <2>4, <2>5
  <2> QED
    BY <2>1, <2>6 DEF q
<1>6. n \in S
  <2> HIDE DEF S
  <2>1. \A j \in 0 .. n : j \in S
    BY <1>1, <1>4, <1>5, UpTo
  <2> QED
    BY <1>1, <2>1
<1> QED
  BY <1>2, <1>6 DEF NestedFirst, t, n

-----------------------------------------------------------------------------
(* The word of bits is that stack *)

\* The open containers, as the brackets that opened them.
OpenBrackets(s) ==
  [i \in 1 .. s.depth |-> IF At(s, i - 1) THEN "lbrace" ELSE "lbracket"]

\* The open brackets that a word and a depth stand for.
LEMMA OpenBracketsType ==
  ASSUME NEW s \in BitStack
  PROVE  /\ OpenBrackets(s) \in Seq(Opening) /\ Len(OpenBrackets(s)) = s.depth
         /\ s.depth \in Nat
<1>1. s.depth \in Nat
  BY DepthAssumption DEF BitStack
<1> QED
  BY <1>1 DEF OpenBrackets, Opening

\* A bit pushed is the bracket appended, whatever an earlier pop left there.
LEMMA PushedBracket ==
  ASSUME NEW s \in BitStack, NEW c \in Opening
  PROVE  OpenBrackets(Push(s, c = "lbrace")) = Append(OpenBrackets(s), c)
<1>1. s.depth \in Nat /\ OpenBrackets(s) \in Seq(Opening)
      /\ Len(OpenBrackets(s)) = s.depth
  BY OpenBracketsType
<1> DEFINE z == Push(s, c = "lbrace")
<1>2. z.depth = s.depth + 1
  BY DEF Push
<1>3. \A i \in 1 .. s.depth : At(z, i - 1) <=> At(s, i - 1)
  BY <1>1 DEF Push, At
<1>4. At(z, s.depth) <=> c = "lbrace"
  BY DEF Push, At
<1> HIDE DEF z
<1>5. Append(OpenBrackets(s), c) \in Seq(Opening)
      /\ Len(Append(OpenBrackets(s), c)) = s.depth + 1
      /\ \A i \in 1 .. s.depth : Append(OpenBrackets(s), c)[i] = OpenBrackets(s)[i]
      /\ Append(OpenBrackets(s), c)[s.depth + 1] = c
  BY <1>1, AppendProperties
<1>6. OpenBrackets(z) \in Seq(Opening) /\ Len(OpenBrackets(z)) = s.depth + 1
  BY <1>1, <1>2 DEF OpenBrackets, Opening
<1>7. ASSUME NEW i \in 1 .. s.depth + 1
      PROVE  OpenBrackets(z)[i] = Append(OpenBrackets(s), c)[i]
  <2>1. CASE i \in 1 .. s.depth
    BY <1>1, <1>2, <1>3, <1>5, <2>1 DEF OpenBrackets
  <2>2. CASE i = s.depth + 1
    <3>1. i - 1 = s.depth
      BY <1>1, <2>2
    <3>2. OpenBrackets(z)[i] = IF At(z, i - 1) THEN "lbrace" ELSE "lbracket"
      BY <1>2 DEF OpenBrackets
    <3> QED
      BY <1>4, <1>5, <2>2, <3>1, <3>2 DEF Opening
  <2> QED
    BY <1>1, <2>1, <2>2
<1> QED
  <2>1. OpenBrackets(z) = Append(OpenBrackets(s), c)
    BY <1>1, <1>5, <1>6, <1>7, SeqEqual
  <2> QED
    BY <2>1 DEF z

\* The bit on top is the last bracket; popped, it is no more.
LEMMA PoppedBracket ==
  ASSUME NEW s \in BitStack, ~Empty(s)
  PROVE  /\ OpenBrackets(s) # <<>>
         /\ OpenBrackets(Pop(s)) = Front(OpenBrackets(s))
         /\ Last(OpenBrackets(s)) = IF Top(s) THEN "lbrace" ELSE "lbracket"
<1>1. s.depth \in Nat /\ s.depth # 0 /\ OpenBrackets(s) \in Seq(Opening)
      /\ Len(OpenBrackets(s)) = s.depth
  BY OpenBracketsType DEF Empty
<1> DEFINE z == Pop(s)
<1>2. z.depth = s.depth - 1 /\ z.bits = s.bits
  BY DEF Pop, BitStack
<1> HIDE DEF z
<1>3. s.depth - 1 \in 0 .. Len(OpenBrackets(s))
  BY <1>1
<1>4. /\ Front(OpenBrackets(s)) \in Seq(Opening)
      /\ Len(Front(OpenBrackets(s))) = s.depth - 1
      /\ \A i \in 1 .. s.depth - 1 : Front(OpenBrackets(s))[i] = OpenBrackets(s)[i]
  BY <1>1, <1>3, FirstOctets DEF Front
<1>5. OpenBrackets(z) \in Seq(Opening) /\ Len(OpenBrackets(z)) = s.depth - 1
  BY <1>1, <1>2 DEF OpenBrackets, Opening
<1>6. \A i \in 1 .. s.depth - 1 : OpenBrackets(z)[i] = Front(OpenBrackets(s))[i]
  BY <1>1, <1>2, <1>4 DEF OpenBrackets, At
<1>7. OpenBrackets(z) = Front(OpenBrackets(s))
  BY <1>1, <1>4, <1>5, <1>6, SeqEqual
<1>8. Last(OpenBrackets(s)) = IF Top(s) THEN "lbrace" ELSE "lbracket"
  BY <1>1 DEF OpenBrackets, Last, Top, At
<1> QED
  BY <1>1, <1>7, <1>8, EmptySeq DEF z

\* One structural character, as both take it.
LEMMA BracketStep ==
  ASSUME NEW s \in BitStack, NEW quoted \in BOOLEAN, NEW k \in Nat,
         NEW c \in Structural, quoted => c = Quote
  PROVE  LET b == Reading(OpenBrackets(s), quoted, k, JSP_MAX_DEPTH)
         IN /\ Verdict(s, c) = "OK" =>
                 PastOctet(b, c) = Reading(OpenBrackets(Step(s, c)),
                                           quoted # (c = Quote), k + 1, JSP_MAX_DEPTH)
            /\ Verdict(s, c) # "OK" => PastOctet(b, c).fault = {k}
<1> DEFINE w == OpenBrackets(s)
           b == Reading(w, quoted, k, JSP_MAX_DEPTH)
<1>1. w \in Seq(Opening) /\ Len(w) = s.depth
  BY OpenBracketsType
<1>2. b = [open |-> w, in_string |-> quoted, offset |-> k, fault |-> {},
           bound |-> JSP_MAX_DEPTH]
  BY DEF Reading
<1>3. CASE c \in Opening
  <2>1. c # Quote /\ c \notin Closing /\ quoted = FALSE
    BY <1>3 DEF Opening, Closing, Quote
  <2>2. Verdict(s, c) = "OK" <=> s.depth # JSP_MAX_DEPTH
    BY <1>3, <2>1 DEF Verdict, Full
  <2>3. CASE s.depth = JSP_MAX_DEPTH
    BY <1>1, <1>2, <1>3, <2>1, <2>2, <2>3 DEF PastOctet
  <2>4. CASE s.depth # JSP_MAX_DEPTH
    <3>1. Step(s, c) = Push(s, c = "lbrace")
      BY <1>3, <2>1, <2>2, <2>4 DEF Step
    <3>2. OpenBrackets(Step(s, c)) = Append(w, c)
      BY <1>3, <3>1, PushedBracket
    <3> HIDE DEF w, b
    <3>3. PastOctet(b, c) = Reading(Append(w, c), FALSE, k + 1, JSP_MAX_DEPTH)
      BY <1>1, <1>2, <1>3, <2>1, <2>4 DEF PastOctet, Reading
    <3> QED
      BY <2>1, <2>2, <2>4, <3>2, <3>3 DEF w, b
  <2> QED
    BY <2>3, <2>4
<1>4. CASE c \in Closing
  <2>1. c # Quote /\ c \notin Opening /\ quoted = FALSE
    BY <1>4 DEF Opening, Closing, Quote
  <2>2. CASE Empty(s)
    <3>1. w = <<>> /\ Verdict(s, c) # "OK"
      BY <1>1, <1>4, <2>1, <2>2, EmptySeq DEF Empty, Verdict
    <3> HIDE DEF w, b
    <3> QED
      BY <1>2, <1>4, <2>1, <3>1 DEF PastOctet, w, b
  <2>3. CASE ~Empty(s)
    <3>1. /\ w # <<>> /\ OpenBrackets(Pop(s)) = Front(w)
          /\ Last(w) = IF Top(s) THEN "lbrace" ELSE "lbracket"
      BY <2>3, PoppedBracket
    <3>2. Matching[c] = IF c = "rbrace" THEN "lbrace" ELSE "lbracket"
      BY <1>4 DEF Matching, Closing
    <3>3. Verdict(s, c) = "OK" <=> Last(w) = Matching[c]
      <4>1. Verdict(s, c) = "OK" <=> Top(s) = (c = "rbrace")
        BY <1>4, <2>1, <2>3 DEF Verdict
      <4>2. Top(s) \in BOOLEAN
        BY DEF Top
      <4> HIDE DEF w
      <4>3. Top(s) = (c = "rbrace") <=> Last(w) = Matching[c]
        BY <3>1, <3>2, <4>2
      <4> QED
        BY <4>1, <4>3
    <3>4. Verdict(s, c) = "OK" => Step(s, c) = Pop(s)
      BY <1>4, <2>1 DEF Step
    <3> HIDE DEF w, b
    <3>5. CASE Last(w) = Matching[c]
      <4>1. PastOctet(b, c) = Reading(Front(w), FALSE, k + 1, JSP_MAX_DEPTH)
        BY <1>1, <1>2, <1>4, <2>1, <3>1, <3>5 DEF PastOctet, Reading
      <4> QED
        BY <2>1, <3>1, <3>3, <3>4, <3>5, <4>1 DEF w, b
    <3>6. CASE Last(w) # Matching[c]
      <4>1. PastOctet(b, c).fault = {k}
        BY <1>2, <1>4, <2>1, <3>1, <3>6 DEF PastOctet
      <4> QED
        BY <3>3, <3>6, <4>1 DEF w, b
    <3> QED
      BY <3>5, <3>6
  <2> QED
    BY <2>2, <2>3
<1>5. CASE c \notin Opening /\ c \notin Closing
  <2>1. Verdict(s, c) = "OK" /\ Step(s, c) = s
    BY <1>5, OtherStep
  <2> HIDE DEF w, b
  <2>2. PastOctet(b, c) = Reading(w, quoted # (c = Quote), k + 1, JSP_MAX_DEPTH)
    <3>1. CASE c = Quote
      BY <1>2, <1>5, <3>1 DEF PastOctet, Reading
    <3>2. CASE c # Quote
      <4>1. quoted = FALSE
        BY <3>2
      <4> QED
        BY <1>2, <1>5, <3>2, <4>1 DEF PastOctet, Reading
    <3> QED
      BY <3>1, <3>2
  <2> QED
    BY <2>1, <2>2 DEF w, b
<1> QED
  BY <1>3, <1>4, <1>5

-----------------------------------------------------------------------------
(* The run finds what that stack finds *)

\* Until the run is MALFORMED, the stack of open brackets is the walk's own and
\* has found no fault; from then on its fault is where the result points.
NestedInv ==
  /\ nesting \in BitStack
  /\ in_string \in BOOLEAN
  /\ read \in Seq(Octet \cup Structural)
  /\ output = "PLUCK" =>
       IF result.status = "MALFORMED"
         THEN Nested(read, JSP_MAX_DEPTH).fault = {result.offset}
         ELSE Nested(read, JSP_MAX_DEPTH) =
                Reading(OpenBrackets(nesting), in_string, Len(read), JSP_MAX_DEPTH)

\* A push that nesting accepted is not MALFORMED.
LEMMA AcceptedStatus ==
  ASSUME NEW c, PushStructural(c)
  PROVE  PushMalformed(c) \/ (Advance(c) /\ status' # "MALFORMED")
BY DEF PushStructural, PushWrapper, PushStringEnd, PushKeyEnd, PushSkippedEnd,
       PushInContainer, Between, PushStringValue, PushKey, PushOtherString,
       PushRefused, PushContainerValue, PushOtherOpen, PushComma, PushClose,
       PushColon, Emit, EmitNothing, BeginValue

\* A result is MALFORMED just after a push that was.
LEMMA PushedResult ==
  ASSUME result.status = "OK", NEW offset, Pushed(offset)
  PROVE  /\ status' = "MALFORMED" => result' = Result("MALFORMED", offset)
         /\ status' # "MALFORMED" => result'.status # "MALFORMED"
<1>1. CASE UNCHANGED result /\ status' = "OK"
  BY <1>1
<1>2. CASE status' = "WRITE_FAILED" /\ FailsWith("IO", "write")
  BY <1>2 DEF FailsWith, Result
<1>3. CASE status' \in DOMAIN RunStatus /\ Failure(status', offset)
  BY <1>3 DEF RunStatus, Failure, Result
<1> QED
  BY <1>1, <1>2, <1>3 DEF Pushed

\* A push finds a fault where the reader of brackets finds one.
LEMMA StructuralNested ==
  ASSUME RInv, NestedInv, NEW c \in Structural, RunStructural(c)
  PROVE  NestedInv'
<1> DEFINE X == Octet \cup Structural
<1>1. /\ output = "PLUCK" /\ output' = output /\ stage = "loop"
      /\ read' = read \o <<c>> /\ Scanned(c) /\ PushStructural(c)
      /\ Pushed(Len(read))
  BY DEF RunStructural, Take
<1>2. /\ nesting \in BitStack /\ in_string \in BOOLEAN /\ read \in Seq(X)
      /\ c \in X /\ Len(read) \in Nat
  BY LenProperties DEF NestedInv
<1>3. result.status = "OK"
  BY <1>1 DEF RInv, Result
<1>4. Nested(read, JSP_MAX_DEPTH) =
        Reading(OpenBrackets(nesting), in_string, Len(read), JSP_MAX_DEPTH)
  BY <1>1, <1>3 DEF NestedInv
<1>5. (in_string => c = Quote) /\ in_string' = (in_string # (c = Quote))
  BY <1>1 DEF Scanned
<1>6. JSP_MAX_DEPTH \in Nat
  BY DepthAssumption
<1>7. /\ read' \in Seq(X) /\ Len(read') = Len(read) + 1
      /\ Nested(read', JSP_MAX_DEPTH) = PastOctet(Nested(read, JSP_MAX_DEPTH), c)
  <2> HIDE DEF X
  <2>1. read \o <<c>> \in Seq(X) /\ Len(read \o <<c>>) = Len(read) + 1
    BY <1>2
  <2> QED
    BY <1>1, <1>2, <1>6, <2>1, NestedAppend
<1>8. in_string' \in BOOLEAN
  BY <1>5
<1> HIDE DEF X
<1>9. CASE PushMalformed(c)
  <2>1. /\ Verdict(nesting, c) # "OK" /\ status' = "MALFORMED" /\ nesting' = nesting
    BY <1>9 DEF PushMalformed, walk
  <2>2. result' = Result("MALFORMED", Len(read))
    BY <1>1, <1>3, <2>1, PushedResult
  <2>3. Nested(read', JSP_MAX_DEPTH).fault = {Len(read)}
    BY <1>2, <1>4, <1>5, <1>7, <2>1, BracketStep
  <2> QED
    BY <1>1, <1>2, <1>7, <1>8, <2>1, <2>2, <2>3 DEF NestedInv, Result, X
<1>10. CASE Advance(c) /\ status' # "MALFORMED"
  <2>1. Verdict(nesting, c) = "OK" /\ nesting' = Step(nesting, c)
    BY <1>10 DEF Advance
  <2>2. nesting' \in BitStack
    BY <1>2, <2>1, OpenStep, CloseStep, OtherStep
  <2>3. result'.status # "MALFORMED"
    BY <1>1, <1>3, <1>10, PushedResult
  <2>4. Nested(read', JSP_MAX_DEPTH) =
          Reading(OpenBrackets(nesting'), in_string', Len(read'), JSP_MAX_DEPTH)
    BY <1>2, <1>4, <1>5, <1>7, <2>1, BracketStep
  <2> QED
    BY <1>7, <1>8, <2>2, <2>3, <2>4 DEF NestedInv, X
<1> QED
  BY <1>1, <1>9, <1>10, AcceptedStatus

\* Octets of a token.
LEMMA BytesNested ==
  ASSUME RInv, NestedInv, NEW bytes \in BytesTokens, RunBytes(bytes)
  PROVE  NestedInv'
<1> DEFINE X == Octet \cup Structural
<1>1. /\ output = "PLUCK" /\ output' = output /\ stage = "loop"
      /\ read' = read \o bytes /\ PushBytesToken(bytes) /\ Pushed(Len(read))
  BY DEF RunBytes, Take
<1>2. /\ nesting \in BitStack /\ in_string \in BOOLEAN /\ read \in Seq(X)
      /\ bytes \in Seq(Octet) /\ Octet \subseteq X
  BY BytesAssumption DEF NestedInv
<1>3. result.status = "OK"
  BY <1>1 DEF RInv, Result
<1>4. nesting' = nesting /\ in_string' = in_string /\ status' # "MALFORMED"
  BY <1>1 DEF PushBytesToken, PushBytesOfValue, PushBytesSkipped, PushBytesOfKey,
              PushBytesBetween, PushBytes, Emit, EmitNothing
<1>5. result'.status # "MALFORMED"
  BY <1>1, <1>3, <1>4, PushedResult
<1>6. Nested(read, JSP_MAX_DEPTH) =
        Reading(OpenBrackets(nesting), in_string, Len(read), JSP_MAX_DEPTH)
  BY <1>1, <1>3 DEF NestedInv
<1> HIDE DEF X
<1>7. read' \in Seq(X) /\ Len(read') = Len(read) + Len(bytes)
  <2>1. bytes \in Seq(X)
    BY <1>2, SeqMonotonic
  <2> QED
    BY <1>1, <1>2, <2>1, ConcatProperties
<1>8. Nested(read', JSP_MAX_DEPTH) =
        Reading(OpenBrackets(nesting), in_string, Len(read'), JSP_MAX_DEPTH)
  <2>1. OpenBrackets(nesting) \in Seq(Opening) /\ JSP_MAX_DEPTH \in Nat
    BY <1>2, OpenBracketsType, DepthAssumption
  <2> QED
    BY <1>1, <1>2, <1>6, <1>7, <2>1, OctetsPassed
<1> QED
  BY <1>2, <1>4, <1>5, <1>7, <1>8 DEF NestedInv, X

\* Neither the walk nor the reader of brackets has read anything.
LEMMA NestedInitInv == RInit => NestedInv
<1> SUFFICES ASSUME RInit PROVE NestedInv
  OBVIOUS
<1>1. /\ nesting = EmptyStack /\ in_string = FALSE /\ read = <<>>
      /\ result.status = "OK"
  BY DEF RInit, Init, Result
<1>2. EmptyStack \in BitStack
  BY DepthAssumption DEF EmptyStack, BitStack
<1>3. OpenBrackets(EmptyStack) = <<>>
  BY <1>2, OpenBracketsType, EmptySeq DEF EmptyStack
<1>4. <<>> \in Seq(Octet \cup Structural) /\ Len(<<>>) = 0
  BY EmptySeq
<1>5. Nested(<<>>, JSP_MAX_DEPTH) = Fresh(JSP_MAX_DEPTH)
  <2>1. SubSeq(<<>>, 1, 0) = <<>>
    OBVIOUS
  <2>2. NestedFirst(<<>>, 0, JSP_MAX_DEPTH) = Fresh(JSP_MAX_DEPTH)
    BY <1>4, NestedNext, DepthAssumption
  <2> QED
    BY <2>1, <2>2 DEF NestedFirst
<1> QED
  BY <1>1, <1>2, <1>3, <1>4, <1>5 DEF NestedInv, Fresh

\* A step that leaves the walk and the stream alone, and finds no fault.
LEMMA NestedKept ==
  ASSUME NestedInv,
         UNCHANGED <<nesting, in_string, read, output>>,
         \/ UNCHANGED result
         \/ result.status # "MALFORMED" /\ result'.status # "MALFORMED"
  PROVE  NestedInv'
BY DEF NestedInv

\* Without a path the stream is read all the same.
LEMMA SinkNested ==
  ASSUME NestedInv, output # "PLUCK", output' = output, nesting' \in BitStack,
         in_string' \in BOOLEAN, NEW s \in Seq(Octet \cup Structural), read' = read \o s
  PROVE  NestedInv'
BY ConcatProperties DEF NestedInv

\* Both go past every token of the stream alike.
LEMMA NestedNextInv == RInv /\ NestedInv /\ [RNext]_runvars => NestedInv'
<1> SUFFICES ASSUME RInv, NestedInv, [RNext]_runvars PROVE NestedInv'
  OBVIOUS
<1> DEFINE Kept == UNCHANGED <<nesting, in_string, read, output>>
<1>1. CASE RunAlloc
  <2>1. Kept /\ (UNCHANGED result \/ result'.status # "MALFORMED")
        /\ result.status # "MALFORMED"
    BY <1>1 DEF RunAlloc, vars, walk, FailsWith, Result, RInv
  <2> QED
    BY <2>1, NestedKept
<1>2. CASE RunOpen
  <2>1. Kept /\ (UNCHANGED result \/ result'.status # "MALFORMED")
        /\ result.status # "MALFORMED"
    BY <1>2 DEF RunOpen, vars, walk, FailsWith, Result, RInv
  <2> QED
    BY <2>1, NestedKept
<1>3. ASSUME NEW c \in Structural, SinkStructural(c) PROVE NestedInv'
  <2>1. /\ output = "SINK" /\ output' = output /\ nesting' = nesting
        /\ read' = read \o <<c>> /\ in_string' \in BOOLEAN
    BY <1>3 DEF SinkStructural, Take, Scanned, walk
  <2>2. <<c>> \in Seq(Octet \cup Structural) /\ nesting \in BitStack
    BY DEF NestedInv
  <2> QED
    BY <2>1, <2>2, SinkNested
<1>4. ASSUME NEW bytes \in BytesTokens, SinkBytes(bytes) PROVE NestedInv'
  <2>1. /\ output = "SINK" /\ output' = output /\ nesting' = nesting
        /\ read' = read \o bytes /\ in_string' = in_string
    BY <1>4 DEF SinkBytes, Take, vars, walk
  <2>2. bytes \in Seq(Octet \cup Structural) /\ nesting \in BitStack
        /\ in_string \in BOOLEAN
    BY BytesAssumption, SeqMonotonic DEF NestedInv
  <2> QED
    BY <2>1, <2>2, SinkNested
<1>5. CASE RunPass
  <2>1. Kept /\ stage = "loop" /\ Pushed(0) /\ status' # "MALFORMED"
    BY <1>5 DEF RunPass, ScalarPass, walk, Emit
  <2>2. result.status = "OK"
    BY <2>1 DEF RInv, Result
  <2>3. result'.status # "MALFORMED"
    BY <2>1, <2>2, PushedResult
  <2> QED
    BY <2>1, <2>2, <2>3, NestedKept
<1>6. CASE RunScanEnds
  BY <1>6, NestedKept DEF RunScanEnds, Stops, vars, walk
<1>7. CASE RunScanFails("read") \/ RunScanFails("trace")
  <2>1. Kept /\ result'.status # "MALFORMED" /\ result.status # "MALFORMED"
    BY <1>7 DEF RunScanFails, Stops, vars, walk, FailsWith, Result, RInv
  <2> QED
    BY <2>1, NestedKept
<1>8. CASE RunClose
  BY <1>8, NestedKept DEF RunClose, ResultKept, vars, walk
<1>9. CASE UNCHANGED runvars
  BY <1>9, NestedKept DEF runvars, run, vars, walk
<1> QED
  BY <1>1, <1>2, <1>3, <1>4, <1>5, <1>6, <1>7, <1>8, <1>9, StructuralNested,
     BytesNested DEF RNext

\* With a path, a run is MALFORMED exactly when a bracket of the stream breaks
\* nesting, and its offset is that of the first that does: for every path, every
\* stream of tokens and every depth of the container word.
THEOREM FaultLocated == RSpec => []FaultIsLocated
<1>1. RInv /\ NestedInv => FaultIsLocated
  <2> SUFFICES ASSUME NestedInv, output = "PLUCK"
               PROVE  Nested(read, JSP_MAX_DEPTH).fault =
                        IF result.status = "MALFORMED" THEN {result.offset} ELSE {}
    BY DEF FaultIsLocated
  <2>1. Reading(OpenBrackets(nesting), in_string, Len(read), JSP_MAX_DEPTH).fault = {}
    BY DEF Reading
  <2> QED
    BY <2>1 DEF NestedInv
<1> QED
  BY <1>1, RInitInv, RNextInv, NestedInitInv, NestedNextInv, PTL DEF RSpec

-----------------------------------------------------------------------------
(* Lines of an output *)

\* What may go out under --lines.
LineOctet == Octet \cup {Quote, Separator}

\* Each of the first n separators of s ends a line of one scalar.
LinesEnd(s, n) ==
  \A j \in 1 .. n : s[j] = Separator =>
    \E i \in 0 .. j - 1 : /\ i = 0 \/ s[i] = Separator
                          /\ OneScalar(SubSeq(s, i + 1, j - 1))

\* What the line holds that a walk is in: a string without its last quote, a
\* bare scalar that may go on, or a whole scalar.
LineHolds(kind, line) ==
  CASE kind = "STRING" -> /\ line # <<>>
                          /\ line[1] = Quote
                          /\ \A k \in 2 .. Len(line) : line[k] \in Octet
    [] kind = "SCALAR" -> line # <<>> /\ \A k \in 1 .. Len(line) : line[k] \in Letter
    [] OTHER -> OneScalar(line)

\* Past its last separator s holds a line of that kind.
OpenLine(s, kind) ==
  \E i \in 0 .. Len(s) : /\ i = 0 \/ s[i] = Separator
                         /\ LineHolds(kind, After(s, i))

\* Part of a sequence, its octets.
LEMMA PartOctets ==
  ASSUME NEW X, NEW s \in Seq(X), NEW i \in Nat, NEW n \in Nat, i <= n, n <= Len(s)
  PROVE  /\ SubSeq(s, i + 1, n) \in Seq(X) /\ Len(SubSeq(s, i + 1, n)) = n - i
         /\ \A k \in 1 .. n - i : SubSeq(s, i + 1, n)[k] = s[i + k]
<1>1. Len(s) \in Nat
  BY LenProperties
<1>2. \A k \in i + 1 .. n : s[k] \in X
  BY <1>1, ElementOfSeq
<1>3. /\ SubSeq(s, i + 1, n) \in Seq(X)
      /\ Len(SubSeq(s, i + 1, n)) = IF i + 1 <= n THEN n - (i + 1) + 1 ELSE 0
      /\ \A k \in 1 .. n - (i + 1) + 1 :
           SubSeq(s, i + 1, n)[k] = s[(i + 1) + k - 1]
  BY <1>1, <1>2, SubSeqProperties
<1> QED
  BY <1>1, <1>3

\* A part of the first n octets is that part of any sequence with them.
LEMMA SamePart ==
  ASSUME NEW X, NEW s \in Seq(X), NEW t \in Seq(X), NEW i \in Nat, NEW n \in Nat,
         i <= n, n <= Len(s), n <= Len(t), \A k \in 1 .. n : s[k] = t[k]
  PROVE  SubSeq(s, i + 1, n) = SubSeq(t, i + 1, n)
<1>1. \A k \in 1 .. n - i : i + k \in 1 .. n
  OBVIOUS
<1>2. /\ SubSeq(s, i + 1, n) \in Seq(X) /\ Len(SubSeq(s, i + 1, n)) = n - i
      /\ \A k \in 1 .. n - i : SubSeq(s, i + 1, n)[k] = s[i + k]
  BY PartOctets
<1>3. /\ SubSeq(t, i + 1, n) \in Seq(X) /\ Len(SubSeq(t, i + 1, n)) = n - i
      /\ \A k \in 1 .. n - i : SubSeq(t, i + 1, n)[k] = t[i + k]
  BY PartOctets
<1>4. \A k \in 1 .. n - i : SubSeq(s, i + 1, n)[k] = SubSeq(t, i + 1, n)[k]
  BY <1>1, <1>2, <1>3
<1> QED
  BY <1>2, <1>3, <1>4, SeqEqual

\* What is after a position of the whole, by the parts.
LEMMA AfterConcat ==
  ASSUME NEW X, NEW s \in Seq(X), NEW t \in Seq(X), NEW i \in 0 .. Len(s)
  PROVE  After(s \o t, i) = After(s, i) \o t
<1>1. /\ s \o t \in Seq(X) /\ Len(s \o t) = Len(s) + Len(t)
      /\ Len(s) \in Nat /\ Len(t) \in Nat
      /\ \A j \in 1 .. Len(s) : (s \o t)[j] = s[j]
      /\ \A j \in Len(s) + 1 .. Len(s) + Len(t) : (s \o t)[j] = t[j - Len(s)]
  BY ConcatOctets
<1> DEFINE u == s \o t
           a == After(s, i)
<1>2. /\ a \in Seq(X) /\ Len(a) = Len(s) - i
      /\ \A k \in 1 .. Len(s) - i : a[k] = s[i + k]
  BY AfterType
<1>3. u \in Seq(X) /\ i \in 0 .. Len(u)
  BY <1>1
<1>4. /\ After(u, i) \in Seq(X) /\ Len(After(u, i)) = Len(u) - i
      /\ \A k \in 1 .. Len(u) - i : After(u, i)[k] = u[i + k]
  BY <1>3, AfterType
<1> HIDE DEF a
<1>5. /\ a \o t \in Seq(X) /\ Len(a \o t) = Len(a) + Len(t)
      /\ \A j \in 1 .. Len(a) : (a \o t)[j] = a[j]
      /\ \A j \in Len(a) + 1 .. Len(a) + Len(t) : (a \o t)[j] = t[j - Len(a)]
  <2>1. a \in Seq(X)
    BY <1>2
  <2> QED
    BY <2>1, ConcatOctets
<1> DEFINE v == a \o t
           z == After(u, i)
<1>6. /\ Len(u) = Len(s) + Len(t)
      /\ \A j \in 1 .. Len(s) : u[j] = s[j]
      /\ \A j \in Len(s) + 1 .. Len(s) + Len(t) : u[j] = t[j - Len(s)]
  BY <1>1
<1>7. /\ v \in Seq(X) /\ Len(v) = Len(a) + Len(t)
      /\ \A j \in 1 .. Len(a) : v[j] = a[j]
      /\ \A j \in Len(a) + 1 .. Len(a) + Len(t) : v[j] = t[j - Len(a)]
  BY <1>5
<1>8. z \in Seq(X) /\ Len(z) = Len(u) - i /\ \A k \in 1 .. Len(u) - i : z[k] = u[i + k]
  BY <1>4
<1> HIDE DEF u, v, z
<1>9. Len(z) = Len(v)
  BY <1>1, <1>2, <1>6, <1>7, <1>8
<1>10. ASSUME NEW k \in 1 .. Len(z) PROVE z[k] = v[k]
  <2>1. k \in 1 .. Len(u) - i /\ z[k] = u[i + k]
    BY <1>8, <1>10
  <2>2. CASE k <= Len(s) - i
    <3>1. i + k \in 1 .. Len(s) /\ k \in 1 .. Len(a) /\ k \in 1 .. Len(s) - i
      BY <1>1, <1>2, <1>6, <2>1, <2>2
    <3> QED
      BY <1>2, <1>6, <1>7, <2>1, <3>1
  <2>3. CASE k > Len(s) - i
    <3>1. /\ i + k \in Len(s) + 1 .. Len(s) + Len(t)
          /\ k \in Len(a) + 1 .. Len(a) + Len(t)
          /\ (i + k) - Len(s) = k - Len(a)
      BY <1>1, <1>2, <1>6, <2>1, <2>3
    <3> QED
      BY <1>6, <1>7, <2>1, <3>1
  <2> QED
    BY <1>1, <1>6, <2>1, <2>2, <2>3
<1>11. z = v
  BY <1>7, <1>8, <1>9, <1>10, SeqEqual
<1> QED
  BY <1>11 DEF z, v, u, a

-----------------------------------------------------------------------------
(* Lines of an output that grows *)

\* Lines that agree on the first n octets end alike.
LEMMA SameLines ==
  ASSUME NEW X, NEW s \in Seq(X), NEW t \in Seq(X), NEW n \in Nat,
         n <= Len(s), n <= Len(t), \A k \in 1 .. n : s[k] = t[k], LinesEnd(s, n)
  PROVE  LinesEnd(t, n)
<1> SUFFICES ASSUME NEW j \in 1 .. n, t[j] = Separator
             PROVE  \E i \in 0 .. j - 1 : /\ i = 0 \/ t[i] = Separator
                                          /\ OneScalar(SubSeq(t, i + 1, j - 1))
  BY DEF LinesEnd
<1>1. PICK i \in 0 .. j - 1 : /\ i = 0 \/ s[i] = Separator
                              /\ OneScalar(SubSeq(s, i + 1, j - 1))
  BY DEF LinesEnd
<1>2. i = 0 \/ t[i] = Separator
  BY <1>1
<1>3. SubSeq(s, i + 1, j - 1) = SubSeq(t, i + 1, j - 1)
  <2> DEFINE m == j - 1
  <2>1. m \in Nat /\ i \in Nat /\ i <= m /\ m <= n /\ Len(s) \in Nat /\ Len(t) \in Nat
    BY LenProperties
  <2> HIDE DEF m
  <2>2. m <= Len(s) /\ m <= Len(t) /\ \A k \in 1 .. m : s[k] = t[k]
    BY <2>1
  <2>3. SubSeq(s, i + 1, m) = SubSeq(t, i + 1, m)
    BY <2>1, <2>2, SamePart
  <2> QED
    BY <2>3 DEF m
<1> QED
  BY <1>1, <1>2, <1>3

\* What has no separator ends no line.
LEMMA LinesEndLonger ==
  ASSUME NEW X, NEW s \in Seq(X), NEW t \in Seq(X), LinesEnd(s, Len(s)),
         \A k \in 1 .. Len(t) : t[k] # Separator
  PROVE  LinesEnd(s \o t, Len(s \o t))
<1> DEFINE u == s \o t
<1>1. /\ u \in Seq(X) /\ Len(u) = Len(s) + Len(t)
      /\ Len(s) \in Nat /\ Len(t) \in Nat
      /\ \A j \in 1 .. Len(s) : u[j] = s[j]
      /\ \A j \in Len(s) + 1 .. Len(s) + Len(t) : u[j] = t[j - Len(s)]
  BY ConcatOctets
<1> HIDE DEF u
<1>2. LinesEnd(u, Len(s))
  <2>1. Len(s) <= Len(s) /\ Len(s) <= Len(u) /\ \A j \in 1 .. Len(s) : s[j] = u[j]
    BY <1>1
  <2> QED
    BY <1>1, <2>1, SameLines
<1>3. \A j \in 1 .. Len(u) : u[j] = Separator => j \in 1 .. Len(s)
  <2> SUFFICES ASSUME NEW j \in 1 .. Len(u), j \notin 1 .. Len(s), u[j] = Separator
               PROVE  FALSE
    OBVIOUS
  <2>1. j \in Len(s) + 1 .. Len(s) + Len(t) /\ j - Len(s) \in 1 .. Len(t)
    BY <1>1
  <2> QED
    BY <1>1, <2>1
<1> QED
  BY <1>2, <1>3 DEF LinesEnd, u

\* A separator after a whole scalar ends a line of one.
LEMMA LinesEndSeparator ==
  ASSUME NEW X, NEW s \in Seq(X), Separator \in X, LinesEnd(s, Len(s)),
         OpenLine(s, "whole")
  PROVE  LinesEnd(s \o <<Separator>>, Len(s) + 1)
<1> DEFINE u == s \o <<Separator>>
           m == Len(s)
<1>1. u \in Seq(X) /\ Len(u) = m + 1 /\ m \in Nat /\ \A j \in 1 .. m : u[j] = s[j]
  BY LenProperties
<1>2. PICK i \in 0 .. m : (i = 0 \/ s[i] = Separator) /\ OneScalar(After(s, i))
  BY DEF OpenLine, LineHolds
<1>3. After(s, i) = SubSeq(s, i + 1, m)
  BY DEF After
<1> HIDE DEF u, m
<1>4. SubSeq(s, i + 1, m) = SubSeq(u, i + 1, m)
  <2>1. i \in Nat /\ i <= m /\ m <= Len(s) /\ m <= Len(u) /\ \A k \in 1 .. m : s[k] = u[k]
    BY <1>1 DEF m
  <2> QED
    BY <1>1, <2>1, SamePart
<1>5. LinesEnd(u, m)
  <2>1. m <= Len(s) /\ m <= Len(u) /\ \A k \in 1 .. m : s[k] = u[k]
    BY <1>1 DEF m
  <2> QED
    BY <1>1, <2>1, SameLines DEF m
<1>6. ASSUME NEW j \in 1 .. m + 1, u[j] = Separator
      PROVE  \E h \in 0 .. j - 1 : /\ h = 0 \/ u[h] = Separator
                                   /\ OneScalar(SubSeq(u, h + 1, j - 1))
  <2>1. CASE j \in 1 .. m
    BY <1>5, <1>6, <2>1 DEF LinesEnd
  <2>2. CASE j = m + 1
    <3>1. j - 1 = m
      BY <1>1, <2>2
    <3>2. i \in 0 .. m /\ (i = 0 \/ u[i] = Separator)
      BY <1>1, <1>2
    <3> QED
      BY <1>2, <1>3, <1>4, <3>1, <3>2
  <2> QED
    BY <1>1, <2>1, <2>2
<1> QED
  BY <1>6 DEF LinesEnd, u, m

\* So do the first octets of what does.
LEMMA LinesEndPrefix ==
  ASSUME NEW X, NEW s \in Seq(X), NEW t \in Seq(X), Len(t) <= Len(s),
         \A k \in 1 .. Len(t) : t[k] = s[k], LinesEnd(s, Len(s))
  PROVE  LinesEnd(t, Len(t))
<1>1. Len(t) \in Nat /\ Len(s) \in Nat
  BY LenProperties
<1>2. LinesEnd(s, Len(t))
  BY <1>1 DEF LinesEnd
<1> QED
  BY <1>1, <1>2, SameLines

\* A line that goes on, and holds more.
LEMMA LineGoesOn ==
  ASSUME NEW X, NEW s \in Seq(X), NEW t \in Seq(X), LinesEnd(s, Len(s)),
         \A k \in 1 .. Len(t) : t[k] # Separator,
         NEW kind, NEW next, OpenLine(s, kind),
         \A line \in Seq(X) : LineHolds(kind, line) => LineHolds(next, line \o t)
  PROVE  LinesEnd(s \o t, Len(s \o t)) /\ OpenLine(s \o t, next)
<1>1. PICK i \in 0 .. Len(s) : (i = 0 \/ s[i] = Separator) /\ LineHolds(kind, After(s, i))
  BY DEF OpenLine
<1>2. After(s, i) \in Seq(X) /\ After(s \o t, i) = After(s, i) \o t
  BY AfterType, AfterConcat
<1>3. LineHolds(next, After(s \o t, i))
  BY <1>1, <1>2
<1>4. i \in 0 .. Len(s \o t) /\ (i = 0 \/ (s \o t)[i] = Separator)
  <2>1. /\ Len(s \o t) = Len(s) + Len(t) /\ Len(s) \in Nat /\ Len(t) \in Nat
        /\ \A j \in 1 .. Len(s) : (s \o t)[j] = s[j]
    BY ConcatOctets
  <2> QED
    BY <1>1, <2>1
<1>5. OpenLine(s \o t, next)
  BY <1>3, <1>4 DEF OpenLine
<1> QED
  BY <1>5, LinesEndLonger

\* A line that begins, after a separator unless it is the first.
LEMMA LineBegins ==
  ASSUME NEW X, NEW s \in Seq(X), NEW t \in Seq(X), NEW due \in Seq(X),
         Separator \in X, LinesEnd(s, Len(s)),
         \/ s = <<>> /\ due = <<>>
         \/ OpenLine(s, "whole") /\ due = <<Separator>>,
         \A k \in 1 .. Len(t) : t[k] # Separator,
         NEW kind, LineHolds(kind, t)
  PROVE  /\ LinesEnd(s \o (due \o t), Len(s \o (due \o t)))
         /\ OpenLine(s \o (due \o t), kind)
<1> DEFINE u == s \o due
           m == Len(u)
<1>1. u \in Seq(X) /\ s \o (due \o t) = u \o t /\ m \in Nat
  <2>1. u \in Seq(X)
    BY ConcatProperties
  <2>2. s \o (due \o t) = u \o t
    <3>1. Associate(X)
      BY AllAssociate, Zenon
    <3> QED
      BY <3>1 DEF Associate
  <2> QED
    BY <2>1, <2>2, LenProperties
<1>2. LinesEnd(u, m) /\ (m = 0 \/ u[m] = Separator)
  <2>1. CASE s = <<>> /\ due = <<>>
    <3>1. u = <<>>
      BY <2>1
    <3>2. m = 0
      BY <3>1
    <3> HIDE DEF u, m
    <3> QED
      BY <3>2 DEF LinesEnd
  <2>2. CASE OpenLine(s, "whole") /\ due = <<Separator>>
    <3>1. u = s \o <<Separator>> /\ m = Len(s) + 1 /\ u[m] = Separator
      BY <2>2
    <3> HIDE DEF u, m
    <3> QED
      BY <2>2, <3>1, LinesEndSeparator
  <2> QED
    BY <2>1, <2>2
<1>3. /\ u \o t \in Seq(X) /\ Len(u \o t) = m + Len(t) /\ Len(t) \in Nat
      /\ \A j \in 1 .. m : (u \o t)[j] = u[j]
  BY <1>1, ConcatOctets
<1>4. After(u \o t, m) = t
  <2>1. After(u \o t, m) = After(u, m) \o t
    <3>1. m \in 0 .. Len(u)
      BY <1>1
    <3> HIDE DEF u, m
    <3> QED
      BY <1>1, <3>1, AfterConcat
  <2>2. After(u, m) = <<>>
    <3>1. m \in 0 .. Len(u)
      BY <1>1
    <3> HIDE DEF u
    <3>2. After(u, m) \in Seq(X) /\ Len(After(u, m)) = Len(u) - m
      BY <1>1, <3>1, AfterType
    <3>3. Len(After(u, m)) = 0
      BY <1>1, <3>2
    <3> QED
      BY <3>2, <3>3, EmptySeq
  <2> QED
    BY <2>1, <2>2
<1> HIDE DEF u
<1>5. OpenLine(u \o t, kind)
  <2>1. m \in 0 .. Len(u \o t) /\ (m = 0 \/ (u \o t)[m] = Separator)
    BY <1>1, <1>2, <1>3
  <2> QED
    BY <1>4, <2>1 DEF OpenLine
<1>6. LinesEnd(u \o t, Len(u \o t))
  BY <1>1, <1>2, LinesEndLonger
<1> QED
  BY <1>1, <1>5, <1>6

-----------------------------------------------------------------------------
(* What the walk's pieces make of a line *)

\* No octet, no letter and no quote is the separator.
LEMMA SeparatorApart ==
  /\ \A o \in Octet : o # Separator /\ o \notin Structural
  /\ Letter \subseteq Octet
  /\ Quote # Separator /\ Quote \in Structural
  /\ Octet \subseteq LineOctet /\ Quote \in LineOctet /\ Separator \in LineOctet
BY SymbolsAssumption DEF Octet, Quote, Separator, Structural, LineOctet

\* Octets go on with a string.
LEMMA StringGoesOn ==
  ASSUME NEW line \in Seq(LineOctet), NEW t \in Seq(Octet), LineHolds("STRING", line)
  PROVE  LineHolds("STRING", line \o t)
<1>1. line # <<>> /\ line[1] = Quote /\ \A j \in 2 .. Len(line) : line[j] \in Octet
  BY DEF LineHolds
<1>2. t \in Seq(LineOctet)
  BY SeqMonotonic, SeparatorApart
<1> DEFINE u == line \o t
<1>3. /\ u \in Seq(LineOctet) /\ Len(u) = Len(line) + Len(t)
      /\ Len(line) \in Nat /\ Len(t) \in Nat
      /\ \A j \in 1 .. Len(line) : u[j] = line[j]
      /\ \A j \in Len(line) + 1 .. Len(line) + Len(t) : u[j] = t[j - Len(line)]
  BY <1>2, ConcatOctets
<1> HIDE DEF u
<1>4. Len(line) # 0
  BY <1>1, EmptySeq
<1>5. u # <<>> /\ u[1] = Quote
  BY <1>1, <1>3, <1>4
<1>6. ASSUME NEW j \in 2 .. Len(u) PROVE u[j] \in Octet
  <2>1. CASE j \in 2 .. Len(line)
    BY <1>1, <1>3, <2>1
  <2>2. CASE j \in Len(line) + 1 .. Len(line) + Len(t)
    <3>1. j - Len(line) \in 1 .. Len(t)
      BY <1>3, <2>2
    <3> QED
      BY <1>3, <2>2, <3>1, ElementOfSeq
  <2> QED
    BY <1>3, <2>1, <2>2
<1> QED
  BY <1>5, <1>6 DEF LineHolds, u

\* The last quote makes a string whole.
LEMMA StringIsWhole ==
  ASSUME NEW line \in Seq(LineOctet), LineHolds("STRING", line)
  PROVE  LineHolds("whole", line \o <<Quote>>)
<1>1. line # <<>> /\ line[1] = Quote /\ \A j \in 2 .. Len(line) : line[j] \in Octet
  BY DEF LineHolds
<1> DEFINE u == line \o <<Quote>>
           m == Len(line)
<1>2. /\ Len(u) = m + 1 /\ m \in Nat /\ u[m + 1] = Quote
      /\ \A j \in 1 .. m : u[j] = line[j]
  BY LenProperties
<1>3. m # 0
  BY <1>1, EmptySeq
<1> HIDE DEF u
<1>4. \A j \in 2 .. m : u[j] \notin Structural
  <2>1. \A j \in 2 .. m : j \in 1 .. m
    BY <1>2
  <2> QED
    BY <1>1, <1>2, <2>1, SeparatorApart DEF m
<1> HIDE DEF m
<1>5. u[1] = Quote /\ 1 \in 1 .. m + 1 /\ m + 1 \in 1 .. m + 1
  <2>1. 1 \in 1 .. m
    BY <1>2, <1>3
  <2> QED
    BY <1>1, <1>2, <2>1
<1>6. {i \in 1 .. Len(u) : u[i] \in Structural} = {1, Len(u)}
  <2>1. ASSUME NEW i \in 1 .. Len(u), u[i] \in Structural PROVE i = 1 \/ i = Len(u)
    <3>1. i \in 2 .. m \/ i = 1 \/ i = m + 1
      BY <1>2
    <3> QED
      BY <1>2, <1>4, <2>1, <3>1
  <2>2. u[1] \in Structural /\ u[Len(u)] \in Structural
    BY <1>2, <1>5, SeparatorApart
  <2>3. 1 \in 1 .. Len(u) /\ Len(u) \in 1 .. Len(u)
    BY <1>2, <1>5
  <2> QED
    BY <2>1, <2>2, <2>3
<1>7. Len(u) >= 2 /\ Last(u) = Quote
  BY <1>2, <1>3 DEF Last
<1>8. OneScalar(u)
  BY <1>5, <1>6, <1>7 DEF OneScalar
<1> QED
  BY <1>8 DEF LineHolds, u

\* Letters go on with a bare scalar.
LEMMA ScalarGoesOn ==
  ASSUME NEW line \in Seq(LineOctet), NEW t \in Seq(Letter), LineHolds("SCALAR", line)
  PROVE  LineHolds("SCALAR", line \o t)
<1>1. line # <<>> /\ \A j \in 1 .. Len(line) : line[j] \in Letter
  BY DEF LineHolds
<1>2. t \in Seq(LineOctet)
  <2>1. Letter \subseteq LineOctet
    BY SeparatorApart
  <2> QED
    BY <2>1, SeqMonotonic
<1> DEFINE u == line \o t
<1>3. /\ u \in Seq(LineOctet) /\ Len(u) = Len(line) + Len(t)
      /\ Len(line) \in Nat /\ Len(t) \in Nat
      /\ \A j \in 1 .. Len(line) : u[j] = line[j]
      /\ \A j \in Len(line) + 1 .. Len(line) + Len(t) : u[j] = t[j - Len(line)]
  BY <1>2, ConcatOctets
<1> HIDE DEF u
<1>4. Len(line) # 0
  BY <1>1, EmptySeq
<1>5. u # <<>>
  BY <1>3, <1>4
<1>6. ASSUME NEW j \in 1 .. Len(u) PROVE u[j] \in Letter
  <2>1. CASE j \in 1 .. Len(line)
    BY <1>1, <1>3, <2>1
  <2>2. CASE j \in Len(line) + 1 .. Len(line) + Len(t)
    <3>1. j - Len(line) \in 1 .. Len(t)
      BY <1>3, <2>2
    <3> QED
      BY <1>3, <2>2, <3>1, ElementOfSeq
  <2> QED
    BY <1>3, <2>1, <2>2
<1> QED
  BY <1>5, <1>6 DEF LineHolds, u

\* A bare scalar is whole wherever it ends.
LEMMA ScalarIsWhole ==
  ASSUME NEW s, OpenLine(s, "SCALAR")
  PROVE  OpenLine(s, "whole")
BY DEF OpenLine, LineHolds, OneScalar

\* Fewer octets end no more lines.
LEMMA PartEnds ==
  ASSUME NEW X, NEW s \in Seq(X), NEW pieces \in Seq(X), NEW part \in Seq(X),
         Len(part) <= Len(pieces), \A j \in 1 .. Len(part) : part[j] = pieces[j],
         LinesEnd(s \o pieces, Len(s \o pieces))
  PROVE  LinesEnd(s \o part, Len(s \o part))
<1> DEFINE t == s \o part
           all == s \o pieces
           k == Len(part)
<1>1. /\ t \in Seq(X) /\ Len(t) = Len(s) + k /\ k \in Nat
      /\ \A j \in 1 .. Len(s) : t[j] = s[j]
      /\ \A j \in Len(s) + 1 .. Len(s) + k : t[j] = part[j - Len(s)]
  BY ConcatOctets
<1>2. /\ all \in Seq(X) /\ Len(all) = Len(s) + Len(pieces)
      /\ Len(s) \in Nat /\ Len(pieces) \in Nat
      /\ \A j \in 1 .. Len(s) : all[j] = s[j]
      /\ \A j \in Len(s) + 1 .. Len(s) + Len(pieces) : all[j] = pieces[j - Len(s)]
  BY ConcatOctets
<1>3. k <= Len(pieces) /\ \A j \in 1 .. k : part[j] = pieces[j]
  OBVIOUS
<1> HIDE DEF t, all, k
<1>4. ASSUME NEW j \in 1 .. Len(t) PROVE t[j] = all[j]
  <2>1. CASE j \in 1 .. Len(s)
    BY <1>1, <1>2, <2>1
  <2>2. CASE j \in Len(s) + 1 .. Len(s) + k
    <3>1. j \in Len(s) + 1 .. Len(s) + Len(pieces) /\ j - Len(s) \in 1 .. k
      BY <1>1, <1>2, <1>3, <2>2
    <3> QED
      BY <1>1, <1>2, <1>3, <2>2, <3>1
  <2> QED
    BY <1>1, <1>2, <2>1, <2>2
<1>5. Len(t) <= Len(all)
  BY <1>1, <1>2, <1>3
<1>6. LinesEnd(all, Len(all))
  BY DEF all
<1>7. LinesEnd(t, Len(t))
  BY <1>1, <1>2, <1>4, <1>5, <1>6, LinesEndPrefix
<1> QED
  BY <1>7 DEF t

\* What went out in three pieces, in whatever grouping.
LEMMA OutputAssociates ==
  ASSUME NEW a \in Seq(LineOctet), NEW b \in Seq(LineOctet), NEW c \in Seq(LineOctet)
  PROVE  (a \o b) \o c = a \o (b \o c)
<1>1. Associate(LineOctet)
  BY AllAssociate, Zenon
<1> QED
  BY <1>1 DEF Associate

\* What a push adds to an output ends lines as its pieces do, all or some of
\* them.
LEMMA EmittedEnd ==
  ASSUME NEW o \in Seq(LineOctet), NEW before \in Seq(LineOctet),
         NEW pieces \in Seq(LineOctet), Emit(before, pieces),
         LinesEnd((o \o before) \o pieces, Len((o \o before) \o pieces))
  PROVE  /\ LinesEnd(o \o wrote', Len(o \o wrote'))
         /\ status' = "OK" => o \o wrote' = (o \o before) \o pieces
         /\ status' \in {"OK", "WRITE_FAILED"}
<1>1. CASE wrote' = before \o pieces /\ status' = "OK"
  <2>1. o \o wrote' = (o \o before) \o pieces
    BY <1>1, OutputAssociates
  <2> QED
    BY <1>1, <2>1
<1>2. CASE /\ status' = "WRITE_FAILED"
           /\ \E k \in 0 .. Len(pieces) - 1 :
                wrote' = before \o SubSeq(pieces, 1, k)
  <2>1. PICK k \in 0 .. Len(pieces) - 1 : wrote' = before \o SubSeq(pieces, 1, k)
    BY <1>2
  <2>2. Len(pieces) \in Nat /\ k \in 0 .. Len(pieces)
    BY LenProperties
  <2>3. PICK part \in Seq(LineOctet) :
          /\ Len(part) = k /\ \A j \in 1 .. k : part[j] = pieces[j]
          /\ wrote' = before \o part
    BY <2>1, <2>2, FirstOctets
  <2>4. o \o wrote' = (o \o before) \o part
    <3>1. (o \o before) \o part = o \o (before \o part)
      BY OutputAssociates
    <3> QED
      BY <2>3, <3>1
  <2>5. LinesEnd((o \o before) \o part, Len((o \o before) \o part))
    <3>1. o \o before \in Seq(LineOctet)
      BY ConcatProperties
    <3>2. Len(part) <= Len(pieces) /\ \A j \in 1 .. Len(part) : part[j] = pieces[j]
      BY <2>2, <2>3
    <3> QED
      BY <3>1, <3>2, PartEnds
  <2> QED
    BY <1>2, <2>4, <2>5
<1> QED
  BY <1>1, <1>2 DEF Emit

\* A push of one piece of writing.
LEMMA EmittedWholeEnd ==
  ASSUME NEW o \in Seq(LineOctet), NEW pieces \in Seq(LineOctet),
         Emit(<<>>, pieces), LinesEnd(o \o pieces, Len(o \o pieces))
  PROVE  /\ LinesEnd(o \o wrote', Len(o \o wrote'))
         /\ status' = "OK" => o \o wrote' = o \o pieces
<1> DEFINE none == <<>>
<1>1. none \in Seq(LineOctet) /\ o \o none = o
  BY EmptySeq, ConcatEmptySeq
<1>2. Emit(none, pieces)
  OBVIOUS
<1> HIDE DEF none
<1>3. LinesEnd((o \o none) \o pieces, Len((o \o none) \o pieces))
  BY <1>1
<1>4. /\ LinesEnd(o \o wrote', Len(o \o wrote'))
      /\ status' = "OK" => o \o wrote' = (o \o none) \o pieces
  BY <1>1, <1>2, <1>3, EmittedEnd, Zenon
<1> QED
  BY <1>1, <1>4

-----------------------------------------------------------------------------
(* Lines of a run *)

KindOf(ph) == IF ph \in {"STRING", "SCALAR"} THEN ph ELSE "whole"

\* What an output holds past its last separator, for a walk in phase ph that
\* has begun a value or none.
Holds(s, begun, ph) ==
  IF begun THEN OpenLine(s, KindOf(ph)) ELSE s = <<>> /\ ph \notin {"STRING", "SCALAR"}

\* The loop over bare scalars stands before one.
AtScalar ==
  rest # <<>> =>
    phase \in {"BETWEEN", "SCALAR"} /\ (phase = "BETWEEN" => rest[1] \in Letter)

\* What went out, the octets included that the push under way has written.
Sent == IF rest = <<>> THEN out ELSE out \o wrote

LinesGrow ==
  /\ LinesEnd(Sent, Len(Sent))
  /\ Holds(Sent, emitted_any, phase)
  /\ AtScalar

\* Under --lines every separator that went out ends a line of one scalar, and
\* the octets past the last one are what the walk's phase says.
LinesInv ==
  scalars_only =>
    /\ output = "PLUCK"
    /\ IInv
    /\ LinesStayFlat
    /\ out \in Seq(LineOctet)
    /\ stage \in {"alloc", "open"} =>
         out = <<>> /\ emitted_any = FALSE /\ phase = "BETWEEN" /\ rest = <<>>
    /\ stage = "loop" => LinesGrow
    /\ stage = "close" => LinesEnd(out, Len(out))
    /\ stage = "done" => LinesEnd(out, Len(out) - 1)

\* What a push leaves, ended or not.
PushGrows ==
  /\ LinesEnd(out \o wrote', Len(out \o wrote'))
  /\ status' = "OK" => Holds(out \o wrote', emitted_any', phase')
  /\ AtScalar'

\* A push that writes nothing and is in no string, nor ends in a scalar.
LEMMA SilentGrows ==
  ASSUME out \in Seq(LineOctet), LinesGrow, rest = <<>>, rest' = <<>>,
         wrote' = <<>>, emitted_any' = emitted_any,
         status' = "OK" => phase # "STRING" /\ phase' \notin {"STRING", "SCALAR"}
  PROVE  PushGrows
<1>1. Sent = out /\ out \o wrote' = out
  BY ConcatEmptySeq DEF Sent
<1>2. LinesEnd(out, Len(out)) /\ Holds(out, emitted_any, phase)
  BY <1>1 DEF LinesGrow
<1>3. status' = "OK" => Holds(out, emitted_any', phase')
  <2>1. CASE emitted_any
    <3>1. OpenLine(out, KindOf(phase))
      BY <1>2, <2>1 DEF Holds
    <3>2. CASE phase = "SCALAR"
      BY <2>1, <3>1, <3>2, ScalarIsWhole DEF Holds, KindOf
    <3>3. CASE phase # "SCALAR"
      BY <2>1, <3>1, <3>3 DEF Holds, KindOf
    <3> QED
      BY <3>2, <3>3
  <2>2. CASE ~emitted_any
    BY <1>2, <2>2 DEF Holds
  <2> QED
    BY <2>1, <2>2
<1> QED
  BY <1>1, <1>2, <1>3 DEF PushGrows, AtScalar

\* A quote may go out.
LEMMA QuotePieces ==
  /\ <<Quote>> \in Seq(LineOctet) /\ Len(<<Quote>>) = 1 /\ <<Quote>>[1] = Quote
  /\ <<Quote>> # <<>>
  /\ <<Separator>> \in Seq(LineOctet) /\ <<>> \in Seq(LineOctet)
  /\ \A k \in 1 .. Len(<<Quote>>) : <<Quote>>[k] # Separator
  /\ LineHolds("STRING", <<Quote>>)
<1>1. Quote \in LineOctet /\ Separator \in LineOctet /\ Quote # Separator
  BY SeparatorApart
<1>2. LineHolds("STRING", <<Quote>>)
  BY DEF LineHolds
<1> QED
  BY <1>1, <1>2

\* The closing quote ends the line's scalar.
LEMMA StringEndGrows ==
  ASSUME out \in Seq(LineOctet), LinesGrow, rest = <<>>, rest' = <<>>,
         phase = "STRING", phase' = "BETWEEN", emitted_any' = emitted_any,
         Emit(<<>>, <<Quote>>)
  PROVE  PushGrows
<1>1. Sent = out /\ out \o <<>> = out
  BY ConcatEmptySeq DEF Sent
<1>2. emitted_any /\ LinesEnd(out, Len(out)) /\ OpenLine(out, "STRING")
  BY <1>1 DEF LinesGrow, Holds, KindOf
<1>3. LinesEnd(out \o <<Quote>>, Len(out \o <<Quote>>)) /\ OpenLine(out \o <<Quote>>, "whole")
  BY <1>2, QuotePieces, StringIsWhole, LineGoesOn
<1>4. /\ LinesEnd(out \o wrote', Len(out \o wrote'))
      /\ status' = "OK" => out \o wrote' = out \o <<Quote>>
  BY <1>3, QuotePieces, EmittedWholeEnd
<1> QED
  BY <1>2, <1>3, <1>4 DEF PushGrows, Holds, KindOf, AtScalar

\* The opening quote starts a line, after the separator of the one before.
LEMMA StringValueGrows ==
  ASSUME out \in Seq(LineOctet), LinesGrow, rest = <<>>, rest' = <<>>,
         phase \in {"BETWEEN", "SCALAR"}, phase' = "STRING", BeginValue(Quote)
  PROVE  PushGrows
<1>1. Sent = out /\ out \o <<>> = out
  BY ConcatEmptySeq DEF Sent
<1>2. LinesEnd(out, Len(out)) /\ Holds(out, emitted_any, phase)
  BY <1>1 DEF LinesGrow
<1>3. \/ out = <<>> /\ SeparatorDue = <<>>
      \/ OpenLine(out, "whole") /\ SeparatorDue = <<Separator>>
  BY <1>2, ScalarIsWhole DEF Holds, KindOf, SeparatorDue
<1>4. SeparatorDue \in Seq(LineOctet) /\ SeparatorDue \o <<Quote>> \in Seq(LineOctet)
  BY <1>3, QuotePieces, ConcatProperties
<1> DEFINE pieces == SeparatorDue \o <<Quote>>
<1>5. LinesEnd(out \o pieces, Len(out \o pieces)) /\ OpenLine(out \o pieces, "STRING")
  BY <1>2, <1>3, <1>4, QuotePieces, SeparatorApart, LineBegins
<1>6. Emit(<<>>, pieces) /\ emitted_any' = TRUE
  BY DEF BeginValue
<1> HIDE DEF pieces
<1>7. pieces \in Seq(LineOctet)
  BY <1>4 DEF pieces
<1>8. /\ LinesEnd(out \o wrote', Len(out \o wrote'))
      /\ status' = "OK" => out \o wrote' = out \o pieces
  BY <1>5, <1>6, <1>7, EmittedWholeEnd
<1> QED
  BY <1>5, <1>6, <1>8 DEF PushGrows, Holds, KindOf, AtScalar

\* One structural character.
LEMMA StructuralGrows ==
  ASSUME scalars_only, IInv, LinesStayFlat, out \in Seq(LineOctet), LinesGrow,
         NEW c \in Structural, Scanned(c), PushStructural(c)
  PROVE  PushGrows
<1>1. status = "OK" /\ rest = <<>> /\ rest' = <<>>
  BY AcceptedStatus DEF PushMalformed, Advance, Pushable
<1>2. phase = "STRING" => c = Quote
  BY <1>1 DEF IInv, PhaseFitsString, Scanned
<1>3. phase # "CONTAINER"
  BY DEF LinesStayFlat
<1>4. CASE PushMalformed(c) \/ PushRefused(c)
  <2>1. wrote' = <<>> /\ emitted_any' = emitted_any /\ status' # "OK"
    BY <1>4 DEF PushMalformed, PushRefused
  <2> QED
    BY <1>1, <2>1, SilentGrows
<1>5. CASE PushStringEnd(c)
  <2>1. /\ phase = "STRING" /\ phase' = "BETWEEN" /\ emitted_any' = emitted_any
        /\ Emit(<<>>, <<c>>) /\ c = Quote
    BY <1>2, <1>5 DEF PushStringEnd
  <2> QED
    BY <1>1, <2>1, StringEndGrows
<1>6. CASE PushStringValue(c)
  <2>1. /\ phase \in {"BETWEEN", "SCALAR"} /\ phase' = "STRING"
        /\ BeginValue(c) /\ c = Quote
    BY <1>6 DEF PushStringValue, Between
  <2> QED
    BY <1>1, <2>1, StringValueGrows
<1>7. CASE PushWrapper(c)
  <2>1. c # Quote
    BY <1>7 DEF PushWrapper, OpensWrapper, Quote
  <2>2. /\ phase # "STRING" /\ phase' \notin {"STRING", "SCALAR"}
        /\ wrote' = <<>> /\ emitted_any' = emitted_any
    BY <1>2, <1>7, <2>1 DEF PushWrapper, EmitNothing
  <2> QED
    BY <1>1, <2>2, SilentGrows
<1>8. CASE \/ PushKeyEnd(c) \/ PushSkippedEnd(c) \/ PushKey(c) \/ PushOtherString(c)
           \/ PushOtherOpen(c) \/ PushComma(c) \/ PushClose(c) \/ PushColon(c)
  <2>1. /\ phase # "STRING" /\ phase' \notin {"STRING", "SCALAR"}
        /\ wrote' = <<>> /\ emitted_any' = emitted_any
    BY <1>8
       DEF PushKeyEnd, PushSkippedEnd, PushKey, PushOtherString, PushOtherOpen,
           PushComma, PushClose, PushColon, Between, EmitNothing
  <2> QED
    BY <1>1, <2>1, SilentGrows
<1>9. ~PushInContainer(c) /\ ~PushContainerValue(c)
  BY <1>3 DEF PushInContainer, PushContainerValue
<1> QED
  BY <1>4, <1>5, <1>6, <1>7, <1>8, <1>9 DEF PushStructural

-----------------------------------------------------------------------------
(* BYTES tokens and bare scalars in lines *)

\* Past blanks comes a letter.
LEMMA PastBlanksStarts ==
  ASSUME NEW s \in Seq(Octet), PastBlanks(s) # <<>>
  PROVE  PastBlanks(s)[1] \in Letter
<1> DEFINE n == PrefixIn(s, Blank)
           u == After(s, n)
<1>1. n \in 0 .. Len(s) /\ (n < Len(s) => s[n + 1] \notin Blank) /\ Len(s) \in Nat
  BY PrefixType, LenProperties
<1> HIDE DEF n
<1>2. /\ u \in Seq(Octet) /\ Len(u) = Len(s) - n
      /\ \A k \in 1 .. Len(s) - n : u[k] = s[n + k]
  BY <1>1, AfterType
<1>3. u # <<>>
  BY DEF PastBlanks, u, n
<1> HIDE DEF u
<1>4. Len(u) # 0
  BY <1>2, <1>3, EmptySeq
<1>5. n < Len(s) /\ 1 \in 1 .. Len(s) - n /\ n + 1 \in 1 .. Len(s)
  <2>1. Len(s) - n # 0
    BY <1>2, <1>4
  <2> QED
    BY <1>1, <2>1
<1>6. u[1] = s[n + 1] /\ s[n + 1] \in Octet
  BY <1>2, <1>5, ElementOfSeq
<1>7. u[1] \in Letter
  BY <1>1, <1>5, <1>6 DEF Octet
<1> QED
  BY <1>7 DEF PastBlanks, u, n

\* Octets of a string join the line that is open.
LEMMA BytesGrow ==
  ASSUME out \in Seq(LineOctet), LinesStayFlat, scalars_only, LinesGrow,
         NEW bytes \in BytesTokens, PushBytesToken(bytes)
  PROVE  PushGrows
<1>1. bytes \in Seq(Octet) /\ rest = <<>> /\ emitted_any' = emitted_any /\ PushBytes(bytes)
  BY BytesAssumption
     DEF PushBytesToken, PushBytesOfValue, PushBytesSkipped, PushBytesOfKey,
         PushBytesBetween, PushBytes
<1>2. Sent = out /\ out \o <<>> = out
  BY <1>1, ConcatEmptySeq DEF Sent
<1>3. LinesEnd(out, Len(out)) /\ Holds(out, emitted_any, phase)
  BY <1>2 DEF LinesGrow
<1>4. CASE PushBytesOfValue(bytes)
  <2>1. phase = "STRING" /\ phase' = "STRING" /\ rest' = <<>> /\ Emit(<<>>, bytes)
    BY <1>1, <1>4 DEF PushBytesOfValue, LinesStayFlat
  <2>2. emitted_any /\ OpenLine(out, "STRING")
    BY <1>3, <2>1 DEF Holds, KindOf
  <2>3. bytes \in Seq(LineOctet) /\ \A k \in 1 .. Len(bytes) : bytes[k] # Separator
    <3>1. \A k \in 1 .. Len(bytes) : bytes[k] \in Octet
      BY <1>1, ElementOfSeq
    <3> QED
      BY <1>1, <3>1, SeqMonotonic, SeparatorApart
  <2>4. LinesEnd(out \o bytes, Len(out \o bytes)) /\ OpenLine(out \o bytes, "STRING")
    <3>1. \A line \in Seq(LineOctet) :
            LineHolds("STRING", line) => LineHolds("STRING", line \o bytes)
      BY <1>1, StringGoesOn
    <3> QED
      BY <1>3, <2>2, <2>3, <3>1, LineGoesOn
  <2>5. /\ LinesEnd(out \o wrote', Len(out \o wrote'))
        /\ status' = "OK" => out \o wrote' = out \o bytes
    BY <2>1, <2>3, <2>4, EmittedWholeEnd
  <2> QED
    BY <1>1, <2>1, <2>2, <2>4, <2>5 DEF PushGrows, Holds, KindOf, AtScalar
<1>5. CASE PushBytesSkipped(bytes) \/ PushBytesOfKey(bytes)
  <2>1. /\ phase # "STRING" /\ phase' \notin {"STRING", "SCALAR"}
        /\ wrote' = <<>> /\ rest' = <<>>
    BY <1>1, <1>5 DEF PushBytesSkipped, PushBytesOfKey, EmitNothing
  <2> QED
    BY <1>1, <2>1, SilentGrows
<1>6. CASE PushBytesBetween(bytes)
  <2>1. /\ phase \in {"BETWEEN", "SCALAR"} /\ phase' = phase /\ wrote' = <<>>
        /\ rest' = IF phase = "SCALAR" THEN bytes ELSE PastBlanks(bytes)
    BY <1>6 DEF PushBytesBetween, EmitNothing
  <2>2. AtScalar'
    BY <1>1, <2>1, PastBlanksStarts DEF AtScalar
  <2> QED
    BY <1>1, <1>2, <1>3, <2>1, <2>2 DEF PushGrows
<1> QED
  BY <1>4, <1>5, <1>6 DEF PushBytesToken

\* A pass over a scalar that goes out.
LEMMA PassOfValueGrows ==
  ASSUME IInv, scalars_only, LinesStayFlat, out \in Seq(LineOctet), LinesGrow,
         ScalarPass, phase = "SCALAR" \/ (phase = "BETWEEN" /\ AtValue)
  PROVE  PushGrows
<1> DEFINE n == PrefixIn(rest, Letter)
           left == After(rest, n)
           next == PastBlanks(left)
           begins == phase = "BETWEEN" /\ AtValue
           due == IF begins THEN SeparatorDue ELSE <<>>
           t == SubSeq(rest, 1, n)
           s == out \o wrote
<1>1. /\ status = "OK" /\ rest \in Seq(Octet) /\ rest # <<>>
      /\ wrote \in Seq(LineOctet) /\ emitted_any \in BOOLEAN
  BY DEF IInv, TypeOK, ScalarPass, LinesStayFlat, LineOctet
<1>2. /\ Emit(wrote, due \o t)
      /\ emitted_any' = (emitted_any \/ begins)
      /\ \/ phase' = "BETWEEN" /\ rest' = next
         \/ phase' = "SCALAR" /\ rest' = <<>>
  BY DEF ScalarPass
<1>3. Sent = s /\ LinesEnd(s, Len(s)) /\ Holds(s, emitted_any, phase) /\ s \in Seq(LineOctet)
  BY <1>1, ConcatProperties DEF Sent, LinesGrow
<1>4. /\ n \in 0 .. Len(rest) /\ \A k \in 1 .. n : rest[k] \in Letter
      /\ n < Len(rest) => rest[n + 1] \notin Letter
  BY <1>1, PrefixType
<1>5. left \in Seq(Octet)
  BY <1>1, <1>4, AfterType
<1>6. AtScalar'
  BY <1>2, <1>5, PastBlanksStarts DEF AtScalar
<1> HIDE DEF n, left, next
<1>7. /\ t \in Seq(Letter) /\ Len(t) = n /\ t \in Seq(LineOctet)
      /\ \A k \in 1 .. Len(t) : t[k] \in Letter /\ t[k] # Separator
  <2>1. /\ t \in Seq(Octet) /\ Len(t) = n /\ DOMAIN t = 1 .. n
        /\ \A k \in 1 .. n : t[k] = rest[k]
    BY <1>1, <1>4, FirstOctets
  <2> HIDE DEF t
  <2>2. \A k \in 1 .. n : t[k] \in Letter
    BY <1>4, <2>1
  <2>3. t \in Seq(Letter)
    BY <1>4, <2>1, <2>2
  <2> QED
    BY <2>1, <2>2, <2>3, SeqMonotonic, SeparatorApart
<1>8. phase' \in {"BETWEEN", "SCALAR"}
  BY <1>2
<1> HIDE DEF t, s
<1>9. CASE begins
  <2>1. phase = "BETWEEN" /\ due = SeparatorDue /\ emitted_any' = TRUE
    BY <1>1, <1>2, <1>9
  <2>2. \/ s = <<>> /\ due = <<>>
        \/ OpenLine(s, "whole") /\ due = <<Separator>>
    BY <1>3, <2>1 DEF Holds, KindOf, SeparatorDue
  <2>3. LineHolds("SCALAR", t)
    <3>1. rest[1] \in Letter /\ Len(rest) \in Nat /\ Len(rest) # 0
      BY <1>1, <2>1, LenProperties, EmptySeq DEF LinesGrow, AtScalar
    <3>2. n # 0
      <4> SUFFICES ASSUME n = 0 PROVE FALSE
        OBVIOUS
      <4>1. n < Len(rest) /\ n + 1 = 1
        BY <3>1
      <4> QED
        BY <1>4, <3>1, <4>1
    <3>3. t # <<>>
      BY <1>7, <3>2, EmptySeq
    <3> QED
      BY <1>7, <3>3 DEF LineHolds
  <2>4. due \in Seq(LineOctet) /\ due \o t \in Seq(LineOctet)
    BY <1>7, <2>2, QuotePieces, ConcatProperties
  <2> DEFINE pieces == due \o t
  <2>5. LinesEnd(s \o pieces, Len(s \o pieces)) /\ OpenLine(s \o pieces, "SCALAR")
    BY <1>3, <1>7, <2>2, <2>3, <2>4, SeparatorApart, LineBegins
  <2>6. Emit(wrote, pieces) /\ pieces \in Seq(LineOctet)
    BY <1>2, <2>4
  <2> HIDE DEF pieces
  <2>7. /\ LinesEnd(out \o wrote', Len(out \o wrote'))
        /\ status' = "OK" => out \o wrote' = s \o pieces
    BY <1>1, <2>5, <2>6, EmittedEnd DEF s
  <2>8. status' = "OK" => Holds(out \o wrote', emitted_any', phase')
    BY <1>8, <2>1, <2>5, <2>7, ScalarIsWhole DEF Holds, KindOf
  <2> QED
    BY <1>6, <2>7, <2>8 DEF PushGrows
<1>10. CASE ~begins
  <2>1. phase = "SCALAR" /\ due = <<>> /\ due \o t = t
    BY <1>7, <1>10, ConcatEmptySeq
  <2>2. emitted_any = TRUE /\ OpenLine(s, "SCALAR") /\ emitted_any' = TRUE
    BY <1>1, <1>2, <1>3, <2>1 DEF Holds, KindOf
  <2>3. LinesEnd(s \o t, Len(s \o t)) /\ OpenLine(s \o t, "SCALAR")
    <3>1. \A line \in Seq(LineOctet) :
            LineHolds("SCALAR", line) => LineHolds("SCALAR", line \o t)
      BY <1>7, ScalarGoesOn
    <3> QED
      BY <1>3, <1>7, <2>2, <3>1, LineGoesOn
  <2>4. /\ LinesEnd(out \o wrote', Len(out \o wrote'))
        /\ status' = "OK" => out \o wrote' = s \o t
    BY <1>1, <1>2, <1>7, <2>1, <2>3, EmittedEnd DEF s
  <2>5. status' = "OK" => Holds(out \o wrote', emitted_any', phase')
    BY <1>8, <2>2, <2>3, <2>4, ScalarIsWhole DEF Holds, KindOf
  <2> QED
    BY <1>6, <2>4, <2>5 DEF PushGrows
<1> QED
  BY <1>9, <1>10

\* A pass over one that does not.
LEMMA PassOfOtherGrows ==
  ASSUME IInv, scalars_only, LinesStayFlat, out \in Seq(LineOctet), LinesGrow,
         ScalarPass, ~(phase = "SCALAR" \/ (phase = "BETWEEN" /\ AtValue))
  PROVE  PushGrows
<1> DEFINE n == PrefixIn(rest, Letter)
           left == After(rest, n)
<1>1. rest \in Seq(Octet) /\ rest # <<>>
  BY DEF IInv, TypeOK, ScalarPass
<1>2. n \in 0 .. Len(rest) /\ left \in Seq(Octet)
  BY <1>1, PrefixType, AfterType
<1>3. rest' = PastBlanks(left) /\ UNCHANGED <<phase, emitted_any, wrote, status>>
  BY DEF ScalarPass
<1> HIDE DEF left
<1>4. phase = "BETWEEN"
  BY <1>1 DEF LinesGrow, AtScalar
<1>5. AtScalar'
  BY <1>2, <1>3, <1>4, PastBlanksStarts DEF AtScalar
<1> QED
  BY <1>1, <1>3, <1>5 DEF PushGrows, LinesGrow, Sent

-----------------------------------------------------------------------------
(* The lines of every run *)

\* What the run makes of a push.
LEMMA PushedSends ==
  ASSUME stage = "loop", NEW offset, Pushed(offset), out \in Seq(LineOctet),
         wrote' \in Seq(LineOctet)
  PROVE  /\ out' \in Seq(LineOctet)
         /\ stage' \in {"loop", "close"}
         /\ stage' = "loop" => status' = "OK" /\ Sent' = out \o wrote'
         /\ stage' = "close" => out' = out \o wrote'
<1>1. out \o wrote' \in Seq(LineOctet)
  BY ConcatProperties
<1>2. CASE status' = "OK" /\ rest' # <<>> /\ UNCHANGED <<stage, result, out, failed>>
  BY <1>2 DEF Sent
<1>3. CASE /\ status' = "OK" => rest' = <<>>
           /\ out' = out \o wrote'
           /\ \/ stage' = "close"
              \/ status' = "OK" /\ UNCHANGED stage
  BY <1>1, <1>3 DEF Sent
<1> QED
  BY <1>2, <1>3 DEF Pushed

\* A push under --lines.
LEMMA PushLines ==
  ASSUME LinesInv, scalars_only, stage = "loop", NEW offset, Pushed(offset),
         output' = output, PushGrows, Next
  PROVE  LinesInv'
<1>1. /\ output = "PLUCK" /\ IInv /\ LinesStayFlat /\ out \in Seq(LineOctet)
  BY DEF LinesInv
<1>2. IInv' /\ LinesStayFlat'
  BY <1>1, NextInv, FlatNext
<1>3. CASE scalars_only'
  <2>1. wrote' \in Seq(LineOctet)
    BY <1>2, <1>3 DEF LinesStayFlat, LineOctet
  <2>2. /\ out' \in Seq(LineOctet)
        /\ stage' \in {"loop", "close"}
        /\ stage' = "loop" => status' = "OK" /\ Sent' = out \o wrote'
        /\ stage' = "close" => out' = out \o wrote'
    BY <1>1, <2>1, PushedSends
  <2>3. stage' = "loop" => LinesGrow'
    BY <2>2 DEF PushGrows, LinesGrow
  <2>4. stage' = "close" => LinesEnd(out', Len(out'))
    BY <2>2 DEF PushGrows
  <2> QED
    BY <1>1, <1>2, <2>2, <2>3, <2>4 DEF LinesInv
<1> QED
  BY <1>3 DEF LinesInv

\* A step that leaves the walk alone.
LEMMA WalkKept ==
  ASSUME UNCHANGED vars
  PROVE  /\ scalars_only' = scalars_only /\ (IInv => IInv')
         /\ (IInv /\ LinesStayFlat => LinesStayFlat')
         /\ emitted_any' = emitted_any /\ phase' = phase /\ rest' = rest
         /\ wrote' = wrote /\ status' = status
  BY NextInv, FlatNext DEF vars, config

\* No line before the first push.
LEMMA LinesInitInv == RInit => LinesInv
<1> SUFFICES ASSUME RInit, scalars_only PROVE LinesInv
  BY DEF LinesInv
<1>1. /\ output = "PLUCK" /\ stage = "alloc" /\ out = <<>> /\ IInv
      /\ emitted_any = FALSE /\ phase = "BETWEEN" /\ rest = <<>> /\ wrote = <<>>
  BY InitInv DEF RInit, Init
<1>2. <<>> \in Seq(LineOctet)
  BY EmptySeq
<1>3. LinesStayFlat
  BY <1>1, <1>2 DEF LinesStayFlat, LineOctet
<1> QED
  BY <1>1, <1>2, <1>3 DEF LinesInv

\* Every step of the run adds to the last line, ends it, or starts the next.
LEMMA LinesNextInv == LinesInv /\ [RNext]_runvars => LinesInv'
<1> SUFFICES ASSUME LinesInv, [RNext]_runvars, scalars_only' PROVE LinesInv'
  BY DEF LinesInv
<1> DEFINE Quiet == UNCHANGED vars /\ output' = output
<1>1. scalars_only /\ output' = output
  <2>1. ASSUME NEW c \in Structural, PushStructural(c)
        PROVE  scalars_only' = scalars_only
    BY <2>1, AcceptedStatus DEF PushMalformed, Advance, config
  <2>2. ASSUME NEW bytes \in BytesTokens, PushBytesToken(bytes)
        PROVE  scalars_only' = scalars_only
    BY <2>2 DEF PushBytesToken, PushBytesOfValue, PushBytesSkipped, PushBytesOfKey,
                PushBytesBetween, PushBytes, config
  <2>3. ScalarPass => scalars_only' = scalars_only
    BY DEF ScalarPass, config
  <2>4. CASE \E c \in Structural : SinkStructural(c) \/ RunStructural(c)
    BY <2>1, <2>4 DEF SinkStructural, RunStructural, Take, config
  <2>5. CASE \E bytes \in BytesTokens : SinkBytes(bytes) \/ RunBytes(bytes)
    BY <2>2, <2>5 DEF SinkBytes, RunBytes, Take, vars, config
  <2>6. CASE RunPass
    BY <2>3, <2>6 DEF RunPass
  <2>7. CASE \/ RunAlloc \/ RunOpen \/ RunScanEnds \/ RunScanFails("read")
             \/ RunScanFails("trace") \/ RunClose \/ UNCHANGED runvars
    BY <2>7 DEF RunAlloc, RunOpen, RunScanEnds, RunScanFails, Stops, RunClose, runvars,
                run, vars, config
  <2> QED
    BY <2>4, <2>5, <2>6, <2>7 DEF RNext
<1>2. /\ output = "PLUCK" /\ IInv /\ LinesStayFlat /\ out \in Seq(LineOctet)
      /\ stage \in {"alloc", "open"} =>
           out = <<>> /\ emitted_any = FALSE /\ phase = "BETWEEN" /\ rest = <<>>
      /\ stage = "loop" => LinesGrow
      /\ stage = "close" => LinesEnd(out, Len(out))
      /\ stage = "done" => LinesEnd(out, Len(out) - 1)
  BY <1>1 DEF LinesInv
<1>3. Quiet => /\ output' = "PLUCK" /\ IInv' /\ LinesStayFlat'
               /\ emitted_any' = emitted_any /\ phase' = phase /\ rest' = rest
               /\ wrote' = wrote
  BY <1>2, WalkKept
<1>4. CASE RunAlloc
  <2>1. Quiet /\ out' = out /\ stage = "alloc" /\ stage' \in {"open", "done"}
    BY <1>4 DEF RunAlloc
  <2>2. LinesEnd(out', Len(out') - 1)
    <3>1. out' = <<>> /\ Len(out') = 0
      BY <1>2, <2>1
    <3> QED
      BY <3>1 DEF LinesEnd
  <2> QED
    BY <1>2, <1>3, <2>1, <2>2 DEF LinesInv
<1>5. CASE RunOpen
  <2>1. Quiet /\ stage = "open" /\ OpenText = <<>>
    BY <1>1, <1>5 DEF RunOpen, OpenText
  <2>2. stage' = "loop" /\ out' = <<>>
    BY <1>5, <2>1 DEF RunOpen
  <2>3. LinesGrow'
    <3>1. Sent' = <<>> /\ Len(<<>>) = 0
      BY <1>2, <1>3, <2>1, <2>2, EmptySeq DEF Sent
    <3> QED
      BY <1>2, <1>3, <2>1, <3>1 DEF LinesGrow, LinesEnd, Holds, AtScalar
  <2> QED
    BY <1>3, <2>1, <2>2, <2>3, EmptySeq DEF LinesInv
<1>6. ASSUME NEW c \in Structural, RunStructural(c) PROVE LinesInv'
  <2>1. /\ stage = "loop" /\ Scanned(c) /\ PushStructural(c) /\ Pushed(Len(read))
    BY <1>6 DEF RunStructural, Take
  <2>2. Next
    BY <2>1 DEF Next
  <2>3. PushGrows
    BY <1>1, <1>2, <2>1, StructuralGrows
  <2> QED
    BY <1>1, <2>1, <2>2, <2>3, PushLines
<1>7. ASSUME NEW bytes \in BytesTokens, RunBytes(bytes) PROVE LinesInv'
  <2>1. /\ stage = "loop" /\ PushBytesToken(bytes) /\ Pushed(Len(read))
    BY <1>7 DEF RunBytes, Take
  <2>2. Next
    BY <2>1 DEF Next
  <2>3. PushGrows
    BY <1>1, <1>2, <2>1, BytesGrow
  <2> QED
    BY <1>1, <2>1, <2>2, <2>3, PushLines
<1>8. CASE RunPass
  <2>1. /\ stage = "loop" /\ ScalarPass /\ Pushed(0)
    BY <1>8 DEF RunPass
  <2>2. Next
    BY <2>1 DEF Next
  <2>3. PushGrows
    BY <1>1, <1>2, <2>1, PassOfValueGrows, PassOfOtherGrows
  <2> QED
    BY <1>1, <2>1, <2>2, <2>3, PushLines
<1>9. CASE RunScanEnds \/ RunScanFails("read") \/ RunScanFails("trace")
  <2>1. Quiet /\ stage = "loop" /\ stage' = "close" /\ out' = out /\ rest = <<>>
    BY <1>9 DEF RunScanEnds, RunScanFails, Stops
  <2>2. LinesEnd(out', Len(out'))
    BY <1>2, <2>1 DEF LinesGrow, Sent
  <2> QED
    BY <1>2, <1>3, <2>1, <2>2 DEF LinesInv
<1>10. CASE RunClose
  <2>1. Quiet /\ stage = "close" /\ stage' = "done"
        /\ (out' = out \o <<Separator>> \/ out' = out)
    BY <1>1, <1>2, <1>10 DEF RunClose, CloseText
  <2>2. /\ out' \in Seq(LineOctet) /\ Len(out) <= Len(out')
        /\ Len(out') - 1 <= Len(out) /\ Len(out) \in Nat /\ Len(out') \in Nat
        /\ \A k \in 1 .. Len(out) : out[k] = out'[k]
    <3>1. CASE out' = out
      BY <1>2, <3>1, LenProperties
    <3>2. CASE out' = out \o <<Separator>>
      BY <1>2, <3>2, QuotePieces, ConcatOctets
    <3> QED
      BY <2>1, <3>1, <3>2
  <2>3. LinesEnd(out', Len(out))
    <3> DEFINE s == out
               t == out'
    <3>1. s \in Seq(LineOctet) /\ t \in Seq(LineOctet) /\ LinesEnd(s, Len(s))
      BY <1>2, <2>1, <2>2
    <3>2. Len(s) \in Nat /\ Len(s) <= Len(s) /\ Len(s) <= Len(t)
          /\ \A k \in 1 .. Len(s) : s[k] = t[k]
      BY <2>2
    <3> HIDE DEF s, t
    <3>3. LinesEnd(t, Len(s))
      BY <3>1, <3>2, SameLines
    <3> QED
      BY <3>3 DEF s, t
  <2>4. LinesEnd(out', Len(out') - 1)
    BY <2>2, <2>3 DEF LinesEnd
  <2> QED
    BY <1>3, <2>1, <2>2, <2>4 DEF LinesInv
<1>11. CASE UNCHANGED runvars
  <2>1. Quiet /\ out' = out /\ stage' = stage
    BY <1>11 DEF runvars, run
  <2>2. stage = "loop" => LinesGrow'
    BY <1>2, <1>3, <2>1 DEF LinesGrow, Sent, AtScalar
  <2> QED
    BY <1>2, <1>3, <2>1, <2>2 DEF LinesInv
<1>12. \A c : ~SinkStructural(c) /\ ~SinkBytes(c)
  BY <1>2 DEF SinkStructural, SinkBytes
<1> QED
  BY <1>4, <1>5, <1>6, <1>7, <1>8, <1>9, <1>10, <1>11, <1>12 DEF RNext

\* The stages of a run.
InStages == stage \in {"alloc", "open", "loop", "close", "done"}

\* The run is at one of its stages.
LEMMA StageInv == RSpec => []InStages
<1>1. RInit => InStages
  BY DEF RInit, InStages
<1>2. InStages /\ [RNext]_runvars => InStages'
  BY DEF RNext, RunAlloc, RunOpen, SinkStructural, SinkBytes, RunStructural, RunBytes,
         RunPass, RunScanEnds, RunScanFails, Stops, RunClose, Take, Pushed, InStages,
         runvars, run
<1> QED
  BY <1>1, <1>2, PTL DEF RSpec

\* Under --lines, each line but the one that the run stopped in holds exactly
\* one scalar and no container: for every path and every stream of tokens, well
\* formed or not, and wherever a write, a read or an allocation fails.
THEOREM LinesHoldScalars == RSpec => []LinesHoldOneScalar
<1>1. LinesInv /\ InStages => LinesHoldOneScalar
  <2> SUFFICES ASSUME LinesInv, InStages, scalars_only,
                      NEW j \in LineEnds
               PROVE  \E i \in 0 .. j - 1 :
                        /\ i = 0 \/ out[i] = Separator
                        /\ OneScalar(SubSeq(out, i + 1, j - 1))
    BY DEF LinesHoldOneScalar
  <2>1. /\ j \in 1 .. Len(out) /\ out[j] = Separator
        /\ stage = "done" => j < Len(out)
    BY DEF LineEnds
  <2>2. out \in Seq(LineOctet) /\ Len(out) \in Nat
    BY LenProperties DEF LinesInv
  <2>3. CASE stage \in {"alloc", "open"}
    <3>1. out = <<>>
      BY <2>3 DEF LinesInv
    <3>2. Len(out) = 0
      BY <3>1
    <3> QED
      BY <2>1, <3>2
  <2>4. CASE stage = "loop"
    <3>1. LinesEnd(Sent, Len(Sent))
      BY <2>4 DEF LinesInv, LinesGrow
    <3>2. LinesEnd(out, Len(out))
      <4>1. CASE rest = <<>>
        BY <3>1, <4>1 DEF Sent
      <4>2. CASE rest # <<>>
        <5>1. Sent = out \o wrote /\ wrote \in Seq(LineOctet)
          BY <4>2 DEF Sent, LinesInv, LinesStayFlat, LineOctet
        <5> DEFINE s == Sent
                   t == out
        <5>2. s \in Seq(LineOctet) /\ Len(t) <= Len(s)
              /\ \A k \in 1 .. Len(t) : t[k] = s[k]
          BY <2>2, <5>1, ConcatOctets
        <5>3. t \in Seq(LineOctet) /\ LinesEnd(s, Len(s))
          BY <2>2, <3>1
        <5> HIDE DEF s, t
        <5>4. LinesEnd(t, Len(t))
          BY <5>2, <5>3, LinesEndPrefix
        <5> QED
          BY <5>4 DEF t
      <4> QED
        BY <4>1, <4>2
    <3> QED
      BY <2>1, <3>2 DEF LinesEnd
  <2>5. CASE stage = "close"
    BY <2>1, <2>5 DEF LinesInv, LinesEnd
  <2>6. CASE stage = "done"
    <3>1. j \in 1 .. Len(out) - 1
      BY <2>1, <2>2, <2>6
    <3> QED
      BY <2>1, <2>6, <3>1 DEF LinesInv, LinesEnd
  <2> QED
    BY <2>3, <2>4, <2>5, <2>6 DEF InStages
<1> QED
  BY <1>1, LinesInitInv, LinesNextInv, StageInv, PTL DEF RSpec
=============================================================================
