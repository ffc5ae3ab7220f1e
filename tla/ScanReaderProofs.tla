-------------------------- MODULE ScanReaderProofs --------------------------
(***************************************************************************)
(* Proofs about jsp_scan over jsp_reader's moving buffer, for words and    *)
(* buffers of any size, streams of any octets and any course of reads: a   *)
(* view reads the stream, and the scan implements the one over blocks that *)
(* stand still.                                                            *)
(***************************************************************************)
EXTENDS ScanReader, SharedLemmas

\* The proofs about the reader, for the reader under the scan.
RP == INSTANCE ReaderProofs
        WITH Octet <- StreamOctet, BlockSize <- WordWidth, result <- block

\* A view's addresses, and what came with them.
ViewWindow == [rest : Seq(Nat), mask : Word, offset : Nat]

ViewToken == [kind : {"BYTES", "STRUCTURAL"}, bytes : Seq(Nat), offset : Nat]

\* Window w covers n addresses up to to, of octets up to end.
Ends(w, to, end) ==
  /\ w \in ViewWindow
  /\ Len(w.rest) <= to
  /\ Len(w.rest) <= WordWidth
  /\ w.rest = View(to - Len(w.rest), Len(w.rest))
  /\ w.mask \subseteq 0 .. Len(w.rest) - 1
  /\ w.offset + Len(w.rest) = end

\* The token lies just before the window, in the stream and, as long as it is
\* held, in the buffer.
TokenBefore ==
  /\ token \in ViewToken
  /\ token.offset + Len(token.bytes) = window.offset
  /\ held =>
       /\ Len(token.bytes) + Len(window.rest) <= buf_offset
       /\ token.bytes = View(buf_offset - Len(window.rest) - Len(token.bytes),
                             Len(token.bytes))

\* The window ends where the reader's next block starts, in the buffer and in
\* the stream.
KInv ==
  /\ RP!IInv
  /\ Len(stream) <= MaxStream
  /\ carry \in Carry
  /\ held \in BOOLEAN
  /\ Ends(window, buf_offset, stream_offset)
  /\ TokenBefore

-----------------------------------------------------------------------------
(* The reader's steps *)

\* What the reader's proofs assume holds of it here.
LEMMA ReaderAssumptions ==
  RP!BlockSizeAssumption /\ RP!CapAssumption /\ RP!MaxStreamAssumption
BY WordWidthAssumption, WholeBlocksAssumption, MaxStreamAssumption
   DEF RP!BlockSizeAssumption, RP!CapAssumption, RP!MaxStreamAssumption

\* A step of jsp_reader_next under a call of jsp_scan_next.
ReaderStep ==
  \/ R!NextDone
  \/ R!NextBuffered
  \/ R!NextCompact
  \/ R!ReadError
  \/ R!ReadNothing
  \/ \E chunk \in R!Chunk : R!ReadSome(chunk)

\* The types of what the reader keeps.
LEMMA ReaderTypes ==
  ASSUME RP!IInv
  PROVE  /\ stream \in Seq(StreamOctet)
         /\ Len(stream) \in Nat
         /\ buf \in [0 .. Cap - 1 -> StreamOctet]
         /\ len \in 0 .. Cap
         /\ buf_offset \in 0 .. len
         /\ buf_offset \in Nat
         /\ stream_offset \in Nat
         /\ stream_offset <= Len(stream)
         /\ buf_offset <= stream_offset
         /\ Cap \in Nat
         /\ WordWidth \in Nat /\ WordWidth >= 1
<1>1. RP!TypeOK /\ RP!Mirror
  BY DEF RP!IInv
<1>2. /\ stream \in Seq(StreamOctet)
      /\ buf \in [0 .. Cap - 1 -> StreamOctet]
      /\ len \in 0 .. Cap
      /\ buf_offset \in 0 .. len
      /\ stream_offset \in Nat
  BY <1>1 DEF RP!TypeOK, RP!Index
<1>3. Len(stream) \in Nat
  BY <1>2, LenProperties
<1>4. stream_offset - buf_offset >= 0 /\ stream_offset - buf_offset + len = Len(stream)
  BY <1>1 DEF RP!Mirror, RP!Base
<1>5. Cap \in Nat /\ WordWidth \in Nat /\ WordWidth >= 1
  BY WordWidthAssumption, WholeBlocksAssumption
<1> QED
  BY <1>2, <1>3, <1>4, <1>5

\* The reader's own invariant goes on, and the stream only grows.
LEMMA ReaderGoesOn ==
  ASSUME RP!IInv, ReaderStep
  PROVE  /\ RP!IInv'
         /\ \/ stream' = stream
            \/ \E chunk \in Seq(StreamOctet) : stream' = stream \o chunk
         /\ Len(stream) <= MaxStream => Len(stream') <= MaxStream
<1>1. [RP!Next]_(RP!vars)
  BY DEF ReaderStep, RP!Next, RP!ReadAny, RP!Chunk, R!Chunk,
         R!NextDone, RP!NextDone, R!NextBuffered, RP!NextBuffered,
         R!NextCompact, RP!NextCompact, R!ReadError, RP!ReadError,
         R!ReadNothing, RP!ReadNothing, R!ReadSome, RP!ReadSome,
         R!Answer, RP!Answer, R!Yield, RP!Yield, R!BlockLeft, RP!BlockLeft,
         R!Compacted, RP!Compacted, R!LenCompacted, RP!LenCompacted,
         R!Filled, RP!Filled, R!Index, RP!Index
<1>2. RP!IInv'
  BY <1>1, ReaderAssumptions, RP!NextInv
<1>3. CASE \E chunk \in R!Chunk : R!ReadSome(chunk)
  <2>1. PICK chunk \in R!Chunk : R!ReadSome(chunk)
    BY <1>3
  <2>2. stream \in Seq(StreamOctet) /\ Len(stream) \in Nat
    BY ReaderTypes
  <2>3. chunk \in Seq(StreamOctet) /\ Len(chunk) \in Nat
    BY <2>1, <2>2, ReaderAssumptions, RP!ChunkIsSeq DEF R!Chunk, RP!Chunk
  <2>4. PICK n \in 1 .. MaxStream - Len(stream) : chunk \in [1 .. n -> StreamOctet]
    BY <2>1 DEF R!Chunk
  <2>5. Len(chunk) = n
    <3>1. DOMAIN chunk = 1 .. n /\ DOMAIN chunk = 1 .. Len(chunk) /\ n \in Nat
      BY <2>2, <2>3, <2>4, LenProperties, MaxStreamAssumption
    <3> QED
      BY <2>3, <3>1
  <2>6. stream' = stream \o chunk
    BY <2>1 DEF R!ReadSome
  <2>7. Len(stream') = Len(stream) + Len(chunk)
    BY <2>2, <2>3, <2>6, ConcatProperties
  <2>8. Len(stream') <= MaxStream
    <3>1. n <= MaxStream - Len(stream)
      BY <2>2, <2>4, MaxStreamAssumption
    <3> QED
      BY <2>2, <2>3, <2>5, <2>7, <3>1, MaxStreamAssumption
  <2> QED
    BY <1>2, <2>3, <2>6, <2>8
<1>4. CASE ~(\E chunk \in R!Chunk : R!ReadSome(chunk))
  <2>1. stream' = stream
    BY <1>4 DEF ReaderStep, R!NextDone, R!NextBuffered, R!NextCompact, R!ReadError,
                R!ReadNothing
  <2> QED
    BY <1>2, <2>1
<1> QED
  BY <1>3, <1>4

\* What the answer of a step says.
LEMMA ReaderAnswers ==
  ASSUME RP!IInv, ReaderStep
  PROVE  /\ block'.status \in {"BLOCK", "END", "ERROR", "PENDING"}
         /\ block'.status = "BLOCK" =>
              /\ block'.ptr \in Nat
              /\ block'.len \in 1 .. WordWidth
              /\ block'.ptr + block'.len = buf_offset'
              /\ block'.offset = stream_offset
              /\ stream_offset' = stream_offset + block'.len
              /\ block'.ptr + WordWidth <= Cap
              /\ ~done
         /\ block'.status # "BLOCK" => stream_offset' = stream_offset
         /\ block'.status = "ERROR" => ~done
<1>1. RP!IInv'
  BY ReaderGoesOn
<1>2. /\ len \in 0 .. Cap /\ buf_offset \in 0 .. len /\ stream_offset \in Nat
      /\ Cap \in Nat /\ WordWidth \in Nat
  BY ReaderTypes
<1>3. block'.status = "BLOCK" =>
        /\ block'.ptr + block'.len = buf_offset'
        /\ block'.len \in 1 .. WordWidth
        /\ block'.ptr + WordWidth <= Cap
        /\ block'.ptr \in Nat
  BY <1>1 DEF RP!IInv, RP!TypeOK, RP!LastSlice, RP!HandedOut
<1>4. pc = "reading" => ~done /\ block.status = "PENDING"
  BY DEF RP!IInv, RP!InLoop, RP!Waiting
<1>5. CASE R!NextDone
  BY <1>5 DEF R!NextDone, R!Answer
<1>6. CASE R!NextBuffered
  BY <1>2, <1>3, <1>6 DEF R!NextBuffered, R!Yield
<1>7. CASE R!NextCompact
  BY <1>7 DEF R!NextCompact, R!Answer
<1>8. CASE R!ReadError
  BY <1>4, <1>8 DEF R!ReadError, R!Answer
<1>9. CASE R!ReadNothing
  BY <1>2, <1>3, <1>4, <1>9 DEF R!ReadNothing, R!Answer, R!Yield
<1>10. CASE \E chunk \in R!Chunk : R!ReadSome(chunk)
  BY <1>2, <1>3, <1>4, <1>10 DEF R!ReadSome, R!Yield
<1> QED
  BY <1>5, <1>6, <1>7, <1>8, <1>9, <1>10 DEF ReaderStep

-----------------------------------------------------------------------------
(* Views *)

\* The octets of the stream s from o on.
LEMMA OctetsFrom ==
  ASSUME NEW X, NEW s \in Seq(X), NEW o \in Nat, NEW n \in Nat, o + n <= Len(s)
  PROVE  /\ SubSeq(s, o + 1, o + n) \in Seq(X)
         /\ Len(SubSeq(s, o + 1, o + n)) = n
         /\ DOMAIN SubSeq(s, o + 1, o + n) = 1 .. n
         /\ \A i \in 1 .. n : SubSeq(s, o + 1, o + n)[i] = s[o + i]
<1>1. Len(s) \in Nat
  BY LenProperties
<1>2. \A i \in o + 1 .. o + n : s[i] \in X
  BY <1>1, ElementOfSeq
<1>3. /\ SubSeq(s, o + 1, o + n) \in Seq(X)
      /\ Len(SubSeq(s, o + 1, o + n)) = IF o + 1 <= o + n THEN (o + n) - (o + 1) + 1 ELSE 0
      /\ \A i \in 1 .. (o + n) - (o + 1) + 1 : SubSeq(s, o + 1, o + n)[i] = s[o + 1 + i - 1]
  BY <1>1, <1>2, SubSeqProperties
<1>4. DOMAIN SubSeq(s, o + 1, o + n) = 1 .. Len(SubSeq(s, o + 1, o + n))
  BY <1>3, LenProperties
<1>5. Len(SubSeq(s, o + 1, o + n)) = n
  BY <1>1, <1>3
<1>6. (o + n) - (o + 1) + 1 = n
  BY <1>1
<1>7. \A i \in 1 .. n : o + 1 + i - 1 = o + i
  BY <1>1
<1> QED
  BY <1>3, <1>4, <1>5, <1>6, <1>7

\* A view is as long as it is meant to be.
LEMMA ViewIs ==
  ASSUME NEW at \in Nat, NEW n \in Nat
  PROVE  /\ View(at, n) \in Seq(Nat)
         /\ Len(View(at, n)) = n
         /\ \A i \in 1 .. n : View(at, n)[i] = at + i - 1
<1>1. View(at, n) \in [1 .. n -> Nat]
  BY DEF View
<1>2. View(at, n) \in Seq(Nat)
  BY <1>1, SeqDef
<1> QED
  BY <1>1, <1>2, LenProperties DEF View

\* A part of a view is the view of a part.
LEMMA PartOfView ==
  ASSUME NEW at \in Nat, NEW n \in Nat, NEW k \in 0 .. n
  PROVE  /\ SubSeq(View(at, n), 1, k) = View(at, k)
         /\ SubSeq(View(at, n), k + 1, Len(View(at, n))) = View(at + k, n - k)
<1>1. /\ View(at, n) \in Seq(Nat) /\ Len(View(at, n)) = n
      /\ \A i \in 1 .. n : View(at, n)[i] = at + i - 1
  BY ViewIs
<1>2. /\ View(at, k) \in Seq(Nat) /\ Len(View(at, k)) = k
      /\ \A i \in 1 .. k : View(at, k)[i] = at + i - 1
  BY ViewIs
<1>3. /\ View(at + k, n - k) \in Seq(Nat) /\ Len(View(at + k, n - k)) = n - k
      /\ \A i \in 1 .. n - k : View(at + k, n - k)[i] = at + k + i - 1
  <2> DEFINE p == at + k
             q == n - k
  <2>1. p \in Nat /\ q \in Nat
    OBVIOUS
  <2> HIDE DEF p, q
  <2>2. /\ View(p, q) \in Seq(Nat) /\ Len(View(p, q)) = q
        /\ \A i \in 1 .. q : View(p, q)[i] = p + i - 1
    BY <2>1, ViewIs
  <2> QED
    BY <2>2 DEF p, q
<1> DEFINE v == View(at, n)
<1>v. v \in Seq(Nat) /\ k \in 0 .. Len(v)
  BY <1>1
<1> HIDE DEF v
<1>4. /\ SubSeq(v, 1, k) \in Seq(Nat) /\ Len(SubSeq(v, 1, k)) = k
      /\ \A i \in 1 .. k : SubSeq(v, 1, k)[i] = v[i]
  BY <1>v, FirstOctets
<1>5. /\ SubSeq(v, k + 1, Len(v)) \in Seq(Nat) /\ Len(SubSeq(v, k + 1, Len(v))) = Len(v) - k
      /\ \A i \in 1 .. Len(v) - k : SubSeq(v, k + 1, Len(v))[i] = v[k + i]
  BY <1>v, OctetsAfter
<1>6. SubSeq(v, 1, k) = View(at, k)
  <2>1. \A i \in 1 .. k : SubSeq(v, 1, k)[i] = View(at, k)[i]
    BY <1>1, <1>2, <1>4 DEF v
  <2> QED
    BY <1>2, <1>4, <2>1, SeqEqual
<1>7. SubSeq(v, k + 1, Len(v)) = View(at + k, n - k)
  <2>1. Len(v) = n
    BY <1>1 DEF v
  <2>2. ASSUME NEW i \in 1 .. n - k
        PROVE  SubSeq(v, k + 1, Len(v))[i] = View(at + k, n - k)[i]
    <3>1. k + i \in 1 .. n /\ at + (k + i) - 1 = at + k + i - 1
      OBVIOUS
    <3>2. v[k + i] = at + (k + i) - 1
      BY <1>1, <3>1 DEF v
    <3> QED
      BY <1>3, <1>5, <2>1, <3>1, <3>2
  <2> QED
    BY <1>3, <1>5, <2>1, <2>2, SeqEqual
<1> QED
  BY <1>6, <1>7 DEF v

\* Through a view that lies before buf_offset whoever holds it reads the octets
\* just before stream_offset.
LEMMA ThroughView ==
  ASSUME RP!IInv, NEW k \in 0 .. buf_offset, NEW n \in 0 .. k
  PROVE  /\ stream_offset - k \in Nat
         /\ Through(View(buf_offset - k, n)) = InStream(stream_offset - k, n)
<1>1. /\ stream \in Seq(StreamOctet) /\ Len(stream) \in Nat
      /\ len \in 0 .. Cap /\ buf_offset \in 0 .. len /\ buf_offset \in Nat
      /\ stream_offset \in Nat /\ stream_offset <= Len(stream) /\ buf_offset <= stream_offset
  BY ReaderTypes
<1> DEFINE o == stream_offset - k
           at == buf_offset - k
<1>2. o \in Nat /\ o + n <= Len(stream) /\ at \in Nat /\ n \in Nat /\ at + n <= len
      /\ o - at = stream_offset - buf_offset
  BY <1>1
<1>3. \A i \in 0 .. len - 1 : buf[i] = stream[(o - at) + i + 1]
  BY <1>2 DEF RP!IInv, RP!Mirror, RP!Base
<1> HIDE DEF o, at
<1>4. /\ View(at, n) \in Seq(Nat) /\ Len(View(at, n)) = n
      /\ \A i \in 1 .. n : View(at, n)[i] = at + i - 1
  BY <1>2, ViewIs
<1>5. /\ InStream(o, n) \in Seq(StreamOctet) /\ Len(InStream(o, n)) = n
      /\ DOMAIN InStream(o, n) = 1 .. n
      /\ \A i \in 1 .. n : InStream(o, n)[i] = stream[o + i]
  BY <1>1, <1>2, OctetsFrom DEF InStream
<1>6. ASSUME NEW i \in 1 .. n PROVE buf[View(at, n)[i]] = InStream(o, n)[i]
  <2>1. at + i - 1 \in 0 .. len - 1 /\ (o - at) + (at + i - 1) + 1 = o + i
    BY <1>1, <1>2
  <2>2. buf[at + i - 1] = stream[(o - at) + (at + i - 1) + 1]
    BY <1>3, <2>1
  <2> QED
    BY <1>4, <1>5, <2>1, <2>2
<1>7. Through(View(at, n)) = [i \in 1 .. n |-> buf[View(at, n)[i]]]
  BY <1>4 DEF Through
<1>8. InStream(o, n) = [i \in 1 .. n |-> InStream(o, n)[i]]
  BY <1>5, LenProperties
<1>9. Through(View(at, n)) = InStream(o, n)
  BY <1>6, <1>7, <1>8
<1> QED
  BY <1>2, <1>9 DEF o, at

-----------------------------------------------------------------------------
(* The invariant *)

\* Where the edge of a window may be.
LEMMA EdgeIn ==
  ASSUME NEW w \in ViewWindow, w.rest # <<>>, w.mask \subseteq 0 .. Len(w.rest) - 1
  PROVE  /\ Len(w.rest) \in Nat
         /\ (IF Edge(w) > 0 THEN Edge(w) ELSE 1) \in 1 .. Len(w.rest)
<1>1. Len(w.rest) \in Nat /\ Len(w.rest) > 0 /\ w.mask \in Word
  BY LenProperties, EmptySeq DEF ViewWindow
<1>2. w.mask # {} => Edge(w) \in w.mask
  BY <1>1, TrailingZerosIs DEF Edge
<1>3. w.mask = {} => Edge(w) = Len(w.rest)
  BY DEF Edge
<1>4. Edge(w) \in 0 .. Len(w.rest)
  BY <1>1, <1>2, <1>3
<1> QED
  BY <1>1, <1>4

\* A call that hands out the first token of a window leaves one that goes on
\* where the token ends.
LEMMA HandViewKeeps ==
  ASSUME NEW w, NEW to \in Nat, NEW end \in Nat, Ends(w, to, end), w.rest # <<>>,
         HandView(w), buf_offset' = to, stream_offset' = end
  PROVE  /\ Ends(window, buf_offset, stream_offset)'
         /\ TokenBefore'
         /\ held' \in BOOLEAN
         /\ token'.offset = w.offset
         /\ Len(window'.rest) < Len(w.rest)
         /\ token'.bytes # <<>>
<1> DEFINE n == IF Edge(w) > 0 THEN Edge(w) ELSE 1
           m == Len(w.rest)
<1>1. /\ w \in ViewWindow /\ m <= to /\ m <= WordWidth
      /\ w.rest = View(to - m, m)
      /\ w.mask \subseteq 0 .. m - 1 /\ w.mask \in Word
      /\ w.offset + m = end /\ w.offset \in Nat
      /\ WordWidth \in Nat
  BY WordWidthAssumption DEF Ends, ViewWindow
<1>2. m \in Nat /\ n \in 1 .. m
  BY <1>1, EdgeIn
<1>3. /\ token' = [kind |-> IF Edge(w) > 0 THEN "BYTES" ELSE "STRUCTURAL",
                   bytes |-> SubSeq(w.rest, 1, n),
                   offset |-> w.offset]
      /\ window' = WindowAfter(w, n)
      /\ held' = TRUE
  BY DEF HandView
<1> HIDE DEF n, m
<1>4. /\ SubSeq(w.rest, 1, n) = View(to - m, n)
      /\ SubSeq(w.rest, n + 1, Len(w.rest)) = View((to - m) + n, m - n)
  <2> DEFINE at == to - m
             v == View(at, m)
  <2>1. at \in Nat /\ n \in 0 .. m
    BY <1>1, <1>2
  <2>2. w.rest = v
    BY <1>1
  <2> HIDE DEF at
  <2>3. /\ SubSeq(v, 1, n) = View(at, n)
        /\ SubSeq(v, n + 1, Len(v)) = View(at + n, m - n)
    BY <1>2, <2>1, PartOfView
  <2> HIDE DEF v
  <2> QED
    BY <2>2, <2>3 DEF at
<1>5. (to - m) + n = to - (m - n) /\ m - n \in Nat /\ n \in Nat /\ to - m \in Nat
      /\ to - (m - n) \in Nat
  BY <1>1, <1>2
<1>6. /\ View(to - m, n) \in Seq(Nat) /\ Len(View(to - m, n)) = n
      /\ View(to - (m - n), m - n) \in Seq(Nat) /\ Len(View(to - (m - n), m - n)) = m - n
  BY <1>5, ViewIs
<1>7. /\ window'.rest = View(to - (m - n), m - n)
      /\ window'.mask = IF n < WordWidth THEN ShiftRight(w.mask, n) ELSE {}
      /\ window'.offset = w.offset + n
      /\ Len(window'.rest) = m - n
  BY <1>3, <1>4, <1>5, <1>6 DEF WindowAfter
<1>8. window'.mask \subseteq 0 .. (m - n) - 1 /\ window'.mask \in Word
  <2>1. ASSUME NEW i \in window'.mask PROVE i \in Bit /\ i \in 0 .. (m - n) - 1
    <3>1. i \in Bit /\ i + n \in w.mask
      BY <1>7, <2>1 DEF ShiftRight
    <3> QED
      BY <1>1, <1>2, <3>1 DEF Bit
  <2> QED
    BY <2>1 DEF Word
<1>9. window' \in ViewWindow
  <2>1. window' = [rest |-> window'.rest, mask |-> window'.mask, offset |-> window'.offset]
    BY <1>3 DEF WindowAfter
  <2>2. window'.rest \in Seq(Nat) /\ window'.offset \in Nat
    BY <1>1, <1>5, <1>6, <1>7
  <2> QED
    BY <1>8, <2>1, <2>2 DEF ViewWindow
<1>10. Ends(window, buf_offset, stream_offset)'
  <2>1. m - n <= to /\ m - n <= WordWidth /\ (w.offset + n) + (m - n) = end
    BY <1>1, <1>2, <1>5
  <2>2. window'.rest = View(buf_offset' - Len(window'.rest), Len(window'.rest))
    BY <1>7
  <2> QED
    BY <1>7, <1>8, <1>9, <2>1, <2>2 DEF Ends
<1>11. /\ token'.bytes = View(to - m, n) /\ Len(token'.bytes) = n
       /\ token'.offset = w.offset
       /\ token' \in ViewToken
  BY <1>1, <1>3, <1>4, <1>6 DEF ViewToken
<1>12. TokenBefore'
  <2>1. to - (m - n) - n = to - m /\ n + (m - n) <= to
    BY <1>1, <1>2, <1>5
  <2>2. token'.bytes = View(buf_offset' - Len(window'.rest) - Len(token'.bytes),
                            Len(token'.bytes))
    BY <1>7, <1>11, <2>1
  <2> QED
    BY <1>7, <1>11, <2>1, <2>2 DEF TokenBefore
<1>13. token'.bytes # <<>> /\ Len(window'.rest) < m
  BY <1>2, <1>7, <1>11, EmptySeq
<1> QED
  BY <1>3, <1>10, <1>11, <1>12, <1>13 DEF m

\* A call of jsp_scan_next that reaches for a block, at the reader's step.
Fetching ==
  /\ Asking
  /\ window.rest = <<>>
  /\ ReaderStep
  /\ CASE block'.status = "BLOCK" -> TakeBlock
       [] block'.status \in {"END", "ERROR"} ->
            answer' = block'.status /\ UNCHANGED <<carry, window, token, held>>
       [] block'.status = "PENDING" -> UNCHANGED scan

\* The four ways to reach for a block differ in the reader's step only.
LEMMA FetchIs ==
  ASSUME \/ FetchBuffered
         \/ FetchFails
         \/ FetchEnd
         \/ \E chunk \in R!Chunk : FetchSome(chunk)
  PROVE  Fetching
<1>1. CASE FetchBuffered
  BY <1>1, Zenon DEF FetchBuffered, Fetch, Fetching, ReaderStep, WindowSpent
<1>2. CASE FetchFails
  BY <1>2, Zenon DEF FetchFails, Fetch, Fetching, ReaderStep, WindowSpent
<1>3. CASE FetchEnd
  BY <1>3, Zenon DEF FetchEnd, Fetch, Fetching, ReaderStep, WindowSpent
<1>4. CASE \E chunk \in R!Chunk : FetchSome(chunk)
  BY <1>4, Zenon DEF FetchSome, Fetch, Fetching, ReaderStep, WindowSpent
<1> QED
  BY <1>1, <1>2, <1>3, <1>4

\* What a step that reaches for a block leaves: by the reader's answer, the
\* block's first token or nothing.
LEMMA FetchingIs ==
  ASSUME Fetching, RP!IInv
  PROVE  \/ block'.status = "BLOCK" /\ TakeBlock
         \/ /\ block'.status \in {"END", "ERROR"}
            /\ answer' = block'.status
            /\ UNCHANGED <<carry, window, token, held>>
         \/ block'.status = "PENDING" /\ UNCHANGED scan
<1>1. block'.status \in {"BLOCK", "END", "ERROR", "PENDING"}
  BY ReaderAnswers DEF Fetching
<1>2. CASE block'.status = "BLOCK"
  BY <1>2 DEF Fetching
<1>3. CASE block'.status \in {"END", "ERROR"}
  BY <1>3 DEF Fetching
<1>4. CASE block'.status = "PENDING"
  BY <1>4 DEF Fetching
<1> QED
  BY <1>1, <1>2, <1>3, <1>4

\* The window over the block that the reader answers with.
LEMMA BlockTaken ==
  ASSUME KInv, Fetching, block'.status = "BLOCK"
  PROVE  LET n == block'.len
         IN /\ n \in 1 .. WordWidth
            /\ stream_offset' = stream_offset + n
            /\ ~done
            /\ \E octets \in [1 .. WordWidth -> Kind], w \in ViewWindow :
                 /\ \A i \in 1 .. WordWidth : octets[i] = KindOf[buf'[block'.ptr + i - 1]]
                 /\ w = [rest |-> View(block'.ptr, n),
                         mask |-> Trimmed(Structure(octets, carry).mask, n),
                         offset |-> stream_offset]
                 /\ Len(w.rest) = n
                 /\ w.rest # <<>>
                 /\ Ends(w, buf_offset', stream_offset')
                 /\ carry' = Structure(octets, carry).carry
                 /\ carry' \in Carry
                 /\ HandView(w)
<1> DEFINE n == block'.len
           octets == [i \in 1 .. WordWidth |-> KindOf[buf'[block'.ptr + i - 1]]]
           w == [rest |-> View(block'.ptr, n),
                 mask |-> Trimmed(Structure(octets, carry).mask, n),
                 offset |-> stream_offset]
<1>1. RP!IInv /\ RP!IInv' /\ carry \in Carry
  BY ReaderGoesOn DEF KInv, Fetching
<1>2. /\ block'.ptr \in Nat
      /\ n \in 1 .. WordWidth
      /\ block'.ptr + n = buf_offset'
      /\ block'.offset = stream_offset
      /\ stream_offset' = stream_offset + n
      /\ block'.ptr + WordWidth <= Cap
      /\ ~done
  BY <1>1, ReaderAnswers DEF Fetching
<1>3. stream_offset \in Nat /\ Cap \in Nat /\ WordWidth \in Nat /\ n \in Nat
  BY <1>1, <1>2, ReaderTypes
<1>4. buf' \in [0 .. Cap - 1 -> StreamOctet]
  BY <1>1 DEF RP!IInv, RP!TypeOK, RP!Index
<1>5. octets \in [1 .. WordWidth -> Kind]
  <2>1. ASSUME NEW i \in 1 .. WordWidth PROVE KindOf[buf'[block'.ptr + i - 1]] \in Kind
    <3>1. block'.ptr + i - 1 \in 0 .. Cap - 1
      BY <1>2, <1>3
    <3> QED
      BY <1>4, <3>1, KindAssumption
  <2> QED
    BY <2>1
<1>6. carry' = Structure(octets, carry).carry /\ HandView(w)
  <2>1. TakeBlock
    BY DEF Fetching
  <2>2. BlockOffset = stream_offset
    BY <1>2 DEF BlockOffset
  <2> QED
    BY <2>1, <2>2 DEF TakeBlock
<1>7. Structure(octets, carry).carry \in Carry
  <2> HIDE DEF octets
  <2> QED
    BY <1>1, <1>5, StructureIs
<1> DEFINE mask == Trimmed(Structure(octets, carry).mask, n)
<1>8. mask \subseteq 0 .. n - 1 /\ mask \in Word
  <2>1. LowMask(n) = 0 .. n - 1
    BY <1>2, <1>3 DEF LowMask, ShiftRight, Bit
  <2>2. 0 .. n - 1 \subseteq Bit
    BY <1>2, <1>3 DEF Bit
  <2> QED
    BY <2>1, <2>2 DEF Trimmed, Word
<1> HIDE DEF octets, mask
<1>9. /\ View(block'.ptr, n) \in Seq(Nat) /\ Len(View(block'.ptr, n)) = n
  BY <1>2, <1>3, ViewIs
<1>10. w \in ViewWindow /\ Len(w.rest) = n /\ w.rest # <<>>
  <2>1. w = [rest |-> View(block'.ptr, n), mask |-> mask, offset |-> stream_offset]
    BY DEF mask
  <2>2. w.rest = View(block'.ptr, n)
    OBVIOUS
  <2>3. w.rest # <<>>
    BY <1>2, <1>3, <1>9, <2>2, EmptySeq
  <2> QED
    BY <1>3, <1>8, <1>9, <2>1, <2>2, <2>3 DEF ViewWindow
<1>11. Ends(w, buf_offset', stream_offset')
  <2>1. n <= buf_offset' /\ buf_offset' - n = block'.ptr
    BY <1>2, <1>3
  <2>2. w.rest = View(buf_offset' - Len(w.rest), Len(w.rest))
    BY <1>10, <2>1
  <2>3. w.mask = mask /\ w.offset = stream_offset
    BY DEF mask
  <2> HIDE DEF w
  <2> QED
    BY <1>2, <1>3, <1>8, <1>10, <2>1, <2>2, <2>3 DEF Ends
<1>12. w = [rest |-> View(block'.ptr, n),
            mask |-> Trimmed(Structure(octets, carry).mask, n),
            offset |-> stream_offset]
  OBVIOUS
<1>13. \A i \in 1 .. WordWidth : octets[i] = KindOf[buf'[block'.ptr + i - 1]]
  BY DEF octets
<1> HIDE DEF w
<1>14. carry' \in Carry
  BY <1>6, <1>7
<1> QED
  BY <1>2, <1>5, <1>6, <1>10, <1>11, <1>12, <1>13, <1>14

\* The invariant holds before the first call.
LEMMA KInitInv == KInit => KInv
<1> SUFFICES ASSUME KInit PROVE KInv
  OBVIOUS
<1>1. RP!IInv
  <2>1. RP!Init
    BY NulAssumption DEF KInit, R!Init, RP!Init, R!Index, RP!Index, R!Answer, RP!Answer
  <2> QED
    BY <2>1, ReaderAssumptions, RP!InitInv
<1>2. Len(stream) = 0 /\ buf_offset = 0 /\ stream_offset = 0
  BY EmptySeq DEF KInit, R!Init
<1>3. carry \in Carry /\ held \in BOOLEAN /\ held = FALSE
  BY DEF KInit, Carry
<1>4. /\ View(0, 0) \in Seq(Nat) /\ Len(View(0, 0)) = 0
  BY ViewIs
<1>5. View(0, 0) = <<>>
  BY <1>4, EmptySeq
<1>6. /\ window.rest = <<>> /\ window.mask = {} /\ window.offset = 0
      /\ window \in ViewWindow /\ Len(window.rest) = 0
  BY EmptySeq DEF KInit, ViewWindow, Word
<1>7. Ends(window, buf_offset, stream_offset)
  BY <1>2, <1>5, <1>6, WordWidthAssumption DEF Ends
<1>8. TokenBefore
  <2>1. /\ token \in ViewToken /\ token.offset = 0 /\ Len(token.bytes) = 0
    BY EmptySeq DEF KInit, ViewToken
  <2> QED
    BY <1>3, <1>6, <2>1 DEF TokenBefore
<1> QED
  BY <1>1, <1>2, <1>3, <1>7, <1>8, MaxStreamAssumption DEF KInv

\* Every step keeps the invariant.
LEMMA KNextInv == KInv /\ [KNext]_kvars => KInv'
<1> SUFFICES ASSUME KInv, [KNext]_kvars PROVE KInv'
  OBVIOUS
<1>1. /\ RP!IInv /\ Len(stream) <= MaxStream /\ carry \in Carry /\ held \in BOOLEAN
      /\ Ends(window, buf_offset, stream_offset) /\ TokenBefore
  BY DEF KInv
<1>2. buf_offset \in Nat /\ stream_offset \in Nat
  BY <1>1, ReaderTypes
<1>3. CASE UNCHANGED reader
  <2>1. RP!IInv'
    <3>1. UNCHANGED RP!vars
      BY <1>3 DEF reader, RP!vars
    <3> QED
      BY <1>1, <3>1, ReaderAssumptions, RP!NextInv
  <2>2. UNCHANGED <<stream, buf_offset, stream_offset>>
    BY <1>3 DEF reader
  <2>3. CASE NextInBlock
    <3>1. HandView(window) /\ window.rest # <<>> /\ carry' = carry
      BY <2>3 DEF NextInBlock, WindowSpent
    <3>2. Ends(window, buf_offset, stream_offset)' /\ TokenBefore' /\ held' \in BOOLEAN
      BY <1>1, <1>2, <2>2, <3>1, HandViewKeeps
    <3> QED
      BY <1>1, <2>1, <2>2, <3>1, <3>2 DEF KInv
  <2>4. CASE Release \/ UNCHANGED kvars
    <3>1. UNCHANGED <<carry, window, token>> /\ held' \in BOOLEAN /\ (held' => held)
      <4>1. CASE Release
        BY <4>1 DEF Release
      <4>2. CASE UNCHANGED kvars
        BY <1>1, <4>2 DEF kvars, scan
      <4> QED
        BY <2>4, <4>1, <4>2
    <3>2. Ends(window, buf_offset, stream_offset)' /\ TokenBefore'
      BY <1>1, <2>2, <3>1 DEF Ends, TokenBefore
    <3> QED
      BY <1>1, <2>1, <2>2, <3>1, <3>2 DEF KInv
  <2>5. CASE Fetching
    <3>1. ReaderStep /\ window.rest = <<>> /\ held = FALSE
      BY <1>1, <2>5 DEF Fetching, Asking
    <3>2. block'.status # "BLOCK"
      <4>1. block'.status = "BLOCK" => stream_offset' = stream_offset + block'.len
                                       /\ block'.len \in 1 .. WordWidth
        BY <1>1, <3>1, ReaderAnswers
      <4> QED
        BY <1>2, <2>2, <4>1, WordWidthAssumption
    <3>3. UNCHANGED <<carry, window, token, held>>
      BY <1>1, <2>5, <3>2, FetchingIs DEF scan
    <3>4. Ends(window, buf_offset, stream_offset)' /\ TokenBefore'
      BY <1>1, <2>2, <3>3 DEF Ends, TokenBefore
    <3> QED
      BY <1>1, <2>1, <2>2, <3>3, <3>4 DEF KInv
  <2> QED
    BY <2>3, <2>4, <2>5, FetchIs DEF KNext
<1>4. CASE Fetching
  <2>1. ReaderStep /\ window.rest = <<>> /\ held = FALSE
    BY <1>1, <1>4 DEF Fetching, Asking
  <2>2. RP!IInv' /\ Len(stream') <= MaxStream
    BY <1>1, <2>1, ReaderGoesOn
  <2>3. buf_offset' \in Nat /\ stream_offset' \in Nat
    <3>1. RP!TypeOK'
      BY <2>2 DEF RP!IInv
    <3>2. len' \in 0 .. Cap /\ buf_offset' \in 0 .. len' /\ stream_offset' \in Nat
      BY <3>1 DEF RP!TypeOK
    <3> QED
      BY <3>2, WholeBlocksAssumption
  <2>4. CASE block'.status = "BLOCK"
    <3>1. PICK w \in ViewWindow :
            /\ w.rest # <<>>
            /\ Ends(w, buf_offset', stream_offset')
            /\ carry' \in Carry
            /\ HandView(w)
      BY <1>4, <2>4, BlockTaken
    <3> DEFINE to == buf_offset'
               end == stream_offset'
    <3>2. Ends(w, to, end) /\ to \in Nat /\ end \in Nat /\ buf_offset' = to /\ stream_offset' = end
      BY <2>3, <3>1
    <3> HIDE DEF to, end
    <3>3. Ends(window, buf_offset, stream_offset)' /\ TokenBefore' /\ held' \in BOOLEAN
      BY <3>1, <3>2, HandViewKeeps
    <3> QED
      BY <2>2, <3>1, <3>3 DEF KInv
  <2>5. CASE block'.status # "BLOCK"
    <3>1. UNCHANGED <<carry, window, token, held>> /\ stream_offset' = stream_offset
      BY <1>1, <1>4, <2>1, <2>5, FetchingIs, ReaderAnswers DEF scan
    <3>2. Ends(window, buf_offset, stream_offset)'
      <4>1. window.rest = View(buf_offset' - 0, 0) /\ Len(window.rest) = 0
        <5>1. View(buf_offset', 0) \in Seq(Nat) /\ Len(View(buf_offset', 0)) = 0
          BY <2>3, ViewIs
        <5>2. View(buf_offset', 0) = <<>> /\ Len(<<>>) = 0
          BY <5>1, EmptySeq
        <5> QED
          BY <2>1, <2>3, <5>2
      <4> QED
        BY <1>1, <2>3, <3>1, <4>1 DEF Ends
    <3>3. TokenBefore'
      BY <1>1, <2>1, <3>1 DEF TokenBefore
    <3> QED
      BY <1>1, <2>2, <3>1, <3>2, <3>3 DEF KInv
  <2> QED
    BY <2>4, <2>5
<1>5. CASE NextInBlock \/ Release \/ UNCHANGED kvars
  <2>1. UNCHANGED reader
    BY <1>5 DEF NextInBlock, Release, kvars
  <2> QED
    BY <1>3, <2>1
<1> QED
  BY <1>4, <1>5, FetchIs DEF KNext

\* The invariant holds of every behaviour.
LEMMA KInvHolds == KSpec => []KInv
  BY KInitInv, KNextInv, PTL DEF KSpec

\* What the invariant says of the addresses is what a holder of a view relies on.
LEMMA KInvViews == KInv => ViewsAreStream
<1> SUFFICES ASSUME KInv PROVE ViewsAreStream
  OBVIOUS
<1>1. RP!IInv /\ Ends(window, buf_offset, stream_offset) /\ TokenBefore
  BY DEF KInv
<1>2. buf_offset \in Nat /\ stream_offset \in Nat
  BY <1>1, ReaderTypes
<1> DEFINE k == Len(window.rest)
           m == Len(token.bytes)
<1>3. k \in Nat /\ m \in Nat /\ window.offset \in Nat /\ token.offset \in Nat
  BY <1>1, LenProperties DEF Ends, TokenBefore, ViewWindow, ViewToken
<1>4. /\ k <= buf_offset
      /\ window.rest = View(buf_offset - k, k)
      /\ window.offset + k = stream_offset
      /\ token.offset + m = window.offset
      /\ held => /\ m + k <= buf_offset
                 /\ token.bytes = View(buf_offset - k - m, m)
  BY <1>1 DEF Ends, TokenBefore
<1> HIDE DEF k, m
<1>5. Through(window.rest) = InStream(window.offset, k)
  <2>1. k \in 0 .. buf_offset /\ k \in 0 .. k /\ stream_offset - k = window.offset
    BY <1>2, <1>3, <1>4
  <2> QED
    BY <1>1, <1>4, <2>1, ThroughView
<1>6. ASSUME held PROVE Through(token.bytes) = InStream(token.offset, m)
  <2> DEFINE j == k + m
  <2>1. /\ j \in 0 .. buf_offset /\ m \in 0 .. j
        /\ stream_offset - j = token.offset /\ buf_offset - k - m = buf_offset - j
    BY <1>2, <1>3, <1>4, <1>6
  <2> HIDE DEF j
  <2>2. Through(View(buf_offset - j, m)) = InStream(stream_offset - j, m)
    BY <1>1, <2>1, ThroughView
  <2> QED
    BY <1>4, <1>6, <2>1, <2>2
<1> QED
  BY <1>5, <1>6 DEF ViewsAreStream, k, m

\* Whoever holds a view reads the stream through it, at the offset that came with
\* it, though the reader's calls in between move the octets below.
THEOREM ViewsHold == KSpec => []ViewsAreStream
  BY KInvHolds, KInvViews, PTL

-----------------------------------------------------------------------------
(* The stream as the scan reads it *)

\* The kinds of octets.
LEMMA KindsAre ==
  ASSUME NEW s \in Seq(StreamOctet)
  PROVE  /\ Kinds(s) \in Seq(Kind)
         /\ Len(Kinds(s)) = Len(s)
         /\ \A i \in 1 .. Len(s) : Kinds(s)[i] = KindOf[s[i]]
<1>1. Len(s) \in Nat /\ \A i \in 1 .. Len(s) : s[i] \in StreamOctet
  BY LenProperties, ElementOfSeq
<1>2. Kinds(s) \in [1 .. Len(s) -> Kind]
  BY <1>1, KindAssumption DEF Kinds
<1>3. Kinds(s) \in Seq(Kind)
  BY <1>1, <1>2, SeqDef
<1> QED
  BY <1>1, <1>2, <1>3, LenProperties DEF Kinds

\* The reader of single octets after the first n octets of s.
TextOf(s, n) == PastFirst(StartOfText, Kinds(s), n)

\* It starts outside of strings and is one at every octet of the stream.
LEMMA TextTypes ==
  ASSUME NEW s \in Seq(StreamOctet), NEW n \in 0 .. Len(s)
  PROVE  /\ StartOfText \in TextStates
         /\ TextOf(s, n) \in TextStates
         /\ TextOf(s, 0) = StartOfText
<1>1. StartOfText \in TextStates
  BY DEF StartOfText, TextStates
<1>2. Kinds(s) \in Seq(Kind) /\ Len(Kinds(s)) = Len(s)
  BY KindsAre
<1> QED
  BY <1>1, <1>2, PastFirstNext DEF TextOf

\* Octets that are read later change nothing before them.
LEMMA PrefixStays ==
  ASSUME NEW s \in Seq(StreamOctet), NEW chunk \in Seq(StreamOctet),
         NEW o \in Nat, NEW n \in Nat, o + n <= Len(s)
  PROVE  /\ s \o chunk \in Seq(StreamOctet)
         /\ Len(s) <= Len(s \o chunk)
         /\ \A i \in 1 .. Len(s) : (s \o chunk)[i] = s[i]
         /\ SubSeq(s \o chunk, o + 1, o + n) = SubSeq(s, o + 1, o + n)
         /\ TextOf(s \o chunk, n) = TextOf(s, n)
<1>1. Len(s) \in Nat /\ Len(chunk) \in Nat
  BY LenProperties
<1> DEFINE u == s \o chunk
<1>2. /\ u \in Seq(StreamOctet)
      /\ Len(u) = Len(s) + Len(chunk)
      /\ \A i \in 1 .. Len(s) : u[i] = s[i]
  <2>1. \A i \in 1 .. Len(s) + Len(chunk) : u[i] = IF i <= Len(s) THEN s[i] ELSE chunk[i - Len(s)]
    BY <1>1, ConcatProperties
  <2>2. u \in Seq(StreamOctet) /\ Len(u) = Len(s) + Len(chunk)
    BY <1>1, ConcatProperties
  <2> HIDE DEF u
  <2> QED
    BY <1>1, <2>1, <2>2
<1> HIDE DEF u
<1>3. SubSeq(u, o + 1, o + n) = SubSeq(s, o + 1, o + n)
  <2>1. /\ SubSeq(s, o + 1, o + n) \in Seq(StreamOctet) /\ Len(SubSeq(s, o + 1, o + n)) = n
        /\ \A i \in 1 .. n : SubSeq(s, o + 1, o + n)[i] = s[o + i]
    BY OctetsFrom
  <2>2. o + n <= Len(u) /\ u \in Seq(StreamOctet)
    BY <1>1, <1>2
  <2>3. /\ SubSeq(u, o + 1, o + n) \in Seq(StreamOctet) /\ Len(SubSeq(u, o + 1, o + n)) = n
        /\ \A i \in 1 .. n : SubSeq(u, o + 1, o + n)[i] = u[o + i]
    BY <2>2, OctetsFrom
  <2>4. \A i \in 1 .. n : o + i \in 1 .. Len(s)
    BY <1>1
  <2>5. \A i \in 1 .. n : SubSeq(u, o + 1, o + n)[i] = SubSeq(s, o + 1, o + n)[i]
    BY <1>2, <2>1, <2>3, <2>4
  <2> QED
    BY <2>1, <2>3, <2>5, SeqEqual
<1>4. TextOf(u, n) = TextOf(s, n)
  <2>1. /\ Kinds(s) \in Seq(Kind) /\ Len(Kinds(s)) = Len(s)
        /\ \A i \in 1 .. Len(s) : Kinds(s)[i] = KindOf[s[i]]
    BY KindsAre
  <2>2. /\ Kinds(u) \in Seq(Kind) /\ Len(Kinds(u)) = Len(u)
        /\ \A i \in 1 .. Len(u) : Kinds(u)[i] = KindOf[u[i]]
    BY <1>2, KindsAre
  <2>3. n \in 0 .. Len(s) /\ n \in 0 .. Len(u)
    BY <1>1, <1>2
  <2>4. /\ SubSeq(Kinds(s), 1, n) \in Seq(Kind) /\ Len(SubSeq(Kinds(s), 1, n)) = n
        /\ \A i \in 1 .. n : SubSeq(Kinds(s), 1, n)[i] = Kinds(s)[i]
    BY <2>1, <2>3, FirstOctets
  <2>5. /\ SubSeq(Kinds(u), 1, n) \in Seq(Kind) /\ Len(SubSeq(Kinds(u), 1, n)) = n
        /\ \A i \in 1 .. n : SubSeq(Kinds(u), 1, n)[i] = Kinds(u)[i]
    BY <2>2, <2>3, FirstOctets
  <2>6. \A i \in 1 .. n : i \in 1 .. Len(s) /\ i \in 1 .. Len(u)
    BY <1>1, <1>2
  <2>7. ASSUME NEW i \in 1 .. n
        PROVE  SubSeq(Kinds(u), 1, n)[i] = SubSeq(Kinds(s), 1, n)[i]
    <3>1. i \in 1 .. Len(s) /\ i \in 1 .. Len(u)
      BY <2>6
    <3>2. u[i] = s[i]
      BY <1>2, <3>1
    <3>3. Kinds(u)[i] = KindOf[u[i]] /\ Kinds(s)[i] = KindOf[s[i]]
      BY <2>1, <2>2, <3>1
    <3> QED
      BY <2>4, <2>5, <3>2, <3>3
  <2>8. SubSeq(Kinds(u), 1, n) = SubSeq(Kinds(s), 1, n)
    BY <2>4, <2>5, <2>7, SeqEqual
  <2> QED
    BY <2>8 DEF TextOf, PastFirst
<1> QED
  BY <1>1, <1>2, <1>3, <1>4 DEF u

\* A reader of single octets who goes on from o, through n octets.
LEMMA TextGoesOn ==
  ASSUME NEW s \in Seq(StreamOctet), NEW o \in Nat, NEW n \in Nat, o + n <= Len(s),
         NEW i \in 0 .. n
  PROVE  PastFirst(TextOf(s, o), Kinds(SubSeq(s, o + 1, o + n)), i) = TextOf(s, o + i)
<1> DEFINE k == Kinds(s)
           u == SubSeq(k, o + 1, Len(k))
           part == Kinds(SubSeq(s, o + 1, o + n))
<1>1. Len(s) \in Nat
  BY LenProperties
<1>2. /\ k \in Seq(Kind) /\ Len(k) = Len(s)
      /\ \A j \in 1 .. Len(s) : k[j] = KindOf[s[j]]
  BY KindsAre
<1>3. o \in 0 .. Len(k) /\ i \in 0 .. Len(k) - o
  BY <1>1, <1>2
<1>4. StartOfText \in TextStates /\ TextOf(s, o) \in TextStates
  BY <1>1, TextTypes
<1>5. TextOf(s, o) = PastFirst(StartOfText, k, o) /\ TextOf(s, o + i) = PastFirst(StartOfText, k, o + i)
  BY DEF TextOf
<1> HIDE DEF k
<1>6. PastFirst(TextOf(s, o), u, i) = TextOf(s, o + i)
  BY <1>2, <1>3, <1>4, <1>5, PastFirstAfter
<1>7. /\ u \in Seq(Kind) /\ Len(u) = Len(k) - o
      /\ \A j \in 1 .. Len(k) - o : u[j] = k[o + j]
  BY <1>2, <1>3, OctetsAfter
<1> HIDE DEF u
<1>8. n \in 0 .. Len(u)
  BY <1>1, <1>2, <1>7
<1>9. /\ SubSeq(u, 1, n) \in Seq(Kind) /\ Len(SubSeq(u, 1, n)) = n
      /\ \A j \in 1 .. n : SubSeq(u, 1, n)[j] = u[j]
  BY <1>7, <1>8, FirstOctets
<1>10. /\ SubSeq(s, o + 1, o + n) \in Seq(StreamOctet) /\ Len(SubSeq(s, o + 1, o + n)) = n
       /\ \A j \in 1 .. n : SubSeq(s, o + 1, o + n)[j] = s[o + j]
  BY OctetsFrom
<1>11. /\ part \in Seq(Kind) /\ Len(part) = n
       /\ \A j \in 1 .. n : part[j] = KindOf[s[o + j]]
  <2> DEFINE q == SubSeq(s, o + 1, o + n)
  <2> HIDE DEF q
  <2>1. /\ q \in Seq(StreamOctet) /\ Len(q) = n /\ \A j \in 1 .. n : q[j] = s[o + j]
    BY <1>10 DEF q
  <2>2. /\ Kinds(q) \in Seq(Kind) /\ Len(Kinds(q)) = n
        /\ \A j \in 1 .. n : Kinds(q)[j] = KindOf[q[j]]
    BY <2>1, KindsAre
  <2> QED
    BY <2>1, <2>2 DEF q
<1> HIDE DEF part
<1>12. ASSUME NEW j \in 1 .. n PROVE SubSeq(u, 1, n)[j] = part[j]
  <2>1. j \in 1 .. Len(k) - o /\ o + j \in 1 .. Len(s)
    BY <1>1, <1>2
  <2> QED
    BY <1>2, <1>7, <1>9, <1>11, <2>1
<1>13. SubSeq(u, 1, n) = part
  BY <1>9, <1>11, <1>12, SeqEqual
<1>14. PastFirst(TextOf(s, o), SubSeq(u, 1, n), i) = PastFirst(TextOf(s, o), u, i)
  BY <1>4, <1>7, <1>8, PastFirstWithin
<1> QED
  BY <1>6, <1>13, <1>14 DEF part

\* A part of the kinds of octets is the kinds of a part.
LEMMA PartOfKinds ==
  ASSUME NEW s \in Seq(StreamOctet), NEW o \in Nat, NEW k \in Nat, o + k <= Len(s),
         NEW n \in 0 .. k
  PROVE  LET whole == Kinds(SubSeq(s, o + 1, o + k))
         IN /\ whole \in Seq(Kind)
            /\ Len(whole) = k
            /\ SubSeq(whole, 1, n) = Kinds(SubSeq(s, o + 1, o + n))
            /\ SubSeq(whole, n + 1, Len(whole)) =
                 Kinds(SubSeq(s, (o + n) + 1, (o + n) + (k - n)))
<1> DEFINE all == SubSeq(s, o + 1, o + k)
           first == SubSeq(s, o + 1, o + n)
           last == SubSeq(s, (o + n) + 1, (o + n) + (k - n))
           whole == Kinds(all)
<1>1. Len(s) \in Nat /\ n \in Nat /\ k - n \in Nat /\ o + n \in Nat
      /\ o + n <= Len(s) /\ (o + n) + (k - n) <= Len(s)
  BY LenProperties
<1>2. all \in Seq(StreamOctet) /\ Len(all) = k /\ \A i \in 1 .. k : all[i] = s[o + i]
  BY OctetsFrom
<1>3. first \in Seq(StreamOctet) /\ Len(first) = n /\ \A i \in 1 .. n : first[i] = s[o + i]
  <2>1. n \in Nat /\ o + n <= Len(s)
    BY <1>1
  <2> QED
    BY <2>1, OctetsFrom
<1>4. /\ last \in Seq(StreamOctet) /\ Len(last) = k - n
      /\ \A i \in 1 .. k - n : last[i] = s[(o + n) + i]
  <2> DEFINE p == o + n
             q == k - n
  <2>1. p \in Nat /\ q \in Nat /\ p + q <= Len(s)
    BY <1>1
  <2> HIDE DEF p, q
  <2>2. /\ SubSeq(s, p + 1, p + q) \in Seq(StreamOctet) /\ Len(SubSeq(s, p + 1, p + q)) = q
        /\ \A i \in 1 .. q : SubSeq(s, p + 1, p + q)[i] = s[p + i]
    BY <2>1, OctetsFrom
  <2> QED
    BY <2>2 DEF p, q
<1> HIDE DEF all, first, last
<1>5. whole \in Seq(Kind) /\ Len(whole) = k /\ \A i \in 1 .. k : whole[i] = KindOf[all[i]]
  BY <1>2, KindsAre
<1>6. /\ Kinds(first) \in Seq(Kind) /\ Len(Kinds(first)) = n
      /\ \A i \in 1 .. n : Kinds(first)[i] = KindOf[first[i]]
  BY <1>3, KindsAre
<1>7. /\ Kinds(last) \in Seq(Kind) /\ Len(Kinds(last)) = k - n
      /\ \A i \in 1 .. k - n : Kinds(last)[i] = KindOf[last[i]]
  BY <1>4, KindsAre
<1> HIDE DEF whole
<1>8. n \in 0 .. Len(whole)
  BY <1>5
<1>9. SubSeq(whole, 1, n) = Kinds(first)
  <2>1. /\ SubSeq(whole, 1, n) \in Seq(Kind) /\ Len(SubSeq(whole, 1, n)) = n
        /\ \A i \in 1 .. n : SubSeq(whole, 1, n)[i] = whole[i]
    BY <1>5, <1>8, FirstOctets
  <2>2. ASSUME NEW i \in 1 .. n PROVE SubSeq(whole, 1, n)[i] = Kinds(first)[i]
    <3>1. i \in 1 .. k
      BY <1>1
    <3> QED
      BY <1>2, <1>3, <1>5, <1>6, <2>1, <3>1
  <2> QED
    BY <1>6, <2>1, <2>2, SeqEqual
<1>10. SubSeq(whole, n + 1, Len(whole)) = Kinds(last)
  <2>1. /\ SubSeq(whole, n + 1, Len(whole)) \in Seq(Kind)
        /\ Len(SubSeq(whole, n + 1, Len(whole))) = Len(whole) - n
        /\ \A i \in 1 .. Len(whole) - n : SubSeq(whole, n + 1, Len(whole))[i] = whole[n + i]
    BY <1>5, <1>8, OctetsAfter
  <2>2. ASSUME NEW i \in 1 .. k - n
        PROVE  SubSeq(whole, n + 1, Len(whole))[i] = Kinds(last)[i]
    <3> DEFINE j == n + i
    <3>1. j \in 1 .. k /\ o + j = (o + n) + i /\ i \in 1 .. Len(whole) - n
      BY <1>1, <1>5
    <3>2. SubSeq(whole, n + 1, Len(whole))[i] = whole[j]
      BY <2>1, <3>1
    <3> HIDE DEF j
    <3>3. whole[j] = KindOf[s[o + j]]
      BY <1>2, <1>5, <3>1
    <3>4. Kinds(last)[i] = KindOf[s[(o + n) + i]]
      BY <1>4, <1>7
    <3> QED
      BY <3>1, <3>2, <3>3, <3>4
  <2> QED
    BY <1>5, <1>7, <2>1, <2>2, SeqEqual
<1> QED
  BY <1>5, <1>9, <1>10 DEF whole, all, first, last

\* Every backslash of the first n octets of s stands in a string.
WellEscaped(s, n) ==
  \A i \in 1 .. n : KindOf[s[i]] = "backslash" => TextOf(s, i - 1).in_string

\* So does every one of the n bytes that follow a text.
EscapedAfter(text, bytes, n) ==
  \A i \in 1 .. n : bytes[i] = "backslash" => PastFirst(text, bytes, i - 1).in_string

\* Whether that is so further on is seen by going on.
LEMMA WellEscapedGoesOn ==
  ASSUME NEW s \in Seq(StreamOctet), NEW o \in Nat, NEW n \in Nat, o + n <= Len(s),
         NEW bytes, bytes = Kinds(SubSeq(s, o + 1, o + n))
  PROVE  WellEscaped(s, o + n) <=>
           WellEscaped(s, o) /\ EscapedAfter(TextOf(s, o), bytes, n)
<1>1. Len(s) \in Nat
  BY LenProperties
<1>2. /\ SubSeq(s, o + 1, o + n) \in Seq(StreamOctet) /\ Len(SubSeq(s, o + 1, o + n)) = n
      /\ \A i \in 1 .. n : SubSeq(s, o + 1, o + n)[i] = s[o + i]
  BY OctetsFrom
<1>3. \A i \in 1 .. n : bytes[i] = KindOf[s[o + i]]
  <2> DEFINE q == SubSeq(s, o + 1, o + n)
  <2>1. /\ q \in Seq(StreamOctet) /\ Len(q) = n /\ \A i \in 1 .. n : q[i] = s[o + i]
        /\ bytes = Kinds(q)
    BY <1>2
  <2> HIDE DEF q
  <2>2. \A i \in 1 .. n : Kinds(q)[i] = KindOf[q[i]]
    BY <2>1, KindsAre
  <2> QED
    BY <2>1, <2>2
<1>4. ASSUME NEW i \in 1 .. n
      PROVE  PastFirst(TextOf(s, o), bytes, i - 1) = TextOf(s, (o + i) - 1)
  <2>1. PICK j : j = i - 1
    OBVIOUS
  <2>2. j \in 0 .. n /\ o + j = (o + i) - 1
    BY <1>1, <2>1
  <2>3. PastFirst(TextOf(s, o), bytes, j) = TextOf(s, o + j)
    BY <2>2, TextGoesOn
  <2> QED
    BY <2>1, <2>2, <2>3
<1> DEFINE Ok(j) == KindOf[s[j]] = "backslash" => TextOf(s, j - 1).in_string
<1>5. WellEscaped(s, o + n) <=> \A j \in 1 .. o + n : Ok(j)
  BY DEF WellEscaped
<1>6. WellEscaped(s, o) <=> \A j \in 1 .. o : Ok(j)
  BY DEF WellEscaped
<1>7. ASSUME NEW i \in 1 .. n
      PROVE  (bytes[i] = "backslash" => PastFirst(TextOf(s, o), bytes, i - 1).in_string)
               <=> Ok(o + i)
  BY <1>3, <1>4, <1>7
<1> HIDE DEF Ok
<1>8. (\A j \in 1 .. o + n : Ok(j)) <=> (\A j \in 1 .. o : Ok(j)) /\ \A i \in 1 .. n : Ok(o + i)
  <2>1. ASSUME \A j \in 1 .. o : Ok(j), \A i \in 1 .. n : Ok(o + i), NEW j \in 1 .. o + n
        PROVE  Ok(j)
    <3>1. CASE j \in 1 .. o
      BY <2>1, <3>1
    <3>2. CASE j \notin 1 .. o
      <4> DEFINE i == j - o
      <4>1. i \in 1 .. n /\ o + i = j
        BY <3>2
      <4> HIDE DEF i
      <4> QED
        BY <2>1, <4>1
    <3> QED
      BY <3>1, <3>2
  <2>2. \A j \in 1 .. o : j \in 1 .. o + n
    OBVIOUS
  <2>3. \A i \in 1 .. n : o + i \in 1 .. o + n
    OBVIOUS
  <2> QED
    BY <2>1, <2>2, <2>3
<1>9. EscapedAfter(TextOf(s, o), bytes, n) <=> \A i \in 1 .. n : Ok(o + i)
  BY <1>7 DEF EscapedAfter
<1> QED
  BY <1>5, <1>6, <1>8, <1>9

\* The operators of the abstract scan are those of the concrete one.
LEMMA SameOperators ==
  ASSUME NEW a, NEW b, NEW c
  PROVE  /\ AbstractScan!PastFirst(a, b, c) = PastFirst(a, b, c)
         /\ AbstractScan!Edge(a) = Edge(a)
         /\ AbstractScan!WindowAfter(a, b) = WindowAfter(a, b)
         /\ AbstractScan!Trimmed(a, b) = Trimmed(a, b)
         /\ AbstractScan!Structure(a, b) = Structure(a, b)
<1>1. AbstractScan!PastFirst(a, b, c) = PastFirst(a, b, c)
  BY Zenon DEF AbstractScan!PastFirst, PastFirst, AbstractScan!FoldLeft, FoldLeft,
               AbstractScan!MapThenFoldSet, MapThenFoldSet, AbstractScan!Past, Past,
               AbstractScan!Max, Max
<1>2. /\ AbstractScan!Bit = Bit
      /\ AbstractScan!EvenBits = EvenBits
      /\ AbstractScan!OddBits = OddBits
      /\ \A x : AbstractScan!Not(x) = Not(x)
      /\ \A x : AbstractScan!TrailingZeros(x) = TrailingZeros(x)
      /\ \A x : AbstractScan!LowMask(x) = LowMask(x)
      /\ \A x, y : AbstractScan!Xor(x, y) = Xor(x, y)
      /\ \A x, y : AbstractScan!ShiftLeft(x, y) = ShiftLeft(x, y)
      /\ \A x, y : AbstractScan!ShiftRight(x, y) = ShiftRight(x, y)
      /\ \A x, y : AbstractScan!Masked(x, y) = Masked(x, y)
  BY Zenon DEF AbstractScan!Bit, Bit, AbstractScan!EvenBits, EvenBits,
               AbstractScan!OddBits, OddBits, AbstractScan!Not, Not,
               AbstractScan!TrailingZeros, TrailingZeros, AbstractScan!LowMask, LowMask,
               AbstractScan!Xor, Xor, AbstractScan!ShiftLeft, ShiftLeft,
               AbstractScan!ShiftRight, ShiftRight, AbstractScan!Masked, Masked
<1>3. AbstractScan!Edge(a) = Edge(a)
  BY <1>2 DEF AbstractScan!Edge, Edge
<1>4. AbstractScan!WindowAfter(a, b) = WindowAfter(a, b)
  BY <1>2 DEF AbstractScan!WindowAfter, WindowAfter
<1>5. AbstractScan!Trimmed(a, b) = Trimmed(a, b)
  BY <1>2 DEF AbstractScan!Trimmed, Trimmed
<1>6. \A x, y : AbstractScan!PrefixXor(x, y) = PrefixXor(x, y)
  BY Zenon DEF AbstractScan!PrefixXor, PrefixXor, AbstractScan!Reach, Reach,
               AbstractScan!Doublings, Doublings, AbstractScan!Not, Not,
               AbstractScan!Xor, Xor, AbstractScan!ShiftLeft, ShiftLeft,
               AbstractScan!Bit, Bit
<1>7. \A x, y : AbstractScan!Plus(x, y) = Plus(x, y)
  BY Zenon DEF AbstractScan!Plus, Plus, AbstractScan!Xor, Xor, AbstractScan!Bit, Bit
<1>8. \A x, y : AbstractScan!RunParity(x, y) = RunParity(x, y)
  BY <1>2, <1>7 DEF AbstractScan!RunParity, RunParity
<1>9. \A x, y : AbstractScan!Escaped(x, y) = Escaped(x, y)
  BY <1>2, <1>8 DEF AbstractScan!Escaped, Escaped
<1>10. AbstractScan!Structure(a, b) = Structure(a, b)
  BY <1>2, <1>6, <1>8, <1>9 DEF AbstractScan!Structure, Structure
<1> QED
  BY <1>1, <1>3, <1>4, <1>5, <1>10

-----------------------------------------------------------------------------
(* Handing out a token *)

\* What the stream's octets up to the window's end say of the window and of the
\* token.
SeenFits ==
  /\ Through(window.rest) = InStream(window.offset, Len(window.rest))
  /\ window.offset \in Nat
  /\ Len(window.rest) \in Nat
  /\ Len(token.bytes) \in Nat
  /\ token.offset \in Nat
  /\ token.offset + Len(token.bytes) = window.offset
  /\ window.offset + Len(window.rest) = stream_offset
  /\ stream_offset <= Len(stream)
  /\ [window EXCEPT !.rest = Kinds(Through(@))] =
       [rest |-> Kinds(InStream(window.offset, Len(window.rest))),
        mask |-> window.mask, offset |-> window.offset]
  /\ [token EXCEPT !.bytes = Kinds(InStream(token.offset, Len(@)))] =
       [kind |-> token.kind,
        bytes |-> Kinds(InStream(token.offset, Len(token.bytes))),
        offset |-> token.offset]

\* The invariant gives this of every state.
LEMMA SeenIs == KInv => SeenFits
<1> SUFFICES ASSUME KInv PROVE SeenFits
  OBVIOUS
<1>1. /\ RP!IInv /\ window \in ViewWindow /\ token \in ViewToken
      /\ window.offset + Len(window.rest) = stream_offset
      /\ token.offset + Len(token.bytes) = window.offset
  BY DEF KInv, Ends, TokenBefore
<1>2. /\ window.offset \in Nat /\ token.offset \in Nat
      /\ Len(window.rest) \in Nat /\ Len(token.bytes) \in Nat
  BY <1>1, LenProperties DEF ViewWindow, ViewToken
<1>3. stream_offset <= Len(stream)
  BY <1>1, ReaderTypes
<1>4. Through(window.rest) = InStream(window.offset, Len(window.rest))
  BY KInvViews DEF ViewsAreStream
<1>5. \A x : [window EXCEPT !.rest = x] =
               [rest |-> x, mask |-> window.mask, offset |-> window.offset]
  BY <1>1 DEF ViewWindow
<1>6. \A x : [token EXCEPT !.bytes = x] =
               [kind |-> token.kind, bytes |-> x, offset |-> token.offset]
  BY <1>1 DEF ViewToken
<1>7. [window EXCEPT !.rest = Kinds(Through(@))] =
        [rest |-> Kinds(Through(window.rest)), mask |-> window.mask, offset |-> window.offset]
  BY <1>5
<1>8. [token EXCEPT !.bytes = Kinds(InStream(token.offset, Len(@)))] =
        [kind |-> token.kind, bytes |-> Kinds(InStream(token.offset, Len(token.bytes))),
         offset |-> token.offset]
  BY <1>6
<1> QED
  BY <1>1, <1>2, <1>3, <1>4, <1>7, <1>8 DEF SeenFits

\* And after a step.
LEMMA SeenIsNext == KInv' => SeenFits'
  BY SeenIs, PTL

\* What is read later changes nothing of the reader of single octets before.
LEMMA TextStays ==
  ASSUME NEW s \in Seq(StreamOctet), NEW chunk \in Seq(StreamOctet), NEW i \in 0 .. Len(s)
  PROVE  TextOf(s \o chunk, i) = TextOf(s, i) /\ (i # 0 => (s \o chunk)[i] = s[i])
<1>1. Len(s) \in Nat
  BY LenProperties
<1>2. 0 \in Nat /\ i \in Nat /\ 0 + i <= Len(s) /\ (i # 0 => i \in 1 .. Len(s))
  BY <1>1
<1>3. /\ \A j \in 1 .. Len(s) : (s \o chunk)[j] = s[j]
      /\ TextOf(s \o chunk, i) = TextOf(s, i)
  BY <1>2, PrefixStays
<1> QED
  BY <1>2, <1>3

\* Handing out a view refines handing out the octets it covers.
LEMMA HandRefines ==
  ASSUME KInv, KInv',
         \/ stream' = stream
         \/ \E chunk \in Seq(StreamOctet) : stream' = stream \o chunk,
         NEW w, Ends(w, buf_offset', stream_offset'), w.rest # <<>>, HandView(w),
         w.offset = window.offset,
         NEW a, a = [rest |-> Kinds(SubSeq(stream', w.offset + 1, w.offset + Len(w.rest))),
                     mask |-> w.mask, offset |-> w.offset]
  PROVE  AbstractScan!HandOut(a)
<1> DEFINE s == stream
           u == stream'
           o == window.offset
           k == Len(w.rest)
           n == IF Edge(w) > 0 THEN Edge(w) ELSE 1
           bytes == SubSeq(a.rest, 1, n)
<1>1. /\ s \in Seq(StreamOctet) /\ Len(s) \in Nat /\ o \in Nat /\ o <= Len(s)
  BY SeenIs, ReaderTypes DEF KInv, SeenFits
<1>2. u \in Seq(StreamOctet) /\ Len(u) \in Nat
  <2>1. RP!TypeOK'
    BY DEF KInv, RP!IInv
  <2>2. stream' \in Seq(StreamOctet)
    BY <2>1 DEF RP!TypeOK
  <2> QED
    BY <2>2, LenProperties
<1>3. /\ w \in ViewWindow /\ w.mask \subseteq 0 .. k - 1 /\ w.offset = o
      /\ o + k = stream_offset' /\ k <= WordWidth
  BY DEF Ends
<1>4. n \in 1 .. k /\ k \in Nat
  BY <1>3, EdgeIn
<1>5. o + k <= Len(u)
  <2>1. (stream_offset <= Len(stream))'
    BY SeenIsNext DEF SeenFits
  <2> QED
    BY <1>3, <2>1
<1>6. /\ token' = [kind |-> IF Edge(w) > 0 THEN "BYTES" ELSE "STRUCTURAL",
                   bytes |-> SubSeq(w.rest, 1, n),
                   offset |-> o]
      /\ window' = WindowAfter(w, n)
      /\ answer' = "TOKEN"
  BY <1>3 DEF HandView
<1>7. TextOf(u, o) = TextOf(s, o) /\ (WellEscaped(u, o) <=> WellEscaped(s, o))
  <2>1. CASE u = s
    BY <2>1
  <2>2. ASSUME NEW chunk \in Seq(StreamOctet), u = s \o chunk
        PROVE  TextOf(u, o) = TextOf(s, o) /\ (WellEscaped(u, o) <=> WellEscaped(s, o))
    <3> HIDE DEF s, u, o
    <3>1. ASSUME NEW i \in 0 .. o PROVE TextOf(u, i) = TextOf(s, i) /\ (i # 0 => u[i] = s[i])
      <4>1. i \in 0 .. Len(s)
        BY <1>1
      <4> QED
        BY <1>1, <2>2, <4>1, TextStays
    <3>3. \A i \in 1 .. o : i \in 0 .. o /\ i # 0 /\ i - 1 \in 0 .. o
      BY <1>1
    <3>4. o \in 0 .. o
      BY <1>1
    <3>5. TextOf(u, o) = TextOf(s, o)
      BY <3>1, <3>4
    <3>6. \A i \in 1 .. o : u[i] = s[i] /\ TextOf(u, i - 1) = TextOf(s, i - 1)
      BY <3>1, <3>3
    <3>7. WellEscaped(u, o) <=> WellEscaped(s, o)
      BY <3>6 DEF WellEscaped
    <3> QED
      BY <3>5, <3>7
  <2> QED
    BY <2>1, <2>2
<1> DEFINE all == Kinds(SubSeq(u, o + 1, o + k))
<1>8. a = [rest |-> all, mask |-> w.mask, offset |-> o] /\ a.rest = all
  BY <1>3
<1>9. /\ all \in Seq(Kind) /\ Len(all) = k
      /\ SubSeq(all, 1, n) = Kinds(SubSeq(u, o + 1, o + n))
      /\ SubSeq(all, n + 1, Len(all)) = Kinds(SubSeq(u, (o + n) + 1, (o + n) + (k - n)))
  <2>1. /\ u \in Seq(StreamOctet) /\ o \in Nat /\ k \in Nat /\ o + k <= Len(u)
        /\ n \in 0 .. k
    BY <1>1, <1>2, <1>4, <1>5
  <2> HIDE DEF u, o, k, n
  <2> QED
    BY <2>1, PartOfKinds
<1>10. Edge(a) = Edge(w)
  BY <1>8, <1>9 DEF Edge
<1>11. bytes = Kinds(SubSeq(u, o + 1, o + n)) /\ Len(bytes) = n
  <2>1. bytes = SubSeq(all, 1, n)
    BY <1>8
  <2>2. Len(SubSeq(all, 1, n)) = n
    <3>1. n \in 0 .. Len(all)
      BY <1>4, <1>9
    <3> HIDE DEF all, n
    <3> QED
      BY <1>9, <3>1, FirstOctets
  <2> QED
    BY <1>9, <2>1, <2>2
<1>12. /\ [token EXCEPT !.bytes = Kinds(InStream(token.offset, Len(@)))]' =
            [kind |-> IF Edge(w) > 0 THEN "BYTES" ELSE "STRUCTURAL",
             bytes |-> bytes, offset |-> o]
       /\ token'.offset = o /\ Len(token'.bytes) = n /\ window'.offset = o + n
       /\ Len(window'.rest) = k - n
  <2>1. /\ token'.offset = o
        /\ token'.kind = (IF Edge(w) > 0 THEN "BYTES" ELSE "STRUCTURAL")
    BY <1>6
  <2>2. window'.offset = o + n
    BY <1>3, <1>6 DEF WindowAfter
  <2>3. (/\ token.offset + Len(token.bytes) = window.offset
         /\ window.offset + Len(window.rest) = stream_offset
         /\ Len(token.bytes) \in Nat
         /\ Len(window.rest) \in Nat)'
    BY SeenIsNext DEF SeenFits
  <2>4. Len(token'.bytes) = n /\ Len(window'.rest) = k - n
    <3>1. /\ token'.offset + Len(token'.bytes) = window'.offset
          /\ window'.offset + Len(window'.rest) = stream_offset'
          /\ Len(token'.bytes) \in Nat
          /\ Len(window'.rest) \in Nat
      BY <2>3
    <3>2. stream_offset' = o + k /\ o \in Nat /\ k \in Nat /\ n \in Nat
      BY <1>1, <1>3, <1>4
    <3> HIDE DEF o, k, n
    <3>3. o + Len(token'.bytes) = o + n /\ (o + n) + Len(window'.rest) = o + k
      BY <2>1, <2>2, <3>1, <3>2
    <3>4. \A x, y \in Nat : /\ o + x = o + n => x = n
                            /\ (o + n) + y = o + k => y = k - n
      BY <3>2
    <3> QED
      BY <3>1, <3>3, <3>4
  <2>5. [token EXCEPT !.bytes = Kinds(InStream(token.offset, Len(@)))]' =
          [kind |-> token.kind,
           bytes |-> Kinds(InStream(token.offset, Len(token.bytes))),
           offset |-> token.offset]'
    BY SeenIsNext DEF SeenFits
  <2>6. [kind |-> token.kind,
         bytes |-> Kinds(InStream(token.offset, Len(token.bytes))),
         offset |-> token.offset]' =
          [kind |-> token'.kind,
           bytes |-> Kinds(SubSeq(u, token'.offset + 1, token'.offset + Len(token'.bytes))),
           offset |-> token'.offset]
    BY DEF InStream, Kinds
  <2> QED
    BY <1>11, <2>1, <2>2, <2>4, <2>5, <2>6
<1>13. [window EXCEPT !.rest = Kinds(Through(@))]' = WindowAfter(a, n)
  <2>1. [window EXCEPT !.rest = Kinds(Through(@))]' =
          [rest |-> Kinds(InStream(window.offset, Len(window.rest))),
           mask |-> window.mask, offset |-> window.offset]'
    BY SeenIsNext DEF SeenFits
  <2>2. [rest |-> Kinds(InStream(window.offset, Len(window.rest))),
         mask |-> window.mask, offset |-> window.offset]' =
          [rest |-> Kinds(SubSeq(u, window'.offset + 1, window'.offset + Len(window'.rest))),
           mask |-> window'.mask, offset |-> window'.offset]
    BY DEF InStream, Kinds
  <2>3. window'.mask = IF n < WordWidth THEN ShiftRight(w.mask, n) ELSE {}
    BY <1>6 DEF WindowAfter
  <2>4. WindowAfter(a, n) =
          [rest |-> SubSeq(all, n + 1, Len(all)),
           mask |-> IF n < WordWidth THEN ShiftRight(w.mask, n) ELSE {},
           offset |-> o + n]
    BY <1>8 DEF WindowAfter
  <2> QED
    BY <1>9, <1>12, <2>1, <2>2, <2>3, <2>4
<1>14. TextAt(token.offset)' = TextOf(u, o) /\ TextAt(window.offset)' = TextOf(u, o + n)
       /\ TextAt(window.offset) = TextOf(s, o)
  BY <1>12 DEF TextAt, TextOf, Kinds
<1>15. TextOf(u, o + n) = PastFirst(TextOf(s, o), bytes, Len(bytes))
  <2>1. n \in Nat /\ o + n <= Len(u) /\ n \in 0 .. n
    BY <1>1, <1>2, <1>4, <1>5
  <2> HIDE DEF bytes, s, u, o, n
  <2>2. PastFirst(TextOf(u, o), Kinds(SubSeq(u, o + 1, o + n)), n) = TextOf(u, o + n)
    BY <1>1, <1>2, <2>1, TextGoesOn
  <2> QED
    BY <1>7, <1>11, <2>2
<1>16. WellEscaped(u, o + n) <=>
         /\ WellEscaped(s, o)
         /\ \A i \in 1 .. Len(bytes) :
              bytes[i] = "backslash" => PastFirst(TextOf(s, o), bytes, i - 1).in_string
  <2>1. n \in Nat /\ o + n <= Len(u)
    BY <1>1, <1>2, <1>4, <1>5
  <2>3. u \in Seq(StreamOctet) /\ o \in Nat /\ bytes = Kinds(SubSeq(u, o + 1, o + n))
    BY <1>1, <1>2, <1>11
  <2> HIDE DEF bytes, s, u, o, n
  <2>2. WellEscaped(u, o + n) <=>
          WellEscaped(u, o) /\ EscapedAfter(TextOf(u, o), bytes, n)
    BY <2>1, <2>3, WellEscapedGoesOn
  <2>4. Len(bytes) = n /\ TextOf(u, o) = TextOf(s, o)
        /\ (WellEscaped(u, o) <=> WellEscaped(s, o))
    BY <1>7, <1>11
  <2> QED
    BY <2>2, <2>4 DEF EscapedAfter
<1>17. /\ (\A i \in 1 .. window.offset :
             KindOf[stream[i]] = "backslash" => TextAt(i - 1).in_string)' <=>
            WellEscaped(u, o + n)
       /\ (\A i \in 1 .. window.offset :
             KindOf[stream[i]] = "backslash" => TextAt(i - 1).in_string) <=>
            WellEscaped(s, o)
  BY <1>12 DEF WellEscaped, TextAt, TextOf, Kinds
<1> DEFINE at == IF AbstractScan!Edge(a) > 0 THEN AbstractScan!Edge(a) ELSE 1
           first == SubSeq(a.rest, 1, at)
           escapes == \A i \in 1 .. window.offset :
                        KindOf[stream[i]] = "backslash" => TextAt(i - 1).in_string
<1>18. at = n /\ first = bytes /\ (AbstractScan!Edge(a) > 0 <=> Edge(w) > 0)
  BY <1>10, SameOperators
<1> HIDE DEF bytes, n
<1>19. /\ [token EXCEPT !.bytes = Kinds(InStream(token.offset, Len(@)))]' =
            [kind |-> IF AbstractScan!Edge(a) > 0 THEN "BYTES" ELSE "STRUCTURAL",
             bytes |-> first, offset |-> a.offset]
  <2>1. a.offset = o
    BY <1>8
  <2> HIDE DEF at, first, all
  <2> QED
    BY <1>12, <1>18, <2>1
<1>20. [window EXCEPT !.rest = Kinds(Through(@))]' = AbstractScan!WindowAfter(a, at)
  <2> HIDE DEF at, first, all
  <2> QED
    BY <1>13, <1>18, SameOperators
<1>21. TextAt(token.offset)' = TextAt(window.offset)
  BY <1>7, <1>14
<1>22. TextAt(window.offset)' =
         AbstractScan!PastFirst(TextAt(window.offset), first, Len(first))
  <2> HIDE DEF at, first, all
  <2> QED
    BY <1>14, <1>15, <1>18, SameOperators
<1>23. escapes' = (escapes /\ \A i \in 1 .. Len(first) :
                     first[i] = "backslash" =>
                       AbstractScan!PastFirst(TextAt(window.offset), first, i - 1).in_string)
  <2>1. escapes' <=> WellEscaped(u, o + n)
    BY <1>17
  <2>2. escapes <=> WellEscaped(s, o)
    BY <1>17
  <2>3. \A i : AbstractScan!PastFirst(TextAt(window.offset), first, i - 1) =
                 PastFirst(TextOf(s, o), bytes, i - 1)
    <3> HIDE DEF at, first, all
    <3> QED
      BY <1>14, <1>18, SameOperators
  <2> HIDE DEF at, all, escapes
  <2>4. first = bytes
    BY <1>18
  <2> HIDE DEF first
  <2>5. (\A i \in 1 .. Len(first) :
           first[i] = "backslash" =>
             AbstractScan!PastFirst(TextAt(window.offset), first, i - 1).in_string) <=>
        \A i \in 1 .. Len(bytes) :
          bytes[i] = "backslash" => PastFirst(TextOf(s, o), bytes, i - 1).in_string
    BY <2>3, <2>4
  <2>6. escapes \in BOOLEAN /\ escapes' \in BOOLEAN
    BY DEF escapes
  <2> QED
    BY <1>16, <2>1, <2>2, <2>5, <2>6
<1>24. answer' = "TOKEN"
  BY <1>6
<1> QED
  BY <1>19, <1>20, <1>21, <1>22, <1>23, <1>24, Zenon DEF AbstractScan!HandOut

-----------------------------------------------------------------------------
(* Blocks *)

\* What is left past whole blocks.
LEMMA Quotient ==
  ASSUME NEW W \in Nat \ {0}, NEW k \in Nat, NEW r \in 0 .. W - 1
  PROVE  (k * W + r) \div W = k /\ (k * W + r) % W = r
<1> DEFINE x == k * W + r
           q == x \div W
           m == x % W
<1>1. x \in Nat /\ k * W \in Nat
  OBVIOUS
<1> HIDE DEF x
<1>2. q \in Int /\ m \in 0 .. W - 1 /\ x = W * q + m
  BY <1>1
<1> HIDE DEF q, m
<1>3. x = k * W + r
  BY DEF x
<1>4. k = q
  <2>1. CASE q >= k + 1
    <3> DEFINE d == q - (k + 1)
    <3>1. d \in Nat /\ q = (k + 1) + d
      BY <1>2, <2>1
    <3> HIDE DEF d
    <3>2. W * q = W * k + W + W * d /\ W * d >= 0
      BY <3>1
    <3> QED
      BY <1>2, <1>3, <3>2
  <2>2. CASE q <= k - 1
    <3> DEFINE d == (k - 1) - q
    <3>1. d \in Nat /\ k = (q + 1) + d
      BY <1>2, <2>2
    <3> HIDE DEF d
    <3>2. k * W = W * q + W + W * d /\ W * d >= 0
      BY <1>2, <3>1
    <3> QED
      BY <1>2, <1>3, <3>2
  <2> QED
    BY <1>2, <2>1, <2>2
<1>5. m = r
  BY <1>2, <1>3, <1>4
<1> QED
  BY <1>4, <1>5 DEF q, m, x

\* Blocks handed out, and whether the last was short.
LEMMA BlocksCounted ==
  ASSUME NEW k \in Nat, NEW n \in 1 .. WordWidth, NEW end, end = k * WordWidth
  PROVE  /\ (end + WordWidth - 1) \div WordWidth = k
         /\ end % WordWidth = 0
         /\ (end + n + WordWidth - 1) \div WordWidth = k + 1
         /\ (end + n) % WordWidth # 0 <=> n < WordWidth
<1>1. WordWidth \in Nat \ {0} /\ end \in Nat
  BY WordWidthAssumption
<1>2. /\ WordWidth - 1 \in 0 .. WordWidth - 1 /\ n - 1 \in 0 .. WordWidth - 1
      /\ 0 \in 0 .. WordWidth - 1
      /\ k + 1 \in Nat
  BY <1>1
<1>3. (k * WordWidth + (WordWidth - 1)) \div WordWidth = k
  BY <1>1, <1>2, Quotient
<1>4. (k * WordWidth + 0) % WordWidth = 0
  BY <1>1, <1>2, Quotient
<1>5. ((k + 1) * WordWidth + (n - 1)) \div WordWidth = k + 1
  BY <1>1, <1>2, Quotient
<1>6. (k + 1) * WordWidth = end + WordWidth
  BY <1>1
<1>7. /\ end + WordWidth - 1 = k * WordWidth + (WordWidth - 1)
      /\ end = k * WordWidth + 0
      /\ end + n + WordWidth - 1 = (k + 1) * WordWidth + (n - 1)
  BY <1>1, <1>6
<1>8. (end + n) % WordWidth # 0 <=> n < WordWidth
  <2>1. CASE n < WordWidth
    <3>1. n \in 0 .. WordWidth - 1 /\ n # 0
      BY <1>1, <2>1
    <3>2. (k * WordWidth + n) % WordWidth = n
      BY <1>1, <3>1, Quotient
    <3> QED
      BY <2>1, <3>1, <3>2
  <2>2. CASE ~(n < WordWidth)
    <3>1. n = WordWidth /\ end + n = (k + 1) * WordWidth + 0
      BY <1>1, <1>6, <2>2
    <3>2. ((k + 1) * WordWidth + 0) % WordWidth = 0
      BY <1>1, <1>2, Quotient
    <3> QED
      BY <2>2, <3>1, <3>2
  <2> QED
    BY <2>1, <2>2
<1> QED
  BY <1>3, <1>4, <1>5, <1>7, <1>8

\* The stream has room for whole blocks only.
LEMMA BlocksBounded ==
  ASSUME NEW k \in Nat, k * WordWidth <= MaxStream
  PROVE  k < MaxStream \div WordWidth + 1
<1> DEFINE q == MaxStream \div WordWidth
           m == MaxStream % WordWidth
<1>1. WordWidth \in Nat \ {0} /\ MaxStream \in Nat
  BY WordWidthAssumption, MaxStreamAssumption
<1>2. q \in Int /\ m \in 0 .. WordWidth - 1 /\ MaxStream = WordWidth * q + m
  BY <1>1
<1> HIDE DEF q, m
<1>3. CASE k >= q + 1
  <2> DEFINE d == k - (q + 1)
  <2>1. d \in Nat /\ k = (q + 1) + d
    BY <1>2, <1>3
  <2> HIDE DEF d
  <2>2. k * WordWidth = WordWidth * q + WordWidth + WordWidth * d /\ WordWidth * d >= 0
    BY <1>1, <1>2, <2>1
  <2> QED
    BY <1>1, <1>2, <2>2
<1> QED
  BY <1>2, <1>3 DEF q

\* The blocks of the abstract scan, as the reader's progress.
BlocksOut == (stream_offset + WordWidth - 1) \div WordWidth

Shorted == stream_offset % WordWidth # 0

Escapes == \A i \in 1 .. window.offset :
             KindOf[stream[i]] = "backslash" => TextAt(i - 1).in_string

\* While the scan has nothing new, neither has the abstract one, whatever is read.
LEMMA StillRefines ==
  ASSUME KInv, KInv',
         \/ stream' = stream
         \/ \E chunk \in Seq(StreamOctet) : stream' = stream \o chunk,
         UNCHANGED <<window, token, stream_offset>>
  PROVE  /\ UNCHANGED <<BlocksOut, Shorted>>
         /\ UNCHANGED [window EXCEPT !.rest = Kinds(Through(@))]
         /\ UNCHANGED [token EXCEPT !.bytes = Kinds(InStream(token.offset, Len(@)))]
         /\ UNCHANGED <<TextAt(window.offset), TextAt(token.offset)>>
         /\ UNCHANGED Escapes
<1> DEFINE s == stream
           u == stream'
           o == window.offset
           k == Len(window.rest)
           p == token.offset
           m == Len(token.bytes)
<1>1. /\ s \in Seq(StreamOctet) /\ Len(s) \in Nat /\ o \in Nat /\ k \in Nat
      /\ p \in Nat /\ m \in Nat /\ o + k <= Len(s) /\ p + m <= Len(s) /\ p <= o
  <2>1. SeenFits /\ s \in Seq(StreamOctet) /\ Len(s) \in Nat
    BY SeenIs, ReaderTypes DEF KInv
  <2> QED
    BY <2>1 DEF SeenFits
<1>2. /\ SubSeq(u, o + 1, o + k) = SubSeq(s, o + 1, o + k)
      /\ SubSeq(u, p + 1, p + m) = SubSeq(s, p + 1, p + m)
      /\ \A i \in 0 .. o : TextOf(u, i) = TextOf(s, i) /\ (i # 0 => u[i] = s[i])
  <2>1. CASE u = s
    BY <2>1
  <2>2. ASSUME NEW chunk \in Seq(StreamOctet), u = s \o chunk
        PROVE  /\ SubSeq(u, o + 1, o + k) = SubSeq(s, o + 1, o + k)
               /\ SubSeq(u, p + 1, p + m) = SubSeq(s, p + 1, p + m)
               /\ \A i \in 0 .. o : TextOf(u, i) = TextOf(s, i) /\ (i # 0 => u[i] = s[i])
    <3> HIDE DEF s, u, o, k, p, m
    <3>1. SubSeq(s \o chunk, o + 1, o + k) = SubSeq(s, o + 1, o + k)
      BY <1>1, PrefixStays
    <3>2. SubSeq(s \o chunk, p + 1, p + m) = SubSeq(s, p + 1, p + m)
      BY <1>1, PrefixStays
    <3>3. ASSUME NEW i \in 0 .. o PROVE TextOf(u, i) = TextOf(s, i) /\ (i # 0 => u[i] = s[i])
      <4>1. i \in 0 .. Len(s)
        BY <1>1
      <4> QED
        BY <1>1, <2>2, <4>1, TextStays
    <3> QED
      BY <2>2, <3>1, <3>2, <3>3
  <2> QED
    BY <2>1, <2>2
<1>3. UNCHANGED <<BlocksOut, Shorted>>
  BY DEF BlocksOut, Shorted
<1>4. UNCHANGED [window EXCEPT !.rest = Kinds(Through(@))]
  <2>1. [window EXCEPT !.rest = Kinds(Through(@))] =
          [rest |-> Kinds(SubSeq(s, o + 1, o + k)), mask |-> window.mask, offset |-> o]
    BY SeenIs DEF SeenFits, InStream
  <2>2. [window EXCEPT !.rest = Kinds(Through(@))]' =
          [rest |-> Kinds(InStream(window.offset, Len(window.rest))),
           mask |-> window.mask, offset |-> window.offset]'
    BY SeenIsNext DEF SeenFits
  <2>3. [rest |-> Kinds(InStream(window.offset, Len(window.rest))),
         mask |-> window.mask, offset |-> window.offset]' =
          [rest |-> Kinds(SubSeq(u, o + 1, o + k)), mask |-> window.mask, offset |-> o]
    BY DEF InStream, Kinds
  <2> QED
    BY <1>2, <2>1, <2>2, <2>3
<1>5. UNCHANGED [token EXCEPT !.bytes = Kinds(InStream(token.offset, Len(@)))]
  <2>1. [token EXCEPT !.bytes = Kinds(InStream(token.offset, Len(@)))] =
          [kind |-> token.kind, bytes |-> Kinds(SubSeq(s, p + 1, p + m)), offset |-> p]
    BY SeenIs DEF SeenFits, InStream
  <2>2. [token EXCEPT !.bytes = Kinds(InStream(token.offset, Len(@)))]' =
          [kind |-> token.kind, bytes |-> Kinds(InStream(token.offset, Len(token.bytes))),
           offset |-> token.offset]'
    BY SeenIsNext DEF SeenFits
  <2>3. [kind |-> token.kind, bytes |-> Kinds(InStream(token.offset, Len(token.bytes))),
         offset |-> token.offset]' =
          [kind |-> token.kind, bytes |-> Kinds(SubSeq(u, p + 1, p + m)), offset |-> p]
    BY DEF InStream, Kinds
  <2> QED
    BY <1>2, <2>1, <2>2, <2>3
<1>6. /\ TextAt(window.offset) = TextOf(s, o) /\ TextAt(window.offset)' = TextOf(u, o)
      /\ TextAt(token.offset) = TextOf(s, p) /\ TextAt(token.offset)' = TextOf(u, p)
  BY DEF TextAt, TextOf, Kinds
<1>7. UNCHANGED <<TextAt(window.offset), TextAt(token.offset)>>
  <2>1. o \in 0 .. o /\ p \in 0 .. o
    BY <1>1
  <2> QED
    BY <1>2, <1>6, <2>1
<1>8. UNCHANGED Escapes
  <2>1. /\ Escapes = (\A i \in 1 .. o : KindOf[s[i]] = "backslash" => TextOf(s, i - 1).in_string)
        /\ Escapes' = (\A i \in 1 .. o : KindOf[u[i]] = "backslash" => TextOf(u, i - 1).in_string)
    BY DEF Escapes, TextAt, TextOf, Kinds
  <2>2. \A i \in 1 .. o : i \in 0 .. o /\ i # 0 /\ i - 1 \in 0 .. o
    BY <1>1
  <2> HIDE DEF s, u, o
  <2>3. \A i \in 1 .. o : u[i] = s[i] /\ TextOf(u, i - 1) = TextOf(s, i - 1)
    BY <1>2, <2>2
  <2> QED
    BY <2>1, <2>3
<1> QED
  BY <1>3, <1>4, <1>5, <1>7, <1>8

\* The octets of a block are the stream's next.
LEMMA BlockIsStream ==
  ASSUME RP!IInv, RP!IInv',
         NEW octets \in [1 .. WordWidth -> Kind], NEW n \in 1 .. WordWidth,
         NEW at \in Nat, at + n = buf_offset', stream_offset' = stream_offset + n,
         \A i \in 1 .. WordWidth : octets[i] = KindOf[buf'[at + i - 1]]
  PROVE  SubSeq(octets, 1, n) =
           Kinds(SubSeq(stream', stream_offset + 1, stream_offset + n))
<1> DEFINE u == stream'
           o == stream_offset
           part == SubSeq(u, o + 1, o + n)
<1>1. RP!TypeOK' /\ RP!Mirror'
  BY DEF RP!IInv
<1>2. /\ u \in Seq(StreamOctet) /\ Len(u) \in Nat
      /\ len' \in 0 .. Cap /\ buf_offset' \in 0 .. len'
      /\ o \in Nat /\ Cap \in Nat /\ WordWidth \in Nat
      /\ n \in Nat /\ 1 <= n /\ n <= WordWidth /\ buf_offset' = at + n /\ stream_offset' = o + n
  <2>1. u \in Seq(StreamOctet) /\ len' \in 0 .. Cap /\ buf_offset' \in 0 .. len'
    BY <1>1 DEF RP!TypeOK
  <2> QED
    BY <2>1, ReaderTypes, LenProperties
<1> HIDE DEF o
<1>3. /\ (o + n - buf_offset') + len' = Len(u)
      /\ \A i \in 0 .. len' - 1 : buf'[i] = u[(o + n - buf_offset') + i + 1]
  <2>1. stream_offset' - buf_offset' = o + n - buf_offset'
    BY <1>2
  <2> QED
    BY <1>1, <2>1 DEF RP!Mirror, RP!Base
<1> HIDE DEF u
<1>4. n \in Nat /\ o + n <= Len(u)
  <2> DEFINE b == buf_offset'
             l == len'
  <2>1. b \in 0 .. l /\ l \in 0 .. Cap /\ (o + n - b) + l = Len(u)
    BY <1>2, <1>3
  <2> HIDE DEF b, l
  <2> QED
    BY <1>2, <2>1
<1>5. part \in Seq(StreamOctet) /\ Len(part) = n /\ \A i \in 1 .. n : part[i] = u[o + i]
  <2>1. u \in Seq(StreamOctet) /\ o \in Nat /\ n \in Nat /\ o + n <= Len(u)
    BY <1>2, <1>4
  <2> QED
    BY <2>1, OctetsFrom
<1> HIDE DEF part
<1>6. Kinds(part) \in Seq(Kind) /\ Len(Kinds(part)) = n
      /\ \A i \in 1 .. n : Kinds(part)[i] = KindOf[part[i]]
  BY <1>5, KindsAre
<1>7. octets \in Seq(Kind) /\ Len(octets) = WordWidth
  <2>1. octets \in Seq(Kind)
    BY <1>2, SeqDef
  <2> QED
    BY <1>2, <2>1, LenProperties
<1>8. /\ SubSeq(octets, 1, n) \in Seq(Kind) /\ Len(SubSeq(octets, 1, n)) = n
      /\ \A i \in 1 .. n : SubSeq(octets, 1, n)[i] = octets[i]
  <2>1. n \in 0 .. Len(octets)
    BY <1>2, <1>7
  <2> QED
    BY <1>7, <2>1, FirstOctets
<1>9. ASSUME NEW i \in 1 .. n PROVE SubSeq(octets, 1, n)[i] = Kinds(part)[i]
  <2> DEFINE j == at + i - 1
  <2>0. i \in Nat /\ 1 <= i /\ i <= n /\ len' \in Nat /\ at + n <= len'
    BY <1>2
  <2>1. /\ j \in 0 .. len' - 1 /\ i \in 1 .. WordWidth
        /\ (o + n - buf_offset') + j + 1 = o + i
    <3>0. at \in Nat /\ WordWidth \in Nat /\ n \in Nat /\ n <= WordWidth
      BY <1>2
    <3>1. i \in 1 .. WordWidth /\ j \in 0 .. len' - 1
      <4> DEFINE l == len'
      <4>1. l \in Nat /\ at + n <= l
        BY <2>0
      <4> HIDE DEF l
      <4>2. i \in 1 .. WordWidth
        BY <2>0, <3>0
      <4>3. j \in 0 .. l - 1
        BY <2>0, <3>0, <4>1
      <4> QED
        BY <4>2, <4>3 DEF l
    <3>2. (o + n - (at + n)) + j + 1 = o + i
      BY <1>2, <2>0
    <3> QED
      BY <1>2, <3>1, <3>2
  <2>2. octets[i] = KindOf[buf'[j]]
    BY <2>1
  <2> HIDE DEF j
  <2>3. buf'[j] = u[o + i]
    BY <1>3, <2>1
  <2> QED
    BY <1>5, <1>6, <1>8, <2>2, <2>3
<1>10. SubSeq(octets, 1, n) = Kinds(part)
  BY <1>6, <1>8, <1>9, SeqEqual
<1> QED
  BY <1>10 DEF part, u, o

-----------------------------------------------------------------------------
(* The steps *)

\* Before the first call.
LEMMA KInitRefines == KInit => AbstractScan!Init
<1> SUFFICES ASSUME KInit PROVE AbstractScan!Init
  OBVIOUS
<1>1. KInv
  BY KInitInv
<1>2. SeenFits
  BY <1>1, SeenIs
<1>3. /\ window = [rest |-> <<>>, mask |-> {}, offset |-> 0]
      /\ token = [kind |-> "BYTES", bytes |-> <<>>, offset |-> 0]
      /\ carry = [in_string |-> FALSE, trailing_backslash_unpaired |-> FALSE]
      /\ answer = "NONE" /\ stream = <<>> /\ stream_offset = 0
      /\ window.offset = 0 /\ window.rest = <<>> /\ token.offset = 0 /\ token.bytes = <<>>
      /\ window.mask = {} /\ token.kind = "BYTES"
  BY DEF KInit, R!Init
<1>4. stream \in Seq(StreamOctet) /\ 0 \in 0 .. Len(stream)
  BY <1>3, EmptySeq
<1>5. InStream(0, 0) \in Seq(StreamOctet) /\ Len(InStream(0, 0)) = 0
  BY <1>4, OctetsFrom DEF InStream
<1>6. Kinds(InStream(0, 0)) = <<>>
  <2> DEFINE q == InStream(0, 0)
  <2> HIDE DEF q
  <2>1. q \in Seq(StreamOctet) /\ Len(q) = 0
    BY <1>5 DEF q
  <2>2. Kinds(q) \in Seq(Kind) /\ Len(Kinds(q)) = 0
    BY <2>1, KindsAre
  <2> QED
    BY <2>2, EmptySeq DEF q
<1>7. Len(<<>>) = 0
  BY EmptySeq
<1>8. [window EXCEPT !.rest = Kinds(Through(@))] = [rest |-> <<>>, mask |-> {}, offset |-> 0]
  BY <1>2, <1>3, <1>6, <1>7 DEF SeenFits
<1>9. [token EXCEPT !.bytes = Kinds(InStream(token.offset, Len(@)))] =
        [kind |-> "BYTES", bytes |-> <<>>, offset |-> 0]
  BY <1>2, <1>3, <1>6, <1>7 DEF SeenFits
<1>10. BlocksOut = 0 /\ Shorted = FALSE
  <2>1. 1 \in 1 .. WordWidth /\ 0 \in Nat /\ stream_offset = 0 * WordWidth
    BY <1>3, WordWidthAssumption
  <2>2. /\ (stream_offset + WordWidth - 1) \div WordWidth = 0
        /\ stream_offset % WordWidth = 0
    BY <2>1, BlocksCounted
  <2> QED
    BY <2>2 DEF BlocksOut, Shorted
<1>11. TextAt(window.offset) = StartOfText /\ TextAt(token.offset) = StartOfText
  BY <1>3, <1>4, TextTypes DEF TextAt, TextOf
<1>12. AbstractScan!StartOfText = StartOfText
  BY DEF AbstractScan!StartOfText, StartOfText
<1>13. Escapes = TRUE
  BY <1>3 DEF Escapes
<1>14. (\A i \in 1 .. window.offset :
          KindOf[stream[i]] = "backslash" => TextAt(i - 1).in_string) = TRUE
  BY <1>13 DEF Escapes
<1>15. /\ (stream_offset + WordWidth - 1) \div WordWidth = 0
       /\ (stream_offset % WordWidth # 0) = FALSE
  BY <1>10 DEF BlocksOut, Shorted
<1>16. "NONE" \in {"NONE", "OFFSETS", "MASKS"}
  OBVIOUS
<1> QED
  BY <1>3, <1>8, <1>9, <1>11, <1>12, <1>14, <1>15, <1>16, Zenon DEF AbstractScan!Init

\* A call inside a block.
LEMMA NextInBlockRefines ==
  ASSUME KInv, KInv', NextInBlock
  PROVE  AbstractScan!ScanOn
<1>1. /\ answer \in {"NONE", "TOKEN"} /\ window.rest # <<>> /\ HandView(window)
      /\ UNCHANGED <<reader, carry>>
  BY DEF NextInBlock, Asking, WindowSpent
<1>2. stream' = stream /\ buf_offset' = buf_offset /\ stream_offset' = stream_offset
  BY <1>1 DEF reader
<1>3. SeenFits
  BY SeenIs
<1>4. Ends(window, buf_offset', stream_offset')
  BY <1>2 DEF KInv
<1> DEFINE a == [rest |-> Kinds(SubSeq(stream', window.offset + 1,
                                       window.offset + Len(window.rest))),
                 mask |-> window.mask, offset |-> window.offset]
<1>5. [window EXCEPT !.rest = Kinds(Through(@))] = a
  BY <1>2, <1>3 DEF SeenFits, InStream
<1>6. AbstractScan!HandOut(a)
  <2>0. PICK w, b : w = window /\ b = a
    OBVIOUS
  <2>1. HandView(w)
    BY <1>1, <2>0 DEF HandView
  <2>2. /\ KInv /\ KInv'
        /\ stream' = stream \/ \E chunk \in Seq(StreamOctet) : stream' = stream \o chunk
        /\ Ends(w, buf_offset', stream_offset') /\ w.rest # <<>>
        /\ w.offset = window.offset
        /\ b = [rest |-> Kinds(SubSeq(stream', w.offset + 1, w.offset + Len(w.rest))),
                 mask |-> w.mask, offset |-> w.offset]
    BY <1>1, <1>2, <1>4, <2>0
  <2>3. AbstractScan!HandOut(b)
    BY <2>1, <2>2, HandRefines
  <2> HIDE DEF a
  <2> QED
    BY <2>0, <2>3 DEF AbstractScan!HandOut
<1>7. a.rest # <<>>
  <2> DEFINE q == SubSeq(stream', window.offset + 1, window.offset + Len(window.rest))
  <2>1. /\ stream' \in Seq(StreamOctet) /\ window.offset \in Nat /\ Len(window.rest) \in Nat
        /\ window.offset + Len(window.rest) <= Len(stream')
    BY <1>2, <1>3, ReaderTypes DEF KInv, SeenFits
  <2>2. q \in Seq(StreamOctet) /\ Len(q) = Len(window.rest)
    BY <2>1, OctetsFrom
  <2>3. window.rest \in Seq(Nat)
    BY DEF KInv, Ends, ViewWindow
  <2>4. Len(window.rest) # 0
    BY <1>1, <2>3, EmptySeq
  <2>5. a.rest = Kinds(q)
    OBVIOUS
  <2> HIDE DEF q, a
  <2>6. Kinds(q) \in Seq(Kind) /\ Len(Kinds(q)) # 0
    BY <2>2, <2>4, KindsAre
  <2> QED
    BY <2>5, <2>6, EmptySeq
<1>8. AbstractScan!Running
  BY <1>1 DEF AbstractScan!Running
<1> HIDE DEF a
<1>9. [window EXCEPT !.rest = Kinds(Through(@))].rest # <<>>
  BY <1>5, <1>7
<1>10. AbstractScan!HandOut([window EXCEPT !.rest = Kinds(Through(@))])
  BY <1>5, <1>6 DEF AbstractScan!HandOut
<1> QED
  BY <1>1, <1>2, <1>8, <1>9, <1>10 DEF AbstractScan!ScanOn

\* The window is spent for the abstract scan too.
LEMMA SpentRefines ==
  ASSUME KInv, window.rest = <<>>
  PROVE  /\ [window EXCEPT !.rest = Kinds(Through(@))].rest = <<>>
         /\ window.offset = stream_offset
<1>1. SeenFits
  BY SeenIs
<1>2. Len(window.rest) = 0
  BY EmptySeq
<1>3. /\ stream \in Seq(StreamOctet) /\ window.offset \in Nat
      /\ window.offset + 0 <= Len(stream) /\ window.offset = stream_offset
  BY <1>1, <1>2, ReaderTypes DEF KInv, SeenFits
<1> DEFINE q == InStream(window.offset, 0)
<1>4. q \in Seq(StreamOctet) /\ Len(q) = 0
  BY <1>3, OctetsFrom DEF InStream
<1>5. [window EXCEPT !.rest = Kinds(Through(@))].rest = Kinds(q)
  BY <1>1, <1>2 DEF SeenFits
<1> HIDE DEF q
<1>6. Kinds(q) \in Seq(Kind) /\ Len(Kinds(q)) = 0
  BY <1>4, KindsAre
<1> QED
  BY <1>3, <1>5, <1>6, EmptySeq

\* Whole blocks were handed out as long as the reader is not done.
LEMMA WholeBlocksOut ==
  ASSUME KInv, ~done
  PROVE  \E k \in Nat : stream_offset = k * WordWidth
BY ReaderTypes DEF KInv, RP!IInv, RP!WholeBlocks

\* A call that takes a block.
LEMMA BlockRefines ==
  ASSUME KInv, KInv', Fetching, block'.status = "BLOCK"
  PROVE  AbstractScan!ScanAnyBlock
<1>1. /\ RP!IInv /\ RP!IInv' /\ window.rest = <<>> /\ answer \in {"NONE", "TOKEN"}
      /\ ReaderStep /\ carry \in Carry
  BY DEF KInv, Fetching, Asking
<1>2. /\ block'.len \in 1 .. WordWidth
      /\ stream_offset' = stream_offset + block'.len
      /\ block'.ptr \in Nat /\ block'.ptr + block'.len = buf_offset' /\ ~done
  BY <1>1, ReaderAnswers
<1>3. PICK n \in 1 .. WordWidth, at \in Nat : n = block'.len /\ at = block'.ptr
  BY <1>2
<1>4. PICK octets \in [1 .. WordWidth -> Kind], w \in ViewWindow :
        /\ \A i \in 1 .. WordWidth : octets[i] = KindOf[buf'[at + i - 1]]
        /\ w = [rest |-> View(at, n),
                mask |-> Trimmed(Structure(octets, carry).mask, n),
                offset |-> stream_offset]
        /\ Len(w.rest) = n
        /\ w.rest # <<>>
        /\ Ends(w, buf_offset', stream_offset')
        /\ carry' = Structure(octets, carry).carry
        /\ HandView(w)
  BY <1>3, BlockTaken
<1>5. PICK k \in Nat : stream_offset = k * WordWidth
  BY <1>2, WholeBlocksOut
<1>6. window.offset = stream_offset /\ [window EXCEPT !.rest = Kinds(Through(@))].rest = <<>>
  BY <1>1, SpentRefines
<1>7. \/ stream' = stream
      \/ \E chunk \in Seq(StreamOctet) : stream' = stream \o chunk
  BY <1>1, ReaderGoesOn
<1>8. SubSeq(octets, 1, n) = Kinds(SubSeq(stream', stream_offset + 1, stream_offset + n))
  <2>1. at + n = buf_offset' /\ stream_offset' = stream_offset + n
    BY <1>2, <1>3
  <2> QED
    BY <1>1, <1>4, <2>1, BlockIsStream
<1>9. PICK a : a = [rest |-> SubSeq(octets, 1, n),
                    mask |-> Trimmed(Structure(octets, carry).mask, n),
                    offset |-> stream_offset]
  OBVIOUS
<1>10. AbstractScan!HandOut(a)
  <2>1. /\ w.offset = stream_offset
        /\ w.mask = Trimmed(Structure(octets, carry).mask, n)
    BY <1>4
  <2>2. a = [rest |-> Kinds(SubSeq(stream', w.offset + 1, w.offset + Len(w.rest))),
             mask |-> w.mask, offset |-> w.offset]
    BY <1>4, <1>8, <1>9, <2>1
  <2> QED
    BY <1>4, <1>6, <1>7, <2>1, <2>2, HandRefines
<1>11. /\ BlocksOut = k /\ ~Shorted
       /\ BlocksOut' = BlocksOut + 1
       /\ Shorted' = (n < WordWidth)
  <2>1. /\ (stream_offset + WordWidth - 1) \div WordWidth = k
        /\ stream_offset % WordWidth = 0
        /\ (stream_offset + n + WordWidth - 1) \div WordWidth = k + 1
        /\ (stream_offset + n) % WordWidth # 0 <=> n < WordWidth
    BY <1>5, BlocksCounted
  <2>2. stream_offset' = stream_offset + n
    BY <1>2, <1>3
  <2>3. BlocksOut = k /\ BlocksOut' = k + 1
    BY <2>1, <2>2 DEF BlocksOut
  <2>4. ~Shorted /\ (Shorted' <=> n < WordWidth)
    BY <2>1, <2>2 DEF Shorted
  <2>5. Shorted' \in BOOLEAN /\ (n < WordWidth) \in BOOLEAN
    BY DEF Shorted
  <2> QED
    BY <2>3, <2>4, <2>5
<1>12. BlocksOut < MaxStream \div WordWidth + 1
  <2>1. stream_offset <= Len(stream) /\ Len(stream) <= MaxStream /\ Len(stream) \in Nat
        /\ stream_offset \in Nat
    BY <1>1, ReaderTypes DEF KInv
  <2>2. k * WordWidth <= MaxStream
    BY <1>5, <2>1, MaxStreamAssumption
  <2> QED
    BY <1>11, <2>2, BlocksBounded
<1>13. BlocksOut * WordWidth = stream_offset
  BY <1>5, <1>11
<1>14. /\ AbstractScan!Structure(octets, carry) = Structure(octets, carry)
       /\ \A m : AbstractScan!Trimmed(m, n) = Trimmed(m, n)
  BY SameOperators
<1>15. a = [rest |-> SubSeq(octets, 1, n),
            mask |-> AbstractScan!Trimmed(AbstractScan!Structure(octets, carry).mask, n),
            offset |-> BlocksOut * WordWidth]
  BY <1>9, <1>13, <1>14
<1>16. AbstractScan!Traced("NONE", BlocksOut * WordWidth, octets, a.mask) = <<>>
  BY DEF AbstractScan!Traced
<1>17. carry' = AbstractScan!Structure(octets, carry).carry
  BY <1>4, <1>14
<1>18. AbstractScan!Running
  BY <1>1 DEF AbstractScan!Running
<1>19. AbstractScan!ScanBlock(octets, n)
  BY <1>6, <1>10, <1>11, <1>15, <1>16, <1>17, <1>18
     DEF AbstractScan!ScanBlock, BlocksOut, Shorted, AbstractScan!HandOut
<1>20. octets \in [1 .. WordWidth -> AbstractScan!Kind]
  BY <1>4 DEF AbstractScan!Kind, Kind
<1> QED
  BY <1>12, <1>19, <1>20 DEF AbstractScan!ScanAnyBlock, BlocksOut

\* A call that finds the stream at its end or cannot read it.
LEMMA StopRefines ==
  ASSUME KInv, KInv', Fetching, block'.status \in {"END", "ERROR"}
  PROVE  AbstractScan!ScanStops
<1>1. /\ RP!IInv /\ window.rest = <<>> /\ answer \in {"NONE", "TOKEN"} /\ ReaderStep
  BY DEF KInv, Fetching, Asking
<1>2. /\ answer' = block'.status /\ UNCHANGED <<carry, window, token, held>>
      /\ stream_offset' = stream_offset
      /\ block'.status = "ERROR" => ~done
  BY <1>1, FetchingIs, ReaderAnswers
<1>3. \/ stream' = stream
      \/ \E chunk \in Seq(StreamOctet) : stream' = stream \o chunk
  BY <1>1, ReaderGoesOn
<1>4. /\ UNCHANGED <<BlocksOut, Shorted>>
      /\ UNCHANGED [window EXCEPT !.rest = Kinds(Through(@))]
      /\ UNCHANGED [token EXCEPT !.bytes = Kinds(InStream(token.offset, Len(@)))]
      /\ UNCHANGED <<TextAt(window.offset), TextAt(token.offset)>>
      /\ UNCHANGED Escapes
  BY <1>2, <1>3, StillRefines
<1>5. [window EXCEPT !.rest = Kinds(Through(@))].rest = <<>>
  BY <1>1, SpentRefines
<1>6. answer' \in IF Shorted THEN {"END"} ELSE {"END", "ERROR"}
  <2>1. CASE answer' = "END"
    BY <2>1
  <2>2. CASE answer' = "ERROR"
    <3>1. PICK k \in Nat : stream_offset = k * WordWidth
      BY <1>2, <2>2, WholeBlocksOut
    <3>2. 1 \in 1 .. WordWidth
      BY WordWidthAssumption
    <3>3. ~Shorted
      BY <3>1, <3>2, BlocksCounted DEF Shorted
    <3> QED
      BY <2>2, <3>3
  <2> QED
    BY <1>2, <2>1, <2>2
<1>7. AbstractScan!Running
  BY <1>1 DEF AbstractScan!Running
<1> QED
  BY <1>2, <1>4, <1>5, <1>6, <1>7
     DEF AbstractScan!ScanStops, AbstractScan!ghosts, BlocksOut, Shorted, Escapes

\* A step that leaves the scan where it is.
LEMMA StutterRefines ==
  ASSUME KInv, KInv',
         \/ stream' = stream
         \/ \E chunk \in Seq(StreamOctet) : stream' = stream \o chunk,
         UNCHANGED <<carry, window, answer, token, stream_offset>>
  PROVE  UNCHANGED AbstractScan!vars
<1>1. /\ UNCHANGED <<BlocksOut, Shorted>>
      /\ UNCHANGED [window EXCEPT !.rest = Kinds(Through(@))]
      /\ UNCHANGED [token EXCEPT !.bytes = Kinds(InStream(token.offset, Len(@)))]
      /\ UNCHANGED <<TextAt(window.offset), TextAt(token.offset)>>
      /\ UNCHANGED Escapes
  BY StillRefines
<1> QED
  BY <1>1 DEF AbstractScan!vars, AbstractScan!ghosts, BlocksOut, Shorted, Escapes

\* Every step of the scan over the reader is one of the abstract scan, or none.
LEMMA KNextRefines ==
  KInv /\ KInv' /\ [KNext]_kvars => [AbstractScan!Next]_(AbstractScan!vars)
<1> SUFFICES ASSUME KInv, KInv', [KNext]_kvars
             PROVE  [AbstractScan!Next]_(AbstractScan!vars)
  OBVIOUS
<1>1. CASE NextInBlock
  BY <1>1, NextInBlockRefines DEF AbstractScan!Next
<1>2. CASE Fetching
  <2>1. RP!IInv /\ ReaderStep
    BY <1>2 DEF KInv, Fetching
  <2>2. CASE block'.status = "BLOCK"
    BY <1>2, <2>2, BlockRefines DEF AbstractScan!Next
  <2>3. CASE block'.status \in {"END", "ERROR"}
    BY <1>2, <2>3, StopRefines DEF AbstractScan!Next
  <2>4. CASE block'.status = "PENDING"
    <3>1. UNCHANGED scan /\ stream_offset' = stream_offset
      BY <1>2, <2>1, <2>4, FetchingIs, ReaderAnswers
    <3>2. \/ stream' = stream
          \/ \E chunk \in Seq(StreamOctet) : stream' = stream \o chunk
      BY <2>1, ReaderGoesOn
    <3>3. UNCHANGED <<carry, window, answer, token, stream_offset>>
      BY <3>1 DEF scan
    <3> QED
      BY <3>2, <3>3, StutterRefines
  <2> QED
    BY <1>2, <2>1, <2>2, <2>3, <2>4, ReaderAnswers
<1>3. CASE Release \/ UNCHANGED kvars
  <2>1. UNCHANGED <<carry, window, answer, token, stream_offset>> /\ stream' = stream
    BY <1>3 DEF Release, kvars, reader, scan
  <2> QED
    BY <2>1, StutterRefines
<1> QED
  BY <1>1, <1>2, <1>3, FetchIs DEF KNext

\* On the reader's moving buffer the scan keeps what it promises over blocks that
\* stand still: tokens and masks never depend on how reads fall.
THEOREM ScanReaderImplementsScan == KSpec => ImplementsScan
<1>1. KInit => AbstractScan!Init
  BY KInitRefines
<1>2. KInv /\ KInv' /\ [KNext]_kvars => [AbstractScan!Next]_(AbstractScan!vars)
  BY KNextRefines
<1> QED
  BY <1>1, <1>2, KInvHolds, PTL DEF KSpec, ImplementsScan, AbstractScan!Spec
=============================================================================
