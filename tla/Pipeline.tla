------------------------------ MODULE Pipeline ------------------------------
(***************************************************************************)
(* The whole program between the command line and the exit status: jsp_run *)
(* takes its tokens from jsp_scan over jsp_reader (module ScanReader) and  *)
(* pushes into jsp_pluck the octets that it finds through their views, at  *)
(* the time of the push.                                                   *)
(***************************************************************************)
EXTENDS Run, ScanReader, JsonText

CONSTANT Texts  \* the streams explored: JSON texts

ASSUME OctetsAssumption == StreamOctet = Octet \cup Structural

\* The classifier is exact.
ASSUME KindsAssumption ==
  \A o \in StreamOctet :
    /\ KindOf[o] = "quote" <=> o = Quote
    /\ KindOf[o] = "bracket" <=> o \in Structural \ {Quote}
    /\ KindOf[o] = "backslash" <=> o = "backslash"

VARIABLES
  exit,  \* main's exit status, "none" before it
  text   \* ghost: a reader of single octets, past those in the tokens so far

pvars == <<runvars, reader, scan, exit, text>>

-----------------------------------------------------------------------------
(* What the path picks, by the reader of module Json *)

\* The reader before a text, where path p picks and only scalars may go out if
\* flat; the octets due before those of the last token stand in before.
TextStart(p, flat) ==
  [json |-> J!Start, escaped |-> FALSE, before |-> <<>>, path |-> p, flat |-> flat]

\* Past octet o: inside a string only a quote that nothing escapes is structure.
PastTextOctet(t, o) ==
  IF t.json.verdict # "OK" THEN t
  ELSE [t EXCEPT
          !.json = CASE Inside(@) /\ (o # Quote \/ t.escaped) -> J!ReadContent(@, o)
                     [] ~Inside(@) /\ o \notin Structural ->
                          ReadOctetFor(@, o, t.path)
                     [] OTHER -> ReadStructuralFor(@, o, t.path, t.flat),
          !.escaped = o = "backslash" /\ ~@]

\* The reader after the first n octets of text s.
TextFirst(s, n, p, flat) ==
  FoldLeft(PastTextOctet, TextStart(p, flat), SubSeq(s, 1, n))

\* Whether JSON goes on with octet o.  Where the reader stopped, anything may.
GoesOnWith(t, o) ==
  \/ t.json.verdict # "OK"
  \/ Inside(t.json)
  \/ o \in Structural /\ AllowsStructural(t.json, o)
  \/ o \notin Structural \cup {"backslash"} /\ AllowsOctet(t.json, o)

\* JSON, or its beginning: a text may end anywhere.
LegalText(s, p, flat) ==
  \A n \in 1 .. Len(s) : GoesOnWith(TextFirst(s, n - 1, p, flat), s[n])

ASSUME TextsAssumption ==
  \A s \in Texts :
    /\ s \in Seq(StreamOctet)
    /\ Len(s) <= MaxStream
    /\ \A p \in Paths, flat \in BOOLEAN : LegalText(s, p, flat)

PInit ==
  /\ RInit
  /\ KInit
  /\ exit = "none"
  /\ text = TextStart(path, scalars_only)

\* The reader with nothing put out yet for the next token.
NextText == [text EXCEPT !.before = @ \o text.json.due, !.json.due = <<>>]

\* Past the next n octets of the stream.
ReadOn(n) == text' = FoldLeft(PastTextOctet, NextText, InStream(Len(read), n))

\* The output that is due.
Picked ==
  IF output = "SINK" THEN <<>> ELSE OpenText \o text.before \o text.json.due

-----------------------------------------------------------------------------
(* jsp_run *)

Before == (RunAlloc \/ RunOpen) /\ UNCHANGED <<reader, scan, exit, text>>

\* read(2) brings some of the octets that one of the texts goes on with.
FetchText ==
  \E whole \in Texts :
    /\ IsPrefix(stream, whole)
    /\ \E n \in 1 .. Len(whole) - Len(stream) :
         FetchSome(SubSeq(whole, Len(stream) + 1, Len(stream) + n))

\* jsp_scan_next is called, or goes on; a read(2) that is interrupted only
\* stutters.
Pull ==
  /\ stage = "loop"
  /\ rest = <<>>
  /\ \/ NextInBlock
     \/ FetchBuffered
     \/ FetchFails
     \/ stream \in Texts /\ FetchEnd
     \/ FetchText
  /\ UNCHANGED <<runvars, exit, text>>

\* Fault: the token is looked for where its block began in the stream.
TokenOctetsAtOffset ==
  [i \in 1 .. Len(token.bytes) |-> buf[(token.offset + i - 1) % Cap]]

\* What is at the token's addresses.
TokenOctets == Through(token.bytes)

\* The token is pushed, or dropped without a path.
PushToken ==
  /\ Release
  /\ IF token.kind = "STRUCTURAL"
       THEN RunStructural(TokenOctets[1]) \/ SinkStructural(TokenOctets[1])
       ELSE RunBytes(TokenOctets) \/ SinkBytes(TokenOctets)
  /\ ReadOn(Len(token.bytes))
  /\ UNCHANGED exit

PassOn == RunPass /\ UNCHANGED <<reader, scan, exit, text>>

\* Fault: a scan that fails is taken for one that ended.
ScanStopsAnyway ==
  /\ ~held
  /\ answer \in {"END", "ERROR"}
  /\ RunScanEnds
  /\ UNCHANGED <<reader, scan, exit, text>>

ScanStops ==
  /\ ~held
  /\ \/ answer = "END" /\ RunScanEnds
     \/ answer = "ERROR" /\ RunScanFails("read")
  /\ UNCHANGED <<reader, scan, exit, text>>

Close == RunClose /\ UNCHANGED <<reader, scan, exit, text>>

-----------------------------------------------------------------------------
(* main *)

ExitStatus ==
  [OK |-> "0", ALLOC |-> "1", IO |-> "2", MALFORMED |-> "3", LINES_CONTAINER |-> "4"]

\* main returns the run's status; what it prints first is not looked at.
MainReturns ==
  /\ stage = "done"
  /\ exit = "none"
  /\ exit' = ExitStatus[result.status]
  /\ UNCHANGED <<runvars, reader, scan, text>>

PNext ==
  \/ Before
  \/ Pull
  \/ PushToken
  \/ PassOn
  \/ ScanStops
  \/ Close
  \/ MainReturns

\* There is one thread, and it runs on: read(2) brings the rest of a text and
\* its end in time, and no call is interrupted for ever.
PSpec == PInit /\ [][PNext]_pvars /\ WF_pvars(PNext)

-----------------------------------------------------------------------------
(* Properties *)

\* Between two pushes the output is what the path picks out of the stream's own
\* octets so far, and a run that stopped has put out that, or a part of it when a
\* write failed: block boundaries, reads, escapes and the buffer's moves never
\* show in it.
OutputIsPicked ==
  /\ \/ stage = "loop" /\ rest = <<>>
     \/ stage = "close" /\ result.status # "IO"
     => out = Picked
  /\ stage = "close" /\ result.status = "IO" => IsPrefix(out, Picked)

\* A run that the input stopped names, by the scan's offset, the first octet of
\* the stream that cannot be read, and says what is wrong with it: a bracket too
\* deep, or a picked container when only scalars may go out.  Neither blocks nor
\* the buffer's moves shift it.
StopIsLocated ==
  LET verdictAfter(n) == TextFirst(stream, n, path, scalars_only).json.verdict
  IN result.status \in {"MALFORMED", "LINES_CONTAINER"} =>
       /\ result.offset = token.offset
       /\ verdictAfter(token.offset) = "OK"
       /\ \E why \in DOMAIN RunStatus :
            /\ verdictAfter(token.offset + 1) = why
            /\ RunStatus[why] = result.status

\* The exit status is 0 only when the stream was read to its end and everything
\* that the path picks went out, the closing framing aside.
ZeroMeansWhole ==
  exit = "0" =>
    /\ read = stream
    /\ stream \in Texts
    /\ out \in {Picked, Picked \o CloseText}

\* The program exits: no token is empty, no call waits for what cannot come, and
\* whatever the scan hands out can be pushed.
ProgramExits == <>(exit # "none")
=============================================================================
