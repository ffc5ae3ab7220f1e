--------------------------------- MODULE Run ---------------------------------
(***************************************************************************)
(* jsp_run: the loop that takes tokens from jsp_scan and pushes them into  *)
(* jsp_pluck, between the opening and the closing framing.                 *)
(*                                                                         *)
(* The stream is any octets at all whose backslashes stand in strings;     *)
(* jsp_scan cuts it into tokens, ends it, or fails, with a read(2) or a    *)
(* write of a trace line.  Newlines of the framing other than the one that *)
(* separates lines are left out.                                           *)
(***************************************************************************)
EXTENDS Pluck, SequencesExt

CONSTANT MaxOctets  \* bound of the exploration: octets in the stream

ASSUME MaxOctetsAssumption == MaxOctets \in Nat

\* The symbols of structure and of the framing stand for no octet of a token.
ASSUME SymbolsAssumption == Octet \cap (Structural \cup {Separator}) = {}

VARIABLES
  output,  \* jsp_output_mode: "SINK" without a path, "PLUCK" with one
  stage,   \* where jsp_run stands: "alloc", "open", "loop", "close", "done"
  result,  \* jsp_result, with the octet at fault
  out,     \* what out_fd took
  failed,  \* ghost: the calls that failed so far; errno is the last one's
  read     \* ghost: the octets of all tokens so far

run == <<output, stage, result, out, failed, read>>
runvars == <<vars, run>>

\* The framing that the command line chose: nothing without a path, an array
\* by default, and lines under --lines, which lets only scalars out.
OpenText == IF output = "PLUCK" /\ ~scalars_only THEN <<"lbracket">> ELSE <<>>

CloseText ==
  IF output = "SINK" THEN <<>>
  ELSE IF scalars_only THEN <<Separator>> ELSE <<"rbracket">>

\* A result that no failing call explains.
Result(how, offset) ==
  [status |-> how, sys_errno |-> "none", offset |-> offset]

\* call fails, and the run with it: jsp_result_make_ looks at errno.
FailsWith(how, call) ==
  /\ failed' = Append(failed, call)
  /\ result' = [Result(how, 0) EXCEPT !.sys_errno = Last(failed')]

RInit ==
  /\ Init
  /\ output \in {"SINK", "PLUCK"}
  /\ output = "SINK" => path = <<>> /\ ~scalars_only
  /\ stage = "alloc"
  /\ result = Result("OK", 0)
  /\ out = <<>>
  /\ failed = <<>>
  /\ read = <<>>

-----------------------------------------------------------------------------
(* Before the stream *)

\* The buffer, or the run is over.
RunAlloc ==
  /\ stage = "alloc"
  /\ \/ stage' = "open" /\ UNCHANGED <<result, failed>>
     \/ stage' = "done" /\ FailsWith("ALLOC", "calloc")
  /\ UNCHANGED <<vars, output, out, read>>

\* The opening framing goes out, or the run is over.
RunOpen ==
  /\ stage = "open"
  /\ \/ /\ out' = OpenText
        /\ stage' = "loop"
        /\ UNCHANGED <<result, failed>>
     \/ /\ OpenText # <<>>
        /\ stage' = "done"
        /\ FailsWith("IO", "write")
        /\ UNCHANGED out
  /\ UNCHANGED <<vars, output, read>>

-----------------------------------------------------------------------------
(* The loop *)

\* The next token's octets.
Take(bytes) ==
  /\ stage = "loop"
  /\ rest = <<>>
  /\ Len(read) + Len(bytes) <= MaxOctets
  /\ read' = read \o bytes
  /\ UNCHANGED output

\* Without a path a token is dropped.
SinkStructural(c) ==
  /\ output = "SINK"
  /\ Take(<<c>>)
  /\ Scanned(c)
  /\ UNCHANGED <<config, phase, emitted_any, walk, rest, status, wrote>>
  /\ UNCHANGED <<stage, result, out, failed>>

SinkBytes(bytes) ==
  /\ output = "SINK"
  /\ Take(bytes)
  /\ UNCHANGED <<vars, stage, result, out, failed>>

\* The run's status for a push that stopped at the input.
RunStatus == [MALFORMED |-> "MALFORMED", CONTAINER_REFUSED |-> "LINES_CONTAINER"]

\* Fault: a run that a push stopped names the octet after the token.
FailurePastToken(pushed, offset) ==
  result' = Result(RunStatus[pushed], offset + 1) /\ UNCHANGED failed

\* pluck_failure_, where the input is at fault: a push that ended MALFORMED or
\* CONTAINER_REFUSED, with the token's offset.
Failure(pushed, offset) ==
  result' = Result(RunStatus[pushed], offset) /\ UNCHANGED failed

\* A push of the token at offset goes on with rest', or is over.
Pushed(offset) ==
  \/ /\ status' = "OK"
     /\ rest' # <<>>
     /\ UNCHANGED <<stage, result, out, failed>>
  \/ /\ status' = "OK" => rest' = <<>>
     /\ out' = out \o wrote'
     /\ \/ status' = "OK" /\ UNCHANGED <<stage, result, failed>>
        \/ status' = "WRITE_FAILED" /\ stage' = "close" /\ FailsWith("IO", "write")
        \/ /\ status' \in DOMAIN RunStatus
           /\ stage' = "close"
           /\ Failure(status', offset)

RunStructural(c) ==
  /\ output = "PLUCK"
  /\ Take(<<c>>)
  /\ Scanned(c)
  /\ PushStructural(c)
  /\ Pushed(Len(read))

RunBytes(bytes) ==
  /\ output = "PLUCK"
  /\ Take(bytes)
  /\ PushBytesToken(bytes)
  /\ Pushed(Len(read))

\* One more pass of the push that the last token started: it can only fail by a
\* write, whose offset is not looked at.
RunPass ==
  /\ stage = "loop"
  /\ ScalarPass
  /\ Pushed(0)
  /\ UNCHANGED <<output, read>>

\* The loop is over before its next token.
Stops ==
  /\ stage = "loop"
  /\ rest = <<>>
  /\ stage' = "close"
  /\ UNCHANGED <<vars, output, out, read>>

\* JSP_SCAN_END.
RunScanEnds == Stops /\ UNCHANGED <<result, failed>>

\* JSP_SCAN_ERROR: a read(2) or the write of a trace line failed.
RunScanFails(call) == Stops /\ FailsWith("IO", call)

-----------------------------------------------------------------------------
(* After the stream *)

\* Fault: the result is made once the closing framing was written.
ResultAtClose ==
  result' = IF result.status = "IO" THEN [result EXCEPT !.sys_errno = Last(failed')]
                                    ELSE result

\* What closing makes of the result.
ResultKept == UNCHANGED result

\* The closing framing goes out, whatever stopped the loop; whether it did is
\* not looked at.
RunClose ==
  /\ stage = "close"
  /\ stage' = "done"
  /\ \/ out' = out \o CloseText /\ UNCHANGED failed
     \/ CloseText # <<>> /\ failed' = Append(failed, "write") /\ UNCHANGED out
  /\ ResultKept
  /\ UNCHANGED <<vars, output, read>>

RNext ==
  \/ RunAlloc
  \/ RunOpen
  \/ \E c \in Structural : SinkStructural(c) \/ RunStructural(c)
  \/ \E bytes \in BytesTokens : SinkBytes(bytes) \/ RunBytes(bytes)
  \/ RunPass
  \/ RunScanEnds
  \/ RunScanFails("read")
  \/ RunScanFails("trace")
  \/ RunClose

RSpec == RInit /\ [][RNext]_runvars

-----------------------------------------------------------------------------
(* What the properties compare with: brackets read by a plain stack *)

Matching == [rbrace |-> "lbrace", rbracket |-> "lbracket"]

\* Past octet o, with the brackets still open and the first that breaks nesting:
\* it closes nothing, or not what is open, or too many are.
PastOctet(b, o) ==
  LET next == [b EXCEPT !.offset = @ + 1]
  IN IF b.fault # {} THEN b
     ELSE IF o = Quote THEN [next EXCEPT !.in_string = ~@]
     ELSE IF b.in_string \/ o \notin Opening \cup Closing THEN next
     ELSE IF o \in Opening
       THEN IF Len(b.open) = b.bound
              THEN [b EXCEPT !.fault = {b.offset}]
              ELSE [next EXCEPT !.open = Append(@, o)]
     ELSE IF b.open = <<>> \/ Last(b.open) # Matching[o]
       THEN [b EXCEPT !.fault = {b.offset}]
       ELSE [next EXCEPT !.open = Front(@)]

Nested(octets, bound) ==
  FoldLeft(PastOctet,
           [open |-> <<>>, in_string |-> FALSE, offset |-> 0, fault |-> {},
            bound |-> bound],
           octets)

-----------------------------------------------------------------------------
(* Properties *)

\* With a path, a run is MALFORMED exactly when a bracket of the stream so far
\* breaks nesting, whatever the path does there, and its offset names the first.
FaultIsLocated ==
  output = "PLUCK" /\ rest = <<>> =>
    Nested(read, JSP_MAX_DEPTH).fault =
      IF result.status = "MALFORMED" THEN {result.offset} ELSE {}

\* A run that a failing call stopped reports the errno of that call, whatever
\* failed after it; any other run reports none.
ErrnoIsOfFirstFailure ==
  result.sys_errno =
    IF result.status \in {"ALLOC", "IO"} THEN failed[1] ELSE "none"

\* A scalar's own octets: a string between its quotes, or a bare one.
OneScalar(octets) ==
  \/ /\ Len(octets) >= 2
     /\ {i \in 1 .. Len(octets) : octets[i] \in Structural} = {1, Len(octets)}
     /\ octets[1] = Quote
     /\ Last(octets) = Quote
  \/ octets # <<>> /\ \A i \in 1 .. Len(octets) : octets[i] \in Letter

\* Where lines end, the closing newline aside.
LineEnds ==
  {i \in 1 .. Len(out) : out[i] = Separator /\ (stage = "done" => i < Len(out))}

\* Under --lines, each line but the one that the run stopped in holds exactly
\* one scalar and no container, however malformed the stream and wherever a
\* write fails.
LinesHoldOneScalar ==
  scalars_only =>
    \A j \in LineEnds : \E i \in 0 .. j - 1 :
      /\ i = 0 \/ out[i] = Separator
      /\ OneScalar(SubSeq(out, i + 1, j - 1))

\* What include/jsp_run.h says: the closing framing goes out after the stream
\* ends, and a write that fails makes the run JSP_ERR_IO.  So a run that is OK
\* has written it.
OkMeansClosed ==
  stage = "done" /\ result.status = "OK" /\ CloseText # <<>> =>
    out # <<>> /\ Last(out) = Last(CloseText)

\* What docs/plucker.md says: malformed input leaves a parseable array, since
\* the closing framing is still to go out.  A parseable array has its brackets
\* nested, at the least.
StoppedRunNests ==
  stage = "close" /\ result.status = "MALFORMED" /\ ~scalars_only =>
    LET nested == Nested(out \o CloseText, Len(out) + 1)
    IN nested.fault = {} /\ nested.open = <<>>
=============================================================================
