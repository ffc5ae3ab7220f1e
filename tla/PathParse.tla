------------------------------ MODULE PathParse ------------------------------
(***************************************************************************)
(* jsp_path_parse: the text of a path into the places of its dots, so that *)
(* jsp_path_segment can cut a segment out with no scan.  A step is one     *)
(* pass of the loop.                                                       *)
(***************************************************************************)
EXTENDS Integers, SequencesExt

CONSTANTS
  PathOctet,              \* what one octet of a path may be
  JSP_PATH_MAX_SEGMENTS,  \* 64 in the code
  MaxText                 \* bound of the exploration: octets in the text

Dot == "."

ASSUME DotAssumption == Dot \in PathOctet
ASSUME SegmentsAssumption == JSP_PATH_MAX_SEGMENTS \in Nat \ {0}
ASSUME MaxTextAssumption == MaxText \in Nat

VARIABLES
  text,      \* the argument
  pos,       \* i, the loop's index, from 0
  segments,  \* how many segments were found
  dots,      \* the entries of the array that were written
  verdict    \* "pending", then what the call returns

pathvars == <<text, pos, segments, dots, verdict>>

Octet(at) == text[at + 1]

YInit ==
  /\ text \in UNION {[1 .. n -> PathOctet] : n \in 0 .. MaxText}
  /\ pos = 0
  /\ segments = 0
  /\ dots = <<>>
  /\ verdict = "pending"

Rejects == verdict' = "no" /\ UNCHANGED <<text, pos, segments, dots>>

Starts == text # <<>> /\ Octet(0) = Dot

\* The text is empty or does not start with a dot.
RejectStart ==
  /\ verdict = "pending"
  /\ ~Starts
  /\ Rejects

\* A pass of the loop, which "." alone never enters.
Passing ==
  /\ verdict = "pending"
  /\ Starts
  /\ Len(text) > 1
  /\ pos < Len(text)

PassOctet ==
  /\ Passing
  /\ Octet(pos) # Dot
  /\ pos' = pos + 1
  /\ UNCHANGED <<text, segments, dots, verdict>>

\* Fault: the last octet is not told apart from the others.
OpensSegmentAtEnd ==
  /\ pos + 1 < Len(text) => Octet(pos + 1) # Dot
  /\ segments < JSP_PATH_MAX_SEGMENTS

\* Fault: one more segment than the array has room for.
OpensSegmentPastBound ==
  /\ pos + 1 # Len(text)
  /\ Octet(pos + 1) # Dot
  /\ segments <= JSP_PATH_MAX_SEGMENTS

\* Whether a segment may start after the dot at pos.
OpensSegment ==
  /\ pos + 1 # Len(text)
  /\ Octet(pos + 1) # Dot
  /\ segments # JSP_PATH_MAX_SEGMENTS

PassDot ==
  /\ Passing
  /\ Octet(pos) = Dot
  /\ OpensSegment
  /\ dots' = Append(dots, pos)
  /\ segments' = segments + 1
  /\ pos' = pos + 1
  /\ UNCHANGED <<text, verdict>>

RejectDot ==
  /\ Passing
  /\ Octet(pos) = Dot
  /\ ~OpensSegment
  /\ Rejects

\* The loop is over, or was not entered for ".".
Accept ==
  /\ verdict = "pending"
  /\ Starts
  /\ Len(text) > 1 => pos = Len(text)
  /\ dots' = Append(dots, Len(text))
  /\ verdict' = "yes"
  /\ UNCHANGED <<text, pos, segments>>

YNext == RejectStart \/ PassOctet \/ PassDot \/ RejectDot \/ Accept

YSpec == YInit /\ [][YNext]_pathvars

\* jsp_path_segment, with k counting from 1.
Segment(k) == SubSeq(text, dots[k] + 2, dots[k + 1])

-----------------------------------------------------------------------------
(* Properties *)

\* The text of the path whose segments are segs.
Spelled(segs) ==
  IF segs = <<>> THEN <<Dot>>
  ELSE FoldLeft(LAMBDA t, s : Append(t, Dot) \o s, <<>>, segs)

Name ==
  UNION {[1 .. n -> PathOctet \ {Dot}] : n \in 1 .. Len(text)}

\* A text is taken for a path exactly when some names, as many as the bound
\* allows and none of them empty, spell it; and jsp_path_segment gives those back.
PathIsItsSegments ==
  /\ verdict = "yes" =>
       LET found == [k \in 1 .. segments |-> Segment(k)]
       IN (\A k \in 1 .. segments : found[k] \in Name) /\ Spelled(found) = text
  /\ verdict = "no" =>
       ~\E n \in 0 .. JSP_PATH_MAX_SEGMENTS : \E segs \in [1 .. n -> Name] :
          Spelled(segs) = text

\* Every write falls into the array's JSP_PATH_MAX_SEGMENTS + 1 entries, and of
\* an accepted path the entries rise within the text: each segment is a span of
\* it, with an octet at least and no dot, between two dots or a dot and the end.
DotsCutText ==
  /\ Len(dots) <= JSP_PATH_MAX_SEGMENTS + 1
  /\ verdict = "yes" =>
       /\ Len(dots) = segments + 1
       /\ dots[segments + 1] = Len(text)
       /\ \A k \in 1 .. segments :
            /\ dots[k] + 1 < dots[k + 1]
            /\ Octet(dots[k]) = Dot
            /\ \A at \in dots[k] + 1 .. dots[k + 1] - 1 : Octet(at) # Dot
=============================================================================
