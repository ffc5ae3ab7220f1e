-------------------------------- MODULE Pluck --------------------------------
(***************************************************************************)
(* jsp_pluck: the walk that takes a stream's tokens one at a time and      *)
(* writes the values a path picks, without ever holding a value.           *)
(*                                                                         *)
(* A STRUCTURAL token is one step.  A BYTES token is one step too, except  *)
(* outside strings and picked containers, where jsp_pluck_push loops over  *)
(* the bare scalars in it: there PushBytesBetween enters the loop and      *)
(* every ScalarPass is one pass of it.  Every write may fail, after some   *)
(* of its octets went out; the caller then pushes nothing more.            *)
(***************************************************************************)
EXTENDS Nesting, Sequences

CONSTANTS
  Letter,      \* octets that are neither structural nor whitespace
  Blank,       \* JSON whitespace
  Paths,       \* the paths explored: sequences of segments
  BytesTokens  \* the BYTES tokens explored: sequences of octets

Octet == Letter \cup Blank

\* The separator's text, as one symbol of the output.
Separator == "separator"

ASSUME PathsAssumption ==
  \A p \in Paths : p \in Seq(Seq(Octet)) /\ \A i \in 1 .. Len(p) : p[i] # <<>>

ASSUME BytesAssumption ==
  \A bytes \in BytesTokens : bytes \in Seq(Octet) /\ bytes # <<>>

ASSUME OctetAssumption == Letter \cap Blank = {}

VARIABLES
  path,               \* the segments to match, outermost key first
  scalars_only,       \* refuse a container value rather than emit it
  phase,              \* jsp_pluck_phase
  emitted_any,        \* a value was begun
  nesting,            \* jsp_nesting_state
  segments_matched,   \* keys that led here
  segment_text_left,  \* path octets the open key has yet to match
  last_structural,    \* the last of { } [ ] : , " seen
  in_string,          \* the tokens' own state: between a string's quotes
  rest,               \* octets of a BYTES token that the loop has yet to pass
  status,             \* jsp_pluck_status of the last push
  wrote               \* what the last push handed to out_fd

config == <<path, scalars_only>>
walk == <<nesting, segments_matched, segment_text_left, last_structural>>
vars == <<config, phase, emitted_any, walk, in_string, rest, status, wrote>>

Phases == {"BETWEEN", "STRING", "CONTAINER", "SCALAR", "KEY", "SKIP_STRING"}

Statuses == {"OK", "WRITE_FAILED", "MALFORMED", "CONTAINER_REFUSED"}

Init ==
  /\ path \in Paths
  /\ scalars_only \in BOOLEAN
  /\ phase = "BETWEEN"
  /\ emitted_any = FALSE
  /\ nesting = EmptyStack
  /\ segments_matched = 0
  /\ segment_text_left = <<>>
  /\ last_structural = "none"
  /\ in_string = FALSE
  /\ rest = <<>>
  /\ status = "OK"
  /\ wrote = <<>>

-----------------------------------------------------------------------------
(* Where the walk stands *)

\* Fault: the innermost container decides instead of the outermost.
RecordDepthByInnermost(s) == IF ~Empty(s) /\ ~Top(s) THEN 1 ELSE 0

\* Every top-level array unwraps: its elements are records.
RecordDepth(s) == IF OutermostIsArray(s) THEN 1 ELSE 0

\* Fault: a ',' is taken to be an object's, in an array too.
KeyAfterAnyComma == last_structural \in {"lbrace", "comma"}

\* A string starting here would be a key.
KeyComesNext ==
  \/ last_structural = "lbrace"
  \/ last_structural = "comma" /\ InnermostIsObject(nesting)

\* A value starting here is the one the path picks.
AtValue ==
  /\ segments_matched = Len(path)
  /\ ~KeyComesNext
  /\ nesting.depth = RecordDepth(nesting) + Len(path)

\* A string starting here is a key that the next segment could match.
AtKey ==
  /\ segments_matched < Len(path)
  /\ KeyComesNext
  /\ nesting.depth = RecordDepth(nesting) + segments_matched + 1

-----------------------------------------------------------------------------
(* Writing *)

\* Writes pieces after what this push wrote before: all of them, or a part and
\* then the failure of jsp_write_all.
Emit(before, pieces) ==
  \/ wrote' = before \o pieces /\ status' = "OK"
  \/ /\ status' = "WRITE_FAILED"
     /\ \E k \in 0 .. Len(pieces) - 1 :
          wrote' = before \o SubSeq(pieces, 1, k)

EmitNothing == wrote' = <<>> /\ status' = "OK"

\* begin_value_: the separator goes before every value but the first.
SeparatorDue == IF emitted_any THEN <<Separator>> ELSE <<>>

BeginValue(first) ==
  /\ Emit(<<>>, SeparatorDue \o <<first>>)
  /\ emitted_any' = TRUE

-----------------------------------------------------------------------------
(* One STRUCTURAL token *)

\* A push that may take a structural character.
Pushable == status = "OK" /\ rest = <<>>

\* A bracket that breaks nesting stops the walk where it is.
PushMalformed(c) ==
  /\ Pushable
  /\ Verdict(nesting, c) # "OK"
  /\ status' = "MALFORMED"
  /\ wrote' = <<>>
  /\ UNCHANGED <<config, phase, emitted_any, walk, rest>>

\* Every other one passes through jsp_nesting_step once, whatever the phase.
Advance(c) ==
  /\ Pushable
  /\ Verdict(nesting, c) = "OK"
  /\ nesting' = Step(nesting, c)
  /\ last_structural' = c
  /\ UNCHANGED <<config, rest>>

OpensWrapper(c) == c = "lbracket" /\ Empty(nesting)

\* The '[' of a top-level array: not a record.
PushWrapper(c) ==
  /\ Advance(c)
  /\ OpensWrapper(c)
  /\ phase' = IF phase = "SCALAR" THEN "BETWEEN" ELSE phase
  /\ EmitNothing
  /\ UNCHANGED <<emitted_any, segments_matched, segment_text_left>>

\* The quote that ends a picked string.
PushStringEnd(c) ==
  /\ Advance(c)
  /\ ~OpensWrapper(c)
  /\ phase = "STRING"
  /\ phase' = "BETWEEN"
  /\ Emit(<<>>, <<c>>)
  /\ UNCHANGED <<emitted_any, segments_matched, segment_text_left>>

\* The quote that ends a key: it matched when no octet of the segment is left.
PushKeyEnd(c) ==
  /\ Advance(c)
  /\ ~OpensWrapper(c)
  /\ phase = "KEY"
  /\ phase' = "BETWEEN"
  /\ segments_matched' =
       segments_matched + IF segment_text_left = <<>> THEN 1 ELSE 0
  /\ EmitNothing
  /\ UNCHANGED <<emitted_any, segment_text_left>>

PushSkippedEnd(c) ==
  /\ Advance(c)
  /\ ~OpensWrapper(c)
  /\ phase = "SKIP_STRING"
  /\ phase' = "BETWEEN"
  /\ EmitNothing
  /\ UNCHANGED <<emitted_any, segments_matched, segment_text_left>>

\* Fault: a record inside a top-level array is looked for one level too high.
EndsContainerUnwrapped(c) == c \in Closing /\ nesting'.depth = Len(path)

EndsContainer(c) ==
  c \in Closing /\ nesting'.depth = RecordDepth(nesting') + Len(path)

\* Inside a picked container everything goes out; the close that brings the
\* depth back to where the value began ends it.
PushInContainer(c) ==
  /\ Advance(c)
  /\ ~OpensWrapper(c)
  /\ phase = "CONTAINER"
  /\ Emit(<<>>, <<c>>)
  /\ phase' = IF status' = "OK" /\ EndsContainer(c) THEN "BETWEEN"
                                                   ELSE "CONTAINER"
  /\ UNCHANGED <<emitted_any, segments_matched, segment_text_left>>

\* The remaining cases: the walk is between values, a bare scalar that the
\* character just ended included.
Between(c) ==
  /\ Advance(c)
  /\ ~OpensWrapper(c)
  /\ phase \in {"BETWEEN", "SCALAR"}

PushStringValue(c) ==
  /\ Between(c)
  /\ c = Quote
  /\ AtValue
  /\ phase' = "STRING"
  /\ BeginValue(c)
  /\ UNCHANGED <<segments_matched, segment_text_left>>

\* Fault: every key is compared with the path's first segment.
FirstSegment == path[1]

NextSegment == path[segments_matched + 1]

PushKey(c) ==
  /\ Between(c)
  /\ c = Quote
  /\ ~AtValue
  /\ AtKey
  /\ phase' = "KEY"
  /\ segment_text_left' = NextSegment
  /\ EmitNothing
  /\ UNCHANGED <<emitted_any, segments_matched>>

PushOtherString(c) ==
  /\ Between(c)
  /\ c = Quote
  /\ ~AtValue
  /\ ~AtKey
  /\ phase' = "SKIP_STRING"
  /\ EmitNothing
  /\ UNCHANGED <<emitted_any, segments_matched, segment_text_left>>

\* The path picks a container but only scalars may go out: nothing does.
PushRefused(c) ==
  /\ Between(c)
  /\ c \in Opening
  /\ AtValue
  /\ scalars_only
  /\ phase' = "BETWEEN"
  /\ status' = "CONTAINER_REFUSED"
  /\ wrote' = <<>>
  /\ UNCHANGED <<emitted_any, segments_matched, segment_text_left>>

\* Fault: a container is picked whatever may go out.
PushContainerAnyway(c) ==
  /\ Between(c)
  /\ c \in Opening
  /\ AtValue
  /\ phase' = "CONTAINER"
  /\ BeginValue(c)
  /\ UNCHANGED <<segments_matched, segment_text_left>>

PushContainerValue(c) ==
  /\ Between(c)
  /\ c \in Opening
  /\ AtValue
  /\ ~scalars_only
  /\ phase' = "CONTAINER"
  /\ BeginValue(c)
  /\ UNCHANGED <<segments_matched, segment_text_left>>

PushOtherOpen(c) ==
  /\ Between(c)
  /\ c \in Opening
  /\ ~AtValue
  /\ phase' = "BETWEEN"
  /\ EmitNothing
  /\ UNCHANGED <<emitted_any, segments_matched, segment_text_left>>

\* Fault: a matched key stays matched past its value.
MatchedPastComma == segments_matched

\* ',' after the last matched key's value: that segment is up again.
MatchedAfterComma ==
  IF /\ segments_matched > 0
     /\ nesting'.depth = RecordDepth(nesting') + segments_matched
    THEN segments_matched - 1 ELSE segments_matched

PushComma(c) ==
  /\ Between(c)
  /\ c = "comma"
  /\ phase' = "BETWEEN"
  /\ segments_matched' = MatchedAfterComma
  /\ EmitNothing
  /\ UNCHANGED <<emitted_any, segment_text_left>>

\* Fault: one key too many is unmatched.
MatchedAfterCloseLess ==
  IF nesting'.depth < RecordDepth(nesting') + segments_matched
    THEN nesting'.depth - RecordDepth(nesting') - 1 ELSE segments_matched

\* Fault: a key stays matched once its object is closed.
MatchedPastClose == segments_matched

\* A close above the matched keys' objects unmatches them.
MatchedAfterClose ==
  IF nesting'.depth < RecordDepth(nesting') + segments_matched
    THEN nesting'.depth - RecordDepth(nesting') ELSE segments_matched

PushClose(c) ==
  /\ Between(c)
  /\ c \in Closing
  /\ phase' = "BETWEEN"
  /\ segments_matched' = MatchedAfterClose
  /\ EmitNothing
  /\ UNCHANGED <<emitted_any, segment_text_left>>

PushColon(c) ==
  /\ Between(c)
  /\ c = "colon"
  /\ phase' = "BETWEEN"
  /\ EmitNothing
  /\ UNCHANGED <<emitted_any, segments_matched, segment_text_left>>

\* Fault: the structural characters that a string quotes are handed out too.
ScannedUnmasked(c) == in_string' = (in_string # (c = Quote))

\* What jsp_scan hands out of a text whose backslashes stand in strings only:
\* inside a string nothing but the quote that ends it, and outside no quote but
\* one that starts a string.
Scanned(c) ==
  /\ in_string => c = Quote
  /\ in_string' = (in_string # (c = Quote))

PushStructural(c) ==
  \/ PushMalformed(c)
  \/ PushWrapper(c)
  \/ PushStringEnd(c)
  \/ PushKeyEnd(c)
  \/ PushSkippedEnd(c)
  \/ PushInContainer(c)
  \/ PushStringValue(c)
  \/ PushKey(c)
  \/ PushOtherString(c)
  \/ PushRefused(c)
  \/ PushContainerValue(c)
  \/ PushOtherOpen(c)
  \/ PushComma(c)
  \/ PushClose(c)
  \/ PushColon(c)

-----------------------------------------------------------------------------
(* One BYTES token *)

\* How many of s's leading octets are in S.
PrefixIn(s, S) ==
  CHOOSE n \in 0 .. Len(s) :
    /\ \A i \in 1 .. n : s[i] \in S
    /\ n < Len(s) => s[n + 1] \notin S

After(s, n) == SubSeq(s, n + 1, Len(s))

\* Fault: the whitespace after a scalar is not skipped.
KeepBlanks(s) == s

PastBlanks(s) == After(s, PrefixIn(s, Blank))

StartsWith(s, t) == Len(t) <= Len(s) /\ \A i \in 1 .. Len(t) : s[i] = t[i]

PushBytes(bytes) ==
  /\ status = "OK"
  /\ rest = <<>>
  /\ UNCHANGED <<config, emitted_any, nesting, segments_matched,
                 last_structural, in_string>>

\* Content of a picked string or container.
PushBytesOfValue(bytes) ==
  /\ PushBytes(bytes)
  /\ phase \in {"STRING", "CONTAINER"}
  /\ Emit(<<>>, bytes)
  /\ UNCHANGED <<phase, segment_text_left, rest>>

PushBytesSkipped(bytes) ==
  /\ PushBytes(bytes)
  /\ phase = "SKIP_STRING"
  /\ EmitNothing
  /\ UNCHANGED <<phase, segment_text_left, rest>>

\* More of a key: it goes on matching the segment, or is skipped from here.
PushBytesOfKey(bytes) ==
  /\ PushBytes(bytes)
  /\ phase = "KEY"
  /\ IF StartsWith(segment_text_left, bytes)
       THEN /\ segment_text_left' = After(segment_text_left, Len(bytes))
            /\ UNCHANGED phase
       ELSE /\ phase' = "SKIP_STRING"
            /\ UNCHANGED segment_text_left
  /\ EmitNothing
  /\ UNCHANGED rest

\* Bare scalars between whitespace: into the loop.
PushBytesBetween(bytes) ==
  /\ PushBytes(bytes)
  /\ phase \in {"BETWEEN", "SCALAR"}
  /\ rest' = IF phase = "SCALAR" THEN bytes ELSE PastBlanks(bytes)
  /\ EmitNothing
  /\ UNCHANGED <<phase, segment_text_left>>

\* One pass: the octets before the next whitespace are emitted or dropped, then
\* the whitespace is skipped.  A scalar that reaches the token's end stays open.
ScalarPass ==
  LET begins == phase = "BETWEEN" /\ AtValue
      n == PrefixIn(rest, Letter)
      left == After(rest, n)
  IN /\ status = "OK"
     /\ rest # <<>>
     /\ IF begins \/ phase = "SCALAR"
          THEN /\ Emit(wrote, (IF begins THEN SeparatorDue ELSE <<>>)
                                \o SubSeq(rest, 1, n))
               /\ emitted_any' = (emitted_any \/ begins)
               /\ IF status' = "OK" /\ n < Len(rest)
                    THEN /\ phase' = "BETWEEN"
                         /\ rest' = PastBlanks(left)
                    ELSE phase' = "SCALAR" /\ rest' = <<>>
          ELSE /\ rest' = PastBlanks(left)
               /\ UNCHANGED <<phase, emitted_any, wrote, status>>
     /\ UNCHANGED <<config, walk, in_string>>

PushBytesToken(bytes) ==
  \/ PushBytesOfValue(bytes)
  \/ PushBytesSkipped(bytes)
  \/ PushBytesOfKey(bytes)
  \/ PushBytesBetween(bytes)

Next ==
  \/ \E c \in Structural : Scanned(c) /\ PushStructural(c)
  \/ \E bytes \in BytesTokens : PushBytesToken(bytes)
  \/ ScalarPass

Spec == Init /\ [][Next]_vars

-----------------------------------------------------------------------------
(* Properties, for any order of tokens that the scan may hand out, JSON or not *)

TypeOK ==
  /\ path \in Paths
  /\ scalars_only \in BOOLEAN
  /\ phase \in Phases
  /\ emitted_any \in BOOLEAN
  /\ nesting \in BitStack
  /\ segments_matched \in Nat
  /\ segment_text_left \in Seq(Octet)
  /\ last_structural \in Structural \cup {"none"}
  /\ in_string \in BOOLEAN
  /\ rest \in Seq(Octet)
  /\ status \in Statuses
  /\ wrote \in Seq(Octet \cup Structural \cup {Separator})

\* Where the walk's values sit: one level per segment below the record.
ValueDepth == RecordDepth(nesting) + Len(path)

\* No more keys count as matched than the path has segments, nor more than
\* there are open containers below the record: the unsigned subtractions on
\* segments_matched and depth never wrap, and path's segment
\* segments_matched + 1 exists whenever a key is looked at.
MatchesAreOpen ==
  /\ segments_matched <= Len(path)
  /\ segments_matched > 0 =>
       RecordDepth(nesting) + segments_matched <= nesting.depth

\* The phase, the depth and the matched keys agree.  A value is being emitted
\* only with every segment matched, at the depth of the path's end; a container
\* value only while its own bracket is open, so a close cannot pass it
\* unnoticed; a key is compared only directly inside the matched keys' object.
PhaseFitsWalk ==
  status = "OK" =>
    /\ phase \in {"STRING", "SCALAR"} =>
         segments_matched = Len(path) /\ nesting.depth = ValueDepth
    /\ phase = "CONTAINER" =>
         segments_matched = Len(path) /\ nesting.depth > ValueDepth
    /\ phase = "KEY" =>
         /\ segments_matched < Len(path)
         /\ nesting.depth = RecordDepth(nesting) + segments_matched + 1

\* The walk knows when it is inside a string: in a phase that only a quote
\* ends, or in a picked container, and never in a bare scalar.
PhaseFitsString ==
  status = "OK" =>
    /\ phase \in {"STRING", "KEY", "SKIP_STRING"} => in_string
    /\ in_string => phase \notin {"BETWEEN", "SCALAR"}

\* While a key is compared, what is left is the end of its own segment.
KeyTextIsSuffix ==
  phase = "KEY" =>
    \E k \in 0 .. Len(path[segments_matched + 1]) :
      segment_text_left = After(path[segments_matched + 1], k)

\* When only scalars may go out, a container is never being emitted, and no push
\* writes a character of structure other than a string's own quotes: whatever
\* the stream, a line never holds a bracket, a comma or a colon of its own.
LinesStayFlat ==
  scalars_only =>
    /\ phase # "CONTAINER"
    /\ wrote \in Seq(Octet \cup {Quote, Separator})

\* Each pass of the loop over bare scalars takes at least one octet, so a push
\* ends after at most as many passes as its token has octets.
PassesConsume ==
  [][rest # <<>> => Len(rest') < Len(rest)]_vars
=============================================================================
