-------------------------------- MODULE Json --------------------------------
(***************************************************************************)
(* A reader of well-formed JSON text, one octet at a time, that keeps the  *)
(* open containers with their kinds and current keys as a stack and says   *)
(* which octets a path picks out of the text: what jsp_pluck is meant to   *)
(* write, said without depths, phases or counters.                         *)
(*                                                                         *)
(* Records are the top-level values, and the elements of top-level arrays. *)
(* A value is picked when the containers from its record down to it are    *)
(* objects whose current keys are the path's segments.                     *)
(***************************************************************************)
EXTENDS Integers, Sequences, SequencesExt

\* The empty text stands for no key, since no segment is empty.
NoKey == <<>>

Start ==
  [frames  |-> <<>>,     \* the open containers, outermost first
   expect  |-> "value",  \* what the grammar allows next
   lex     |-> "none",   \* inside a "key", a "string", a "scalar" or none
   text    |-> NoKey,    \* the open key so far
   picking |-> "none",   \* the kind of picked value that is open
   base    |-> 0,        \* containers open where a picked container began
   begun   |-> FALSE,    \* a value was picked before
   due     |-> <<>>,     \* what the octets of this token put out
   verdict |-> "OK"]

TopKind(j) == IF j.frames = <<>> THEN "none" ELSE Last(j.frames).kind

MayStartValue(j) ==
  j.expect = "value" \/ (j.expect = "first" /\ TopKind(j) = "array")

MayStartKey(j) ==
  j.expect \in {"first", "key"} /\ TopKind(j) = "object"

\* What may follow a value.
AfterValue(frames) == IF frames = <<>> THEN "value" ELSE "more"

\* The containers from the record down.
Below(frames) ==
  IF frames # <<>> /\ frames[1].kind = "array" THEN Tail(frames) ELSE frames

\* How many of the path's segments the open objects' current keys spell.
Spelled(frames, path) ==
  LET below == Below(frames)
      fits(k) == /\ k <= Len(below) /\ k <= Len(path)
                 /\ \A i \in 1 .. k : /\ below[i].kind = "object"
                                      /\ below[i].key = path[i]
  IN CHOOSE k \in 0 .. Len(path) : fits(k) /\ ~fits(k + 1)

Picked(frames, path) ==
  Len(Below(frames)) = Len(path) /\ Spelled(frames, path) = Len(path)

\* Puts octet o out when a picked value is open.
Copied(j, o) == IF j.picking = "none" THEN j.due ELSE Append(j.due, o)

\* A value starts with octet o: where the path picks it, it is put out, after a
\* separator unless it is the first.
Begin(j, o, path, kind, separator) ==
  IF j.picking = "none" /\ Picked(j.frames, path)
    THEN [j EXCEPT !.picking = kind, !.base = Len(j.frames), !.begun = TRUE,
                   !.due = @ \o (IF j.begun THEN <<separator>> ELSE <<>>) \o <<o>>]
    ELSE [j EXCEPT !.due = Copied(j, o)]

\* An open value of the given kind ends.
Ended(j, kind) == IF j.picking = kind THEN "none" ELSE j.picking

\* A bare scalar ends where any octet but a letter comes.
EndScalar(j) ==
  IF j.lex = "scalar" THEN [j EXCEPT !.lex = "none", !.picking = Ended(j, "scalar")]
                      ELSE j

ReadBlank(j, o) ==
  LET k == EndScalar(j) IN [k EXCEPT !.due = Copied(k, o)]

ReadLetter(j, o, path, separator) ==
  IF j.lex = "scalar"
    THEN [j EXCEPT !.due = Copied(j, o)]
    ELSE [Begin(j, o, path, "scalar", separator)
            EXCEPT !.lex = "scalar", !.expect = AfterValue(j.frames)]

\* An octet inside a string.
ReadContent(j, o) ==
  [j EXCEPT !.text = IF j.lex = "key" THEN Append(@, o) ELSE @,
            !.due = Copied(j, o)]

ReadStringEnd(j, o) ==
  LET k == [j EXCEPT !.lex = "none", !.text = NoKey, !.due = Copied(j, o),
                     !.picking = Ended(j, "string")]
  IN IF j.lex = "key"
       THEN [k EXCEPT !.expect = "colon", !.frames[Len(j.frames)].key = j.text]
       ELSE [k EXCEPT !.expect = AfterValue(j.frames)]

ReadStringStart(j0, o, path, separator) ==
  LET j == EndScalar(j0)
  IN IF MayStartKey(j)
       THEN [j EXCEPT !.lex = "key", !.due = Copied(j, o)]
       ELSE [Begin(j, o, path, "string", separator) EXCEPT !.lex = "string"]

\* A container opens, unless there are too many of them or the path picks it
\* and only scalars may go out.  A top-level array is never itself a value.
ReadOpen(j0, o, path, kind, separator, bound, scalarsOnly) ==
  LET j == EndScalar(j0)
      wrapper == kind = "array" /\ j.frames = <<>>
      picked == ~wrapper /\ j.picking = "none" /\ Picked(j.frames, path)
      opened == Append(j.frames, [kind |-> kind, key |-> NoKey])
  IN IF Len(j.frames) = bound THEN [j EXCEPT !.verdict = "MALFORMED"]
     ELSE IF picked /\ scalarsOnly THEN [j EXCEPT !.verdict = "CONTAINER_REFUSED"]
     ELSE [(IF wrapper THEN j ELSE Begin(j, o, path, "container", separator))
             EXCEPT !.frames = opened, !.expect = "first"]

ReadClose(j0, o) ==
  LET j == EndScalar(j0)
      closed == Front(j.frames)
  IN [j EXCEPT !.due = Copied(j, o),
               !.frames = closed,
               !.expect = AfterValue(closed),
               !.picking = IF Len(closed) = j.base THEN Ended(j, "container")
                                                   ELSE @]

ReadComma(j0, o) ==
  LET j == EndScalar(j0)
  IN IF TopKind(j) = "object"
       THEN [j EXCEPT !.due = Copied(j, o), !.expect = "key",
                      !.frames[Len(j.frames)].key = NoKey]
       ELSE [j EXCEPT !.due = Copied(j, o), !.expect = "value"]

ReadColon(j, o) == [j EXCEPT !.due = Copied(j, o), !.expect = "value"]
=============================================================================
