------------------------------ MODULE PluckJson ------------------------------
(***************************************************************************)
(* jsp_pluck and the reader of module Json side by side, on the same       *)
(* well-formed text cut into tokens as jsp_scan may cut it: a structural   *)
(* octet by itself, and everything between two of them in any number of    *)
(* BYTES tokens, since a token ends where a block does.                    *)
(***************************************************************************)
EXTENDS JsonText

CONSTANTS
  Keys,    \* bound of the exploration: the keys of the text and their prefixes
  MaxOpen  \* bound of the exploration: open containers in the text

VARIABLE json  \* the reader of module Json

jvars == <<vars, json>>

JInit == Init /\ json = J!Start

\* Whether structural octet c may come next, within the bound.
LegalStructural(c) ==
  /\ AllowsStructural(json, c)
  /\ c \in Opening => Len(json.frames) < MaxOpen

\* Whether octet o of a BYTES token may come after reading up to j, within the
\* bound.
LegalOctet(j, o) ==
  /\ AllowsOctet(j, o)
  /\ j.lex = "key" => Append(j.text, o) \in Keys

\* The reader after the first n octets of a BYTES token.
ReadBytes(j, bytes, n) == J!FoldLeft(ReadOctet, j, SubSeq(bytes, 1, n))

LegalBytes(bytes) ==
  \A n \in 1 .. Len(bytes) : LegalOctet(ReadBytes(json, bytes, n - 1), bytes[n])

\* The text goes on with nothing put out yet for the next token.
NextToken == [json EXCEPT !.due = <<>>]

TextStructural(c) ==
  /\ LegalStructural(c)
  /\ Scanned(c)
  /\ PushStructural(c)
  /\ json' = ReadStructural(NextToken, c)

TextBytes(bytes) ==
  /\ LegalBytes(bytes)
  /\ PushBytesToken(bytes)
  /\ json' = ReadBytes(NextToken, bytes, Len(bytes))

TextPass == ScalarPass /\ UNCHANGED json

JNext ==
  \/ \E c \in Structural : TextStructural(c)
  \/ \E bytes \in BytesTokens : TextBytes(bytes)
  \/ TextPass

JSpec == JInit /\ [][JNext]_jvars

-----------------------------------------------------------------------------
(* Properties, between two pushes *)

PushDone == rest = <<>>

\* Every push writes exactly the octets of its token that the path picks, with
\* the separator before each value but the first, wherever the tokens were cut;
\* a failing write has written a part of them.
WritesWhatIsPicked ==
  PushDone =>
    IF status = "WRITE_FAILED"
      THEN J!IsStrictPrefix(wrote, json.due)
      ELSE wrote = json.due

\* segments_matched counts the path's leading keys that the objects now open
\* spell, through repeated keys, nested arrays and top-level arrays.
MatchesWhatIsSpelled ==
  PushDone /\ status = "OK" =>
    segments_matched = J!Spelled(json.frames, path)

\* A walk over well-formed text stops only for nesting past the bound, for a
\* picked container when only scalars may go out, or for a failing write, and
\* then it does.
StopsWhenDue ==
  PushDone => status = json.verdict \/ (status = "WRITE_FAILED" /\ json.due # <<>>)
=============================================================================
