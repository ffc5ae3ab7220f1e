----------------------------- MODULE PluckEscapes -----------------------------
(***************************************************************************)
(* jsp_pluck on texts that also have a backslash outside strings, where    *)
(* JSON allows none.  The quote after it starts no string for jsp_scan,    *)
(* which hands it out as structure nevertheless.                           *)
(***************************************************************************)
EXTENDS Pluck

Backslash == "backslash"

VARIABLE escaping  \* the last octet was a backslash that escapes the next one

evars == <<vars, escaping>>

EInit == Init /\ escaping = FALSE

\* An escaped quote is content inside a string.  Outside, it is structure by the
\* classifier's mask, while the quotes that bound strings go without it.
EscapedQuote == ~in_string /\ UNCHANGED in_string

EStructural(c) ==
  /\ IF escaping /\ c = Quote THEN EscapedQuote ELSE Scanned(c)
  /\ PushStructural(c)
  /\ escaping' = FALSE

\* Of two backslashes in a row, the second is escaped.
EBytes(bytes) ==
  /\ PushBytesToken(bytes)
  /\ escaping' = /\ bytes[Len(bytes)] = Backslash
                 /\ ~(escaping /\ Len(bytes) = 1)

EPass == ScalarPass /\ UNCHANGED escaping

ENext ==
  \/ \E c \in Structural : EStructural(c)
  \/ \E bytes \in BytesTokens : EBytes(bytes)
  \/ EPass

ESpec == EInit /\ [][ENext]_evars

\* Every mask bit strictly inside a string is cleared, and only its own closing
\* quote reaches the walk: what jsp_pluck.c states where phase STRING ends.
OnlyQuoteEndsString ==
  [][phase = "STRING" /\ phase' # "STRING" => last_structural' = Quote]_evars
=============================================================================
