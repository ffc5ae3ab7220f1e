------------------------------ MODULE JsonText ------------------------------
(***************************************************************************)
(* The reader of module Json, fed with the octets that jsp_pluck knows.    *)
(***************************************************************************)
EXTENDS Pluck

J == INSTANCE Json

Inside(j) == j.lex \in {"key", "string"}

\* Past structural octet c, one that ends a string included, where path p picks
\* and only scalars may go out if flat.
ReadStructuralFor(j, c, p, flat) ==
  IF Inside(j) THEN J!ReadStringEnd(j, c)
  ELSE CASE c = Quote -> J!ReadStringStart(j, c, p, Separator)
         [] c \in Opening ->
              J!ReadOpen(j, c, p, IF c = "lbrace" THEN "object" ELSE "array",
                         Separator, JSP_MAX_DEPTH, flat)
         [] c \in Closing -> J!ReadClose(j, c)
         [] c = "comma" -> J!ReadComma(j, c)
         [] c = "colon" -> J!ReadColon(j, c)

ReadStructural(j, c) == ReadStructuralFor(j, c, path, scalars_only)

\* Past any other octet.
ReadOctetFor(j, o, p) ==
  CASE Inside(j) -> J!ReadContent(j, o)
    [] ~Inside(j) /\ o \in Blank -> J!ReadBlank(j, o)
    [] OTHER -> J!ReadLetter(j, o, p, Separator)

ReadOctet(j, o) == ReadOctetFor(j, o, path)

-----------------------------------------------------------------------------
(* The grammar, as far as the reader relies on it *)

\* Whether the grammar allows structural octet c after what j has read.
AllowsStructural(j, c) ==
  IF Inside(j) THEN c = Quote
  ELSE CASE c = Quote -> J!MayStartValue(j) \/ J!MayStartKey(j)
         [] c \in Opening -> J!MayStartValue(j)
         [] c = "rbrace" -> j.expect \in {"first", "more"} /\ J!TopKind(j) = "object"
         [] c = "rbracket" -> j.expect \in {"first", "more"} /\ J!TopKind(j) = "array"
         [] c = "comma" -> j.expect = "more"
         [] c = "colon" -> j.expect = "colon"

\* Whether it allows any other octet.
AllowsOctet(j, o) ==
  Inside(j) \/ o \in Blank \/ j.lex = "scalar" \/ J!MayStartValue(j)
=============================================================================
