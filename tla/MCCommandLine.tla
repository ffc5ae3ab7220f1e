---------------------------- MODULE MCCommandLine ----------------------------
(***************************************************************************)
(* Model-checking instance of CommandLine: an int of at most 1297, lines   *)
(* of up to four arguments, and lines of one path with any text.           *)
(***************************************************************************)
EXTENDS CommandLine

Plain(opt) == [opt |-> opt, value |-> <<>>, path |-> <<>>]

PathArg(t) == [Plain("path") EXCEPT !.path = t]

\* '0' is 48.  Sizes at both sides of a block and of INT_MAX, one that only
\* stays at INT_MAX by saturating again, none at all, and what is no number.
Sizes ==
  {<<>>, <<48, 48>>, <<55>>, <<54, 52>>, <<54, 53>>, <<49, 50, 57, 55>>,
   <<49, 50, 57, 56>>, <<57, 57, 57, 57, 48>>, <<54, 120>>, <<45, 54>>}

FewArgs ==
  {Plain(opt) : opt \in {"help", "offsets", "masks", "lines", "unrecognized"}}
    \cup {[Plain("buf_size") EXCEPT !.value = size] : size \in Sizes}
    \cup {PathArg(t) : t \in {<<".">>, <<".", "a">>, <<"a", ".">>}}

Texts == UNION {[1 .. n -> PathOctet] : n \in 0 .. MaxText}

AllArgs == FewArgs \cup {PathArg(t) : t \in Texts}

SomeLines ==
  UNION {[1 .. n -> FewArgs] : n \in 0 .. 4} \cup {<<PathArg(t)>> : t \in Texts}

\* A dot and a name, up to three times: with that bound of segments, the texts
\* that are paths.
SpelledPaths ==
  LET one == {<<Dot>> \o name :
                name \in UNION {[1 .. n -> PathOctet \ {Dot}] : n \in 1 .. MaxText - 1}}
      two == {s \o t : s \in one, t \in one}
  IN {<<Dot>>} \cup one \cup two \cup {s \o t : s \in two, t \in one}
=============================================================================
