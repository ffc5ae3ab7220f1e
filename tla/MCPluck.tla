------------------------------- MODULE MCPluck -------------------------------
(***************************************************************************)
(* Model-checking instance of Pluck: tokens in any order, so the brackets, *)
(* commas, colons and strings need make no JSON at all.                    *)
(***************************************************************************)
EXTENDS Pluck

\* ".", one key, two keys that share octets, and a key of two octets.
SomePaths == {<<>>, <<<<"a">>>>, <<<<"a">>, <<"a", "b">>>>}

\* Tokens of one to three octets: halves of a key, scalars with and without
\* whitespace around them, and two scalars in one token.
SomeTokens ==
  {<<"a">>, <<"b">>, <<"_">>, <<"a", "b">>, <<"_", "a">>, <<"a", "_">>,
   <<"a", "_", "b">>}
=============================================================================
