----------------------------- MODULE MCPluckJson -----------------------------
(* Model-checking instance of PluckJson. *)
EXTENDS PluckJson

SomePaths == {<<>>, <<<<"a">>>>, <<<<"a">>, <<"a", "b">>>>}

\* Tokens of one to three octets: halves of a key, scalars with and without
\* whitespace around them, and two scalars in one token.
SomeTokens ==
  {<<"a">>, <<"b">>, <<"_">>, <<"a", "b">>, <<"_", "a">>, <<"a", "_">>,
   <<"a", "_", "b">>}

\* Keys that match a segment, stop short of it, differ from it at its start or
\* further on, or go on past it.
SomeKeys == {<<>>, <<"a">>, <<"b">>, <<"a", "a">>, <<"a", "b">>}
=============================================================================
