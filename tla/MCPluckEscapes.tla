---------------------------- MODULE MCPluckEscapes ----------------------------
(* Model-checking instance of PluckEscapes. *)
EXTENDS PluckEscapes

SomePaths == {<<>>, <<<<"a">>>>}

\* Tokens with at most one backslash, at the end.
SomeTokens == {<<"a">>, <<"_">>, <<Backslash>>, <<"a", Backslash>>}
=============================================================================
