-------------------------------- MODULE MCRun --------------------------------
(***************************************************************************)
(* Model-checking instance of Run: any tokens, in any order.               *)
(***************************************************************************)
EXTENDS Run

\* "." and one key.
SomePaths == {<<>>, <<<<"a">>>>}

\* A scalar or key, a blank, and two scalars in one token.
SomeTokens == {<<"a">>, <<"_">>, <<"a", "_", "a">>}
=============================================================================
