----------------------------- MODULE MCPipeline -----------------------------
(***************************************************************************)
(* Model-checking instance of Pipeline: JSON texts, each with what a block *)
(* boundary, a compaction or an escape can get wrong.                      *)
(***************************************************************************)
EXTENDS Pipeline

q == "quote"

SomePaths == {<<>>, <<<<"a">>>>, <<<<"a", "backslash", "backslash">>>>}

ItsKind ==
  [o \in StreamOctet |->
     CASE o = Quote -> "quote"
       [] o = "backslash" -> "backslash"
       [] o \in Structural \ {Quote} -> "bracket"
       [] OTHER -> "text"]

SomeTexts ==
  {\* nothing; two scalars, one of them over three blocks
   <<>>,
   <<"a", "_", "a", "a", "a", "a", "a", "a", "a">>,
   \* {"a":a}_{"a":"a"}
   <<"lbrace", q, "a", q, "colon", "a", "rbrace", "_",
     "lbrace", q, "a", q, "colon", q, "a", q, "rbrace">>,
   \* ["[\"",a] with structure inside a string, and an escaped quote
   <<"lbracket", q, "lbracket", "backslash", q, q, "comma", "a", "rbracket">>,
   \* {"a\\":"\""} with runs of backslashes that a boundary cuts
   <<"lbrace", q, "a", "backslash", "backslash", q, "colon", q,
     "backslash", q, q, "rbrace">>,
   \* {"a":{"a":[a]},"a":a} where a key comes twice
   <<"lbrace", q, "a", q, "colon", "lbrace", q, "a", q, "colon", "lbracket", "a",
     "rbracket", "rbrace", "comma", q, "a", q, "colon", "a", "rbrace">>,
   \* a_[[[[ too deep, in the second block
   <<"a", "_", "lbracket", "lbracket", "lbracket", "lbracket", "a">>}
=============================================================================
