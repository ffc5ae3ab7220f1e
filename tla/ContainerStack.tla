--------------------------- MODULE ContainerStack ---------------------------
(***************************************************************************)
(* What jsp_nesting promises: a stack of the open containers' kinds, at    *)
(* most Bound of them, in which a close bracket must match the innermost.  *)
(***************************************************************************)
EXTENDS Integers, Sequences

CONSTANT Bound

VARIABLES
  stack,   \* "object" or "array", outermost first
  verdict, \* of the last character
  last     \* the last character

cvars == <<stack, verdict, last>>

Kind == {"object", "array"}

Opener == [object |-> "lbrace", array |-> "lbracket"]

Closer == [object |-> "rbrace", array |-> "rbracket"]

CInit == stack = <<>> /\ verdict = "OK" /\ last = "none"

Open(kind) ==
  /\ last' = Opener[kind]
  /\ Len(stack) < Bound
  /\ stack' = Append(stack, kind)
  /\ verdict' = "OK"

TooDeep ==
  /\ last' \in {"lbrace", "lbracket"}
  /\ Len(stack) = Bound
  /\ verdict' = "OVERFLOW"
  /\ UNCHANGED stack

Close(kind) ==
  /\ last' = Closer[kind]
  /\ stack # <<>>
  /\ stack[Len(stack)] = kind
  /\ stack' = [i \in 1 .. Len(stack) - 1 |-> stack[i]]
  /\ verdict' = "OK"

WrongClose(kind) ==
  /\ last' = Closer[kind]
  /\ stack # <<>>
  /\ stack[Len(stack)] # kind
  /\ verdict' = "MISMATCH"
  /\ UNCHANGED stack

NothingToClose ==
  /\ last' \in {"rbrace", "rbracket"}
  /\ stack = <<>>
  /\ verdict' = "UNBALANCED"
  /\ UNCHANGED stack

Other ==
  /\ last' \in {"colon", "comma", "quote"}
  /\ verdict' = "OK"
  /\ UNCHANGED stack

CNext ==
  \/ \E kind \in Kind : Open(kind) \/ Close(kind) \/ WrongClose(kind)
  \/ TooDeep
  \/ NothingToClose
  \/ Other

CSpec == CInit /\ [][CNext]_cvars
=============================================================================
