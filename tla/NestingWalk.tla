----------------------------- MODULE NestingWalk -----------------------------
(***************************************************************************)
(* jsp_nesting_step called once for every structural character of a        *)
(* stream, in any order of characters, well formed or not, and shown to    *)
(* keep a stack of containers in its word and its depth.                   *)
(***************************************************************************)
EXTENDS Nesting, Sequences

VARIABLES
  nesting,  \* jsp_nesting_state: the containers' bits and depth
  result,   \* jsp_nesting_result of the last step
  last      \* ghost: the character it was for

nvars == <<nesting, result, last>>

NInit ==
  /\ nesting = EmptyStack
  /\ result = "OK"
  /\ last = "none"

NStep(c) ==
  /\ result' = Verdict(nesting, c)
  /\ nesting' = Step(nesting, c)
  /\ last' = c

NNext == \E c \in Structural : NStep(c)

NSpec == NInit /\ [][NNext]_nvars

-----------------------------------------------------------------------------
(* Properties *)

\* The depth stays within the word.
NestingTypeOK == nesting \in BitStack /\ result \in Verdicts

\* The containers a reader of the state sees, outermost first: the bits past
\* depth, stale after a pop, are no part of it.
OpenContainers ==
  [i \in 1 .. nesting.depth |->
     IF At(nesting, i - 1) THEN "object" ELSE "array"]

Stack == INSTANCE ContainerStack
           WITH stack <- OpenContainers, verdict <- result,
                Bound <- JSP_MAX_DEPTH

\* Bits and depth keep a stack of containers: the same accepted characters, the
\* same errors, and the enclosing container is back after a close.
ImplementsStack == Stack!CSpec

\* What the outermost container is, which decides whether its elements are the
\* records, does not change while it is open, whatever is pushed above it.
OutermostStays ==
  [][nesting.depth > 0 /\ nesting'.depth > 0
       => OutermostIsArray(nesting') = OutermostIsArray(nesting)]_nvars
=============================================================================
