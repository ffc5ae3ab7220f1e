-------------------------------- MODULE Parts --------------------------------
(***************************************************************************)
(* The parts of the program that keep no state of another one: the tricks  *)
(* on a word, the classifier, the open containers and the writing of a     *)
(* buffer.  Each is a machine of its own; one of them is chosen, and steps *)
(* while the others stand still.                                           *)
(***************************************************************************)
EXTENDS BitsCheck, Classify, NestingWalk, WriteAll

VARIABLE part  \* the one that steps

words == <<word, inverted, on>>

StillWords == word = {} /\ inverted = FALSE /\ on = FALSE

StillBlock == backend = "scalar" /\ block = Throughout(0)

StillBuffer ==
  /\ buf = <<>>
  /\ written = 0
  /\ returned = "0"
  /\ sent = <<>>

PartsInit ==
  /\ part \in {"bits", "classify", "nesting", "write_all"}
  /\ IF part = "bits" THEN BInit ELSE StillWords
  /\ IF part = "classify" THEN CInit ELSE StillBlock
  /\ NInit
  /\ IF part = "write_all" THEN WInit ELSE StillBuffer

PartsNext ==
  /\ \/ part = "bits" /\ BNext /\ UNCHANGED <<cvars, nvars, wvars>>
     \/ part = "classify" /\ CNext /\ UNCHANGED <<words, nvars, wvars>>
     \/ part = "nesting" /\ NNext /\ UNCHANGED <<words, cvars, wvars>>
     \/ part = "write_all" /\ WNext /\ UNCHANGED <<words, cvars, nvars>>
  /\ UNCHANGED part

\* The fairness is that of WriteAll.
PartsSpec ==
  /\ PartsInit
  /\ [][PartsNext]_<<part, words, cvars, nvars, wvars>>
  /\ WF_wvars(WriteAdvances)
  /\ WF_wvars(ReturnResult)
=============================================================================
