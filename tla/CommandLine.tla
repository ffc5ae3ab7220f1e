----------------------------- MODULE CommandLine -----------------------------
(***************************************************************************)
(* The command line as main has it read: jsp_settings_parse hands the      *)
(* first argument that is no option to jsp_path_parse, and goes on with    *)
(* what that returns.                                                      *)
(***************************************************************************)
EXTENDS Settings, PathParse

ASSUME PathsAreTexts == \A arg \in Args : arg.path \in Seq(PathOctet)

LInit ==
  /\ SInit
  /\ text = <<>>
  /\ pos = 0
  /\ segments = 0
  /\ dots = <<>>
  /\ verdict = "none"

\* parse_path calls jsp_path_parse.
CallPathParse ==
  /\ Arg("path")
  /\ ~have_path
  /\ verdict = "none"
  /\ text' = argv[i].path
  /\ pos' = 0
  /\ segments' = 0
  /\ dots' = <<>>
  /\ verdict' = "pending"
  /\ UNCHANGED svars

\* A step of jsp_path_parse.
InPathParse == YNext /\ UNCHANGED svars

\* What parse_path does with its answer.
PathParsed ==
  /\ \/ verdict = "yes" /\ FirstPath
     \/ verdict = "no" /\ InvalidPath
  /\ UNCHANGED pathvars

\* Every other argument, and what follows the last one.
Elsewhere ==
  /\ \/ Help
     \/ Unrecognized
     \/ Trace("offsets", "OFFSETS")
     \/ Trace("masks", "MASKS")
     \/ OnLines
     \/ SecondPath
     \/ BufSize
     \/ Digit
     \/ BufSizeParsed
     \/ BufSizeInvalid
     \/ Return
     \/ SizeBuffer
  /\ UNCHANGED pathvars

LNext == CallPathParse \/ InPathParse \/ PathParsed \/ Elsewhere

LSpec == LInit /\ [][LNext]_<<svars, pathvars>>
=============================================================================
