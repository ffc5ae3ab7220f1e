------------------------------ MODULE Settings ------------------------------
(***************************************************************************)
(* jsp_settings_parse: the command line into jsp_settings, and what        *)
(* jsp_run makes of the size in them.  An argument is told apart by the    *)
(* option it is; a pass of parse_uint's loop is a step.                    *)
(***************************************************************************)
EXTENDS Integers, FiniteSetsExt, SequencesExt

CONSTANTS
  INT_MAX,
  SIZE_MAX,
  JSP_DEFAULT_BUF_SIZE,
  Paths,  \* texts that jsp_path_parse takes
  Args,   \* bound of the exploration: the arguments
  Lines   \* bound of the exploration: the command lines

JSP_SCAN_BLOCK == 64

\* An argument, with what follows "--buf-size=" in one, and a path's text.
Opt == {"help", "buf_size", "offsets", "masks", "lines", "unrecognized", "path"}

ASSUME IntAssumption ==
  /\ INT_MAX \in Nat
  /\ SIZE_MAX \in Nat
  /\ INT_MAX >= 9
  /\ INT_MAX + JSP_SCAN_BLOCK <= SIZE_MAX
  /\ JSP_DEFAULT_BUF_SIZE \in 1 .. INT_MAX

ASSUME ArgsAssumption ==
  /\ \A arg \in Args : arg.opt \in Opt /\ arg.value \in Seq(Nat)
  /\ Lines \subseteq Seq(Args)

VARIABLES
  argv, i,     \* the arguments, and which comes next
  settings,    \* jsp_settings
  have_path, lines,
  v, at,       \* parse_uint's value, and how far it came
  pc,          \* "args", "digits" in parse_uint, "return", "run", or "exit"
  exit,        \* the argument for exit(3), or -1 as long as it is not called
  cap,         \* the size of jsp_run's buffer, or -1 before it
  exact        \* ghost: what the digits so far spell

svars == <<argv, i, settings, have_path, lines, v, at, pc, exit, cap, exact>>

SInit ==
  /\ argv \in Lines
  /\ i = 1
  /\ settings = [buf_size |-> JSP_DEFAULT_BUF_SIZE, output |-> "SINK",
                 trace |-> "NONE", path |-> <<>>, framing |-> "none",
                 scalars_only |-> FALSE]
  /\ have_path = FALSE
  /\ lines = FALSE
  /\ v = 0
  /\ at = 0
  /\ pc = "args"
  /\ exit = -1
  /\ cap = -1
  /\ exact = 0

-----------------------------------------------------------------------------
(* The arguments in their order *)

\* The next argument is option opt.
Arg(opt) == pc = "args" /\ i <= Len(argv) /\ argv[i].opt = opt

NextArg == i' = i + 1 /\ UNCHANGED <<argv, v, at, exit, cap, exact>>

Exits(n) ==
  /\ exit' = n
  /\ pc' = "exit"
  /\ UNCHANGED <<argv, i, settings, have_path, lines, v, at, cap, exact>>

Help == Arg("help") /\ Exits(0)

Unrecognized == Arg("unrecognized") /\ Exits(1)

Trace(opt, mode) ==
  /\ Arg(opt)
  /\ settings' = [settings EXCEPT !.trace = mode]
  /\ NextArg
  /\ UNCHANGED <<have_path, lines, pc>>

OnLines ==
  /\ Arg("lines")
  /\ lines' = TRUE
  /\ NextArg
  /\ UNCHANGED <<settings, have_path, pc>>

SecondPath == Arg("path") /\ have_path /\ Exits(1)

InvalidPath ==
  /\ Arg("path")
  /\ ~have_path
  /\ argv[i].path \notin Paths
  /\ Exits(1)

FirstPath ==
  /\ Arg("path")
  /\ ~have_path
  /\ argv[i].path \in Paths
  /\ settings' = [settings EXCEPT !.path = argv[i].path, !.output = "PLUCK"]
  /\ have_path' = TRUE
  /\ NextArg
  /\ UNCHANGED <<lines, pc>>

-----------------------------------------------------------------------------
(* parse_uint and parse_buf_size *)

BufSize ==
  /\ Arg("buf_size")
  /\ pc' = "digits"
  /\ v' = 0
  /\ at' = 0
  /\ exact' = 0
  /\ UNCHANGED <<argv, i, settings, have_path, lines, exit, cap>>

Text == argv[i].value

\* Whether the loop goes on: the octet is one of '0' to '9'.
AtDigit == at < Len(Text) /\ Text[at + 1] >= 48 /\ Text[at + 1] <= 57

\* Fault: the digit to come is left out of the test.
SaturatedSum(u, d) == IF u <= INT_MAX \div 10 THEN u * 10 + d ELSE INT_MAX

\* u with one more digit d.
Shifted(u, d) == IF u <= (INT_MAX - d) \div 10 THEN u * 10 + d ELSE INT_MAX

Digit ==
  /\ pc = "digits"
  /\ AtDigit
  /\ v' = Shifted(v, Text[at + 1] - 48)
  /\ exact' = exact * 10 + (Text[at + 1] - 48)
  /\ at' = at + 1
  /\ UNCHANGED <<argv, i, settings, have_path, lines, pc, exit, cap>>

\* Whether the argument was a positive number and nothing else.
Valid == v > 0 /\ at = Len(Text)

BufSizeParsed ==
  /\ pc = "digits"
  /\ ~AtDigit
  /\ Valid
  /\ settings' = [settings EXCEPT !.buf_size = v]
  /\ pc' = "args"
  /\ NextArg
  /\ UNCHANGED <<have_path, lines>>

BufSizeInvalid == pc = "digits" /\ ~AtDigit /\ ~Valid /\ Exits(1)

-----------------------------------------------------------------------------
(* After the arguments *)

\* Fault: --lines counts without a path.
FramedAnyway ==
  [settings EXCEPT !.framing = IF lines THEN "lines"
                               ELSE IF have_path THEN "array" ELSE "none",
                   !.scalars_only = lines]

Framed ==
  IF have_path
    THEN [settings EXCEPT !.framing = IF lines THEN "lines" ELSE "array",
                          !.scalars_only = lines]
    ELSE settings

Return ==
  /\ pc = "args"
  /\ i > Len(argv)
  /\ settings' = Framed
  /\ pc' = "return"
  /\ UNCHANGED <<argv, i, have_path, lines, v, at, exit, cap, exact>>

\* size_t arithmetic wraps.
SizeT(n) == n % (SIZE_MAX + 1)

\* Fault: the remainder is cut off.
RoundDownTo(n, multiple) ==
  IF n < multiple THEN multiple ELSE (n \div multiple) * multiple

\* round_up_to.
RoundUpTo(n, multiple) ==
  IF n < multiple THEN multiple
  ELSE SizeT((SizeT(n + multiple - 1) \div multiple) * multiple)

\* jsp_run sizes its buffer.
SizeBuffer ==
  /\ pc = "return"
  /\ cap' = RoundUpTo(settings.buf_size, JSP_SCAN_BLOCK)
  /\ pc' = "run"
  /\ UNCHANGED <<argv, i, settings, have_path, lines, v, at, exit, exact>>

SNext ==
  \/ Help
  \/ Unrecognized
  \/ Trace("offsets", "OFFSETS")
  \/ Trace("masks", "MASKS")
  \/ OnLines
  \/ SecondPath
  \/ InvalidPath
  \/ FirstPath
  \/ BufSize
  \/ Digit
  \/ BufSizeParsed
  \/ BufSizeInvalid
  \/ Return
  \/ SizeBuffer

SSpec == SInit /\ [][SNext]_svars

-----------------------------------------------------------------------------
(* Properties *)

\* While its digits are read, and after, --buf-size stands at their exact value,
\* or at INT_MAX from the digit on that takes it past that.
Saturates == v = IF exact <= INT_MAX THEN exact ELSE INT_MAX

\* The arguments that are option opt.
Those(opt) == {k \in DOMAIN argv : argv[k].opt = opt}

\* Whether an argument by itself is one that ends the program.
Refused(arg) ==
  \/ arg.opt \in {"help", "unrecognized"}
  \/ arg.opt = "path" /\ arg.path \notin Paths
  \/ arg.opt = "buf_size" /\
       \/ \E k \in DOMAIN arg.value : arg.value[k] \notin 48 .. 57
       \/ \A k \in DOMAIN arg.value : arg.value[k] = 48

\* The arguments that end the program, in their place on the line.
Ending ==
  {k \in DOMAIN argv : Refused(argv[k])
                       \/ (k \in Those("path") /\ \E l \in Those("path") : l < k)}

\* The first argument that ends the program does, with status 0 for help and 1
\* for what is refused; what follows it is never read, and an end that no
\* argument asks for never comes.
EndsWhenDue ==
  /\ pc = "exit" =>
       Ending # {} /\ i = Min(Ending) /\ exit = IF argv[i].opt = "help" THEN 0 ELSE 1
  /\ pc \in {"return", "run"} => Ending = {}

\* What the number of one --buf-size spells, past INT_MAX or not.
Size(arg) ==
  LET spelled == FoldLeft(LAMBDA n, c : n * 10 + (c - 48), 0, arg.value)
  IN IF spelled <= INT_MAX THEN spelled ELSE INT_MAX

\* The settings are what the whole line asks for, whatever the arguments' order:
\* the last size and the last trace count, and --lines only with a path, before
\* it or after it.
SettingsAreAsked ==
  pc \in {"return", "run"} =>
    settings =
      [buf_size |-> IF Those("buf_size") = {} THEN JSP_DEFAULT_BUF_SIZE
                    ELSE Size(argv[Max(Those("buf_size"))]),
       output |-> IF Those("path") = {} THEN "SINK" ELSE "PLUCK",
       trace |-> LET traces == Those("offsets") \cup Those("masks")
                 IN IF traces = {} THEN "NONE"
                    ELSE IF argv[Max(traces)].opt = "masks" THEN "MASKS" ELSE "OFFSETS",
       path |-> IF Those("path") = {} THEN <<>> ELSE argv[Max(Those("path"))].path,
       framing |-> IF Those("path") = {} THEN "none"
                   ELSE IF Those("lines") = {} THEN "array" ELSE "lines",
       scalars_only |-> Those("path") # {} /\ Those("lines") # {}]

\* The command line is obeyed, or refused where it has to be.
LineIsObeyed == EndsWhenDue /\ SettingsAreAsked

\* What the comment on round_up_to says: the buffer is the smallest whole number
\* of blocks that holds the size, and never none.
CapIsSmallest ==
  pc = "run" =>
    /\ cap % JSP_SCAN_BLOCK = 0
    /\ cap >= JSP_SCAN_BLOCK
    /\ cap >= settings.buf_size
    /\ cap > JSP_SCAN_BLOCK => cap - JSP_SCAN_BLOCK < settings.buf_size
=============================================================================
