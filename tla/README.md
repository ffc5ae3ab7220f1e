# Formal models of jsptx

jsptx takes the values a path like `.user.id` picks out of a stream of JSON,
without building a document and without holding a value.  It classifies the
stream 64 octets at a time into bit masks, walks the set bits, and writes what
the path picks as it comes by.  What makes it correct is therefore arithmetic
on words and positions, and a small state that is carried over cuts: between
reads, between blocks, between tokens, between pushes.  These models are about
that state.

## 1. The system

One process, one thread, no signal handlers, nothing persisted.  What happens
in an order nobody chose comes from outside: how much each `read(2)` and
`write(2)` takes, that they may be interrupted or fail, and how the octets fall
into blocks.

```
 in_fd -> jsp_reader -> jsp_scan -> jsp_pluck -> jsp_io -> out_fd
          blocks of 64  tokens      values       write_all
                        |            |
            jsp_classify, jsp_bits   jsp_nesting (jsp_bitstack), jsp_path
                        |
                   jsp_trace -> trace_fd         jsp_run: loop and framing
```

| Component | State it keeps | Operations | What is hard | What makes it correct |
|---|---|---|---|---|
| jsp_reader | `buf`, `len`, `buf_offset`, `stream_offset`, `done` | `jsp_reader_next` | any course of short, interrupted and failing reads; compaction under views; an end on a block boundary | the blocks are the stream, aligned, in order, complete |
| jsp_bits | none | run parity, prefix XOR, masks, trailing zeros | runs and spans over the word's ends | each computes what its comment says |
| jsp_classify | none | three masks per block | nibble tables, lanes of vector code | the masks are the characters |
| jsp_scan | `carry`, `window` | `jsp_scan_next` | strings and backslash runs over blocks; the stale octets behind a short block | tokens cover the stream once, and structure is what a reader of single octets finds |
| jsp_trace | mode | `jsp_trace_block` | a second walk over the mask, that may fail half way | the lines are the structural tokens |
| jsp_nesting, jsp_bitstack | one word, one depth | `jsp_nesting_step` and queries | stale bits after a pop, the 65th bracket | a stack of container kinds |
| jsp_path | text, positions of dots | parse, segment | bounds | segments are the text between dots |
| jsp_pluck | phase, nesting, matched segments, what is left of a segment, last structural | `jsp_pluck_push` | keys and scalars cut anywhere; matches undone at the right comma or close; malformed input | the octets written are those the path picks |
| jsp_io | none | `jsp_write_all` | short, empty and interrupted writes | all or failure |
| jsp_run | its place in the loop, the result | `jsp_run` | a stop inside a value, failing framing | the result tells what happened, and where |
| jsp_settings, main, jstr | none | parse, report | order of options, saturation | the settings are what was asked for |

`jsp_run` calls `jsp_scan_next` until it is told to stop and pushes each token
into `jsp_pluck_push`; `jsp_scan_next` calls `jsp_reader_next` when its window
is empty.  Tokens and blocks are views of one buffer, which the next call may
move: nobody holds one over a call.

## 2. The modules

| Module | Models | Notes |
|---|---|---|
| `BlockSource` | what jsp_reader promises | abstract specification, no buffer in it |
| `Reader` | jsp_reader.c and the buffer of jsp_slice_u8.h | a call that reads stays inside its loop (`pc`), one step per `read(2)` |
| `MCReader` | | instance for TLC, and the refinement mapping to `BlockSource` |
| `Bits`, `BitsCheck` | jsp_bits.h | words of any width, each trick beside its meaning |
| `Classify` | jsp_classify.h, its tables and its three backends | one lane at a time; the backend that a build chooses is a variable |
| `Masks` | the steps of jsp_scan.c and jsp_trace.c over one block | operators; and the reader of single octets they are compared with |
| `Scan` | jsp_scan.c, jsp_trace.c | one step per call of `jsp_scan_next`, over blocks that stand still |
| `ScanReader`, `MCScanReader` | jsp_scan.c over jsp_reader.c | window and token are addresses in the reader's buffer; refines `Scan` |
| `ContainerStack` | what jsp_nesting promises | abstract specification: a sequence of kinds |
| `Nesting` | jsp_nesting.h, jsp_bitstack.h | operators; a word is the set of its set bits, stale ones included |
| `NestingWalk` | the same as a state machine | any order of brackets; the ghost `last` ties the verdict to the character it was for |
| `Pluck` | jsp_pluck.c, and what it uses of jsp_path.h, jstr.h, jsp_slice_u8.h | one action per case of a push |
| `MCPluck` | | tokens in any order |
| `Json` | nothing in the code | a reference: a reader of well-formed text with an explicit stack of keys, which says what a path picks |
| `JsonText` | nothing in the code | that reader over the octets that the walk knows, and what the grammar allows next |
| `PluckJson`, `MCPluckJson` | | walk and reference side by side over the same text, cut into tokens anywhere |
| `PluckEscapes`, `MCPluckEscapes` | | texts with a backslash outside strings |
| `WriteAll` | jsp_io.c | one step per `write(2)` |
| `Run`, `MCRun` | jsp_run.c | allocation, framing, loop, errno, result, around `Pluck` |
| `Pipeline`, `MCPipeline` | jsp_run.c over everything above, and main's status | `Run`, `ScanReader` and `JsonText` conjoined on one buffer |
| `PathParse` | jsp_path_parse and the cutting of a segment | one step per pass of its loop |
| `Settings` | jsp_settings.c, and `round_up_to` of jsp_run.c | one step per argument, and one per digit of `--buf-size` |
| `CommandLine`, `MCCommandLine` | | both together: the first argument that is no option goes through the parser of paths |
| `Parts` | | `BitsCheck`, `Classify`, `NestingWalk` and `WriteAll`, which share no state, each stepping alone |
| `ReaderProofs`, `ScanProofs`, `ScanReaderProofs` | | theorems about the module of that name |
| `PartsProofs` | | theorems about `BitsCheck`, `Classify`, `NestingWalk` and `WriteAll`, and about `PathParse`, `Settings` and `CommandLine` |
| `PluckProofs` | | theorems about `Pluck`, and from them about `PluckJson` |
| `RunProofs` | | theorems about `Run`, on the walk's invariant of `PluckProofs` |
| `PipelineProofs` | | theorems about `Pipeline`, on the invariants of walk, scan and reader |
| `SharedLemmas` | | lemmas that turn recursions and folds into induction, and lemmas about the operators of `Bits` and `Masks` |

`Pluck` extends `Nesting`; `PluckEscapes`, `JsonText` and `Run` extend `Pluck`,
and `PluckJson` extends `JsonText`; `Scan` and `ScanReader` extend `Masks`,
which extends `Bits`; `Pipeline` extends `Run`, `ScanReader` and `JsonText`.
A composition conjoins the actions of its parts, and says what each leaves
alone.

How state and actions correspond to the code:

* **Reader.** The variables are the fields of `jsp_reader`, `stream` is every
  octet that `read(2)` brought, and `result` what the caller holds.
  `NextDone`, `NextBuffered` and `NextCompact` are the three ways into
  `jsp_reader_next`; `ReadInterrupted`, `ReadError`, `ReadNothing` and
  `ReadSome` are the outcomes of one `read(2)` and what the loop does with it.
* **Classify.** A tag is the set of its bits' names and a mask the set of its
  bits' positions.  `Tag16`, `Movemask16` and `Paired` are NEON's lanes of one
  octet, `ShiftedPair`, `HighNibble` and `Shuffled` AVX2's, where the shift works on
  two octets at once.  An intrinsic is modelled by what it does to a lane.
* **Scan.** `carry` and `window` are the code's.  `ScanBlock` is a call that
  takes a block, traces it and hands out its first token; `ScanOn` a call
  inside a block; `ScanStops` the end or a failed read.  The reader is what
  `BlockSource` promises, and a short block's remaining octets are arbitrary.
* **ScanReader.** The reader is `Reader` itself, by `INSTANCE`.  A view is the
  sequence of the addresses it covers and holds no octet: what is there is
  looked up when it is used.  A call that reaches for a block is one step per
  step of the reader (`Fetch...`), and the last of them ends it.  `held` says
  that the caller is not through with the token; the caller releases it before
  it asks again, as `jsp_run` does.
* **Nesting.** `[bits, depth]` is `jsp_bitstack`.  `Verdict` is what
  `jsp_nesting_step` returns and `Step` what it leaves.
* **Pluck.** The variables are `jsp_pluck_state`, plus the status and the
  writes of the last push and `rest`, the local of the loop over bare scalars:
  that loop is a step per pass (`ScalarPass`) because each pass may fail in a
  write.  `PushMalformed` ... `PushColon` are the cases of `push_structural_`
  in the order of its returns, with `Advance` for the calls every case makes.
  `Emit` is `jsp_write_all` as its callers see it: all, or a part and failure.
  `Scanned` is what the walk may assume of jsp_scan: inside a string only its
  closing quote is structural.  `Scan`'s `StringsEndAtQuotes` checks the same
  of jsp_scan, for texts whose backslashes stand in strings.
* **Run.** `stage` is the place in `jsp_run`.  `RunAlloc`, `RunOpen`,
  `RunStructural`, `RunBytes`, `RunPass`, `RunScanEnds`, `RunScanFails`,
  `RunClose` follow the function from top to bottom; the two `Sink` actions are
  the loop without a path.  The ghost `failed` lists the calls that failed, in
  their order; the result's errno is the call it was read after.
* **Pipeline.** `Before` is everything up to the loop; `Pull` a step of
  `jsp_scan_next` under it; `PushToken` a push of the octets that the token's
  addresses hold at that moment (`TokenOctets`); `PassOn` a further pass of the
  walk's loop; `ScanStops`, `Close` and `MainReturns` the end.  The ghost `text`
  is the reader of `Json`, one octet at a time over the stream itself, and it
  never sees a block, a token or a buffer.  It keeps what is due for the last
  token (`json.due`) apart from what was due before (`before`); `Picked` is both,
  behind the opening framing.  `LegalText` says which streams are JSON, or a
  beginning of it: what each octet may follow, as `AllowsStructural` and
  `AllowsOctet` of `JsonText` have it.
* **PathParse.** `PassOctet` and `PassDot` are a pass of the loop that goes on,
  the others its returns; `dots` holds the entries written so far, so an entry
  past the array would be seen.
* **Settings, CommandLine.** An argument is a record of the option it is, the
  octets of its number, and its path.  `Digit` is a pass of the loop in
  `parse_uint`; `Return` is what `jsp_settings_parse` does after the last
  argument; `SizeBuffer` is the rounding at the top of `jsp_run`.  In `Settings`
  alone `Paths` says which texts parse; in `CommandLine` the parser says it.

An operator preceded by `Fault:` is a variant with a plausible mistake.  No
specification uses one; each is there to be put in the place of the definition
that follows it, and the property it is meant for must then fail.

## 3. What is checked

| Run | Question | Bounds | Why they are enough |
|---|---|---|---|
| `reader` | are the blocks the stream, whatever each read returns? | block 2, buffer 4, stream 7 | two blocks fit the buffer, so blocks come from it and from reads; three refills; ends on and off a boundary |
| `parts` | are the parts without shared state right, each alone? | words of 8 bits; blocks of one of 12 octets throughout, with any of the 256 octets at one of 8 places; depth 5; buffers of 4 octets | every word with every carry; in each backend every octet, next to fillers that set and clear each nibble's top bit, where lanes, halves and parts of a block meet; every word and depth, and the bracket past the bound; each way to cut a buffer |
| `scan` | is structure the same as for a reader of single octets? | blocks of 4, two blocks | the four values of the carry all occur after one block, and what a third block sees of the stream is a carry |
| `scan_reader` | does a view show the stream as long as it is held? | block 2, buffer 4, stream 6 | compaction with a token's block behind it, at every place in the buffer; every cut of every stream into reads |
| `pluck_any` | do phase, depth and matches agree for any tokens? | depth 4, paths of 0, 1 and 2 segments, one of two octets | a record below a wrapper has a level to spare under the longest path |
| `pluck_json` | is exactly what the path picks written? | the same, keys of up to two octets, one container past the bound | keys equal to, short of, past and different from a segment; every cut of them |
| `run` | is the fault located, the errno the right one, and a line a scalar? | 5 octets, depth 3, paths of 0 and 1 segments | two lines and a fault; the bracket past the bound; any call failing |
| `pipeline` | is the program's output what the path picks, does it stop at the right octet, and does it exit? | blocks of 4, buffer 8, seven texts of up to 21 octets, three paths, depth 3 | each text has what a boundary can cut (a scalar over three blocks, a run of backslashes, an escaped quote, a key) and every cut of it into reads; any call failing |
| `command_line` | are the settings what the line asks for? | every line of up to 4 arguments out of 18; every path of up to 8 octets, at most 3 segments; an `int` up to 1297, a `size_t` up to 2047 | two of each option in both orders around a third; the segment past the bound; an INT_MAX that a number passes at its fourth digit and its fifth |

The properties, by run (in brackets, the parts of a conjunction):

* `reader`: `TypeOK`, `BlocksAreStream` (`BlockIsStream`: no view is stale;
  `BlocksAligned`; `EndIsComplete`), `FullWidthReadable` (the classifier's 64
  octets lie inside the buffer), `ReadsHaveRoom` (0 from `read(2)` means the
  end), `ImplementsBlockSource` (refinement), `EveryOctetDelivered` (liveness).
* `parts`: `TricksWork` (`RunParityIsOddOfRuns`, `PrefixXorIsSpans`),
  `MasksAreKinds`, `NestingTypeOK`, `ImplementsStack` (refinement),
  `AllOrFailure`, `CallReturns` (liveness).
* `scan`: `ScanMatchesText` (`WindowMatchesText`, `CarryMatchesText`,
  `TokenIsText`), `StringsEndAtQuotes`, `TraceShowsTokens`, `TokensTile`.
* `scan_reader`: `ViewsAreStream`, `ImplementsScan` (refinement).
* `pluck_any`: `TypeOK`, `MatchesAreOpen`, `PhaseFitsWalk`, `PhaseFitsString`,
  `KeyTextIsSuffix`, `LinesStayFlat`, `PassesConsume`.
* `pluck_json`: `WritesWhatIsPicked`, `MatchesWhatIsSpelled`, `StopsWhenDue`.
* `run`: `FaultIsLocated`, `LinesHoldOneScalar`, `ErrnoIsOfFirstFailure`.
* `pipeline`: `OutputIsPicked`, `ZeroMeansWhole`, `StopIsLocated` (the offset that
  a stopped run reports), `ProgramExits` (liveness).
* `command_line`: `Saturates`, `LineIsObeyed` (`EndsWhenDue`,
  `SettingsAreAsked`), `CapIsSmallest`, `PathIsItsSegments`, `DotsCutText`.

Deadlock is checked for `reader`, which is called for ever.  The others may
stop: a walk after a failed push, a scan after END or ERROR, a call that
returned, a program that exited.

**Fairness.**  `reader` assumes `WF(Call)`, since `jsp_run` calls again until
it is told of the end, and `WF(Read)`, since a descriptor does not answer EINTR
for ever; it is not assumed that a stream ends.  The buffer of `parts` is
written under `WF(WriteAdvances)`, since `write(2)` on a blocking descriptor
waits rather than take nothing for ever, and `WF(ReturnResult)`, since the process
runs on; nothing is assumed of the other parts.  `pipeline` assumes `WF(PNext)`:
there is one thread, it runs on, and the descriptor brings each text's end in
time.  There an interrupted `read(2)` is a stutter, and that the exit comes does
not lean on which way a call turns out.

### Where the code and its text disagree

Three runs are expected to find a violation, each reproduced with the built
program:

* `pluck_escapes`: `jsp_scan` leaves a quote that is escaped outside a string
  in the structural mask while it takes it for no string bound, so the walk
  opens a string that a bracket then ends.  The comment at `jsp_pluck.c:150`
  says only the closing quote gets there.  The input is not JSON: for
  `\"{"a":1}` the program prints `[\,"{]` and reports no error.
* `run_ok_closed`: the result of writing the closing framing is dropped, so a
  run whose last write failed is `JSP_OK` and exits with 0 (an output file at
  its size limit shows it), against `jsp_run.h:52` and `:75-77`.
  `ZeroMeansWhole` says exactly what an exit status of 0 leaves open.
* `run_stopped_nests`: malformed input inside a picked container leaves half of
  it in front of the closing bracket (`[{` and then `]` for the stream `{]`).
  `docs/plucker.md:252` says a parseable array is left, and the comment at
  `pluck_test.c:378` that no partial record is emitted, although the case below
  that comment expects one.

Met on the way, with no run of their own: `jsp_run.h:91` promises the closing
framing whatever stopped the run, and a failed opening returns without it;
`docs/design.md` says block boundaries move with the read size, where
`BlocksAligned` shows they never do; `docs/plucker.md:292` says the reader pads
its last block, where it leaves what the buffer held (`FullWidthReadable` is
what is needed instead, and `WindowMatchesText` that it does no harm); the
comment above `round_up_to` says the buffer is never empty, which holds for
every size the command line can give (`CapIsSmallest`) and not for a direct
caller of `jsp_run` with a size within a block of `SIZE_MAX`.

## 4. What is proved

TLAPS proves the following for every value of the constants: any block and
buffer size, any word width, any path, any tokens, any arguments.  Every
theorem is about the specification that TLC runs, and about the very property
that a run checks.

**`SharedLemmas`, induction.**  Masks, numbers, paths and the readers of single octets are
recursive functions and folds, so most proofs are inductions over data.  The
library's rules for that take an operator as a parameter, which no prover here
can instantiate.  `UpTo` and `EveryNatural` state induction of a *set* instead:
a set that has 0, and each successor of what it has, has every natural.  It
follows from the well-foundedness of `<`.  `RecursionExists` and `FoldExists`
give from it the function that a recursion or a fold defines, with its value
at 0 and its step.  Each operator that recurses then has one lemma of its own
that says so, and no proof after it unfolds a recursion.

**`ReaderProofs`** assumes `BlockSize >= 1` and a buffer that holds a block.
The properties are not inductive: that a block's octets are the stream's says
nothing about the octets behind it, which are the next block.  `IInv` adds
`Mirror` (the buffer's first `len` octets are the last `len` of the stream so
far), `InLoop`, `WholeBlocks` (what was handed out before the end is a multiple
of the block size), `LastSlice` (where the last block lies in buffer and
stream), `AtEnd` and `Waiting`.  From it follow `ReaderTypeOK`,
`ReaderBlocksAreStream`, `ReaderFullWidth`, `ReaderReadsHaveRoom`, and, step by
step, the refinement `ReaderImplementsBlockSource`.  The full width of the short
last block needs one fact more than the code states: it starts at the buffer's
front.

**`SharedLemmas`, masks**: the meaning of the tricks for a word of any width.
Addition's carry runs through a run of set bits and stops at its end, so what
it changes within the word is the run (`RunParity`); after k doublings a bit
has felt every toggle less than 2^k below it (`PrefixXor`).  `StructureIs` puts
them together: the mask of a block has exactly the bits where a reader of
single octets, who starts as the carry says, finds structure, and the new carry
is where that reader stands at the block's end.

**`PartsProofs`, the parts**: `TricksWorkForEveryWord`.  `EveryBackendFindsKinds` is about
all 256^64 blocks: `TagBits` shows that two nibbles share a bit only when both
are the same character's; `ScalarIsKinds`, `Avx2IsKinds` and `NeonIsKinds` then
take each backend's mask apart lane by lane.  For AVX2 that is that the mask of
`HighNibble` removes what the neighbour shifted in and that no index has its
top bit set; for NEON that the weights of eight lanes add up without a carry,
so each bit of the sum is its own lane's.  `TablesFindOwnTag` is the fact about
the tables for the specification.  `NestingTypes`, `NestingImplementsStack`
(the mapping reads the kinds off the low `depth` bits, so stale bits are not
part of it) and `OutermostKindStays` are about the open containers, and
`WriteAllOrFailure`, from the invariant that what is out is exactly the first
`written` octets, about `jsp_write_all`.

**`ScanProofs`**, over blocks of any width whose unused octets are arbitrary:
`MasksMatchText`, `QuotesBoundStrings`, `TokensFollowOneAnother` and
`TraceIsOfTokens`.  The inductive invariant `ScanInv` joins to
`ScanMatchesText` that the ghost reader is past the last token (`TextInv`) and
that the window goes on where the token ended, up to the last block's end
(`OffsetInv`).  `TraceInv` says of the trace that the lines from the window on
are the ones that its mask asks for: all of them are written when the block is
taken, and each call uses up its own.

**`ScanReaderProofs`**: the scan on the reader's moving buffer.  `KInv` says that
the window ends where the reader's next block starts, in the buffer and in the
stream at once, and that a held token lies just before it; the reader's own
`IInv` comes in by `INSTANCE` of `ReaderProofs`.  What a caller reads through
its views is the stream (`ViewsHold`) because `Mirror` holds at the addresses
that `KInv` gives, whatever compaction did in between.
`ScanReaderImplementsScan` is the refinement, step by step: a call inside a
block is `ScanOn`, the step with which the reader answers a block is
`ScanAnyBlock` over the octets of the stream and those behind them in the
buffer, END and ERROR are `ScanStops`, and every other step of the reader is a
stutter.  So what `ScanProofs` says of tokens and masks holds on the buffer, for
any buffer that holds a block and however the reads fall.  `MaxStream` is only
assumed to be a natural: it bounds how many octets come in all.

**`PluckProofs`, any tokens**, assumes that segments and tokens are not empty and
that no octet is both blank and not.  The inductive invariant is the conjunction
of `TypeOK`, `MatchesAreOpen`, `PhaseFitsWalk`, `PhaseFitsString` and
`KeyTextIsSuffix`; none of the middle three is inductive alone.  A wrapper's
bracket returns early whatever the phase, which is right because no phase but
BETWEEN and SCALAR is possible at depth 0 outside a string: that needs phase,
depth and string state together.  A key's close bumps `segments_matched`
without looking at the depth, which is right because a key is compared only at
its own Its five parts, `LinesStayFlat`, and the action property `PassesConsume` are
theorems (`Pluck...`).

**`PluckProofs`, well-formed texts**: the walk and the reader of `Json` side by
side (`PluckJson`), for any path, keys, depth and cut into tokens.
`PicksAreWritten`: a push writes what the path picks of its token, with the
separators, and nothing else.  `MatchesAreSpelled`: the walk's counter, which
only ever goes up or down by one, is what comparing all open keys with the path
from the start would give.  `WalkStopsWhenDue`: a walk stops where the reader
says it must, and nowhere else.

The walk keeps a counter, a phase and a word of bits where the reader keeps a
stack of keys, so the invariant says when the two fit (`Fits`), in four parts.
`FramesFit`: the word's low bits are the stack's kinds, the frame at each depth
its bit.  `MatchFits`: `segments_matched` is how far the keys spell the path
(`Spells`), counted below the wrapper.  `PlaceFits`: the reader is in a string
exactly when the tokens are, and what it expects is what `last_structural`
leaves possible; so the walk knows a key's quote from a value's.  `PickFits`:
what each phase means of the value being copied, the key being compared, and
the depth where it began.

A token of octets is passed over in several steps of the loop, while the reader
takes it at once.  So `PicksInv` does not compare the two as they are: between
pushes the reader fits the walk as it is (`CaughtUp`), and within a token *some*
reader does from which what is left of the token leads to the one of the whole
text (`Behind`).  A blank, a letter, a string's octet and a key's are each
folded over a token's part by induction (`BytesFit`, `BlanksFit`, `LettersFit`);
a structural character has one lemma each (`QuoteEndsPicks`, `QuoteStartsPicks`,
`ColonPicks`, `CommaPicks`, `OpenPicks`, `ClosePicks`).  `Picked`, which looks at
all of the stack, becomes `AtValue`, which looks at depth and counter, in
`PickedIsAtValue`: that is the step at which the code's comparison of two
numbers is shown to be enough.  `PicksInv` holds together with `IInv` only
(`PicksHold`).  `MaxOpen`, which bounds the text in the run, is any value here.

**`RunProofs`**: `ErrnoIsKept`, that the errno of a result is that of
the first call that failed, whatever the closing framing does after it (`RInv`
adds that nothing failed while the run is before its close and that a result of
a failure has one to be of).  `FaultLocated`, that a run with a path is
MALFORMED exactly when a bracket of the stream breaks nesting, and where:
`NestedInv` says that until then the word and the depth are the very stack of a
reader who goes over the whole stream with a plain stack, octet by octet.
`LinesHoldScalars`: every line but the one that the run stopped in is one
scalar.  `LinesInv` says which part of the output is finished lines and, by the
walk's phase, what is behind the last separator: nothing, an open string, some
of a bare scalar, or a whole one.  Both hold for any stream and any call that
fails.  They need that the symbols for structure and separator are not octets
of a token (`SymbolsAssumption`): without it no output could be read back.

**`PartsProofs`, the command line**: `SizeSaturates`, that the test before each digit decides
as exact arithmetic would (`ShiftedSaturates`), for every `INT_MAX` that holds a
digit; `BufferHoldsSize`, that no size from the command line wraps in
`round_up_to`, from the assumption that an `int` and a block fit a `size_t`.
`CommandLineIsObeyed`: whatever the arguments, the settings are what the line
asks for, or it ends at the first argument at fault; `LineInv` says of the
arguments before the next one that all were obeyed and none ends the line, and
of the digits so far what they spell.  `SegmentsLieInText`, for texts of any
length over any octets and any bound of segments: no write leaves the array,
and every segment of an accepted path has an octet and no dot (`YInv` says of
each entry that a name starts behind it, and of the last one that the name goes
on as far as the loop has come).  `PathSpellsItsSegments`: a text is taken for a
path exactly when some names spell it, and the entries give those names back;
`CutInv` adds what a refusal was for.  `WholeLineIsObeyed` carries all of it over
to the composition, whose steps are those of `Settings` or of the parser by the
way it is put together (the lemma `LineImplementsSettings`).  The composition
assumes that every argument has a text for a path (`PathsAreTexts`).

**`PipelineProofs`**: `OutputIsThePicks`, `ZeroIsWhole` and `StopLocated`, over any JSON
texts, any course of reads, any word and buffer that holds one, any path and
framing, and any call that fails.  They assume that the texts are JSON or its beginning for the reader (`TextsAssumption`; past a container that nests
too deep or is refused, where the program has stopped, a text may hold anything)
and that the classifier is exact (`KindsAssumption`, which
`EveryBackendFindsKinds` is about).  TLC evaluates both for the texts of
`pipeline`.

The proofs this one rests on are about different machines: `Scan` cuts a stream of
kinds into tokens, `ScanReader` finds their octets in a buffer that moves,
`PluckJson` walks over any well-formed tokens.  They come in by `INSTANCE` (`SP`
for the scan, `PJ` for the walk) or `EXTENDS`, and the inductive invariant
`ProgramInv` has what joins them:

* `KInv` and `ScanInv`, the invariants of `ScanReaderProofs` and `ScanProofs`,
  hold because a step of the program is a step of that scan or a stutter
  (`ScanSteps`).
* `FlowInv`: the stream is the beginning of a text, the run has taken its octets
  up to the window or the token it holds, each once and in order, and END is
  answered only when a text is read to its end.
* `TextInv`: the ghost `text` is where reading the octets taken, one by one from
  the start of the stream, leads (`TextFollows`).  So it can be compared with a
  reader who is handed whole tokens.
* `WalkInv`: with a path, walk and `text.json` are in `IInv` and `PicksInv` of
  `PluckProofs`.  This is where all of it meets: a push has to be a step that
  `PluckJson` allows, so the token must be one that it might be given.
  `TokenText` says what is needed of the octets that the views hold: read one by
  one, each is one that JSON may go on with, and it opens, closes or separates
  something exactly when the token is STRUCTURAL.  It follows from `ScanInv`, by
  which the scan's reader of kinds bounds the token, since that reader and the
  one of JSON agree on which octets are inside strings and which are escaped.
  The scan looks for backslashes everywhere and the grammar has them in strings
  only: the two agree because `LegalText` has no backslash elsewhere, which is
  the one condition that the run `pluck_escapes` breaks.  `PushReads` then is
  that reading the token's octets one by one is the reader's step in
  `PluckJson`.
* `ResultInv` ties stage, result, exit status and the walk's status to one
  another, and OK after the loop to a text read to its end.
* `OutInv`: what is out is the opening framing, what was due before the last
  token, and what its push has written; behind it may stand the closing framing
  once the run is done.

`OutputIsPicked` is not inductive: it speaks of moments between two tokens only,
and says nothing of what a held token shows, of which octets were taken, or of
the walk.  `ZeroMeansWhole` needs of `ProgramInv` what the status of a run stands
for, long before main looks at it.  `StopIsLocated` needs beside it `StopInv`:
the push that stopped the run took one octet, the scan's offset of it is how
many were taken before, and up to there the reader had found nothing wrong; that
it does now is in `WalkInv`.  `Run` has no reader and counts the octets of its
tokens instead, so this property is also what ties its count to the offset that
`pluck_failure_` is given.

Where the prover could not read a definition it was rewritten to the same
meaning: `Reach` is a doubling instead of a power of two, `Offsets` takes the
mask's least bits one by one instead of sorting it.

**Only model-checked**: everything under fairness (`EveryOctetDelivered`,
`CallReturns`, `ProgramExits`), since ENABLED is beyond the prover, and the three
runs that expect a violation.  Every invariant and every action property of a
passing run, and every refinement that one checks, is a theorem as well.

## 5. What is not modelled

* Usage text, messages and the wording of errors in `main` and `jsp_settings`,
  and the layout of a trace line: formatting.
* `jstr` from C strings, equality and prefixes of whole arguments: an argument
  is modelled as the option that it is.  `starts_with` and `after` are modelled
  where the walk compares keys.
* The meaning of a vector intrinsic beyond what it does to a lane, and which
  backend a build chooses: any of the three is checked.
* What `free` may do to `errno` on a failed run: the C library's affair.
* A value's octets other than blanks, structure and backslashes: numbers,
  literals and escapes are never looked at by the code either.
* The trace in `pipeline` and `scan_reader`: `scan` has it.
* Bench, tests and build files: no part of the program.

## 6. The plan

Done, in this order: reader, nesting, pluck (with its proofs), bits, scan,
write_all, run; then classify with its three backends, the command line with
the parser of paths, scan over reader, the whole program as `Pipeline`, and the
proofs about classify, the command line, the paths and `Run`'s errno; then
induction, the masks for any word, the scan over blocks and over the reader,
the fault and the lines of a run, the whole command line, and what the walk
writes of a well-formed text; last, what the whole program puts out.

What is left:

1. That `WriteAll` implements the `Emit` of `Pluck`.
2. A trace that fails inside the whole program, as `scan` has it alone.
