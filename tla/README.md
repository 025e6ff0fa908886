# A verification of Skard

Skard is a small embeddable scripting language in C: a library (`skard-lib`) with a lexer, a
compiler front end and a bytecode machine, and a program (`skard-runtime`) that uses it. This
directory holds TLA+ modules translated from that code, the TLC configurations that check them and
proofs that TLAPS checks. Paths below are relative to `src/skard-lib/src` unless they say otherwise.

## Inventory

| Component | Source | State | Operations | What makes it correct |
|---|---|---|---|---|
| Growable arrays | `utils.c/h`, `value.c` | count, capacity, block | grow, append, free | no cell outside the block; sizes do not wrap; growth in proportion to use |
| Chunk | `chunk.c/h` | code, constant pool, lines, columns | init, write byte, write constant, free | what is read back is what was written |
| Debug info | `chunk.c` | `<line, run length>` pairs; a column per byte | add, read line, read column | the line and column of every byte are recovered |
| Disassembler | `debug.c` | none | list a chunk | decodes what the writer encoded |
| Virtual machine | `vm.c/h` | ip, stack block, `stack_top` | push, pop, run, free | executes the instructions of the listing, returns when the program does |
| Embedding program | `../../skard-runtime/src/main.c` | one chunk, one machine | any of the above in any order | an interpreter with a stack that outlives a run |
| Lexer | `lexer.c/h` | pointers into the source, line, column | init, reset, scan token | cuts a text into the longest lexemes, with their positions, and never reads past its end |
| Parser | `compiler.c` 301-519, 833-847 | two tokens, `is_panic`, `is_error`, the C call stack, the tree | advance, consume, one function per rule | accepts the grammar, builds its derivation, owns every node once, ends |
| Type inference | `compiler.c` 549-830 | a type in every node | infer, memoise, check | the type of a tree follows from its leaves |
| Compiler driver | `compiler.c` 191-222, `utils.c` 33-58 | the file's block, a lexer on the stack | read file, print tokens, reset, parse | both passes see the same tokens; the verdict is that of the text |
| Code generation | `compiler.c` 850-856 | none | a stub | - |
| Error exits | `error.c` | none | print and `exit(1)` | nothing is used after a failure |

**Interactions.** Everything runs in one thread, by calls. The embedder writes a chunk; the machine
reads its code and constants through the pointers of the struct; the disassembler reads code,
constants and debug info. The driver reads a file, makes a lexer, takes all tokens once to print
them, resets the lexer and parses: the parser asks the lexer for one token after another with one
token of lookahead, and the parse functions call one another through the function pointers of
`parse_rules`. The tree is then printed, typed in place, printed and freed. No part of the front end
reaches the machine yet: code generation is a stub.

**What is hard.** There is no concurrency, nothing is persisted and no message is lost. The hard
behaviours are pointers across `realloc`, size arithmetic, encodings that three places decode
independently, character loops that have to stop at the terminator as well as at what they look for,
positions that several places advance, state that outlives an operation (the stack between runs,
`is_panic` and `is_error` between sources, the lexer between its two passes), error paths through a
recursive parser that manages memory by hand, a file that changes between its measurement and its
reading, and sequences of legal calls nobody tried. The repository has no tests. `PROJECT.json` lists
each hazard at its line with the properties that guard it.

## Modules

| Module | Models | Notes |
|---|---|---|
| `Memory` | `reallocate`, `SKARD_GROW_CAPACITY`, `SKARD_GROW_ARRAY`, `value_array_*` | size arithmetic modulo `Word`; a block has the cells its byte size really holds |
| `Chunk` | `chunk.c`, with the debug info | one action per public function; each write is one step with all its reallocations, or the exit of the process |
| `Disassembler` | `debug.c` | pure: `Listing` is what is printed |
| `VM` | `vm.c` | one action per instruction; pointers are `<block, offset>`, and `realloc` may keep the block or move it |
| `Interpreter` | abstract specification | instructions and a sequence of values: no bytes, blocks or pointers |
| `Runtime` | the embedder composed with `Chunk`, `VM`, `Disassembler` | implements `Interpreter` |
| `Scanner` | abstract specification | cuts a text by the longest lexeme of the operators and keywords that `lexer.h` lists: no pointers, loops or lookahead |
| `Lexer` | `lexer.c` | one action per character stepped over and per token made; implements `Scanner` |
| `Types` | inference rules, memoised inference, order of `ast_node_free` | recursive functions over a heap of nodes |
| `Grammar` | reference: the derivation trees of a token sequence | independent of the parser: each piece of the tokens has its trees, made of those of shorter pieces |
| `Parser` | `compiler_generate_ast` and all it calls | an explicit stack of calls, one action per call, return or rule |
| `Compiler` | the driver, composed with `Lexer` and `Parser` | the parser's requests are now answered by what the lexer makes of the text; `TypesOfText` is what the `Scanner` makes of it |
| `ChunkProofs`, `RuntimeProofs`, `LexerProofs`, `ScannerProofs`, `ParserProofs`, `GrammarProofs`, `CompilerProofs` | theorems | each extends the module it is about |
| `Induction` | facts about numbers | the form of induction the proofs use |
| `MCChunk`, `MCRuntime`, `MCLexer`, `MCCompiler` | symmetry, which chunks are run and which grow to the limit, texts, and properties that relate to a reference | |

Operators named `X_Y` under a comment "Mutant" are wrong versions of `X`; nothing uses them. Each is
a plausible bug that the property listed beside it in `PROJECT.json` detects when it takes the place
of `X`.

**Chunk.** `chunk` is the C struct. An array records its count, capacity, data, and whether an
allocation for it was refused. `Update` commits a write whose allocations were all granted; otherwise
the process exits (`status`). The allocator must refuse more than `MaxAlloc` bytes and may refuse
anything. `written` is history: what was written, with positions. At the limit on constants the code
adds the constant first and exits then, which gives two outcomes; what was added is not looked at any
more, so `chunk` is left as it was.

**VM.** A step that the loop does not define (past the end of the code, pop from an empty stack, a
constant index outside the pool) is the action `Astray`, which ends in `vmState = "undefined"`: the C
program may then do anything, and nothing is claimed of it. `vm_free` and the chunk functions are
called between runs only: `vm_run` does not return earlier and calls nothing back. The embedder
writes constants with `chunk_write_op_constant`, so raw bytes are instructions without an operand.

**Lexer.** `lexer` is the C struct, its pointers being places of the text (the first is 1, the
terminator is at `End`). `pc` is the loop `lexer_scan_token` is in, "idle" between two calls.
`tokens` are the tokens made since the last reset; a token has its type, the places of its first and
last character, and its line and column. Characters are strings of length one; texts without a NUL
byte. `printed` keeps the tokens of the pass that `lexer_print` makes. The one step over the
terminator, in the loop of `lexer_scan_string`, leads to `pc = "astray"`.

**Parser.** `frames` is the C call stack of the parse functions. A frame holds the local variables
that survive a call; `Pending` marks the call a frame waits for. `compiler_advance` takes any token
(`Answers`), reports and skips error tokens on the way, and answers `EOF` for ever at the end of the
source. `heap` lists the nodes allocated for a source, `freed` those that were released. A call of a
NULL function or a NULL child that is followed leads to `phase = "crashed"`. The same `Compiler` may
be given another source with or without `compiler_init` in between.

**Compiler.** `driver` is where `compiler_compile_file` or `compiler_compile_source` is. Its steps are
those of `Lexer` and of `Parser`, unchanged, with two additions: a lexer call begins only when the
printing loop or the parser asks (`lexer_print`, `compiler_advance`), and a parser step that takes a
token takes the one the lexer has just made (`Parse`). One call of `compiler_advance` may need several
of the lexer, which is why it is asked until the token is no error. `file` and `block` are those of
`read_file`: the file may become shorter or longer between `ftell` and `fread`, its size may be
unknown, and opening, allocating and reading may fail. `out_of_memory` is a refused node.

## Runs and bounds

| Run | Question | Instance |
|---|---|---|
| `chunk_writes` | are bytes, lines and constants recovered; are blocks and limits respected? | `Base` 4, one value, 2 lines, up to 5 constants, writes start below 13 bytes: up to five runs of lines, both operand widths, the limit on constants, and an allocation limit that the fifth run of lines meets |
| `runtime_short` | does a run do what the program says, whatever the last run left? | up to 4 bytes and the last instruction, all opcodes and an unknown one, a stack of 1, 2 and 4 cells |
| `runtime_long` | do writer, machine and disassembler agree on three-byte operands, and does the limit on constants keep indices apart? | `Base` 4: up to 8 constants, the last four of three bytes; no other instruction, so that runs end past the code; then chunks of up to 64 constants (`Base`^3, as 2^24 is in the code), all but the first equal, and one too many, without running them |
| `parser_grammar` | verdict, tree, memory, termination | literals, `+ * ( )`, up to 7 tokens |
| `parser_errors` | verdict, crashes and types under errors | both literals, `- / \|` and parentheses, tokens without a rule, `->`, error tokens, up to 5 tokens |
| `lexer_lexemes` | are texts cut as the scanner cuts them, twice alike, to the end? | all texts of up to 4 characters over 7, up to 6 over 4 and up to 5 over 5 of them (comments, numbers, names, blanks, lines); all of up to 3 operator characters; each keyword, its prefixes, its neighbours in one character; empty and unclosed strings |
| `compiler_texts` | from a file to the verdict | all texts of up to 4 characters over `1.+*()/`, comments inside of short expressions, numerals of up to 5 characters over `1.e+`, strings, and nine texts that fail in different places; two texts after another if they have 3 characters in all |
| `lines_frugal`, `parser_arrow`, `parser_null`, `lexer_quotes`, `lexer_assign` | the findings below | each stops at the counterexample |

The constants shrink numbers, not cases. `Base` 4 or 5 instead of 256 makes the fifth or sixth
constant need the long operand; `MinCapacity` 2 and `StackMin` 1 instead of 8 and 256 make arrays grow
several times within a few writes; `Word` 512 and `MaxAlloc` 255 (8192 and 4095 in `runtime_long`) put
the refusal of an allocation and the wrap of a size within reach, in the order they have on a real
machine (`2 * MaxAlloc < Word`). `chunk_writes` has a single column because `ReadBack`, which includes
columns, is also proved for all of them. Seven tokens are enough for each of `1+2*3+4`, `((1))*2`,
`(1+2)*3`, `+1*+2+3` and all their broken neighbours: two operators on either side of each other at
equal and different levels, nested groupings and unary operators, and each error at each place. The
lexer has at most two characters of lookahead and no memory beyond the current token, so texts of
four to six characters contain every pair of tokens with a gap between them, a comment with text on
both sides, and each of these cut off by the end; the operator and keyword tables are covered entry
by entry. `MCRuntime` narrows `RuntimeNext` for `runtime_long`: chunks of more than
`ShortProgram` constants are not run, and are followed only when all constants but the first are equal.
`MaxBytes`, `MaxDepth`, `MaxTokens`, `MaxTexts` and `MaxCharacters` bound the exploration;
they are guards of the actions that start a write, a run or a text, or scan a token. `MaxEnds` bounds how
often the end of a text is asked for; the driver asks at most three times in a pass, so that 4 never
stops it.

`CHECK_DEADLOCK FALSE` appears in every configuration, because the process may really stop: it exits
without memory, the machine or a string goes astray or the parser crashes.

**Fairness.** `RuntimeSpec` assumes weak fairness of `vm_loop`: once called, `vm_run` goes on
iterating; nothing else is scheduled. `ParserSpec` assumes weak fairness of `ParserStep`, and
`CompilerSpec` of `DriverStep`: a compilation that was begun goes on. None of them says that the
embedder ever calls anything. `LexerSpec` assumes weak fairness of the steps of a call and of the
call itself, because both of its users, `lexer_print` and the parser, ask for tokens until the end.

**What the runs show.**

- `LinesReadBack`, `ReadBack`: the position and value of every byte are recovered.
- `MemorySafe`, `WasteBounded`: growth is sound, and proportionate for three of the four arrays.
- `StackPointerValid`: `stack_top` never points into a block that was given back.
- `AtBoundary`, `ConstantsDecode`: the three decoders agree with the writer, up to the last constant
  whose index three bytes can hold. One more, and it would be decoded as the first: in the long
  chunks of `runtime_long` the first constant differs from all others, so that this would show.
- `ImplementsInterpreter`: what the embedder sees is the abstract interpreter, including the stack that
  is left over from an earlier run.
- `BalancedRunsReturn`: a program that returns before it pops too much gives a result.
- `ImplementsScanner`: for texts without `-=` and without strings of more than their quotes (findings 4
  and 5), the lexer drops exactly the blanks and comments and takes the longest lexeme, with its type.
- `StaysInSource`, `TokensInOrder`: no loop passes the terminator, except after a quote that ends the
  text; tokens follow one another and only the end is empty.
- `PositionsExact`: what the line and column of every token are, strings and errors included. It
  states what the code does and does not judge it: for what a reader of a message may expect instead,
  see the remarks.
- `SecondPassRepeats`: the parser sees the tokens that were printed, at the same positions.
- `EndReached`, `CallsReturn`: every loop over characters and every call of the driver ends.
- `VerdictExact`: the parser accepts exactly the grammar, unless the compiler was not initialised again
  after an error, in which case it accepts nothing. `VerdictOfText` says the same from the characters
  on: the scanner's tokens are an expression.
- `LiteralsReadWhole`: `strtod` and `strtoll`, which know no length, stop where an accepted literal ends.
- `BlockHoldsText`: `read_file` writes no more than it allocated, however the file changes meanwhile,
  provided `ftell` could tell its size (see "Not modelled").
- `TreeIsDerivation`: an accepted source has one derivation and the tree is that one.
- `OwnedOnce`, `FreedOnce`: no node is lost, shared or freed twice, errors included.
- `CrashExplained`: crashes happen only for sources that are not accepted.
- `TypesExact`: the inferred type of the root is what the leaves and operators imply.
- `CompilationEnds`: every compilation ends.

**Findings.**

1. `chunk.c:30` compares the capacity of the lines with itself, so the array doubles at each new run
   of lines: memory exponential in the number of source lines (`lines_frugal`).
2. `compiler.c:371-374` give `+=`, `-=` and `->` the precedence of `+` and `-` with no infix function;
   `compiler.h:87` and `:92` document other levels, and the parser calls NULL (`parser_arrow`).
3. `compiler.c:839` protects printing from a NULL root only; after a syntax error inside an operand a
   child is NULL and is followed (`parser_null`).
4. `lexer.c:279` tests for the end of the file without a negation, so that a string literal ends after
   whatever character follows its quote (`lexer_quotes`).
5. `lexer.c:365` makes the token of `*=` of a `-` and a `=` (`lexer_assign`).

Remarks that no document contradicts, and that have no run of their own: the line counts ends of line
that are tokens, so those inside of block comments are missed (`lexer.c:158`); the column is never set
back at an end of line and is that of the whole text (`lexer.c:73`, printed by `compiler.c:317`); the
comment loop reads the star that opened the comment again, so `/*/` is a whole comment;
`compiler_compile_source` returns the stub's `false` for every text (`compiler.c:221`).

## Proofs

All theorems hold for every value of the constants that satisfies the named assumptions
(`MemoryAssumption`, `ChunkAssumption`, `VMAssumption`, `RuntimeAssumption`, `LexerAssumption`,
`ParserAssumption`). `RuntimeAssumption` says that the bytes the embedder writes one by one are no
constant instructions, which is what `chunk_write_op_constant` is for; TLC evaluates all of them.

**`Induction`**. The induction theorems of the library take an operator as a parameter, which no
installed prover can instantiate. The proofs use sets instead: `LeastNumber` and `GreatestNumber` (a
set of numbers has a least element, a bounded one a greatest) and what follows from them
(`FromSmaller`, `UpTo`, `DownFrom`). A recursive function is a `CHOOSE` for the provers, so
each proof about one begins with the existence of a function that satisfies its equation, which is
shown for the functions on `0 .. n` by induction on `n` (`VisitsExist`, `WalkExists`, `TypesExist`).

**`ChunkProofs`**: `TypeCorrect`, `MemorySafety`, `ReadBackWhatWasWritten` and `GrowthIsFrugal`, that
is `ChunkSpec => []P` for `ChunkTypeOK`, `MemorySafe`, `ReadBack` and `WasteBounded`. None of these is
inductive. `IInv` adds, for each array, that its block is at most `MaxAlloc` bytes (it was granted),
which with `2 * MaxAlloc < Word` is why doubling the capacity and multiplying by the cell width do not
wrap; that a block has at least `MinCapacity` cells; and for the lines, that a run is there as soon as
there is a block, which is why `lines[lines_count - 2]` at `chunk.c:25` is a cell and why the
unconditional growth always leaves room for two more cells. The lemmas follow the code:
`GrowthDoesNotWrap` and `GrownProperties` about the macros, `PushProperties` and `AddLineProperties`
about the two ways to append, `WriteByteInv` and `WriteOpConstantInv` about the two writes, and
`RefusalIsLasting`, which justifies checking for a refusal once per write. `Invariance` puts them
together. `LinesAreReadBack` is the fifth, for `LinesReadBack`. Its invariant describes the pairs by
the places where their runs end: the ends increase by the run lengths, the last one is the length of the
code, and the line of a run is that of every byte in it. The loop of `chunk_get_line` is a recursive
function; that it stops in the run a byte is in is shown by induction over the runs.

**`RuntimeProofs`**: `StackPointerNeverStale` (`StackPointerValid`), `RuntimeTypeCorrect`
(`RuntimeTypeOK`) and `ChunksStayIntact` (`MemorySafe` and `ReadBack` in the composition). The
invariant is `RInv`, four parts: `IInv` of the chunk; `PoolInv`, the cells of the constant pool below
its count hold values; `StackInv`, the block of the stack was granted, has `capacity` cells, `stack_top`
points into it and what lies below was pushed; and `MachineInv`. `PoolInv` is needed because what
is pushed is read from the pool through an index decoded from the code, so the stack holds values only
if every index that is in the pool finds one; it is kept by writes because an append leaves the cells
below the count alone. `StackInv` is kept by a push because the block that grows keeps its cells, is at
most `MaxAlloc` bytes, and the pointer is recomputed from the offset (`vm.c:28`).

Three more theorems of this module compare the bytes with instructions: `StandsAtBoundaries` (`AtBoundary`), `ConstantsAreDecoded`
(`ConstantsDecode`) and `StepsAsInterpreter`, the safety part of `ImplementsInterpreter`. They
rest on one invariant, `LayoutInvariance`: the code is `n` instructions that begin at the offsets
`at[0]`, ..., `at[n] = count`, each as long as its opcode says, and each operand decodes to the index
of a constant that was stored (`Layout`, `Decodable`). `OffsetsAreLaidOut` shows that the walk of the
disassembler, a recursive function, finds just these offsets; `EncodingDecodes` that the bytes
`chunk_write_op_constant` writes for an index, with one byte or three, decode to it, which is the
arithmetic of digits in base `Base`. During a run the pointer is one of the offsets (`StandsAt`), so
the machine fetches what the listing shows (`FetchesInstruction`), and each of its steps is the step
of the abstract interpreter on that instruction (`MachineStep`); a write adds one instruction to the
listing (`EmbedderStep`). The fairness of `ImplementsInterpreter` is not part of the theorem.

**`LexerProofs`**: `NeverPastTheEnd` (`StaysInSource`), `InOrder` (`TokensInOrder`) and `TypeCorrect`
(`LexerTypeOK`), for every text. The invariant `LInv` adds where the pointers are in each loop: that
`current` is never behind `start` and, inside of a token, ahead of it; that the column is never behind
`current`, so that the column computed back from the end of a token does not underflow; that the
string loop is entered at the character after a quote; and that all tokens end before `Frontier`, the
place where the text begins that belongs to no token yet (`start` inside of a token, `current`
elsewhere). That a string can only go astray at the very end follows from the defect of finding 4: the
loop never goes on over a character.

`PositionsAreExact` is `PositionsExact` for every text. Its invariant `PositionsInv` relates the
struct to the tokens: `line` is one more than the number of end-of-line tokens, and `column` is the
place before `current` plus the number of times the end was made, which is never made before the end
of the text. The counts are cardinalities, so a lemma says how each changes with a token.

`SecondPassIsTheFirst` is `SecondPassRepeats` for every text. The next state of a call of the lexer
is a function of the struct, the loop and the text (`After`): the tokens only grow by what it makes.
A pass is a sequence of states that begins as `lexer_init` leaves the struct and goes on as `After`
says (`IsPass`). The state is the last one of a pass, and what was printed are the tokens of another
(`PassInv`); two passes over one text agree as far as both go (`PassesAgree`), so the tokens of the
shorter are a prefix of the tokens of the longer. The theorem would fail if `lexer_reset` forgot a
field of the struct that a token depends on.

**`ScannerProofs`**: `CutsAsScanner`. A lexer that makes no token of the two defects, that is while
`StringsClosed` and `MinusAssign` hold (findings 4 and 5), implements the `Scanner`, for every text:
every step of a loop is a step of the scanner or a stutter. The condition is about the tokens made, so
the texts without the defects, and the others up to the first of them, are covered. Three things are
compared:

- What is dropped. `NextSignificant` of the scanner is a recursive function over places; as every
  blank and comment ends behind its place, the recursion is well founded (`SkipsExist`), and
  `NextAt` says what it is by the first two characters. A loop that is inside of a comment has not
  moved the next lexeme: `GapInv` says that the next lexeme of the place the loop will end at is the
  one of `Gap`, where the last token ended.
- What is taken. `Longest` chooses from all lexemes at a place; the lemmas `EolLongest`,
  `WordLongest`, `IntLongest`, `RealLongest`, `EmptyStringLongest`, `OpenStringLongest`, `PairLongest`,
  `SingleLongest` and `NoOperator` say which it is by the characters there. `PartInv` says what part
  of it the lexer has read: letters and digits, digits, or digits around one point.
- Its type. `SameWords` and `SameOperators` compare the lists of `lexer.h` with the switches of
  `lexer.c`: the keyword by a prefix and the rest, the operator by two characters, except for the row
  of finding 5.

`CutInv` (`GapInv` and `PartInv`) is inductive next to `LInv`. The lemmas `EndCuts`, `OperatorCuts`,
`WordCuts` and `StringCuts` (together `StepCuts`) say what a step that makes a token makes of the next
lexeme: the lexeme itself (`Exactly`), or, of the two defects, a token of another extent where both types
are among `Confused`: strings, errors, `*=` and `-=` (`Mistaken`). A step of the first kind is a step of
the scanner (`Delivered`), which proves the theorem. Both kinds are remembered in `TokensCut`, the state form that the
driver needs: each token made so far is, from where the one before it ended, the next lexeme, or both
are confused types.

**`ParserProofs`**: `EveryNodeHasOneOwner` (`OwnedOnce`), for every set of tokens, every length and
every error on the way. The invariant `PInv` types the calls, the compiler's struct and the heap
(`ShapeInv`) and adds, until a crash, `OwnersInv`: only the innermost call may have a value, the others
wait for one; only a call of `compiler_parse_binary` has a first operand; the root is empty while
calls are open; every pointer is `NULL` or to a node that was made; and each node is held at exactly one
place (`Sole`). The first two are what makes the third hold: a call that returns would overwrite its
caller's value, and lose a node, were the caller not waiting. The step lemmas follow what the code does
with a pointer: `ValueHandedBack` returns it to the caller, `OperandsMoved` and `NodeHandedBack` make
it the child of a new node that is returned, `ValuePassed` gives it to the call that parses what
follows, `LeafHeld` makes a literal.

The second part of this module is about what the parser builds: `ParserTyped` (`ParserTypeOK`), `EveryNodeIsFreedOnce`
(`FreedOnce`), `InferenceIsExact` (`TypesExact`) and `CrashesAreExplained` (`CrashExplained`), for
every set of tokens and every source. The invariant `TreeInv` adds to `PInv` that a node is older
than its parent, so that every walk of a tree ends; that the tree is complete once it was printed, as a NULL child
would have crashed the compiler; that it is untyped until `typecheck`, which types it as its leaves and
operators imply. `FreedOnce` needs both that each node has one owner, so that no node is reached
twice (`SubtreesApart`, `NoneVisitedTwice`), and that it is reached at all (`ParentVisited`,
`AllVisited`): the order of the release is computed by a recursive function over the heap, which
`WalkVisits` describes by what it visits. `TypesExact` compares the memoised inference of the code
with the rule applied from the leaves up; the two agree as each child has its type before its parent
asks (`TypesInferred`, `RulesApplied`). For the crashes, `ErrorsInv` says that while no error was
reported no call misses an operand and no node a child, so that a NULL that is followed comes after
an error; what remains is the NULL function of the operators without a rule (finding 2).

**`GrammarProofs`**: `VerdictIsExact` (`VerdictExact`) and `TreesAreDerivations` (`TreeIsDerivation`).
For every set of tokens and every source, of any length, the parser accepts exactly the expressions
of the grammar, and the tree it builds is the only derivation. The grammar, in `Grammar`, quantifies
over all splits of a token sequence; the parser sees one token and never goes back. The proof has
three parts.

- The grammar by itself. `TreesOf` unfolds the recursive definition, whose recursion is well founded
  by the length of a piece and the level (`DerivesExist`, `Order`). `FirstOperand` and `Prepends` read
  a derivation from the left: the first operand and then a `Rest` of operators and operands, although
  the grammar is left-recursive. `Unambiguous`: a piece has one tree at most.
- The calls. `Sound` says what each open call has read: the tokens from where it began to where the
  call inside of it began, or to the token under consideration, are derived, with the very tree the
  call holds (`Meaning` is the tree of every node). `Fits` says what it waits for, if the
  source is an expression at all: what is still to be read makes what it has read one of its level,
  and the token behind is none of its operators. Each step keeps both, one lemma per kind of call (`SoundInfix`,
  `FitsInfix` and so on). `Nests` says which calls may call which, and with which minimal precedence.
- The verdict. An error is reported only where no source that begins with the tokens taken so far is
  an expression (`Doomed`): otherwise what `Fits` waits for would be there (`NoPrefixDooms`,
  `NoParenDooms`, `NoEndDooms`). More tokens do not lift the doom, so whatever the parser skips in panic, the
  verdict stands. Without an error, `Sound` for the outermost call is a derivation of the whole source.

The invariant is `ParserInv`: `PInv`, `TreeInv`, `ErrorsInv`, `ScansInv` (below) and `VerdictInv`, which says the
above phase by phase, and that `is_error` is set from the start if the compiler was not initialised again
after an error. `ErrorsInv` and `OwnersInv` are needed because a value a call holds must be a node,
unshared, for its tree to stay the same while other nodes are made.

**`CompilerProofs`**: the driver with the lexer and the parser. `TokensStayExact`, `TreesStayExact`
and `VerdictStaysExact` carry what was proved of the two over to the composition, where the parser may stop in the midst of a
text, the process may exit at any allocation, and a `Compiler` is used for one text after the other.
`StepOfLexer` and `StepOfParser` say that each step of the driver is one of the lexer, of the parser, of
both or of none, or gives them a new text. `FilesFitTheirBlock` is `BlockHoldsText`, for every size the
file may have had. `LiteralsAreReadWhole` is `LiteralsReadWhole`: it relates a node of the tree to the
characters that follow its token, so its invariant has to go through all three parts.

- `TextInv`, about the lexer: a number token is digits, or digits around one point, and no digit
  follows it (`NumbersInv`); and a letter that follows a token begins a word (`WordsInv`), so that what
  `strtod` could take for an exponent would be an identifier or a keyword right behind the number.
- `AnswersInv`, about the driver: behind the token the parser holds, the lexer has made errors only,
  and while no error was reported the parser took the tokens of the lexer one by one (`Matches`).
- `ScansInv`, about the parser: while no error was reported, each token it took, but the one under
  consideration, is a number, a parenthesis or an operator (`Expected`); each literal of the tree
  points to a number among them; and the last one is the end once the parse is over.

Together: in a text that is accepted, what follows a number is no word, hence no letter, and the
conversion stops at the end of the token.

`TextsAreJudged` is `VerdictOfText`, the verdict from the characters on, for texts with the defects of
findings 4 and 5 too. `VerdictStaysExact` speaks of the tokens the parser took; the theorem compares them
with `TypesOfText`, a recursive function over the places of the text, of which `ListsExist` and
`OneList` say that it exists and is the only one.

- `TypesFollow`: as long as the tokens are of no confused type, the types of the text begin with theirs
  and go on from where the last one ended. This is an induction over the tokens with `TokensCut`.
- `TypesAgree`: at the first token that is confused, the list has a confused type as well, which
  is no terminal of the grammar; so the text is no expression, whatever follows (`NoOthers`). That is why the
  defects change what is reported, never the verdict.
- `TakenDooms`, `AnswerDooms`: when the parser reports an error, no source that extends what it took is
  an expression (`Doomed`, from the parser's invariant); the text is such a source, or has a confused
  token. An error token that `compiler_advance` skipped on the way is of the second kind.
- `AcceptsText`: when the tree is freed without an error, what was taken is of terminals only and ended,
  so that it is the list of the types of the text (`TakenIsText`).

`VerdictsInv` keeps the two halves from the step that reports the first error, or ends the compilation, to the
return of the call. The invariant `CompilerInv` joins all these with `CallsInv`, which says where a call
of the driver leaves the lexer and the parser, and with `LexerInv`, which includes `TokensCut`.

**Only model-checked.** `BalancedRunsReturn`, `EndReached`, `CallsReturn`, `CompilationEnds` and the
fairness of `ImplementsInterpreter` are liveness, which is out of the prover's reach. Every safety
property of a passing run is stated by a theorem.

## Not modelled

- `compiler_generate_bytecode`: a stub.
- Printing and translation to names: output only. The debug trace of the machine only reads.
- NUL bytes inside a file: the lexer takes the first for the end of the text.
- The values of literals; only where `strtod` and `strtoll` stop reading is modelled.
- The depth of the C stack, which depends on the platform.
- What `fread` writes when `ftell` answers -1 (`utils.c:41`). The code is wrong there: the -1 becomes the
  largest `size_t`, `malloc` is asked for 0 bytes, and `fread` writes all that the file has past the end
  of that block before `error_could_not_read` ends the process. The model has the exit, not the bytes
  written before it, and `BlockHoldsText` leaves this case out: it is about files whose size can be told.
- Which message is printed. An error token is reported inside `compiler_advance`, before the caller's
  own error, which `is_panic` then silences; the model has both flags in that order, but no texts.
- The pointer to the lexer that dangles after `compiler_compile_source` returns (`compiler.c:214`):
  nothing the driver does reads it before it is set again.

## Plan

All components but the stub and pure output are modelled, and the safety properties of the passing runs
are proved. What remains:

1. **Code generation**, once it is more than a stub: the compiler composed with the machine.
2. **Refinement with less reservation**: `CutsAsScanner` for the code as it is once findings 4 and 5 are
   mended, without its condition.
