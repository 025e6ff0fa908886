------------------------------ MODULE Compiler ------------------------------
(***************************************************************************)
(* The compiler driver: read a file, take its tokens once to print them,   *)
(* reset the lexer and parse, the parser asking the same lexer for one     *)
(* token after the other.  Composes Lexer with Parser: what the parser is  *)
(* answered is now what the lexer makes of the text.                       *)
(***************************************************************************)
EXTENDS Lexer, Parser

CONSTANTS
  Word,          \* size_t arithmetic is modulo Word (2^64)
  MaxTexts,      \* bound: texts given to one Compiler
  MaxCharacters  \* bound: characters in them, if there is more than one

ASSUME CompilerAssumption ==
  /\ Word \in Nat
  /\ \A s \in Sources : Len(s) + 1 < Word
  /\ MaxTexts \in Nat
  /\ MaxCharacters \in Nat

VARIABLES
  driver,    \* where compiler_compile_file or compiler_compile_source is
  file,      \* the file being read: its text, and the size ftell() gave
  block,     \* the block it is read into: its size, the bytes written to it
  compiled,  \* history: the texts given to the Compiler so far, and the
             \* characters in them
  taken      \* how many tokens of the second pass the parser was answered

driverVars == <<driver, file, block, compiled, taken>>
compilerVars == <<lexerVars, parserVars, driverVars>>

NoBlock == [size |-> 0, written |-> 0]

\* The bounds on what one Compiler is given.
MayFollow(text) ==
  /\ compiled.texts < MaxTexts
  /\ compiled.texts = 0 \/ compiled.characters + Len(text) <= MaxCharacters

\* exit(1) in error.c.
Exit == driver' = "exited"
-----------------------------------------------------------------------------
\* ftell() cannot tell the size of every file: its -1 is the largest size_t.
FileSizes(text) == {Len(text), Word - 1}

\* Mutant: no room for the terminator.
BlockSize_TextOnly(size) == size

BlockSize(size) == (size + 1) % Word

\* read_file up to malloc: the block, or one of two errors.
compiler_compile_file ==
  /\ driver = "idle"
  /\ \/ /\ Exit
        /\ UNCHANGED <<file, block>>
     \/ /\ driver' = "reading"
        /\ \E text \in Sources : \E size \in FileSizes(text) :
             /\ MayFollow(text)
             /\ file' = [text |-> text, size |-> size]
             /\ block' = [size |-> BlockSize(size), written |-> 0]
  /\ UNCHANGED <<lexerVars, parserVars, compiled, taken>>

(***************************************************************************)
(* fread, from a file that may have become shorter or longer meanwhile:    *)
(* too few bytes are an error, bytes beyond the size are not seen.         *)
(***************************************************************************)
read_file ==
  /\ driver = "reading"
  /\ \E available \in (Len(file.text) - 1) .. (Len(file.text) + 1) \ {-1} :
       IF available < file.size
       THEN /\ Exit
            /\ block' = [block EXCEPT !.written = available]
       ELSE /\ driver' = "read"
            /\ block' = [block EXCEPT !.written = file.size + 1]
  /\ UNCHANGED <<lexerVars, parserVars, file, compiled, taken>>

\* The text is the file's, or one that the embedder keeps itself.
compiler_compile_source ==
  /\ \/ driver = "read" /\ source' = file.text
     \/ driver = "idle" /\ \E text \in Sources : MayFollow(text) /\ source' = text
  /\ lexer' = [start |-> 1, current |-> 1, line |-> 1, column |-> 0]
  /\ tokens' = << >> /\ printed' = << >>
  /\ driver' = "printing"
  /\ compiled' = [texts      |-> compiled.texts + 1,
                  characters |-> compiled.characters + Len(source')]
  /\ taken' = 0
  /\ UNCHANGED <<pc, parserVars, file, block>>

lexer_print ==
  /\ driver = "printing" /\ Ends = {}
  /\ lexer_scan_token
  /\ UNCHANGED <<parserVars, driverVars>>

scan ==
  /\ ScanStep
  /\ UNCHANGED <<parserVars, driverVars>>

reset ==
  /\ driver = "printing"
  /\ lexer_reset
  /\ driver' = "starting"
  /\ UNCHANGED <<parserVars, file, block, compiled, taken>>
-----------------------------------------------------------------------------
\* Whether the next step of the parser calls compiler_advance.
NeedsToken ==
  \/ driver = "starting"
  \/ driver = "parsing" /\ AtPrefix
  \/ driver = "parsing" /\ AtInfix /\ Top.min <= PrecedenceOf(compiler.current)
  \/ driver = "parsing" /\ Returned("grouping") /\ compiler.current = ")"
  \/ driver = "parsing" /\ phase = "parsed" /\ compiler.current = "EOF"

\* compiler_advance asks until the token is no error.
Answered == taken < Len(tokens) /\ Last(tokens).type # "ERROR"

compiler_advance ==
  /\ pc = "idle" /\ NeedsToken /\ ~Answered
  /\ lexer_scan_token
  /\ UNCHANGED <<parserVars, driverVars>>

\* What the parser has seen then (in Parser, one error stands for several).
Answer(past) ==
  LET errors == {i \in taken + 1 .. Len(tokens) : tokens[i].type = "ERROR"}
  IN  IF Ended(past) THEN past
      ELSE past \o (IF errors = {} THEN << >> ELSE <<"ERROR">>)
                \o <<Last(tokens).type>>

\* A step of the parser, with the token it calls for if it calls for one.
Parse(step, past) ==
  /\ pc = "idle"
  /\ step
  /\ driver' = "parsing"
  /\ IF NeedsToken
     THEN /\ Answered
          /\ compiler'.current = Last(tokens).type
          /\ scanned' = Answer(past)
          /\ taken' = Len(tokens)
     ELSE UNCHANGED taken
  /\ UNCHANGED <<lexerVars, file, block, compiled>>

start_parse == driver = "starting" /\ Parse(compiler_generate_ast, << >>)

parse == driver = "parsing" /\ Parse(ParserStep, scanned)

\* allocate() is refused the memory of a node.
out_of_memory ==
  /\ driver = "parsing" /\ pc = "idle"
  /\ \/ AtPrefix /\ Prefix(compiler.current) = "literal" /\ Answered
     \/ Returned("unary") \/ Returned("binary") \/ Returned("grouping")
  /\ Exit
  /\ UNCHANGED <<lexerVars, parserVars, file, block, compiled, taken>>

\* compiler_compile_file frees the text; a text of its own the embedder keeps.
return_from_compile ==
  /\ driver = "parsing" /\ phase = "done" /\ pc = "idle"
  /\ driver' = "idle"
  /\ block' = NoBlock
  /\ UNCHANGED <<lexerVars, parserVars, file, compiled, taken>>

init_again ==
  /\ driver = "idle"
  /\ compiler_init
  /\ UNCHANGED <<lexerVars, driverVars>>

CompilerInit ==
  /\ ParserInit
  /\ source = << >>
  /\ lexer = [start |-> 1, current |-> 1, line |-> 1, column |-> 0]
  /\ pc = "idle" /\ tokens = << >> /\ printed = << >>
  /\ driver = "idle"
  /\ file = [text |-> << >>, size |-> 0]
  /\ block = NoBlock
  /\ compiled = [texts |-> 0, characters |-> 0]
  /\ taken = 0

\* What the driver does once it was called.
DriverStep ==
  \/ read_file
  \/ driver = "read" /\ compiler_compile_source
  \/ lexer_print \/ scan \/ reset
  \/ compiler_advance \/ start_parse \/ parse
  \/ return_from_compile

CompilerNext ==
  \/ compiler_compile_file \/ compiler_compile_source \/ init_again
  \/ out_of_memory
  \/ DriverStep

\* A call of the driver goes on; nobody has to call it.
CompilerSpec ==
  CompilerInit /\ [][CompilerNext]_compilerVars /\ WF_compilerVars(DriverStep)
-----------------------------------------------------------------------------
(***************************************************************************)
(* read_file writes no more than the block holds, the terminator included, *)
(* however the file changed since its size was asked for.  This leaves out *)
(* a file whose size ftell() cannot tell: there the code asks for no bytes *)
(* and writes all the same, before it exits.                               *)
(***************************************************************************)
BlockHoldsText ==
  file.size # Word - 1 => block.written <= block.size

\* Places where a number begins: up to where strtoll or strtod reads it.
ReadByConversion(first, type) ==
  LET digits(p, q) == \A i \in p .. q : source[i] \in Digits
      exponent(p, q) == \/ p > q
                        \/ /\ source[p] \in {"e", "E"}
                           /\ \/ p < q /\ digits(p + 1, q)
                              \/ p + 1 < q /\ source[p + 1] \in {"+", "-"} /\ digits(p + 2, q)
      reads(q) == \/ digits(first, q)
                  \/ type = "real" /\ \E dot \in first + 1 .. q : \E rest \in dot + 1 .. q + 1 :
                       /\ source[dot] = "." /\ digits(first, dot - 1)
                       /\ digits(dot + 1, rest - 1) /\ exponent(rest, q)
  IN  CHOOSE q \in first .. Len(source) :
        reads(q) /\ \A r \in q + 1 .. Len(source) : ~reads(r)

(***************************************************************************)
(* compiler_parse_int and compiler_parse_real convert from the first       *)
(* character of the token on, without its length: strtod also reads an     *)
(* exponent, which is not part of the token.  In a text that is accepted,  *)
(* they stop where the token does.                                         *)
(***************************************************************************)
LiteralsReadWhole ==
  phase = "free" /\ ~compiler.is_error =>
    \A n \in 1 .. Len(heap) :
      heap[n].kind = "value" =>
        LET token == tokens[heap[n].value]
        IN  ReadByConversion(token.first, token.type) = token.last

\* What the scanner makes of the text.
Text == INSTANCE Scanner

\* The types of the tokens of the text, up to its end.
TypesOfText ==
  LET from[p \in 1 .. Len(source) + 1] ==
        LET first == Text!NextSignificant(p)
            next  == Text!Longest(first)
        IN  IF next.type = "EOF" THEN << >> ELSE <<next.type>> \o from[next.last + 1]
  IN  from[1]

(***************************************************************************)
(* The verdict, from the characters on: a text is accepted exactly if its  *)
(* tokens, as the Scanner cuts them, are an expression of the Grammar, and *)
(* the Compiler had no error before it.                                    *)
(***************************************************************************)
VerdictOfText ==
  driver = "parsing" /\ phase = "done" =>
    (~compiler.is_error <=> ~reused /\ Derivations(TypesOfText) # {})

\* Every call of the driver comes back, unless the process ends before.
CallsReturn ==
  driver # "idle" ~> \/ driver \in {"idle", "exited"}
                     \/ phase = "crashed" \/ pc = "astray"
=============================================================================
