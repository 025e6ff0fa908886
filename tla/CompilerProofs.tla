--------------------------- MODULE CompilerProofs ---------------------------
(***************************************************************************)
(* Proofs about the driver in its composition with the lexer and the       *)
(* parser.  Each step of the driver is one of the lexer, of the parser, of *)
(* both or of none, so that their invariants carry over; new is what       *)
(* relates them: the tokens the parser took are those the lexer made, and  *)
(* the text that is converted to a number is the text of a token.          *)
(***************************************************************************)
EXTENDS Compiler, ScannerProofs, GrammarProofs

(***************************************************************************)
(* Where the calls of the driver leave the lexer and the parser: neither   *)
(* is under way when the driver is not in the part that uses it.           *)
(***************************************************************************)
CallsInv ==
  /\ driver \in {"idle", "reading", "read", "printing", "starting", "parsing", "exited"}
  /\ driver \in {"idle", "reading", "read"} => pc = "idle"
  /\ driver \in {"idle", "reading", "read", "printing", "starting"} => phase \in {"ready", "done"}
  /\ driver = "exited" => phase \in {"ready", "done", "parsing"}
  /\ driver \in {"reading", "read"} => file.text \in Sources

\* The block when a file is going to be read into it.
BlockInv ==
  /\ driver = "reading" => /\ file.size \in FileSizes(file.text)
                           /\ block = [size |-> BlockSize(file.size), written |-> 0]
  /\ BlockHoldsText

\* Before it is given the first text, the driver has no lexer.
NoLexer ==
  /\ source = << >> /\ tokens = << >> /\ printed = << >> /\ pc = "idle"
  /\ lexer = [start |-> 1, current |-> 1, line |-> 1, column |-> 0]
  /\ driver \in {"idle", "reading", "read", "exited"}

\* What the proofs about the lexer need of it, and those about the parser.
LexerInv == LInv /\ PositionsInv /\ PassInv /\ CutInv /\ TokensCut

TreesInv == ParserInv /\ FreedOnce /\ TypesExact
-----------------------------------------------------------------------------
\* A step of the driver is one of the lexer, or none, or gives it a text.
LEMMA StepOfLexer ==
  ASSUME CallsInv, [CompilerNext]_compilerVars
  PROVE  [LexerNext]_lexerVars \/ lexer_init'
<1>1. CASE UNCHANGED compilerVars
  BY <1>1 DEF compilerVars
<1>2. CASE compiler_compile_source
  <2>1. /\ driver \in {"idle", "read"} /\ pc' = pc /\ source' \in Sources
        /\ lexer' = [start |-> 1, current |-> 1, line |-> 1, column |-> 0]
        /\ tokens' = << >> /\ printed' = << >>
    BY <1>2 DEF compiler_compile_source, CallsInv
  <2> QED BY <2>1 DEF CallsInv, lexer_init
<1>3. CASE lexer_print \/ scan \/ reset \/ compiler_advance
  BY <1>3 DEF lexer_print, scan, reset, compiler_advance, LexerNext
<1>4. CASE \/ compiler_compile_file \/ read_file \/ init_again \/ out_of_memory \/ start_parse
           \/ parse \/ return_from_compile
  BY <1>4 DEF compiler_compile_file, read_file, init_again, out_of_memory, start_parse, parse,
              Parse, return_from_compile
<1> QED BY <1>1, <1>2, <1>3, <1>4 DEF CompilerNext, DriverStep

\* A step of the driver is one of the parser, or none.
LEMMA StepOfParser ==
  ASSUME [CompilerNext]_compilerVars
  PROVE  [ParserNext]_parserVars
<1>1. CASE UNCHANGED compilerVars
  BY <1>1 DEF compilerVars
<1>2. CASE start_parse \/ parse \/ init_again
  BY <1>2 DEF start_parse, parse, Parse, init_again, ParserNext
<1>3. CASE \/ compiler_compile_file \/ read_file \/ compiler_compile_source \/ lexer_print \/ scan
           \/ reset \/ compiler_advance \/ out_of_memory \/ return_from_compile
  BY <1>3 DEF compiler_compile_file, read_file, compiler_compile_source, lexer_print, scan, reset,
              compiler_advance, out_of_memory, return_from_compile
<1> QED BY <1>1, <1>2, <1>3 DEF CompilerNext, DriverStep

\* Only a call under way goes on.
LEMMA NoneOnTheWay ==
  /\ ScanStep => pc # "idle"
  /\ phase \in {"ready", "done"} => ~ParserStep
<1>1. ScanStep => pc # "idle"
  BY DEF ScanStep, skip_whitespace, skip_comment, lexer_skip_single_line_comment,
         lexer_skip_multi_line_comment, lexer_make_eof_token, lexer_make_eol_token, scan_first,
         scan_operator, lexer_scan_identifier, lexer_scan_number, lexer_scan_fraction,
         lexer_scan_string, AtToken
<1>2. ParserStep => phase \notin {"ready", "done"}
  BY DEF ParserStep, no_prefix, parse_literal, call_prefix, call_infix, leave_precedence,
         parse_grouping, parse_unary, parse_binary, consume_eof, print, typecheck, free,
         AtPrefix, AtInfix, Returned
<1> QED BY <1>1, <1>2

\* The calls stay where they may be.
LEMMA DriverCallsKept ==
  ASSUME CallsInv, [CompilerNext]_compilerVars
  PROVE  CallsInv'
<1>1. CASE UNCHANGED compilerVars
  BY <1>1 DEF compilerVars, lexerVars, parserVars, driverVars, CallsInv
<1>2. CASE compiler_compile_file
  BY <1>2 DEF compiler_compile_file, Exit, CallsInv, lexerVars, parserVars
<1>3. CASE read_file
  BY <1>3 DEF read_file, Exit, CallsInv, lexerVars, parserVars
<1>4. CASE compiler_compile_source
  BY <1>4 DEF compiler_compile_source, CallsInv, parserVars
<1>5. CASE lexer_print \/ compiler_advance
  <2>1. driver \in {"printing", "starting", "parsing"} /\ UNCHANGED <<driver, phase, file>>
    BY <1>5 DEF lexer_print, compiler_advance, NeedsToken, driverVars, parserVars
  <2> QED BY <2>1 DEF CallsInv
<1>6. CASE scan
  <2>1. pc # "idle" /\ UNCHANGED <<driver, phase, file>>
    BY <1>6, NoneOnTheWay DEF scan, driverVars, parserVars
  <2> QED BY <2>1 DEF CallsInv
<1>7. CASE reset
  BY <1>7 DEF reset, CallsInv, parserVars
<1>8. CASE start_parse \/ parse
  BY <1>8 DEF start_parse, parse, Parse, CallsInv
<1>9. CASE out_of_memory
  <2>1. phase = "parsing"
    BY <1>9 DEF out_of_memory, AtPrefix, Returned
  <2> QED BY <1>9, <2>1 DEF out_of_memory, Exit, CallsInv, parserVars
<1>10. CASE return_from_compile
  BY <1>10 DEF return_from_compile, CallsInv, lexerVars, parserVars
<1>11. CASE init_again
  BY <1>11 DEF init_again, compiler_init, CallsInv, lexerVars, driverVars
<1> QED BY <1>1, <1>2, <1>3, <1>4, <1>5, <1>6, <1>7, <1>8, <1>9, <1>10, <1>11
        DEF CompilerNext, DriverStep

\* What is read fits the block that was allocated for it.
LEMMA BlockKept ==
  ASSUME CallsInv, BlockInv, [CompilerNext]_compilerVars
  PROVE  BlockInv'
<1>1. CASE UNCHANGED <<driver, file, block>>
  BY <1>1 DEF BlockInv, BlockHoldsText
<1>2. CASE compiler_compile_file
  <2>1. CASE UNCHANGED <<file, block>> /\ driver' = "exited"
    BY <2>1 DEF BlockInv, BlockHoldsText
  <2>2. CASE ~(UNCHANGED <<file, block>> /\ driver' = "exited")
    <3>0. PICK text \in Sources : \E size \in FileSizes(text) :
            /\ file' = [text |-> text, size |-> size]
            /\ block' = [size |-> BlockSize(size), written |-> 0]
      BY <1>2, <2>2 DEF compiler_compile_file, Exit
    <3>1. PICK size \in FileSizes(text) :
            /\ file' = [text |-> text, size |-> size]
            /\ block' = [size |-> BlockSize(size), written |-> 0]
      BY <3>0
    <3>2. size # Word - 1 => block'.written <= block'.size
      <4>1. size # Word - 1 => /\ size = Len(text) /\ Len(text) \in Nat
                               /\ Len(text) + 1 < Word /\ Word \in Nat
        BY LexerAssumption, CompilerAssumption DEF FileSizes
      <4> QED BY <3>1, <4>1 DEF BlockSize
    <3> QED BY <3>1, <3>2 DEF BlockInv, BlockHoldsText
  <2> QED BY <2>1, <2>2
<1>3. CASE read_file
  <2>1. /\ file.text \in Sources /\ file.size \in FileSizes(file.text)
        /\ block = [size |-> BlockSize(file.size), written |-> 0]
    BY <1>3 DEF read_file, CallsInv, BlockInv
  <2>2. Len(file.text) \in Nat /\ Len(file.text) + 1 < Word /\ Word \in Nat
    BY <2>1, LexerAssumption, CompilerAssumption
  <2>3. PICK available \in (Len(file.text) - 1) .. (Len(file.text) + 1) \ {-1} :
          block' = [block EXCEPT !.written =
                      IF available < file.size THEN available ELSE file.size + 1]
    BY <1>3 DEF read_file
  <2>4. file' = file /\ driver' # "reading"
    BY <1>3 DEF read_file, Exit
  <2>5. ASSUME file.size # Word - 1 PROVE block'.written <= block'.size
    <3>1. file.size = Len(file.text)
      BY <2>1, <2>5 DEF FileSizes
    <3>2. block'.size = Len(file.text) + 1
      BY <2>1, <2>2, <2>3, <3>1 DEF BlockSize
    <3>3. block'.written = IF available < file.size THEN available ELSE file.size + 1
      BY <2>1, <2>3
    <3> QED BY <2>2, <2>3, <3>1, <3>2, <3>3
  <2> QED BY <2>4, <2>5 DEF BlockInv, BlockHoldsText
<1>4. CASE return_from_compile
  BY <1>4 DEF return_from_compile, NoBlock, BlockInv, BlockHoldsText
<1>5. CASE \/ compiler_compile_source \/ lexer_print \/ scan \/ reset \/ compiler_advance
           \/ out_of_memory \/ start_parse \/ parse \/ init_again
  <2>1. UNCHANGED <<file, block>> /\ (driver' = "reading" => driver = "reading")
    BY <1>5 DEF compiler_compile_source, lexer_print, scan, reset, compiler_advance, out_of_memory,
                Exit, start_parse, parse, Parse, init_again, driverVars
  <2> QED BY <2>1 DEF BlockInv, BlockHoldsText
<1> QED BY <1>1, <1>2, <1>3, <1>4, <1>5 DEF CompilerNext, DriverStep, compilerVars, driverVars
-----------------------------------------------------------------------------
\* Without a lexer, none of its operations is called but the one that gives
\* it a text.
LEMMA NoLexerKept ==
  ASSUME CallsInv, NoLexer, ~lexer_init', [CompilerNext]_compilerVars
  PROVE  NoLexer'
<1>1. ~ScanStep
  BY NoneOnTheWay DEF NoLexer
<1>2. UNCHANGED lexerVars /\ driver' \in {"idle", "reading", "read", "exited"}
  <2>1. CASE UNCHANGED compilerVars
    BY <2>1 DEF compilerVars, driverVars, NoLexer
  <2>2. CASE compiler_compile_source
    <3>1. /\ driver \in {"idle", "read"} /\ pc' = pc /\ source' \in Sources
          /\ lexer' = [start |-> 1, current |-> 1, line |-> 1, column |-> 0]
          /\ tokens' = << >> /\ printed' = << >>
      BY <2>2 DEF compiler_compile_source, CallsInv
    <3> QED BY <3>1 DEF CallsInv, lexer_init
  <2>3. CASE compiler_compile_file \/ read_file \/ init_again \/ out_of_memory
    BY <2>3 DEF compiler_compile_file, read_file, init_again, out_of_memory, Exit, NoLexer,
                driverVars
  <2>4. ~(\/ lexer_print \/ scan \/ reset \/ compiler_advance \/ start_parse \/ parse
          \/ return_from_compile)
    BY <1>1 DEF lexer_print, scan, reset, compiler_advance, NeedsToken, start_parse, parse,
                return_from_compile, NoLexer
  <2> QED BY <2>1, <2>2, <2>3, <2>4 DEF CompilerNext, DriverStep
<1> QED BY <1>2 DEF NoLexer, lexerVars

\* The invariants of the lexer, from the first text on.
LEMMA LexerKept ==
  ASSUME CallsInv, NoLexer \/ LexerInv, [CompilerNext]_compilerVars
  PROVE  (NoLexer \/ LexerInv)'
<1>1. CASE lexer_init'
  <2>1. (lexer_init => LexerInv)'
    BY FirstLInv, FirstPositions, FirstPassInv, FirstCutInv, FirstTokensCut, PTL DEF LexerInv
  <2> QED BY <1>1, <2>1
<1>2. CASE LexerInv /\ [LexerNext]_lexerVars
  <2>1. LInv'
    BY <1>2, LInvKept DEF LexerInv
  <2> QED BY <1>2, <2>1, PositionsKept, PassInvKept, CutInvHolds, TokensCutHolds DEF LexerInv
<1>3. CASE NoLexer /\ ~lexer_init'
  BY <1>3, NoLexerKept
<1> QED BY <1>1, <1>2, <1>3, StepOfLexer

\* The invariants of the parser.
LEMMA TreesKept ==
  ASSUME TreesInv, [CompilerNext]_compilerVars
  PROVE  TreesInv'
<1>1. [ParserNext]_parserVars
  BY StepOfParser
<1>2. ParserInv'
  BY <1>1, ParserInvKept DEF TreesInv
<1>3. FreedOnce' /\ TypesExact'
  BY <1>1, FreedKept, TypesExactKept DEF TreesInv, ParserInv
<1> QED BY <1>2, <1>3 DEF TreesInv
-----------------------------------------------------------------------------
OnlyDigits(p, q) == \A i \in p .. q : source[i] \in Digits

\* The text of a number, and what does not follow it.
IsNumber(t) ==
  /\ t.type = "int" => OnlyDigits(t.first, t.last)
  /\ t.type = "real" => \E point \in t.first + 1 .. t.last :
                          /\ source[point] = "."
                          /\ OnlyDigits(t.first, point - 1) /\ OnlyDigits(point + 1, t.last)
  /\ t.type \in {"int", "real"} => CharAt(t.last + 1) \notin Digits

NumbersInv == \A i \in 1 .. Len(tokens) : IsNumber(tokens[i])

WordTypes == {"identifier"} \cup {k.type : k \in KeywordCases}

(***************************************************************************)
(* A letter that follows a token begins a word: the next token is one, and *)
(* until it is made the lexer is in front of the letter or inside of it.   *)
(***************************************************************************)
WordsInv ==
  /\ \A i \in 1 .. Len(tokens) - 1 :
       CharAt(tokens[i].last + 1) \in Letters => tokens[i + 1].type \in WordTypes
  /\ CharAt(Gap) \in Letters => \/ pc \in {"idle", "skip"} /\ lexer.current = Gap
                                \/ pc = "identifier"

\* A letter is neither skipped nor does it begin anything but a word.
LEMMA LettersBegin ==
  /\ \A c \in Letters : c \notin Digits \cup Blanks \cup {"/", "\n", Quote, NUL}
<1>1. \A c \in {"0", "1", "2", "3", "4"} : c \notin Letters
  BY ZenonT(40) DEF Letters
<1>2. \A c \in {"5", "6", "7", "8", "9"} : c \notin Letters
  BY ZenonT(40) DEF Letters
<1>3. \A c \in {" ", "\r", "\t", "/", "\n"} : c \notin Letters
  BY ZenonT(40) DEF Letters
<1>4. \A c \in {"\"", "NUL"} : c \notin Letters
  BY ZenonT(40) DEF Letters
<1> QED BY <1>1, <1>2, <1>3, <1>4 DEF Digits, Blanks, Quote, NUL

\* The types of words: none of them is a type that the parser has a rule for.
LEMMA TypesOfWords ==
  /\ \A word : lexer_determine_identifier_type(word) \in WordTypes
  /\ WordTypes \cap ({"int", "real", "EOF", "ERROR", "eol", "string"}
                     \cup {"(", ")", "+", "-", "*", "/", "|"}) = {}
<1>1. ASSUME NEW word PROVE lexer_determine_identifier_type(word) \in WordTypes
  <2> DEFINE cases == {k \in KeywordCases : StartsWith(word, k.prefix)}
             chosen == CHOOSE k \in cases : TRUE
  <2>1. cases # {} => chosen \in KeywordCases
    OBVIOUS
  <2>2. lexer_determine_identifier_type(word) =
          IF cases = {} THEN "identifier" ELSE lexer_check_keyword(word, chosen)
    BY DEF lexer_determine_identifier_type
  <2> HIDE DEF cases, chosen
  <2>3. lexer_check_keyword(word, chosen) \in {chosen.type, "identifier"}
    BY DEF lexer_check_keyword
  <2> QED BY <2>1, <2>2, <2>3 DEF WordTypes
<1>2. WordTypes \cap ({"int", "real", "EOF", "ERROR", "eol", "string"}
                      \cup {"(", ")", "+", "-", "*", "/", "|"}) = {}
  <2>1. WordTypes = {"identifier", "dump", "else", "false", "fn", "for", "if", "import", "let",
                     "match", "nil", "package", "return", "self", "struct", "true", "while",
                     "with"}
    BY DEF WordTypes, KeywordCases
  <2> QED BY <2>1
<1> QED BY <1>1, <1>2
-----------------------------------------------------------------------------
\* A step that makes a token.
LEMMA MakesText ==
  ASSUME LInv, NumbersInv, WordsInv, NEW l \in Structs, NEW type \in TokenTypesMade,
         Makes(l, type),
         type = "int" => OnlyDigits(l.start, l.current - 1),
         type = "real" => \E point \in l.start + 1 .. l.current - 1 :
                            /\ source[point] = "."
                            /\ OnlyDigits(l.start, point - 1)
                            /\ OnlyDigits(point + 1, l.current - 1),
         type \in {"int", "real"} => CharAt(l.current) \notin Digits,
         CharAt(Gap) \in Letters => type \in WordTypes
  PROVE  NumbersInv' /\ WordsInv'
<1> DEFINE token == IF type = "ERROR" THEN lexer_make_error_token(l)
                                      ELSE lexer_make_token(l, type)
           N == Len(tokens)
<1>1. /\ tokens' = Append(tokens, token) /\ source' = source /\ lexer' = l /\ pc' = "idle"
  BY DEF Makes, Yield
<1>2. /\ l.start \in Nat /\ l.current \in Nat /\ l.line \in Nat /\ l.column \in Nat
      /\ l.start <= l.current /\ l.current <= l.column + 1
  BY DEF Structs, Makes
<1>3. l.current - 1 + 1 = l.current
  BY <1>2
<1>4. token.type = type /\ token.first = l.start /\ token.last = l.current - 1
  BY DEF lexer_make_error_token, lexer_make_token
<1> HIDE DEF token
<1>5. /\ tokens \in Seq(TokenRecords) /\ N \in Nat /\ Len(tokens') = N + 1
      /\ tokens'[N + 1] = token /\ \A i \in 1 .. N : tokens'[i] = tokens[i]
  BY <1>1, TokenFacts
<1>6. IsNumber(token)
  BY <1>3, <1>4 DEF IsNumber
<1>7. NumbersInv'
  <2> SUFFICES ASSUME NEW i \in 1 .. N + 1 PROVE IsNumber(tokens[i])'
    BY <1>5 DEF NumbersInv
  <2>1. IsNumber(tokens'[i])
    BY <1>5, <1>6 DEF NumbersInv
  <2> QED BY <1>1, <2>1 DEF IsNumber, OnlyDigits, CharAt
<1>8. tokens # << >> => Gap = tokens[N].last + 1
  BY DEF Gap
<1>9. ASSUME NEW i \in 1 .. N, CharAt(tokens[i].last + 1) \in Letters
      PROVE  tokens'[i + 1].type \in WordTypes
  <2>1. CASE i = N
    <3>1. tokens # << >>
      BY <2>1
    <3> QED BY <1>4, <1>5, <1>8, <1>9, <2>1, <3>1
  <2>2. CASE i # N
    <3>1. i \in 1 .. N - 1 /\ i + 1 \in 1 .. N
      BY <1>5, <2>2
    <3> QED BY <1>5, <1>9, <3>1 DEF WordsInv
  <2> QED BY <2>1, <2>2
<1>10. Gap' = l.current
  <2>1. tokens' # << >>
    BY <1>5
  <2> QED BY <1>3, <1>4, <1>5, <2>1 DEF Gap
<1>11. WordsInv'
  <2>1. \A i \in 1 .. Len(tokens') - 1 : i \in 1 .. N /\ tokens'[i] = tokens[i]
    BY <1>5
  <2> QED BY <1>1, <1>9, <1>10, <2>1 DEF WordsInv, CharAt
<1> QED BY <1>7, <1>11

\* A step that makes none.
LEMMA GoesText ==
  ASSUME LInv, NumbersInv, WordsInv, UNCHANGED <<source, tokens, printed>>,
         CharAt(Gap) \in Letters => \/ pc' \in {"idle", "skip"} /\ lexer'.current = Gap
                                    \/ pc' = "identifier"
  PROVE  NumbersInv' /\ WordsInv'
<1>1. source' = source /\ tokens' = tokens /\ Gap' = Gap
  BY SameGap
<1>2. NumbersInv'
  BY <1>1 DEF NumbersInv, IsNumber, OnlyDigits, CharAt
<1>3. WordsInv'
  BY <1>1 DEF WordsInv, CharAt
<1> QED BY <1>2, <1>3

\* Both are kept by every step of the lexer.
LEMMA TextKept ==
  ASSUME LInv, CutInv, NumbersInv, WordsInv, LexerNext
  PROVE  NumbersInv' /\ WordsInv'
<1>1. CharAt(Gap) \in Letters => \/ pc \in {"idle", "skip"} /\ Peek \in Letters
                                 \/ pc = "identifier"
  BY DEF WordsInv, Peek
<1>2. Peek \in Letters => Peek \notin Digits \cup Blanks \cup {"/", "\n", Quote, NUL}
  BY LettersBegin
<1>3. /\ lexer \in Structs /\ Begun(1) \in Structs /\ Begun(2) \in Structs
      /\ Advanced(1) \in Structs
  BY StructFacts, AdvancedFields
<1>4. {"ERROR", "string"} \subseteq TokenTypesMade
  BY DEF TokenTypesMade
<1>5. CASE lexer_make_eof_token \/ lexer_make_eol_token
  <2>1. AtToken /\ Peek \in {NUL, "\n"}
    BY <1>5, EndMakes
  <2>2. CharAt(Gap) \notin Letters
    BY <1>1, <1>2, <2>1 DEF AtToken
  <2> QED BY <1>5, <2>2, EndMakes, MakesText
<1>6. CASE scan_operator
  <2>1. AtToken /\ Peek \notin Letters
    BY <1>6, OperatorMakes
  <2>2. CharAt(Gap) \notin Letters
    BY <1>1, <2>1 DEF AtToken
  <2>3. \A c \in Single : c \notin {"int", "real"}
    BY DEF Single
  <2>4. \A p \in Pairs : p[3] \notin {"int", "real"}
    BY DEF Pairs
  <2>5. PairsHere \subseteq Pairs
    BY DEF PairsHere
  <2>6. ASSUME NEW p \in PairsHere, Makes(Begun(2), p[3]), p[3] \in TokenTypesMade
        PROVE  NumbersInv' /\ WordsInv'
    <3>1. p[3] \notin {"int", "real"}
      BY <2>4, <2>5
    <3> QED BY <1>3, <2>2, <2>6, <3>1, MakesText
  <2>7. ASSUME Makes(Begun(1), Peek), Peek \in Single, Peek \in TokenTypesMade
        PROVE  NumbersInv' /\ WordsInv'
    BY <1>3, <2>2, <2>3, <2>7, MakesText
  <2>8. ASSUME Makes(Begun(1), "ERROR")
        PROVE  NumbersInv' /\ WordsInv'
    BY <1>3, <1>4, <2>2, <2>8, MakesText
  <2> QED BY <1>6, <2>6, <2>7, <2>8, OperatorMakes
<1>7. CASE lexer_scan_identifier \/ lexer_scan_number \/ lexer_scan_fraction
  <2>1. CASE /\ UNCHANGED <<source, tokens, printed>>
             /\ \/ pc = "identifier" /\ pc' = "identifier"
                \/ pc \in {"number", "fraction"}
    BY <1>1, <2>1, GoesText
  <2>2. ASSUME NEW type \in TextTypes \ {"eol"}, Makes(lexer, type),
               pc = "identifier", type = lexer_determine_identifier_type(
                                           SubSeq(source, lexer.start, lexer.current - 1))
        PROVE  NumbersInv' /\ WordsInv'
    <3>1. type \in WordTypes /\ type \notin {"int", "real"} /\ type \in TokenTypesMade
      BY <2>2, TypesOfWords DEF TextTypes
    <3> QED BY <1>3, <2>2, <3>1, MakesText
  <2>3. ASSUME NEW type \in TextTypes \ {"eol"}, Makes(lexer, type),
               \/ pc = "number" /\ Peek \notin Digits \cup {"."} /\ type = "int"
               \/ pc = "fraction" /\ Peek \notin Digits /\ type = "real"
        PROVE  NumbersInv' /\ WordsInv'
    <3>1. CharAt(Gap) \notin Letters /\ CharAt(lexer.current) \notin Digits
      BY <1>1, <2>3 DEF Peek
    <3>2. type = "int" => OnlyDigits(lexer.start, lexer.current - 1)
      BY <2>3 DEF CutInv, PartInv, OnlyDigits
    <3>3. type = "real" => \E point \in lexer.start + 1 .. lexer.current - 1 :
                             /\ source[point] = "."
                             /\ OnlyDigits(lexer.start, point - 1)
                             /\ OnlyDigits(point + 1, lexer.current - 1)
      BY <2>3 DEF CutInv, PartInv, OnlyDigits
    <3>4. type \in TokenTypesMade
      BY DEF TextTypes
    <3> QED BY <1>3, <2>3, <3>1, <3>2, <3>3, <3>4, MakesText
  <2> QED BY <1>7, <2>1, <2>2, <2>3, WordMakes
<1>8. CASE lexer_scan_string
  <2>1. pc = "string"
    BY <1>8, StringMakes
  <2>2. CharAt(Gap) \notin Letters
    BY <1>1, <2>1
  <2>3. CASE UNCHANGED <<source, tokens, printed>>
    BY <2>2, <2>3, GoesText
  <2> QED BY <1>3, <1>4, <1>8, <2>2, <2>3, StringMakes, MakesText
<1>9. CASE lexer_reset
  <2>1. tokens' = << >> /\ lexer'.current = 1 /\ pc' = "idle"
    BY <1>9 DEF lexer_reset
  <2> QED BY <2>1 DEF NumbersInv, WordsInv, Gap
<1>10. CASE lexer_scan_token
  <2>1. /\ UNCHANGED <<source, tokens, printed>> /\ lexer' = lexer /\ pc = "idle" /\ pc' = "skip"
    BY <1>10 DEF lexer_scan_token, Go
  <2> QED BY <2>1, GoesText DEF WordsInv
<1>11. CASE \/ skip_whitespace \/ skip_comment
            \/ lexer_skip_single_line_comment \/ lexer_skip_multi_line_comment
  <2>1. /\ UNCHANGED <<source, tokens, printed>>
        /\ \/ pc = "skip" /\ Peek \in Blanks \cup {"/"}
           \/ pc \in {"line_comment", "block_comment"}
    BY <1>11 DEF skip_whitespace, skip_comment, lexer_skip_single_line_comment,
                 lexer_skip_multi_line_comment, Go, AtComment
  <2>2. CharAt(Gap) \notin Letters
    BY <1>1, <1>2, <2>1
  <2> QED BY <2>1, <2>2, GoesText
<1>12. CASE scan_first
  <2>1. /\ UNCHANGED <<source, tokens, printed>> /\ pc = "skip"
        /\ \/ pc' = "identifier"
           \/ Peek \in Digits \cup {Quote}
    BY <1>12 DEF scan_first, Go, AtToken
  <2> QED BY <1>1, <1>2, <2>1, GoesText
<1> QED BY <1>5, <1>6, <1>7, <1>8, <1>9, <1>10, <1>11, <1>12 DEF LexerNext, ScanStep
-----------------------------------------------------------------------------
\* The tokens that were taken, as far as the source was read, are those the
\* lexer has made.
Matches(past, n) ==
  /\ Len(past) <= n
  /\ \A i \in 1 .. Len(past) : past[i] = tokens[i].type
  /\ ~Ended(past) => n = Len(past)

(***************************************************************************)
(* What the parser was answered: behind the last token it has taken there  *)
(* are only errors, until the lexer makes a token that is none.            *)
(***************************************************************************)
AnswersInv ==
  /\ driver \in {"printing", "starting"} => taken = 0
  /\ driver \in {"starting", "parsing"} =>
       /\ taken \in 0 .. Len(tokens)
       /\ \A i \in taken + 1 .. Len(tokens) - 1 : tokens[i].type = "ERROR"
       /\ pc # "idle" => ~Answered
  /\ driver = "parsing" /\ Flawless => Matches(scanned, taken)
-----------------------------------------------------------------------------
\* A step of a call of lexer_scan_token returns a token, or none yet.
LEMMA ScanMakes ==
  ASSUME ScanStep
  PROVE  UNCHANGED tokens \/ \E t : tokens' = Append(tokens, t) /\ pc' = "idle"
BY DEF ScanStep, skip_whitespace, skip_comment, lexer_skip_single_line_comment,
       lexer_skip_multi_line_comment, lexer_make_eof_token, lexer_make_eol_token, scan_first,
       scan_operator, lexer_scan_identifier, lexer_scan_number, lexer_scan_fraction,
       lexer_scan_string, Go, Yield

\* What a new token does to the others.
LEMMA TokenMade ==
  ASSUME LInv, NEW t, tokens' = Append(tokens, t)
  PROVE  /\ Len(tokens) \in Nat /\ Len(tokens') = Len(tokens) + 1
         /\ \A i \in 1 .. Len(tokens) : tokens'[i] = tokens[i]
<1>1. tokens \in Seq(TokenRecords)
  BY DEF LInv, LexerTypeOK
<1>2. tokens \in Seq(TokenRecords \cup {t})
  BY <1>1, SeqMonotonic
<1> QED BY <1>2, AppendProperties

\* Errors last, and only a compilation under way takes a step.
LEMMA StillFlawless ==
  ASSUME PInv, ParserStep, Flawless'
  PROVE  Flawless
<1>1. phase \notin {"ready", "done", "crashed"}
  BY DEF ParserStep, no_prefix, parse_literal, call_prefix, call_infix, leave_precedence,
         parse_grouping, parse_unary, parse_binary, consume_eof, print, typecheck, free,
         AtPrefix, AtInfix, Returned
<1>2. \/ \E reports \in BOOLEAN : Advance(scanned, reports)
      \/ Report
      \/ UNCHANGED compiler
  BY DEF ParserStep, no_prefix, parse_literal, call_prefix, call_infix, leave_precedence,
         parse_grouping, parse_unary, parse_binary, consume_eof, print, typecheck, free, Consume
<1>3. compiler.is_error => compiler'.is_error
  <2>1. ASSUME NEW reports \in BOOLEAN, Advance(scanned, reports), compiler.is_error
        PROVE  compiler'.is_error
    <3>1. PICK token \in Answers(scanned),
               bad \in {b \in BOOLEAN : b => MayFail /\ ~Ended(scanned)} :
            compiler' = [current  |-> token,
                         previous |-> compiler.current,
                         is_panic |-> compiler.is_panic \/ reports \/ bad,
                         is_error |-> \/ compiler.is_error
                                      \/ ~compiler.is_panic /\ (reports \/ bad)]
      BY <2>1 DEF Advance
    <3>2. compiler.is_error = TRUE
      BY <2>1 DEF PInv, ShapeInv, Compilers
    <3>3. compiler'.is_error = (compiler.is_error \/ (~compiler.is_panic /\ (reports \/ bad)))
      BY <3>1
    <3> QED BY <3>2, <3>3
  <2>2. ASSUME Report, compiler.is_error PROVE compiler'.is_error
    BY <2>2 DEF Report, PInv, ShapeInv, Compilers
  <2> QED BY <1>2, <2>1, <2>2
<1> QED BY <1>1, <1>3 DEF Flawless

\* A step that takes no token.
LEMMA AsksForNone ==
  ASSUME ParserStep, driver = "parsing", ~NeedsToken
  PROVE  UNCHANGED scanned
<1>1. ~(no_prefix \/ parse_literal \/ call_prefix \/ call_infix)
  BY DEF NeedsToken, no_prefix, parse_literal, call_prefix, call_infix
<1>2. CASE parse_grouping \/ consume_eof
  <2>1. Report
    BY <1>2 DEF NeedsToken, parse_grouping, consume_eof, Consume
  <2> QED BY <2>1 DEF Report
<1>3. CASE leave_precedence \/ parse_unary \/ parse_binary \/ print \/ typecheck \/ free
  BY <1>3 DEF leave_precedence, parse_unary, parse_binary, print, typecheck, free
<1> QED BY <1>1, <1>2, <1>3 DEF ParserStep

\* The errors on the way to the token that is answered.
Skipped == {i \in taken + 1 .. Len(tokens) : tokens[i].type = "ERROR"}

\* The token that is answered, if no error is on the way to it.
LEMMA AnswerMatches ==
  ASSUME LInv, NEW past \in Seq(TokenTypes \cup {"EOF", "ERROR"}),
         taken \in 0 .. Len(tokens),
         \A i \in taken + 1 .. Len(tokens) - 1 : tokens[i].type = "ERROR",
         Matches(past, taken), Answered, Ended(past) \/ Skipped = {}
  PROVE  Matches(Answer(past), Len(tokens))
<1> DEFINE N == Len(tokens)
           errors == {i \in taken + 1 .. N : tokens[i].type = "ERROR"}
           last == tokens[N].type
<1>1. taken \in Nat /\ N \in Nat /\ taken < N /\ Len(past) \in Nat /\ last # "ERROR"
  BY DEF LInv, LexerTypeOK, Answered, Last
<1>2. CASE Ended(past)
  <2>1. Answer(past) = past
    BY <1>2 DEF Answer
  <2> QED BY <1>1, <1>2, <2>1 DEF Matches
<1>3. CASE ~Ended(past)
  <2>1. Answer(past) = past \o (IF errors = {} THEN << >> ELSE <<"ERROR">>) \o <<last>>
    BY <1>3 DEF Answer, Last
  <2>2. taken = Len(past)
    BY <1>3 DEF Matches
  <2>3. errors = {}
    BY <1>3 DEF Skipped
  <2>4. N = taken + 1
    <3>1. CASE taken + 1 <= N - 1
      <4>1. taken + 1 \in taken + 1 .. N - 1 /\ taken + 1 \in taken + 1 .. N
        BY <1>1, <3>1
      <4> QED BY <2>3, <4>1
    <3> QED BY <1>1, <3>1
  <2>5. /\ Len(Answer(past)) = Len(past) + 1
        /\ \A i \in 1 .. Len(past) : Answer(past)[i] = past[i]
        /\ Answer(past)[Len(past) + 1] = last
    <3> DEFINE S == TokenTypes \cup {"EOF", "ERROR"} \cup {last}
    <3>1. past \in Seq(S) /\ last \in S
      <4>1. past \in Seq(S)
        BY SeqMonotonic
      <4> QED BY <4>1
    <3>2. Answer(past) = (past \o << >>) \o <<last>>
      BY <2>1, <2>3
    <3> HIDE DEF S, last, errors
    <3>3. past \o << >> = past
      OBVIOUS
    <3>4. <<last>> \in Seq(S)
      BY <3>1
    <3> QED BY <1>1, <3>1, <3>2, <3>3, <3>4
  <2>6. ASSUME NEW i \in 1 .. Len(past) + 1 PROVE Answer(past)[i] = tokens[i].type
    <3>1. CASE i = Len(past) + 1
      BY <2>2, <2>4, <2>5, <3>1
    <3>2. CASE i # Len(past) + 1
      <4>1. i \in 1 .. Len(past)
        BY <1>1, <3>2
      <4> QED BY <2>5, <4>1 DEF Matches
    <3> QED BY <3>1, <3>2
  <2> QED BY <1>1, <2>2, <2>4, <2>5, <2>6 DEF Matches
<1> QED BY <1>2, <1>3

\* There is none if all that was read can be expected.
LEMMA NoneSkipped ==
  ASSUME LInv, NEW past \in Seq(TokenTypes \cup {"EOF", "ERROR"}), NEW token \in Tokens,
         taken \in 0 .. Len(tokens), Answered, ~Ended(past), Reads(Answer(past), token)
  PROVE  Skipped = {}
<1> SUFFICES ASSUME Skipped # {} PROVE FALSE
  OBVIOUS
<1> DEFINE N == Len(tokens)
           last == tokens[N].type
<1>1. N \in Nat /\ Len(past) \in Nat
  BY DEF LInv, LexerTypeOK
<1>2. Answer(past) = past \o (IF Skipped = {} THEN << >> ELSE <<"ERROR">>) \o <<last>>
  BY DEF Answer, Last, Skipped
<1> DEFINE S == TokenTypes \cup {"EOF", "ERROR"} \cup {last}
<1>3. past \in Seq(S) /\ <<"ERROR">> \in Seq(S) /\ <<last>> \in Seq(S)
  <2>1. past \in Seq(S)
    BY SeqMonotonic
  <2>2. "ERROR" \in S /\ last \in S
    OBVIOUS
  <2> HIDE DEF S, last
  <2> QED BY <2>1, <2>2
<1>4. Answer(past) = (past \o <<"ERROR">>) \o <<last>>
  BY <1>2
<1> HIDE DEF S, last
<1>5. /\ past \o <<"ERROR">> \in Seq(S) /\ Len(past \o <<"ERROR">>) = Len(past) + 1
      /\ (past \o <<"ERROR">>)[Len(past) + 1] = "ERROR"
  BY <1>1, <1>3
<1> DEFINE q == past \o <<"ERROR">>
<1> HIDE DEF q
<1>6. /\ Len(q \o <<last>>) = Len(past) + 2
      /\ (q \o <<last>>)[Len(past) + 1] = "ERROR"
  BY <1>1, <1>3, <1>5 DEF q
<1>7. Len(past) + 1 \in 1 .. Len(Answer(past)) - 1
  BY <1>1, <1>4, <1>6 DEF q
<1> QED BY <1>4, <1>6, <1>7 DEF Reads, Expected, Numbers, q

\* A step of the parser that is answered a token, or takes none.
LEMMA ParseAnswers ==
  ASSUME LInv, NEW past \in Seq(TokenTypes \cup {"EOF", "ERROR"}),
         PInv', ScansInv', Flawless', driver' = "parsing", pc = "idle", UNCHANGED lexerVars,
         taken \in 0 .. Len(tokens),
         \A i \in taken + 1 .. Len(tokens) - 1 : tokens[i].type = "ERROR",
         Matches(past, taken),
         IF NeedsToken THEN Answered /\ scanned' = Answer(past) /\ taken' = Len(tokens)
                       ELSE scanned' = past /\ UNCHANGED taken
  PROVE  Matches(scanned, taken)'
<1>1. tokens' = tokens
  BY DEF lexerVars
<1>2. CASE NeedsToken
  <2>1. Reads(scanned', compiler'.current) /\ compiler'.current \in Tokens
    BY DEF ScansInv, PInv, ShapeInv, Compilers
  <2>2. Ended(past) \/ Skipped = {}
    BY <1>2, <2>1, NoneSkipped
  <2>3. Matches(Answer(past), Len(tokens))
    BY <1>2, <2>2, AnswerMatches
  <2> QED BY <1>1, <1>2, <2>3 DEF Matches
<1>3. CASE ~NeedsToken
  BY <1>1, <1>3 DEF Matches
<1> QED BY <1>2, <1>3

\* The invariant is kept.
LEMMA AnswersKept ==
  ASSUME CallsInv, NoLexer \/ LexerInv, PInv, TreeInv, ScansInv, AnswersInv,
         PInv', ScansInv', [CompilerNext]_compilerVars
  PROVE  AnswersInv'
<1>0. driver \in {"printing", "starting", "parsing"} => LInv
  BY DEF NoLexer, LexerInv
<1>1. CASE UNCHANGED compilerVars
  <2>1. UNCHANGED <<driver, taken, tokens, pc, scanned, phase, compiler>>
    BY <1>1 DEF compilerVars, lexerVars, parserVars, driverVars
  <2> QED BY <2>1 DEF AnswersInv, Answered, Matches, Flawless
<1>2. CASE \/ compiler_compile_file \/ read_file \/ out_of_memory \/ return_from_compile
           \/ init_again
  <2>1. driver' \in {"idle", "reading", "read", "exited"}
    BY <1>2 DEF compiler_compile_file, read_file, out_of_memory, return_from_compile, init_again,
                Exit, driverVars
  <2> QED BY <2>1 DEF AnswersInv
<1>3. CASE compiler_compile_source
  BY <1>3 DEF compiler_compile_source, AnswersInv
<1>4. CASE lexer_print
  <2>1. driver = "printing" /\ UNCHANGED <<driver, taken>>
    BY <1>4 DEF lexer_print, driverVars
  <2> QED BY <2>1 DEF AnswersInv
<1>5. CASE scan
  <2>1. ScanStep /\ UNCHANGED <<driver, taken, scanned, phase, compiler>>
    BY <1>5 DEF scan, parserVars, driverVars
  <2>2. pc # "idle"
    BY <2>1, NoneOnTheWay
  <2>3. CASE UNCHANGED tokens
    BY <2>1, <2>2, <2>3 DEF AnswersInv, Answered, Matches, Flawless
  <2>4. ASSUME NEW t, tokens' = Append(tokens, t), pc' = "idle" PROVE AnswersInv'
    <3>1. CASE driver \notin {"starting", "parsing"}
      BY <2>1, <3>1 DEF AnswersInv
    <3>2. CASE driver \in {"starting", "parsing"}
      <4>1. /\ Len(tokens) \in Nat /\ Len(tokens') = Len(tokens) + 1
            /\ \A i \in 1 .. Len(tokens) : tokens'[i] = tokens[i]
        BY <1>0, <2>4, <3>2, TokenMade
      <4>2. /\ taken \in 0 .. Len(tokens) /\ taken \in Nat
            /\ \A i \in taken + 1 .. Len(tokens) - 1 : tokens[i].type = "ERROR"
            /\ ~Answered
        BY <2>2, <3>2, <4>1 DEF AnswersInv
      <4>3. taken' \in 0 .. Len(tokens')
        BY <2>1, <4>1, <4>2
      <4>4. ASSUME NEW i \in taken' + 1 .. Len(tokens') - 1 PROVE tokens'[i].type = "ERROR"
        <5>1. i \in taken + 1 .. Len(tokens) /\ i \in 1 .. Len(tokens)
          BY <2>1, <4>1, <4>2, <4>4
        <5>2. CASE i = Len(tokens)
          <6>1. taken < Len(tokens)
            BY <4>1, <4>2, <5>1
          <6> QED BY <4>1, <4>2, <5>1, <5>2, <6>1 DEF Answered, Last
        <5>3. CASE i # Len(tokens)
          <6>1. i \in taken + 1 .. Len(tokens) - 1
            BY <4>1, <4>2, <5>1, <5>3
          <6> QED BY <4>1, <4>2, <5>1, <6>1
        <5> QED BY <5>2, <5>3
      <4>5. driver = "parsing" /\ Flawless => Matches(scanned, taken)'
        <5> SUFFICES ASSUME driver = "parsing", Flawless PROVE Matches(scanned, taken)'
          OBVIOUS
        <5>1. Matches(scanned, taken)
          BY DEF AnswersInv
        <5>2. Len(scanned) \in Nat
          <6>1. scanned \in Seq(TokenTypes \cup {"EOF", "ERROR"})
            BY DEF TreeInv
          <6> QED BY <6>1
        <5>3. \A i \in 1 .. Len(scanned) : i \in 1 .. Len(tokens)
          BY <4>1, <4>2, <5>1, <5>2 DEF Matches
        <5> QED BY <2>1, <4>1, <5>1, <5>3 DEF Matches
      <4> QED BY <2>1, <2>4, <3>2, <4>3, <4>4, <4>5 DEF AnswersInv, Flawless
    <3> QED BY <3>1, <3>2
  <2> QED BY <2>1, <2>3, <2>4, ScanMakes
<1>6. CASE reset
  <2>1. driver = "printing" /\ driver' = "starting" /\ tokens' = << >> /\ UNCHANGED <<pc, taken>>
        /\ pc = "idle"
    BY <1>6 DEF reset, lexer_reset
  <2> QED BY <2>1 DEF AnswersInv
<1>7. CASE compiler_advance
  <2>1. /\ ~Answered /\ UNCHANGED <<driver, taken, tokens, scanned, phase, compiler>>
    BY <1>7 DEF compiler_advance, lexer_scan_token, Go, parserVars, driverVars
  <2> QED BY <2>1 DEF AnswersInv, Answered, Matches, Flawless
<1>8. CASE start_parse \/ parse
  <2>1. /\ driver \in {"starting", "parsing"} /\ pc = "idle" /\ driver' = "parsing"
        /\ UNCHANGED lexerVars /\ LInv
        /\ IF NeedsToken THEN Answered /\ taken' = Len(tokens) ELSE UNCHANGED taken
    BY <1>0, <1>8 DEF start_parse, parse, Parse
  <2>2. /\ taken \in 0 .. Len(tokens)
        /\ \A i \in taken + 1 .. Len(tokens) - 1 : tokens[i].type = "ERROR"
    BY <2>1 DEF AnswersInv
  <2>3. Len(tokens) \in Nat /\ tokens' = tokens /\ pc' = pc
    BY <2>1 DEF LInv, LexerTypeOK, lexerVars
  <2>4. ASSUME Flawless' PROVE Matches(scanned, taken)'
    <3>1. CASE start_parse
      <4>1. NeedsToken /\ scanned' = Answer(<< >>) /\ taken = 0
        BY <3>1 DEF start_parse, NeedsToken, Parse, AnswersInv
      <4>2. Matches(<< >>, taken) /\ << >> \in Seq(TokenTypes \cup {"EOF", "ERROR"})
        BY <4>1 DEF Matches
      <4> QED BY <2>1, <2>2, <2>4, <4>1, <4>2, ParseAnswers
    <3>2. CASE parse
      <4>1. driver = "parsing" /\ ParserStep /\ (NeedsToken => scanned' = Answer(scanned))
        BY <3>2 DEF parse, Parse
      <4>2. ~NeedsToken => scanned' = scanned
        BY <4>1, AsksForNone
      <4>3. Matches(scanned, taken)
        BY <2>4, <4>1, StillFlawless DEF AnswersInv
      <4>4. scanned \in Seq(TokenTypes \cup {"EOF", "ERROR"})
        BY DEF TreeInv
      <4> QED BY <2>1, <2>2, <2>4, <4>1, <4>2, <4>3, <4>4, ParseAnswers
    <3> QED BY <1>8, <3>1, <3>2
  <2>5. /\ taken' \in 0 .. Len(tokens')
        /\ \A i \in taken' + 1 .. Len(tokens') - 1 : tokens'[i].type = "ERROR"
    <3>1. CASE taken' = Len(tokens)
      BY <2>3, <3>1
    <3>2. CASE taken' = taken
      BY <2>2, <2>3, <3>2
    <3> QED BY <2>1, <3>1, <3>2
  <2> QED BY <2>1, <2>3, <2>4, <2>5 DEF AnswersInv
<1> QED BY <1>1, <1>2, <1>3, <1>4, <1>5, <1>6, <1>7, <1>8 DEF CompilerNext, DriverStep
-----------------------------------------------------------------------------
\* What strtod reads behind the digits: nothing, or an exponent.
Exponent(p, q) ==
  \/ p > q
  \/ /\ source[p] \in {"e", "E"}
     /\ \/ p < q /\ OnlyDigits(p + 1, q)
        \/ p + 1 < q /\ source[p + 1] \in {"+", "-"} /\ OnlyDigits(p + 2, q)

\* The conversions read the places from the first to q.
Converts(first, type, q) ==
  \/ OnlyDigits(first, q)
  \/ type = "real" /\ \E dot \in first + 1 .. q : \E rest \in dot + 1 .. q + 1 :
       /\ source[dot] = "." /\ OnlyDigits(first, dot - 1)
       /\ OnlyDigits(dot + 1, rest - 1) /\ Exponent(rest, q)

\* The conversion reads the longest of the texts it could read.
LEMMA ReadIs ==
  ASSUME NEW first, NEW type
  PROVE  ReadByConversion(first, type) =
           CHOOSE q \in first .. Len(source) :
             /\ Converts(first, type, q)
             /\ \A r \in q + 1 .. Len(source) : ~Converts(first, type, r)
BY DEF ReadByConversion, Converts, Exponent, OnlyDigits

\* The text of a number, unless a letter follows, is all that is converted.
LEMMA NumberConverts ==
  ASSUME NEW t, t.type \in {"int", "real"}, IsNumber(t), Len(source) \in Nat,
         t.first \in Nat, t.last \in Nat, 1 <= t.first, t.first <= t.last,
         t.last <= Len(source), CharAt(t.last + 1) \notin Letters
  PROVE  ReadByConversion(t.first, t.type) = t.last
<1> DEFINE first == t.first
           last == t.last
           N == Len(source)
<1>1. first \in Nat /\ last \in Nat /\ N \in Nat /\ 1 <= first /\ first <= last /\ last <= N
  OBVIOUS
<1>2. last + 1 <= N => source[last + 1] \notin Digits \cup {"e", "E"}
  <2>1. last + 1 <= N => CharAt(last + 1) = source[last + 1]
    BY <1>1 DEF CharAt
  <2>2. {"e", "E"} \subseteq Letters
    BY DEF Letters
  <2> QED BY <2>1, <2>2 DEF IsNumber
<1>3. "." \notin Digits /\ "." \notin {"e", "E"} /\ Digits \cap {"e", "E"} = {}
  BY DEF Digits
<1> HIDE DEF first, last, N
<1>4. Converts(first, t.type, last)
  <2>1. CASE t.type = "int"
    BY <2>1 DEF Converts, IsNumber, first, last
  <2>2. CASE t.type = "real"
    <3>1. PICK point \in first + 1 .. last :
            /\ source[point] = "."
            /\ OnlyDigits(first, point - 1) /\ OnlyDigits(point + 1, last)
      BY <2>2 DEF IsNumber, first, last
    <3>2. PICK rest \in point + 1 .. last + 1 : rest = last + 1
      BY <1>1, <3>1
    <3>3. Exponent(rest, last)
      BY <1>1, <3>2 DEF Exponent
    <3>4. rest - 1 = last
      BY <1>1, <3>2
    <3>5. OnlyDigits(point + 1, rest - 1)
      BY <3>1, <3>4
    <3> QED BY <2>2, <3>1, <3>2, <3>3, <3>5 DEF Converts
  <2> QED BY <2>1, <2>2
<1>5. ASSUME NEW r \in last + 1 .. N PROVE ~Converts(first, t.type, r)
  <2>1. r \in Nat /\ last + 1 \in first .. r /\ source[last + 1] \notin Digits \cup {"e", "E"}
    BY <1>1, <1>2
  <2>2. ~OnlyDigits(first, r)
    BY <2>1 DEF OnlyDigits
  <2>3. ASSUME t.type = "real", NEW dot \in first + 1 .. r, NEW rest \in dot + 1 .. r + 1,
               source[dot] = ".", OnlyDigits(first, dot - 1), OnlyDigits(dot + 1, rest - 1),
               Exponent(rest, r)
        PROVE  FALSE
    <3>1. PICK point \in first + 1 .. last :
            /\ source[point] = "."
            /\ OnlyDigits(first, point - 1) /\ OnlyDigits(point + 1, last)
      BY <2>3 DEF IsNumber, first, last
    <3>2. dot = point
      <4>1. CASE dot < point
        <5>1. dot \in first .. point - 1
          BY <1>1, <2>3, <3>1, <4>1
        <5> QED BY <1>3, <2>3, <3>1, <5>1 DEF OnlyDigits
      <4>2. CASE point < dot
        <5>1. point \in first .. dot - 1
          BY <1>1, <2>3, <3>1, <4>2
        <5> QED BY <1>3, <2>3, <3>1, <5>1 DEF OnlyDigits
      <4> QED BY <1>1, <2>1, <4>1, <4>2
    <3>3. rest <= last + 1
      <4> SUFFICES ASSUME rest > last + 1 PROVE FALSE
        BY <1>1, <2>1
      <4>1. last + 1 \in dot + 1 .. rest - 1
        BY <1>1, <2>1, <3>1, <3>2
      <4> QED BY <2>1, <2>3, <4>1 DEF OnlyDigits
    <3>4. source[rest] \in {"e", "E"}
      <4>1. rest <= r
        BY <1>1, <2>1, <3>3
      <4> QED BY <2>1, <2>3, <4>1 DEF Exponent
    <3>5. rest = last + 1
      <4>1. CASE rest <= last
        <5>1. rest \in point + 1 .. last
          BY <1>1, <3>1, <3>2, <4>1
        <5> QED BY <1>3, <3>1, <3>4, <5>1 DEF OnlyDigits
      <4> QED BY <1>1, <2>1, <3>3, <4>1
    <3> QED BY <2>1, <3>4, <3>5
  <2> QED BY <2>2, <2>3 DEF Converts
<1>6. ASSUME NEW q \in first .. N, Converts(first, t.type, q),
             \A r \in q + 1 .. N : ~Converts(first, t.type, r)
      PROVE  q = last
  <2>1. CASE q < last
    <3>1. last \in q + 1 .. N
      BY <1>1, <2>1
    <3> QED BY <1>4, <1>6, <3>1
  <2>2. CASE last < q
    <3>1. q \in last + 1 .. N
      BY <1>1, <2>2
    <3> QED BY <1>5, <1>6, <3>1
  <2> QED BY <1>1, <2>1, <2>2
<1>7. last \in first .. N
  BY <1>1
<1>8. ReadByConversion(first, t.type) = last
  <2> DEFINE P(q) == /\ Converts(first, t.type, q)
                     /\ \A r \in q + 1 .. N : ~Converts(first, t.type, r)
  <2>1. ReadByConversion(first, t.type) = CHOOSE q \in first .. N : P(q)
    BY ReadIs DEF N
  <2>2. P(last)
    BY <1>4, <1>5
  <2>3. \A q \in first .. N : P(q) => q = last
    BY <1>6
  <2> HIDE DEF P
  <2> QED BY <1>7, <2>1, <2>2, <2>3
<1> QED BY <1>8 DEF first, last
-----------------------------------------------------------------------------
\* The types of the tokens, as a scanner of the text lists them.
LEMMA ListOfTypes == TypesOfText = (CHOOSE f : Lists(f))[1]
<1>1. \A p : Text!NextSignificant(p) = Abstract!NextSignificant(p)
  BY Zenon DEF Text!NextSignificant, Abstract!NextSignificant, Text!AfterInsignificant,
     Abstract!AfterInsignificant, Text!At, Abstract!At, Text!Min, Abstract!Min, Text!Blanks,
     Abstract!Blanks
<1>2. \A p : Text!Longest(p) = Abstract!Longest(p)
  BY Zenon DEF Text!Longest, Abstract!Longest, Text!Lexemes, Abstract!Lexemes, Text!All,
     Abstract!All, Text!WordType, Abstract!WordType, Text!At, Abstract!At, Text!Keywords,
     Abstract!Keywords, Text!Operators, Abstract!Operators, Text!Letters, Abstract!Letters,
     Text!Digits, Abstract!Digits, Text!Quote, Abstract!Quote
<1> QED BY <1>1, <1>2, Zenon DEF TypesOfText, Lists, ListStep, Next

\* Tokens that the lexer and the scanner do not confuse, before the end.
Plain(n) == \A i \in 1 .. n : tokens[i].type \notin Confused \cup {"EOF"}

\* The list of types begins with theirs and goes on behind them.
Follows(f, n) ==
  /\ GapBefore(n + 1) \in 1 .. End
  /\ Len(f[1]) = n + Len(f[GapBefore(n + 1)])
  /\ \A i \in 1 .. n : f[1][i] = tokens[i].type
  /\ \A j \in 1 .. Len(f[GapBefore(n + 1)]) : f[1][n + j] = f[GapBefore(n + 1)][j]

LEMMA TypesFollow ==
  ASSUME LInv, TokensCut, NEW f, Lists(f), NEW n \in 0 .. Len(tokens), Plain(n)
  PROVE  Follows(f, n)
<1>0. Len(tokens) \in Nat /\ n \in Nat /\ Len(source) \in Nat /\ End = Len(source) + 1
  BY StructFacts, TokenFacts
<1> DEFINE T == {k \in Nat : k <= n => Follows(f, k)}
<1>1. \A p \in 1 .. End :
        /\ f[p] \in Seq(TypesHere) /\ f[p] = ListStep(f, p)
        /\ Abstract!Longest(Next(p)).type # "EOF" =>
             /\ Abstract!Longest(Next(p)).type \in TypesHere
             /\ Abstract!Longest(Next(p)).last + 1 \in p + 1 .. End
  BY ListsAre
<1>2. 0 \in T
  <2>1. GapBefore(0 + 1) = 1 /\ 1 \in 1 .. End
    BY <1>0 DEF GapBefore
  <2>2. Len(f[1]) \in Nat
    BY <1>1, <2>1
  <2>3. Follows(f, 0)
    BY <2>1, <2>2 DEF Follows
  <2> QED BY <2>3
<1>3. ASSUME NEW k \in 0 .. n - 1, k \in T PROVE k + 1 \in T
  <2> DEFINE p == GapBefore(k + 1)
             t == tokens[k + 1]
             q == GapBefore(k + 2)
  <2>1. k \in Nat /\ k + 1 \in 1 .. n /\ k + 1 \in 1 .. Len(tokens) /\ Follows(f, k)
    BY <1>0, <1>3
  <2>2. p \in 1 .. End /\ Len(f[1]) = k + Len(f[p])
        /\ (\A i \in 1 .. k : f[1][i] = tokens[i].type)
        /\ (\A j \in 1 .. Len(f[p]) : f[1][k + j] = f[p][j])
    BY <2>1 DEF Follows
  <2>3. t.type \notin Confused \cup {"EOF"} /\ CutAt(p, t)
    BY <2>1 DEF Plain, TokensCut
  <2>4. q = t.last + 1
    BY <2>1 DEF GapBefore
  <2> HIDE DEF p, t, q
  <2>5. Abstract!Longest(Next(p)).type = t.type /\ Abstract!Longest(Next(p)).last = t.last
    BY <2>3 DEF CutAt
  <2>6. t.type \in TypesHere /\ q \in 1 .. End
    BY <1>0, <1>1, <2>2, <2>3, <2>4, <2>5
  <2>7. f[p] = <<t.type>> \o f[q]
    BY <1>1, <2>2, <2>3, <2>4, <2>5 DEF ListStep
  <2>8. f[q] \in Seq(TypesHere) /\ Len(f[q]) \in Nat /\ <<t.type>> \in Seq(TypesHere)
    BY <1>1, <2>6
  <2>9. /\ Len(f[p]) = 1 + Len(f[q]) /\ f[p][1] = t.type
        /\ \A j \in 1 .. Len(f[q]) : f[p][1 + j] = f[q][j]
    BY <2>7, <2>8
  <2>10. Len(f[1]) = k + 1 + Len(f[q])
    <3>1. Len(f[1]) = k + Len(f[p]) /\ Len(f[p]) = 1 + Len(f[q])
      BY <2>2, <2>9
    <3>2. \A x, y \in Nat : k + (1 + y) = k + 1 + y
      BY <2>1
    <3> QED BY <2>8, <3>1, <3>2
  <2>11. ASSUME NEW i \in 1 .. k + 1 PROVE f[1][i] = tokens[i].type
    <3>1. CASE i = k + 1
      <4>1. 1 \in 1 .. Len(f[p])
        BY <2>8, <2>9
      <4> QED BY <2>2, <2>9, <3>1, <4>1 DEF t
    <3>2. CASE i # k + 1
      BY <2>1, <2>2, <3>2
    <3> QED BY <3>1, <3>2
  <2>12. ASSUME NEW j \in 1 .. Len(f[q]) PROVE f[1][k + 1 + j] = f[q][j]
    <3>1. 1 + j \in 1 .. Len(f[p]) /\ k + (1 + j) = k + 1 + j
      BY <2>1, <2>8, <2>9
    <3> QED BY <2>2, <2>9, <3>1
  <2>13. k + 1 + 1 = k + 2
    BY <2>1
  <2>14. Follows(f, k + 1)
    BY <2>6, <2>10, <2>11, <2>12, <2>13 DEF Follows, q
  <2> QED BY <2>1, <2>14
<1>4. n \in T
  <2> HIDE DEF T
  <2>1. \A k \in 0 .. n - 1 : k \in T => k + 1 \in T
    BY <1>3
  <2>2. \A k \in 0 .. n : k \in T
    BY <1>0, <1>2, <2>1, UpTo
  <2> QED BY <1>0, <2>2
<1> QED BY <1>0, <1>4

\* What the first tokens say of the types: if one of them may be confused,
\* the text is no expression, otherwise its types begin with theirs.
LEMMA TypesAgree ==
  ASSUME LInv, TokensCut, NEW n \in 0 .. Len(tokens),
         \A i \in 1 .. n - 1 : tokens[i].type # "EOF"
  PROVE  /\ (\E i \in 1 .. n : tokens[i].type \in Confused) => Derivations(TypesOfText) = {}
         /\ (\A i \in 1 .. n : tokens[i].type \notin Confused) =>
              /\ n <= Len(TypesOfText) + 1
              /\ \A i \in 1 .. n : tokens[i].type = At(TypesOfText, i)
         /\ Len(TypesOfText) \in Nat /\ TypesOfText \in Seq(TypesHere)
         /\ \A i \in 1 .. Len(TypesOfText) : TypesOfText[i] # "EOF"
<1>0. Len(tokens) \in Nat /\ n \in Nat /\ Len(source) \in Nat /\ End = Len(source) + 1
  BY StructFacts, TokenFacts
<1>1. Lists(CHOOSE f : Lists(f))
  BY ListsExist
<1> DEFINE f == CHOOSE g : Lists(g)
           s == f[1]
<1>2. Lists(f) /\ TypesOfText = s
  BY <1>1, ListOfTypes
<1> HIDE DEF f
<1>3. /\ "EOF" \notin TypesHere
      /\ \A p \in 1 .. End : f[p] \in Seq(TypesHere) /\ f[p] = ListStep(f, p)
  BY <1>2, ListsAre
<1>4. s \in Seq(TypesHere) /\ Len(s) \in Nat /\ \A i \in 1 .. Len(s) : s[i] # "EOF"
  <2>1. 1 \in 1 .. End
    BY <1>0
  <2>2. s \in Seq(TypesHere)
    BY <1>3, <2>1
  <2> HIDE DEF s
  <2>3. \A i \in 1 .. Len(s) : s[i] \in TypesHere
    BY <2>2, ElementOfSeq
  <2> QED BY <1>3, <2>2, <2>3
<1>5. \A k \in 0 .. n : Plain(k) =>
        /\ GapBefore(k + 1) \in 1 .. End
        /\ Len(s) = k + Len(f[GapBefore(k + 1)])
        /\ \A i \in 1 .. k : s[i] = tokens[i].type
        /\ \A j \in 1 .. Len(f[GapBefore(k + 1)]) : s[k + j] = f[GapBefore(k + 1)][j]
  <2> TAKE k \in 0 .. n
  <2>1. k \in 0 .. Len(tokens)
    BY <1>0
  <2> QED BY <1>2, <2>1, TypesFollow DEF Follows
<1> HIDE DEF s
<1>6. ASSUME NEW i \in 1 .. n, tokens[i].type \in Confused
      PROVE  Derivations(s) = {}
  <2> DEFINE U == {j \in 1 .. n : tokens[j].type \in Confused}
  <2>1. U \in SUBSET Nat /\ U # {}
    BY <1>6
  <2>2. PICK j \in U : \A h \in U : j <= h
    <3> HIDE DEF U
    <3> QED BY <2>1, LeastNumber
  <2>3. j \in 1 .. n /\ j - 1 \in 0 .. n /\ j - 1 + 1 = j /\ j \in 1 .. Len(tokens)
        /\ tokens[j].type \in Confused
    BY <1>0
  <2>4. Plain(j - 1)
    <3> SUFFICES ASSUME NEW h \in 1 .. j - 1 PROVE tokens[h].type \notin Confused \cup {"EOF"}
      BY DEF Plain
    <3>1. h \in 1 .. n /\ h \in 1 .. n - 1 /\ ~(j <= h)
      BY <1>0, <2>3
    <3> QED BY <2>2, <3>1
  <2> DEFINE p == GapBefore(j)
             t == Abstract!Longest(Next(p)).type
             q == Abstract!Longest(Next(p)).last + 1
  <2> HIDE DEF U
  <2>5. /\ p \in 1 .. End /\ Len(s) = j - 1 + Len(f[p])
        /\ \A h \in 1 .. Len(f[p]) : s[j - 1 + h] = f[p][h]
    <3> DEFINE k == j - 1
    <3>1. k \in 0 .. n /\ Plain(k) /\ k + 1 = j
      BY <2>3, <2>4
    <3>2. p = GapBefore(k + 1)
      BY <3>1
    <3> HIDE DEF k, p
    <3>3. /\ p \in 1 .. End /\ Len(s) = k + Len(f[p])
          /\ \A h \in 1 .. Len(f[p]) : s[k + h] = f[p][h]
      BY <1>5, <3>1, <3>2
    <3> QED BY <3>3 DEF k
  <2>6. CutAt(p, tokens[j])
    BY <2>3 DEF TokensCut
  <2>7. t \in Confused
    BY <2>3, <2>6 DEF CutAt
  <2> HIDE DEF p
  <2>8. t # "EOF"
    BY <2>7 DEF Confused
  <2>9. f[p] = <<t>> \o f[q] /\ t \in TypesHere /\ q \in 1 .. End
    <3>1. f[p] = ListStep(f, p)
      BY <1>3, <2>5
    <3>2. t \in TypesHere /\ q \in p + 1 .. End
      BY <1>2, <2>5, <2>8, ListsAre
    <3> QED BY <1>0, <2>5, <2>8, <3>1, <3>2 DEF ListStep
  <2> HIDE DEF t, q
  <2>10. f[q] \in Seq(TypesHere) /\ <<t>> \in Seq(TypesHere)
    BY <1>3, <2>9
  <2>11. Len(f[p]) \in Nat /\ 1 \in 1 .. Len(f[p]) /\ f[p][1] = t
    BY <2>9, <2>10
  <2>12. j \in 1 .. Len(s) /\ s[j] = t
    BY <1>0, <2>3, <2>5, <2>11
  <2>13. t \notin Terminals
    BY <2>7 DEF Confused, Terminals, Literals, TermOperators, FactorOperators
  <2> QED BY <1>4, <2>12, <2>13, NoOthers
<1>7. ASSUME \A i \in 1 .. n : tokens[i].type \notin Confused
      PROVE  n <= Len(s) + 1 /\ \A i \in 1 .. n : tokens[i].type = At(s, i)
  <2>1. CASE n = 0
    BY <1>4, <2>1
  <2>2. CASE n # 0 /\ tokens[n].type # "EOF"
    <3>1. Plain(n)
      <4>1. \A i \in 1 .. n : i = n \/ i \in 1 .. n - 1
        BY <1>0
      <4> QED BY <1>7, <2>2, <4>1 DEF Plain
    <3>2. GapBefore(n + 1) \in 1 .. End /\ n \in 0 .. n
      BY <1>0, <1>5, <3>1
    <3>3. Len(f[GapBefore(n + 1)]) \in Nat
      BY <1>3, <3>2
    <3>4. n <= Len(s) /\ \A i \in 1 .. n : s[i] = tokens[i].type
      BY <1>0, <1>5, <3>1, <3>2, <3>3
    <3> QED BY <1>0, <1>4, <3>4 DEF At
  <2>3. CASE n # 0 /\ tokens[n].type = "EOF"
    <3>1. n - 1 \in 0 .. n /\ n - 1 + 1 = n /\ n \in 1 .. Len(tokens)
      BY <1>0, <2>3
    <3>2. Plain(n - 1)
      <4>1. \A i \in 1 .. n - 1 : i \in 1 .. n
        BY <1>0
      <4> QED BY <1>7, <4>1 DEF Plain
    <3> DEFINE p == GapBefore(n)
    <3>3. /\ p \in 1 .. End /\ Len(s) = n - 1 + Len(f[p])
          /\ \A i \in 1 .. n - 1 : s[i] = tokens[i].type
      BY <1>5, <3>1, <3>2
    <3>4. CutAt(p, tokens[n])
      BY <3>1 DEF TokensCut
    <3>5. Abstract!Longest(Next(p)).type = "EOF"
      BY <2>3, <3>4 DEF CutAt, Confused
    <3>6. f[p] = << >>
      BY <1>3, <3>3, <3>5 DEF ListStep
    <3> HIDE DEF p
    <3>7. Len(s) = n - 1
      BY <1>0, <3>3, <3>6
    <3>8. ASSUME NEW i \in 1 .. n PROVE tokens[i].type = At(s, i)
      BY <1>0, <2>3, <3>3, <3>7 DEF At
    <3> QED BY <1>0, <3>7, <3>8
  <2> QED BY <2>1, <2>2, <2>3
<1> QED BY <1>2, <1>4, <1>6, <1>7
-----------------------------------------------------------------------------
(***************************************************************************)
(* What the parser has taken, if no error is known of it, begins the types *)
(* of the text; if it is no beginning of an expression, the text is none.  *)
(***************************************************************************)
LEMMA TakenDooms ==
  ASSUME LInv, TokensCut, NEW past, Len(past) \in Nat, NoneBehindEnd(past),
         NEW m \in 0 .. Len(tokens), Matches(past, m), Doomed(past)
  PROVE  Derivations(TypesOfText) = {}
<1> DEFINE n == Len(past)
<1>1. Len(tokens) \in Nat
  BY TokenFacts
<1>2. n \in 0 .. Len(tokens) /\ \A i \in 1 .. n : past[i] = tokens[i].type
  BY <1>1 DEF Matches
<1>3. \A i \in 1 .. n - 1 : tokens[i].type # "EOF"
  <2>1. \A i \in 1 .. n - 1 : i \in 1 .. n
    BY <1>2
  <2> QED BY <1>2, <2>1 DEF NoneBehindEnd
<1>4. CASE \E i \in 1 .. n : tokens[i].type \in Confused
  BY <1>2, <1>3, <1>4, TypesAgree
<1>5. CASE \A i \in 1 .. n : tokens[i].type \notin Confused
  <2> DEFINE s == TypesOfText
  <2>1. /\ n <= Len(s) + 1 /\ (\A i \in 1 .. n : tokens[i].type = At(s, i))
        /\ Len(s) \in Nat /\ (\A i \in 1 .. Len(s) : s[i] # "EOF")
    BY <1>2, <1>3, <1>5, TypesAgree
  <2> HIDE DEF s
  <2>2. Extends(s, past)
    BY <1>2, <2>1 DEF Extends
  <2>3. Derivations(s) = {}
    BY <2>2 DEF Doomed
  <2> QED BY <2>3 DEF s
<1> QED BY <1>4, <1>5

\* The same of what it is answered, with an error on the way or without.
LEMMA AnswerDooms ==
  ASSUME LInv, TokensCut, NEW past \in Seq(TokenTypes \cup {"EOF", "ERROR"}),
         taken \in 0 .. Len(tokens),
         \A i \in taken + 1 .. Len(tokens) - 1 : tokens[i].type = "ERROR",
         Matches(past, taken), Answered, NoneBehindEnd(past),
         NoneBehindEnd(Answer(past)), Len(Answer(past)) \in Nat, Doomed(Answer(past))
  PROVE  Derivations(TypesOfText) = {}
<1>1. Len(tokens) \in Nat /\ Len(past) \in Nat
  BY TokenFacts
<1>2. CASE Ended(past) \/ Skipped = {}
  <2>1. Matches(Answer(past), Len(tokens)) /\ Len(tokens) \in 0 .. Len(tokens)
    BY <1>1, <1>2, AnswerMatches
  <2> QED BY <2>1, TakenDooms
<1>3. CASE ~Ended(past) /\ Skipped # {}
  <2>1. taken = Len(past) /\ \A i \in 1 .. taken : past[i] = tokens[i].type
    BY <1>3 DEF Matches
  <2>2. ASSUME NEW i \in 1 .. Len(tokens) - 1 PROVE tokens[i].type # "EOF"
    <3>1. CASE i \in taken + 1 .. Len(tokens) - 1
      BY <3>1
    <3>2. CASE i \notin taken + 1 .. Len(tokens) - 1
      <4>1. i \in 1 .. Len(past)
        BY <1>1, <2>1, <3>2
      <4>2. past # << >>
        BY <4>1
      <4>3. past[i] # "EOF"
        BY <1>1, <1>3, <4>1, <4>2 DEF NoneBehindEnd, Ended, Last
      <4> QED BY <2>1, <4>1, <4>3
    <3> QED BY <3>1, <3>2
  <2>3. \E i \in 1 .. Len(tokens) : tokens[i].type \in Confused
    <3>1. PICK i \in taken + 1 .. Len(tokens) : tokens[i].type = "ERROR"
      BY <1>3 DEF Skipped
    <3>2. i \in 1 .. Len(tokens)
      BY <1>1
    <3> QED BY <3>1, <3>2 DEF Confused
  <2>4. Len(tokens) \in 0 .. Len(tokens)
    BY <1>1
  <2> QED BY <2>2, <2>3, <2>4, TypesAgree
<1> QED BY <1>2, <1>3

\* In a text without errors that was taken to its end, the types are what was
\* taken.
LEMMA TakenIsText ==
  ASSUME LInv, TokensCut, NEW past, Len(past) \in Nat, NoneBehindEnd(past),
         Matches(past, taken), taken \in 0 .. Len(tokens), Ended(past),
         \A i \in 1 .. Len(past) - 1 : past[i] \in Expected
  PROVE  /\ Len(TypesOfText) = Len(past) - 1 /\ TypesOfText \in Seq(TypesHere)
         /\ \A i \in 1 .. Len(past) - 1 : TypesOfText[i] = past[i]
<1> DEFINE n == Len(past)
<1>1. Len(tokens) \in Nat
  BY TokenFacts
<1>2. n \in 0 .. Len(tokens) /\ \A i \in 1 .. n : past[i] = tokens[i].type
  BY <1>1 DEF Matches
<1>3. n # 0 /\ past[n] = "EOF"
  BY EmptySeq DEF Ended, Last
<1>4. \A i \in 1 .. n - 1 : tokens[i].type # "EOF"
  <2>1. \A i \in 1 .. n - 1 : i \in 1 .. n
    BY <1>2
  <2> QED BY <1>2, <2>1 DEF NoneBehindEnd
<1>5. \A i \in 1 .. n : tokens[i].type \notin Confused
  <2>1. \A i \in 1 .. n : i = n \/ i \in 1 .. n - 1
    BY <1>2
  <2>2. "EOF" \notin Confused /\ \A t \in Expected : t \notin Confused
    BY DEF Confused, Expected, Numbers
  <2> QED BY <1>2, <1>3, <2>1, <2>2
<1> DEFINE s == TypesOfText
<1>6. /\ n <= Len(s) + 1 /\ (\A i \in 1 .. n : tokens[i].type = At(s, i))
      /\ Len(s) \in Nat /\ s \in Seq(TypesHere) /\ (\A i \in 1 .. Len(s) : s[i] # "EOF")
  BY <1>2, <1>4, <1>5, TypesAgree
<1> HIDE DEF s
<1>7. n \in 1 .. n /\ At(s, n) = "EOF"
  BY <1>2, <1>3, <1>6
<1>8. Len(s) = n - 1
  BY <1>2, <1>6, <1>7 DEF At
<1>9. ASSUME NEW i \in 1 .. n - 1 PROVE s[i] = past[i]
  <2>1. i \in 1 .. n /\ i <= Len(s)
    BY <1>2, <1>8
  <2> QED BY <1>2, <1>6, <2>1 DEF At
<1> QED BY <1>6, <1>8, <1>9 DEF s

\* There is only one list of them ...
LEMMA OneList ==
  ASSUME LInv, NEW f, Lists(f), NEW g, Lists(g)
  PROVE  f[1] = g[1]
<1>0. End \in Nat /\ End = Len(source) + 1 /\ Len(source) \in Nat
  BY StructFacts
<1>1. \A p \in 1 .. End :
        /\ f[p] = ListStep(f, p) /\ g[p] = ListStep(g, p)
        /\ Abstract!Longest(Next(p)).type # "EOF" =>
             Abstract!Longest(Next(p)).last + 1 \in p + 1 .. End
  BY ListsAre
<1> DEFINE n == End + 1
           T == {j \in 0 .. n : \A p \in 1 .. End : p >= j => f[p] = g[p]}
<1>2. n \in Nat /\ n \in T
  BY <1>0
<1>3. ASSUME NEW i \in 0 .. n - 1, i + 1 \in T PROVE i \in T
  <2> SUFFICES ASSUME NEW p \in 1 .. End, p >= i PROVE f[p] = g[p]
    BY <1>0
  <2> DEFINE q == Abstract!Longest(Next(p)).last + 1
  <2>1. CASE Abstract!Longest(Next(p)).type = "EOF"
    BY <1>1, <2>1 DEF ListStep
  <2>2. CASE Abstract!Longest(Next(p)).type # "EOF"
    <3>1. q \in 1 .. End /\ q >= i + 1
      BY <1>0, <1>1, <2>2
    <3>2. f[q] = g[q]
      BY <1>3, <3>1
    <3> QED BY <1>1, <2>2, <3>2 DEF ListStep
  <2> QED BY <2>1, <2>2
<1>4. 0 \in T
  <2> HIDE DEF T, n
  <2>1. \A i \in 0 .. n - 1 : i + 1 \in T => i \in T
    BY <1>3
  <2>2. \A i \in 0 .. n : i \in T
    BY <1>2, <2>1, DownFrom
  <2> QED BY <1>2, <2>2
<1> QED BY <1>0, <1>4

IsListed == \E f : Lists(f) /\ TypesOfText = f[1]

LEMMA TypesListed == LInv => IsListed
<1> SUFFICES ASSUME LInv PROVE \E f : Lists(f) /\ TypesOfText = f[1]
  BY DEF IsListed
<1>1. Lists(CHOOSE f : Lists(f))
  BY ListsExist
<1> QED BY <1>1, ListOfTypes

\* ... so that the types of a text depend on the text alone.
LEMMA SameTypes ==
  ASSUME LInv, LInv', source' = source
  PROVE  TypesOfText' = TypesOfText
<1>1. PICK f : Lists(f) /\ TypesOfText = f[1]
  BY TypesListed DEF IsListed
<1>2. (LInv => IsListed)'
  BY TypesListed, PTL
<1>3. PICK g : Lists(g)' /\ TypesOfText' = g[1]
  BY <1>2 DEF IsListed
<1>4. ASSUME NEW p PROVE ListStep(g, p)' = ListStep(g, p)
  <2>1. Next(p)' = Next(p)
    BY SameText
  <2>2. \A q : Abstract!Longest(q)' = Abstract!Longest(q)
    BY SMT DEF Abstract!Longest, Abstract!Lexemes, Abstract!All, Abstract!At, Abstract!WordType
  <2>3. Abstract!Longest(Next(p))' = Abstract!Longest(Next(p))
    BY <2>1, <2>2
  <2> QED BY <2>3 DEF ListStep
<1>5. Lists(g)
  <2>1. g = [p \in 1 .. Len(source) + 1 |-> ListStep(g, p)']
    BY <1>3 DEF Lists
  <2>2. g = [p \in 1 .. Len(source) + 1 |-> ListStep(g, p)]
    BY <1>4, <2>1
  <2> QED BY <2>2 DEF Lists
<1> QED BY <1>1, <1>3, <1>5, OneList

(***************************************************************************)
(* The verdict so far: an error was reported only if the text is no        *)
(* expression, and none was only if it is one.                             *)
(***************************************************************************)
VerdictsInv ==
  driver = "parsing" =>
    /\ compiler.is_error /\ ~reused => Derivations(TypesOfText) = {}
    /\ phase = "done" /\ ~compiler.is_error => Derivations(TypesOfText) # {}

\* The step that reports the first error, or takes another token.
LEMMA ErrorDooms ==
  ASSUME LexerInv, PInv, TreesInv', NEW past \in Seq(TokenTypes \cup {"EOF", "ERROR"}),
         NoneBehindEnd(past), Matches(past, taken), taken \in 0 .. Len(tokens),
         \A i \in taken + 1 .. Len(tokens) - 1 : tokens[i].type = "ERROR",
         scanned' = past \/ (Answered /\ scanned' = Answer(past)),
         phase' # "ready", compiler'.is_error, ~reused'
  PROVE  Derivations(TypesOfText) = {}
<1>1. LInv /\ TokensCut
  BY DEF LexerInv
<1>2. /\ Doomed(scanned') /\ NoneBehindEnd(scanned') /\ Len(scanned') \in Nat
  <2>1. scanned' \in Seq(TokenTypes \cup {"EOF", "ERROR"})
    BY DEF TreesInv, ParserInv, TreeInv
  <2> QED BY <2>1 DEF TreesInv, ParserInv, VerdictInv
<1>3. CASE scanned' = past
  BY <1>1, <1>2, <1>3, TakenDooms
<1>4. CASE Answered /\ scanned' = Answer(past)
  BY <1>1, <1>2, <1>4, AnswerDooms
<1> QED BY <1>3, <1>4

\* The step that ends a compilation without an error.
LEMMA AcceptsText ==
  ASSUME LexerInv, TreesInv, AnswersInv, driver = "parsing", phase = "free", ~compiler.is_error
  PROVE  Derivations(TypesOfText) # {}
<1>1. LInv /\ TokensCut /\ Flawless
  BY DEF LexerInv, Flawless
<1>2. /\ Reads(scanned, compiler.current) /\ Ended(scanned) /\ Matches(scanned, taken)
      /\ taken \in 0 .. Len(tokens) /\ NoneBehindEnd(scanned) /\ Derivations(Source) # {}
      /\ scanned \in Seq(TokenTypes \cup {"EOF", "ERROR"})
  BY <1>1 DEF TreesInv, ParserInv, ScansInv, VerdictInv, AnswersInv, TreeInv
<1>3. Len(scanned) \in Nat /\ \A i \in 1 .. Len(scanned) - 1 : scanned[i] \in Expected
  BY <1>2 DEF Reads
<1> DEFINE s == TypesOfText
           n == Len(scanned) - 1
           S == TokenTypes \cup {"EOF", "ERROR"}
<1>4. Len(s) = n /\ s \in Seq(TypesHere) /\ \A i \in 1 .. n : s[i] = scanned[i]
  BY <1>1, <1>2, <1>3, TakenIsText
<1>5. Len(Source) = n /\ n \in Nat
  <2>1. Len(Source) = n
    BY <1>2, SourceExtends DEF TreesInv
  <2>2. scanned # << >>
    BY <1>2 DEF Ended
  <2> QED BY <1>2, <1>3, <2>1, <2>2, EmptySeq
<1> HIDE DEF s, S
<1>6. Source \in Seq(S) /\ \A i \in 1 .. n : Source[i] = scanned[i]
  <2>1. 1 \in 1 .. Len(scanned) + 1 /\ n \in 1 - 1 .. Len(scanned)
    BY <1>3, <1>5
  <2>2. Source = SubSeq(scanned, 1, n)
    BY DEF Source, Front
  <2>3. scanned \in Seq(S)
    BY <1>2 DEF S
  <2> HIDE DEF n
  <2>4. SubSeq(scanned, 1, n) \in Seq(S) /\ \A i \in 1 .. n : SubSeq(scanned, 1, n)[i] = scanned[i]
    BY <1>5, <2>1, <2>3
  <2> QED BY <2>2, <2>4
<1>7. s = Source
  <2> HIDE DEF n
  <2> DEFINE U == TypesHere \cup S
  <2>1. s \in Seq(U) /\ Source \in Seq(U)
    BY <1>4, <1>6, SeqMonotonic
  <2> HIDE DEF U
  <2>2. Len(s) = Len(Source) /\ \A i \in 1 .. Len(s) : s[i] = Source[i]
    BY <1>4, <1>5, <1>6
  <2> QED BY <2>1, <2>2, SeqEqual
<1> QED BY <1>2, <1>7 DEF s

\* How a compilation under way goes on, and how it ends.
LEMMA HowItEnds ==
  ASSUME ParserInv, ParserStep
  PROVE  /\ phase \notin {"ready", "done", "crashed"} /\ phase' # "ready"
         /\ reused' = reused
         /\ phase' = "done" /\ ~compiler'.is_error => phase = "free" /\ ~compiler.is_error
<1>1. phase \notin {"ready", "done", "crashed"} /\ reused' = reused
  BY DEF ParserStep, no_prefix, parse_literal, call_prefix, call_infix, leave_precedence,
         parse_grouping, parse_unary, parse_binary, consume_eof, print, typecheck, free,
         AtPrefix, AtInfix, Returned
<1>2. CASE no_prefix \/ leave_precedence \/ parse_grouping \/ parse_unary \/ parse_binary
  <2>1. phase = "parsing" /\ \E node : Return(node)
    BY <1>2 DEF no_prefix, leave_precedence, parse_grouping, parse_unary, parse_binary, AtPrefix,
                AtInfix, Returned
  <2>2. phase' \in {"parsing", "parsed"}
    BY <2>1 DEF Return
  <2> QED BY <1>1, <2>2
<1>3. CASE parse_literal \/ call_prefix \/ call_infix
  <2>1. phase' \in {"parsing", "crashed"}
    BY <1>3 DEF parse_literal, call_prefix, call_infix, AtPrefix, AtInfix
  <2> QED BY <1>1, <2>1
<1>4. CASE consume_eof
  <2>1. phase' \in {"done", "print untyped"}
    BY <1>4 DEF consume_eof
  <2> QED BY <1>1, <1>4, <2>1, EndConsumed
<1>5. CASE print \/ typecheck
  BY <1>1, <1>5 DEF print, typecheck
<1>6. CASE free
  BY <1>1, <1>6 DEF free
<1> QED BY <1>2, <1>3, <1>4, <1>5, <1>6 DEF ParserStep

\* The verdict is kept by the steps of the parser ...
LEMMA ParsingJudges ==
  ASSUME CallsInv, NoLexer \/ LexerInv, TreesInv, AnswersInv, VerdictsInv, TreesInv',
         start_parse \/ parse
  PROVE  VerdictsInv'
<1>1. /\ driver \in {"starting", "parsing"} /\ source' = source
      /\ UNCHANGED lexerVars /\ (NeedsToken => Answered)
  BY DEF start_parse, parse, Parse, lexerVars
<1>2. LexerInv /\ PInv
  BY <1>1 DEF NoLexer, TreesInv, ParserInv
<1>3. /\ taken \in 0 .. Len(tokens)
      /\ \A i \in taken + 1 .. Len(tokens) - 1 : tokens[i].type = "ERROR"
  BY <1>1 DEF AnswersInv
<1>4. (Derivations(TypesOfText))' = Derivations(TypesOfText)
  <2>1. [CompilerNext]_compilerVars /\ driver' = "parsing"
    BY DEF start_parse, parse, Parse, CompilerNext, DriverStep
  <2>2. LInv' /\ LInv
    BY <1>2, <2>1, LexerKept DEF NoLexer, LexerInv
  <2>3. TypesOfText' = TypesOfText
    BY <1>1, <2>2, SameTypes
  <2> HIDE DEF TypesOfText
  <2> QED BY <2>3 DEF Derivations
<1>5. CASE start_parse
  <2>1. /\ compiler_generate_ast /\ NeedsToken /\ scanned' = Answer(<< >>) /\ taken = 0
    BY <1>5 DEF start_parse, Parse, NeedsToken, AnswersInv
  <2>2. reused' = compiler.is_error /\ phase' = "parsing"
    BY <2>1 DEF compiler_generate_ast
  <2>3. /\ Matches(<< >>, taken) /\ << >> \in Seq(TokenTypes \cup {"EOF", "ERROR"})
        /\ NoneBehindEnd(<< >>)
    BY <2>1 DEF Matches, NoneBehindEnd
  <2>4. compiler'.is_error /\ ~reused' => Derivations(TypesOfText) = {}
    BY <1>1, <1>2, <1>3, <2>1, <2>2, <2>3, ErrorDooms
  <2> QED BY <1>4, <2>2, <2>4 DEF VerdictsInv
<1>6. CASE parse
  <2>1. driver = "parsing" /\ ParserStep /\ (NeedsToken => Answered /\ scanned' = Answer(scanned))
    BY <1>6 DEF parse, Parse
  <2>2. ~NeedsToken => scanned' = scanned
    BY <2>1, AsksForNone
  <2>3. /\ phase \notin {"ready", "done", "crashed"} /\ phase' # "ready" /\ reused' = reused
        /\ phase' = "done" /\ ~compiler'.is_error => phase = "free" /\ ~compiler.is_error
    BY <2>1, HowItEnds DEF TreesInv
  <2>4. ASSUME compiler'.is_error, ~reused' PROVE Derivations(TypesOfText) = {}
    <3>1. CASE compiler.is_error
      BY <2>1, <2>3, <2>4, <3>1 DEF VerdictsInv
    <3>2. CASE ~compiler.is_error
      <4>1. Matches(scanned, taken)
        BY <2>1, <2>3, <3>2 DEF AnswersInv, Flawless
      <4>2. scanned \in Seq(TokenTypes \cup {"EOF", "ERROR"}) /\ NoneBehindEnd(scanned)
        BY DEF TreesInv, ParserInv, TreeInv, VerdictInv
      <4> QED BY <1>2, <1>3, <2>1, <2>2, <2>3, <2>4, <4>1, <4>2, ErrorDooms
    <3> QED BY <3>1, <3>2
  <2>5. phase' = "done" /\ ~compiler'.is_error => Derivations(TypesOfText) # {}
    BY <1>2, <2>1, <2>3, AcceptsText
  <2> QED BY <1>4, <2>4, <2>5 DEF VerdictsInv
<1> QED BY <1>5, <1>6

\* ... and of the driver.
LEMMA VerdictsKept ==
  ASSUME CallsInv, NoLexer \/ LexerInv, TreesInv, AnswersInv, VerdictsInv, TreesInv',
         [CompilerNext]_compilerVars
  PROVE  VerdictsInv'
<1>1. CASE start_parse \/ parse
  BY <1>1, ParsingJudges
<1>2. CASE \/ compiler_compile_file \/ read_file \/ compiler_compile_source \/ reset
           \/ out_of_memory \/ return_from_compile \/ init_again
  <2>1. driver' # "parsing"
    BY <1>2 DEF compiler_compile_file, read_file, compiler_compile_source, reset, out_of_memory,
                return_from_compile, init_again, Exit, driverVars
  <2> QED BY <2>1 DEF VerdictsInv
<1>3. CASE lexer_print \/ scan \/ compiler_advance \/ UNCHANGED compilerVars
  <2>1. UNCHANGED <<driver, phase, compiler, reused>>
    BY <1>3 DEF lexer_print, scan, compiler_advance, compilerVars, parserVars, driverVars
  <2>2. source' = source
    BY <1>3 DEF lexer_print, scan, compiler_advance, lexer_scan_token, ScanStep, compilerVars,
                lexerVars, skip_whitespace, skip_comment, lexer_skip_single_line_comment,
                lexer_skip_multi_line_comment, lexer_make_eof_token, lexer_make_eol_token,
                scan_first, scan_operator, lexer_scan_identifier, lexer_scan_number,
                lexer_scan_fraction, lexer_scan_string, Go, Yield
  <2>3. driver = "parsing" => (Derivations(TypesOfText))' = Derivations(TypesOfText)
    <3> SUFFICES ASSUME driver = "parsing"
                 PROVE  (Derivations(TypesOfText))' = Derivations(TypesOfText)
      OBVIOUS
    <3>1. LInv' /\ LInv
      BY <2>1, LexerKept DEF NoLexer, LexerInv
    <3>2. TypesOfText' = TypesOfText
      BY <2>2, <3>1, SameTypes
    <3> HIDE DEF TypesOfText
    <3> QED BY <3>2 DEF Derivations
  <2> QED BY <2>1, <2>3 DEF VerdictsInv
<1> QED BY <1>1, <1>2, <1>3 DEF CompilerNext, DriverStep
-----------------------------------------------------------------------------
TextInv == NumbersInv /\ WordsInv

CompilerInv ==
  /\ CallsInv /\ BlockInv /\ TreesInv /\ AnswersInv /\ VerdictsInv
  /\ NoLexer \/ (LexerInv /\ TextInv)

\* What the invariants say of the literals.
LEMMA LiteralsRead == CompilerInv => LiteralsReadWhole
<1> SUFFICES ASSUME CompilerInv, phase = "free", ~compiler.is_error,
                    NEW n \in 1 .. Len(heap), heap[n].kind = "value"
             PROVE  ReadByConversion(tokens[heap[n].value].first, tokens[heap[n].value].type)
                      = tokens[heap[n].value].last
  BY DEF LiteralsReadWhole
<1> DEFINE v == heap[n].value
<1>1. driver = "parsing" /\ Flawless
  BY DEF CompilerInv, CallsInv, Flawless
<1>2. LexerInv /\ TextInv
  BY <1>1 DEF CompilerInv, NoLexer
<1>3. /\ Reads(scanned, compiler.current) /\ LiteralsFrom(heap, scanned) /\ Ended(scanned)
      /\ Matches(scanned, taken) /\ taken \in 0 .. Len(tokens)
      /\ scanned \in Seq(TokenTypes \cup {"EOF", "ERROR"})
  BY <1>1 DEF CompilerInv, ParserInv, ScansInv, AnswersInv, TreesInv, TreeInv
<1>4. Len(scanned) \in Nat /\ Len(tokens) \in Nat /\ Len(source) \in Nat
      /\ tokens \in Seq(TokenRecords)
  BY <1>2, <1>3, LexerAssumption DEF LexerInv, LInv, LexerTypeOK
<1>5. v \in 1 .. Len(scanned) - 1 /\ scanned[v] \in Numbers
  BY <1>3 DEF LiteralsFrom
<1> HIDE DEF v
<1>6. /\ v \in 1 .. Len(scanned) /\ v + 1 \in 1 .. Len(scanned) /\ Len(scanned) <= Len(tokens)
      /\ v \in 1 .. Len(tokens) /\ v \in 1 .. Len(tokens) - 1
  BY <1>3, <1>4, <1>5 DEF Matches
<1>7. tokens[v].type = scanned[v] /\ tokens[v + 1].type = scanned[v + 1]
  BY <1>3, <1>6 DEF Matches
<1>8. scanned[v + 1] \in Expected \cup {"EOF"}
  <2>1. CASE v + 1 = Len(scanned)
    BY <1>3, <2>1 DEF Ended, Last
  <2>2. CASE v + 1 # Len(scanned)
    <3>1. v + 1 \in 1 .. Len(scanned) - 1
      BY <1>4, <1>6, <2>2
    <3> QED BY <1>3, <3>1 DEF Reads
  <2> QED BY <2>1, <2>2
<1>9. CharAt(tokens[v].last + 1) \notin Letters
  <2>1. scanned[v + 1] \notin WordTypes
    BY <1>8, TypesOfWords DEF Expected, Numbers
  <2> QED BY <1>2, <1>6, <1>7, <2>1 DEF TextInv, WordsInv
<1>10. tokens[v].type \in {"int", "real"} /\ tokens[v].type # "EOF"
  BY <1>5, <1>7 DEF Numbers
<1>11. /\ tokens[v].first \in Nat /\ tokens[v].last \in Nat /\ 1 <= tokens[v].first
       /\ tokens[v].first <= tokens[v].last /\ tokens[v].last <= Len(source)
  <2>1. tokens[v] \in TokenRecords
    BY <1>4, <1>6, ElementOfSeq
  <2>2. TokensInOrder
    BY <1>2 DEF LexerInv, LInv, TokensInv
  <2> QED BY <1>6, <1>10, <2>1, <2>2 DEF TokensInOrder, TokenRecords
<1>12. IsNumber(tokens[v])
  BY <1>2, <1>6 DEF TextInv, NumbersInv
<1> QED BY <1>4, <1>9, <1>10, <1>11, <1>12, NumberConverts DEF v
-----------------------------------------------------------------------------
\* The invariant holds before the first call, and is kept by every step.
LEMMA FirstCompilerInv == CompilerInit => CompilerInv
<1> SUFFICES ASSUME CompilerInit PROVE CompilerInv
  OBVIOUS
<1>1. CallsInv /\ BlockInv /\ AnswersInv /\ VerdictsInv /\ NoLexer
  BY DEF CompilerInit, ParserInit, CallsInv, BlockInv, BlockHoldsText, NoBlock, AnswersInv,
         VerdictsInv, NoLexer
<1>2. ParserInv
  BY ParserInvHolds DEF CompilerInit
<1>3. FreedOnce /\ TypesExact
  BY DEF CompilerInit, ParserInit, FreedOnce, TypesExact
<1> QED BY <1>1, <1>2, <1>3 DEF CompilerInv, TreesInv

\* The numbers and words of the text, from the first text on.
LEMMA TextStays ==
  ASSUME CallsInv, NoLexer \/ (LexerInv /\ TextInv), [CompilerNext]_compilerVars
  PROVE  (NoLexer \/ (LexerInv /\ TextInv))'
<1>1. (NoLexer \/ LexerInv)'
  BY LexerKept
<1>2. CASE lexer_init'
  <2>1. tokens' = << >> /\ pc' = "idle" /\ lexer'.current = 1
    BY <1>2 DEF lexer_init
  <2>2. TextInv'
    BY <2>1 DEF TextInv, NumbersInv, WordsInv, Gap
  <2> QED BY <1>1, <2>2
<1>3. CASE (LexerInv /\ TextInv) /\ LexerNext
  <2>1. TextInv'
    BY <1>3, TextKept DEF TextInv, LexerInv
  <2> QED BY <1>1, <2>1
<1>4. CASE (LexerInv /\ TextInv) /\ UNCHANGED lexerVars
  <2>1. /\ source' = source /\ tokens' = tokens /\ pc' = pc /\ lexer' = lexer
    BY <1>4 DEF lexerVars
  <2>2. TextInv'
    BY <1>4, <2>1 DEF TextInv, NumbersInv, IsNumber, OnlyDigits, CharAt, WordsInv, Gap
  <2> QED BY <1>1, <2>2
<1>5. CASE NoLexer /\ ~lexer_init'
  BY <1>5, NoLexerKept
<1> QED BY <1>2, <1>3, <1>4, <1>5, StepOfLexer

\* Every step of the driver keeps the invariant.
LEMMA CompilerInvKept == CompilerInv /\ [CompilerNext]_compilerVars => CompilerInv'
<1> SUFFICES ASSUME CompilerInv, [CompilerNext]_compilerVars PROVE CompilerInv'
  OBVIOUS
<1>1. CallsInv /\ BlockInv /\ TreesInv /\ AnswersInv /\ VerdictsInv
      /\ (NoLexer \/ (LexerInv /\ TextInv))
  BY DEF CompilerInv
<1>2. CallsInv' /\ BlockInv'
  BY <1>1, DriverCallsKept, BlockKept
<1>3. TreesInv'
  BY <1>1, TreesKept
<1>4. AnswersInv'
  BY <1>1, <1>3, AnswersKept DEF TreesInv, ParserInv
<1>5. (NoLexer \/ (LexerInv /\ TextInv))'
  BY <1>1, TextStays
<1>6. VerdictsInv'
  BY <1>1, <1>3, VerdictsKept
<1> QED BY <1>2, <1>3, <1>4, <1>5, <1>6 DEF CompilerInv

\* The invariant of the driver, the lexer and the parser together.
THEOREM CompilerInvariance == CompilerSpec => []CompilerInv
BY FirstCompilerInv, CompilerInvKept, PTL DEF CompilerSpec

(***************************************************************************)
(* read_file stays inside of the block it has allocated, whatever became   *)
(* of the file meanwhile.                                                  *)
(***************************************************************************)
THEOREM FilesFitTheirBlock == CompilerSpec => []BlockHoldsText
<1>1. CompilerInv => BlockHoldsText
  BY DEF CompilerInv, BlockInv
<1> QED BY <1>1, CompilerInvariance, PTL

(***************************************************************************)
(* In a text that is accepted, strtoll and strtod, which are not told the  *)
(* length of a token, convert all of it and nothing that follows it.       *)
(***************************************************************************)
THEOREM LiteralsAreReadWhole == CompilerSpec => []LiteralsReadWhole
BY LiteralsRead, CompilerInvariance, PTL

(***************************************************************************)
(* What is proved of the lexer holds under the driver: whatever texts a    *)
(* Compiler is given one after the other, no loop leaves the text, and the *)
(* parser takes the tokens that were printed, at their positions.          *)
(***************************************************************************)
THEOREM TokensStayExact ==
  CompilerSpec => [](StaysInSource /\ TokensInOrder /\ PositionsExact /\ SecondPassRepeats)
<1>1. CompilerInv => StaysInSource
  <2>1. NoLexer => StaysInSource
    BY DEF NoLexer, StaysInSource, End
  <2>2. LexerInv => StaysInSource
    BY DEF LexerInv, LInv, PointersInv, StaysInSource
  <2> QED BY <2>1, <2>2 DEF CompilerInv
<1>2. CompilerInv => TokensInOrder /\ PositionsExact /\ SecondPassRepeats
  <2>1. CASE NoLexer
    BY <2>1 DEF NoLexer, TokensInOrder, PositionsExact, SecondPassRepeats
  <2>2. CASE LexerInv
    BY <2>2, PassesRepeat DEF LexerInv, LInv, TokensInv, PositionsInv
  <2> QED BY <2>1, <2>2 DEF CompilerInv
<1> QED BY <1>1, <1>2, CompilerInvariance, PTL

(***************************************************************************)
(* What is proved of the tree holds when the tokens are those of a text.   *)
(***************************************************************************)
THEOREM TreesStayExact ==
  CompilerSpec => [](OwnedOnce /\ FreedOnce /\ TypesExact /\ CrashExplained)
<1>1. CompilerInv => OwnedOnce /\ FreedOnce /\ TypesExact /\ CrashExplained
  BY OwnedByOne DEF CompilerInv, TreesInv, ParserInv, ErrorsInv
<1> QED BY <1>1, CompilerInvariance, PTL

(***************************************************************************)
(* So the verdict is that of the grammar and the tree the derivation when  *)
(* the parser asks the lexer for its tokens.                               *)
(***************************************************************************)
THEOREM VerdictStaysExact == CompilerSpec => [](VerdictExact /\ TreeIsDerivation)
<1>1. CompilerInv => VerdictExact /\ TreeIsDerivation
  BY VerdictGiven, TreeGiven DEF CompilerInv, TreesInv
<1> QED BY <1>1, CompilerInvariance, PTL

(***************************************************************************)
(* The verdict, from the characters on: whatever texts a Compiler is given *)
(* one after the other, it accepts a text exactly if the tokens into which *)
(* the Scanner cuts it are an expression of the Grammar, and there was no  *)
(* error before it.                                                        *)
(***************************************************************************)
THEOREM TextsAreJudged == CompilerSpec => []VerdictOfText
<1>1. ASSUME CompilerInv, driver = "parsing", phase = "done"
      PROVE  compiler.is_error <=> ~(~reused /\ Derivations(TypesOfText) # {})
  <2>1. reused => compiler.is_error
    BY <1>1 DEF CompilerInv, TreesInv, ParserInv, VerdictInv
  <2>2. /\ compiler.is_error /\ ~reused => Derivations(TypesOfText) = {}
        /\ ~compiler.is_error => Derivations(TypesOfText) # {}
    BY <1>1 DEF CompilerInv, VerdictsInv
  <2> QED BY <2>1, <2>2
<1>2. CompilerInv => VerdictOfText
  BY <1>1 DEF VerdictOfText
<1> QED BY <1>2, CompilerInvariance, PTL
=============================================================================
