-------------------------------- MODULE Lexer --------------------------------
(***************************************************************************)
(* lexer.c, one action per character it steps over and one per token it    *)
(* makes.  Pointers into the source are places of the text, the first      *)
(* being 1; the place after the text holds the terminator, which is the    *)
(* last byte of the block.  The user is compiler_compile_source, which     *)
(* takes all tokens once, resets the lexer and takes them again.           *)
(***************************************************************************)
EXTENDS Integers, Sequences, FiniteSets

CONSTANTS
  Sources,  \* the texts to scan
  MaxEnds   \* bound: how often the end may be asked for in one pass

NUL == "NUL"

ASSUME LexerAssumption ==
  /\ \A s \in Sources : s \in Seq(STRING) /\ \A i \in 1 .. Len(s) : s[i] # NUL
  /\ MaxEnds \in Nat \ {0}

VARIABLES
  source,   \* the text
  lexer,    \* the Lexer struct
  pc,       \* the loop lexer_scan_token is in; "idle" between two calls
  tokens,   \* the tokens made since the last reset
  printed   \* history: the tokens of the pass before the reset

lexerVars == <<source, lexer, pc, tokens, printed>>

Letters ==
  {"a", "b", "c", "d", "e", "f", "g", "h", "i", "j", "k", "l", "m", "n", "o",
   "p", "q", "r", "s", "t", "u", "v", "w", "x", "y", "z",
   "A", "B", "C", "D", "E", "F", "G", "H", "I", "J", "K", "L", "M", "N", "O",
   "P", "Q", "R", "S", "T", "U", "V", "W", "X", "Y", "Z", "_"}
Digits == {"0", "1", "2", "3", "4", "5", "6", "7", "8", "9"}
Blanks == {" ", "\r", "\t"}
Quote  == "\""

\* The characters that are a token unless lexer_match_next finds a second one ...
Single == {"(", ")", "{", "}", "[", "]", ".", ",", ":", "+", "-", "*", "/",
           "@", "!", "=", ">", "<", "|"}

\* ... and what it makes of the two (the second line is lexer.c:365).
Pairs ==
  {<<"+", "=", "+=">>,
   <<"-", "=", "*=">>,
   <<"-", ">", "->">>, <<"*", "=", "*=">>, <<"/", "=", "/=">>, <<"!", "=", "!=">>,
   <<"=", "=", "==">>, <<">", "=", ">=">>, <<"<", "=", "<=">>, <<"|", ">", "|>">>,
   <<"|", "|", "||">>, <<"&", "&", "&&">>}

\* lexer_determine_identifier_type: the characters its switch statements
\* tell apart, and what lexer_check_keyword then compares.
KeywordCases ==
  {[prefix |-> <<"d">>,      rest |-> <<"u", "m", "p">>,                type |-> "dump"],
   [prefix |-> <<"e">>,      rest |-> <<"l", "s", "e">>,                type |-> "else"],
   [prefix |-> <<"f", "a">>, rest |-> <<"l", "s", "e">>,                type |-> "false"],
   [prefix |-> <<"f", "n">>, rest |-> << >>,                            type |-> "fn"],
   [prefix |-> <<"f", "o">>, rest |-> <<"r">>,                          type |-> "for"],
   [prefix |-> <<"i", "f">>, rest |-> << >>,                            type |-> "if"],
   [prefix |-> <<"i", "m">>, rest |-> <<"p", "o", "r", "t">>,           type |-> "import"],
   [prefix |-> <<"l">>,      rest |-> <<"e", "t">>,                     type |-> "let"],
   [prefix |-> <<"m">>,      rest |-> <<"a", "t", "c", "h">>,           type |-> "match"],
   [prefix |-> <<"n">>,      rest |-> <<"i", "l">>,                     type |-> "nil"],
   [prefix |-> <<"p">>,      rest |-> <<"a", "c", "k", "a", "g", "e">>, type |-> "package"],
   [prefix |-> <<"r">>,      rest |-> <<"e", "t", "u", "r", "n">>,      type |-> "return"],
   [prefix |-> <<"s", "e">>, rest |-> <<"l", "f">>,                     type |-> "self"],
   [prefix |-> <<"s", "t">>, rest |-> <<"r", "u", "c", "t">>,           type |-> "struct"],
   [prefix |-> <<"t">>,      rest |-> <<"r", "u", "e">>,                type |-> "true"],
   [prefix |-> <<"w", "h">>, rest |-> <<"i", "l", "e">>,                type |-> "while"],
   [prefix |-> <<"w", "i">>, rest |-> <<"t", "h">>,                     type |-> "with"]}

StartsWith(word, prefix) ==
  Len(prefix) <= Len(word) /\ SubSeq(word, 1, Len(prefix)) = prefix

lexer_check_keyword(word, case) ==
  IF /\ Len(word) = Len(case.prefix) + Len(case.rest)
     /\ SubSeq(word, Len(case.prefix) + 1, Len(word)) = case.rest
  THEN case.type ELSE "identifier"

lexer_determine_identifier_type(word) ==
  LET cases == {k \in KeywordCases : StartsWith(word, k.prefix)}
  IN  IF cases = {} THEN "identifier"
      ELSE lexer_check_keyword(word, CHOOSE k \in cases : TRUE)
-----------------------------------------------------------------------------
End == Len(source) + 1

CharAt(place) == IF place \in 1 .. Len(source) THEN source[place] ELSE NUL

Peek == CharAt(lexer.current)

\* lexer_peek_next, which does not look past the terminator.
PeekNext == IF Peek = NUL THEN NUL ELSE CharAt(lexer.current + 1)

\* Mutant: the pointer moves, the column does not.
Advanced_PointerOnly(n) ==
  [start  |-> lexer.start,       current |-> lexer.current + n,
   line   |-> lexer.line,        column  |-> lexer.column]

\* The struct after n calls of lexer_advance.
Advanced(n) ==
  [start  |-> lexer.start,       current |-> lexer.current + n,
   line   |-> lexer.line,        column  |-> lexer.column + n]

\* Mutant: the start stays where the last token began.
Begun_OldStart(n) ==
  [start  |-> lexer.start,       current |-> lexer.current + n,
   line   |-> lexer.line,        column  |-> lexer.column + n]

\* The struct when a token begins: n characters of it are known.
Begun(n) ==
  [start  |-> lexer.current,     current |-> lexer.current + n,
   line   |-> lexer.line,        column  |-> lexer.column + n]

\* Mutant: the column where the token ends.
lexer_make_token_EndColumn(l, type) ==
  [type |-> type, first |-> l.start, last |-> l.current - 1,
   line |-> l.line, column |-> l.column]

\* A token keeps a pointer and a length; here, the places of its first and
\* last character.
lexer_make_token(l, type) ==
  [type |-> type, first |-> l.start, last |-> l.current - 1,
   line |-> l.line, column |-> l.column - (l.current - l.start) + 1]

\* Mutant: the column before the token.
lexer_make_error_token_Before(l) ==
  [type |-> "ERROR", first |-> l.start, last |-> l.current - 1,
   line |-> l.line, column |-> l.column - (l.current - l.start)]

\* The text of an error token is its message; its extent is history.
lexer_make_error_token(l) ==
  [type |-> "ERROR", first |-> l.start, last |-> l.current - 1,
   line |-> l.line, column |-> l.column]

\* lexer_scan_token returns a token.
Yield(l, token) ==
  /\ lexer' = l
  /\ tokens' = Append(tokens, token)
  /\ pc' = "idle"
  /\ UNCHANGED <<source, printed>>

Go(l, loop) ==
  /\ lexer' = l
  /\ pc' = loop
  /\ UNCHANGED <<source, tokens, printed>>
-----------------------------------------------------------------------------
Ends == {i \in 1 .. Len(tokens) : tokens[i].type = "EOF"}

lexer_scan_token ==
  /\ pc = "idle"
  /\ Len(tokens) - MaxEnds + 1 \notin Ends
  /\ Go(lexer, "skip")

(* lexer_skip_insignificant *)
AtComment == Peek = "/" /\ PeekNext \in {"/", "*"}

\* Mutant: the loop is continued before it advances.
skip_whitespace_NoAdvance ==
  /\ pc = "skip" /\ Peek \in Blanks
  /\ Go(lexer, "skip")

skip_whitespace ==
  /\ pc = "skip" /\ Peek \in Blanks
  /\ Go(Advanced(1), "skip")

skip_comment ==
  /\ pc = "skip" /\ AtComment
  /\ Go(lexer, IF PeekNext = "/" THEN "line_comment" ELSE "block_comment")

\* Mutant: the comment takes the end of its line along.
lexer_skip_single_line_comment_WithEnd ==
  /\ pc = "line_comment"
  /\ CASE Peek = NUL  -> Go(lexer, "skip")
       [] Peek = "\n" -> Go(Advanced(1), "skip")
       [] OTHER       -> Go(Advanced(1), "line_comment")

lexer_skip_single_line_comment ==
  /\ pc = "line_comment"
  /\ IF Peek \notin {"\n", NUL}
     THEN Go(Advanced(1), "line_comment") ELSE Go(lexer, "skip")

lexer_skip_multi_line_comment ==
  /\ pc = "block_comment"
  /\ CASE Peek = NUL -> Go(lexer, "skip")
       [] Peek = "*" /\ CharAt(lexer.current + 1) = "/" -> Go(Advanced(2), "skip")
       [] OTHER -> Go(Advanced(1), "block_comment")

(* lexer_scan_token, after the gap *)
AtToken == pc = "skip" /\ Peek \notin Blanks /\ ~AtComment

lexer_make_eof_token ==
  /\ AtToken /\ Peek = NUL
  /\ LET l == [start |-> lexer.current, current |-> lexer.current,
               line  |-> lexer.line,    column  |-> lexer.column + 1]
     IN  Yield(l, lexer_make_token(l, "EOF"))

lexer_make_eol_token ==
  /\ AtToken /\ Peek = "\n"
  /\ LET l == [start |-> lexer.current,  current |-> lexer.current + 1,
               line  |-> lexer.line + 1, column  |-> lexer.column + 1]
     IN  Yield(l, lexer_make_token(l, "eol"))

scan_first ==
  /\ AtToken
  /\ \/ Peek \in Letters /\ Go(Begun(1), "identifier")
     \/ Peek \in Digits  /\ Go(Begun(1), "number")
     \/ Peek = Quote     /\ Go(Begun(1), "string")

\* The switch of lexer_scan_token, with lexer_match_next.
scan_operator ==
  /\ AtToken /\ Peek \notin Letters \cup Digits \cup {Quote, "\n", NUL}
  /\ LET pairs == {p \in Pairs : p[1] = Peek /\ p[2] = CharAt(lexer.current + 1)}
     IN  \/ \E p \in pairs : Yield(Begun(2), lexer_make_token(Begun(2), p[3]))
         \/ /\ pairs = {} /\ Peek \in Single
            /\ Yield(Begun(1), lexer_make_token(Begun(1), Peek))
         \/ /\ pairs = {} /\ Peek \notin Single
            /\ Yield(Begun(1), lexer_make_error_token(Begun(1)))

lexer_scan_identifier ==
  /\ pc = "identifier"
  /\ IF Peek \in Letters \cup Digits THEN Go(Advanced(1), "identifier")
     ELSE LET word == SubSeq(source, lexer.start, lexer.current - 1)
          IN  Yield(lexer, lexer_make_token(lexer, lexer_determine_identifier_type(word)))

\* Mutant: a point is part of a number only if a digit follows.
lexer_scan_number_DigitAfterPoint ==
  /\ pc = "number"
  /\ CASE Peek \in Digits -> Go(Advanced(1), "number")
       [] Peek = "." /\ CharAt(lexer.current + 1) \in Digits -> Go(Advanced(1), "fraction")
       [] OTHER -> Yield(lexer, lexer_make_token(lexer, "int"))

lexer_scan_number ==
  /\ pc = "number"
  /\ CASE Peek \in Digits -> Go(Advanced(1), "number")
       [] Peek = "."      -> Go(Advanced(1), "fraction")
       [] OTHER           -> Yield(lexer, lexer_make_token(lexer, "int"))

lexer_scan_fraction ==
  /\ pc = "fraction"
  /\ IF Peek \in Digits THEN Go(Advanced(1), "fraction")
     ELSE Yield(lexer, lexer_make_token(lexer, "real"))

\* Mutant: looking for the closing quote only.
lexer_scan_string_QuoteOnly ==
  /\ pc = "string"
  /\ IF Peek = Quote THEN Yield(Advanced(1), lexer_make_token(Advanced(1), "string"))
     ELSE Go(Advanced(1), "string")

(***************************************************************************)
(* lexer_scan_string: its loop runs only at the end of the file, where it  *)
(* steps over the terminator and goes on outside of the block.             *)
(***************************************************************************)
lexer_scan_string ==
  /\ pc = "string"
  /\ CASE Peek = NUL  -> Go(Advanced(1), "astray")
       [] Peek = "\n" -> Yield(lexer, lexer_make_error_token(lexer))
       [] OTHER       -> Yield(Advanced(1), lexer_make_token(Advanced(1), "string"))

\* Mutant: only the pointers are reset.
lexer_reset_PointersOnly ==
  /\ pc = "idle" /\ printed = << >> /\ Ends # {}
  /\ lexer' = [lexer EXCEPT !.start = 1, !.current = 1]
  /\ printed' = tokens
  /\ tokens' = << >>
  /\ UNCHANGED <<source, pc>>

\* By then lexer_print has met the end.
lexer_reset ==
  /\ pc = "idle" /\ printed = << >> /\ Ends # {}
  /\ lexer' = [start |-> 1, current |-> 1, line |-> 1, column |-> 0]
  /\ printed' = tokens
  /\ tokens' = << >>
  /\ UNCHANGED <<source, pc>>

lexer_init ==
  /\ source \in Sources
  /\ lexer = [start |-> 1, current |-> 1, line |-> 1, column |-> 0]
  /\ pc = "idle"
  /\ tokens = << >>
  /\ printed = << >>

\* The steps of a call under way.
ScanStep ==
  \/ skip_whitespace \/ skip_comment
  \/ lexer_skip_single_line_comment \/ lexer_skip_multi_line_comment
  \/ lexer_make_eof_token \/ lexer_make_eol_token \/ scan_first \/ scan_operator
  \/ lexer_scan_identifier \/ lexer_scan_number \/ lexer_scan_fraction
  \/ lexer_scan_string

LexerNext == lexer_scan_token \/ ScanStep \/ lexer_reset

\* A call under way goes on, and the users ask until the end.
LexerSpec ==
  lexer_init /\ [][LexerNext]_lexerVars
  /\ WF_lexerVars(ScanStep) /\ WF_lexerVars(lexer_scan_token)
-----------------------------------------------------------------------------
TokenTypesMade ==
  {"EOF", "eol", "ERROR", "identifier", "int", "real", "string"} \cup Single
  \cup {p[3] : p \in Pairs} \cup {k.type : k \in KeywordCases}

TokenRecords ==
  [type : TokenTypesMade, first : Nat, last : Nat, line : Nat, column : Nat]

\* Type invariant of the lexer.
LexerTypeOK ==
  /\ source \in Sources
  /\ lexer \in [start : Nat, current : Nat, line : Nat, column : Nat]
  /\ pc \in {"idle", "skip", "line_comment", "block_comment", "identifier",
             "number", "fraction", "string", "astray"}
  /\ tokens \in Seq(TokenRecords)
  /\ printed \in Seq(TokenRecords)

(***************************************************************************)
(* No loop of the lexer steps past the terminator, whatever the text is:   *)
(* with one exception, a quote that is the last character of the text.     *)
(***************************************************************************)
StaysInSource ==
  /\ lexer.start <= lexer.current
  /\ pc # "astray" => lexer.current <= End
  /\ pc = "astray" => lexer.start = Len(source) /\ source[lexer.start] = Quote

(***************************************************************************)
(* The tokens made so far come one after the other in the text, none       *)
(* overlaps another, only the end is empty, and after the end there is     *)
(* nothing but the end.                                                    *)
(***************************************************************************)
TokensInOrder ==
  /\ \A i \in 1 .. Len(tokens) :
       /\ tokens[i].first >= 1
       /\ IF tokens[i].type = "EOF"
          THEN tokens[i].first = End /\ tokens[i].last = End - 1
          ELSE tokens[i].first <= tokens[i].last /\ tokens[i].last <= Len(source)
  /\ \A i, j \in 1 .. Len(tokens) : i < j => tokens[i].last < tokens[j].first

(***************************************************************************)
(* What the positions printed in messages really are.  The column of a     *)
(* token is the place of its first character in the whole text (one more   *)
(* for the end, and for each time the end was asked for again), that of an *)
(* error the place of its last; the line counts the ends of line that were *)
(* tokens, an end of line being on the line it begins.                     *)
(***************************************************************************)
PositionsExact ==
  \A i \in 1 .. Len(tokens) :
    /\ tokens[i].line = 1 + Cardinality({j \in 1 .. i : tokens[j].type = "eol"})
    /\ tokens[i].column =
         CASE tokens[i].type = "EOF"   -> tokens[i].first + Cardinality({j \in Ends : j <= i})
           [] tokens[i].type = "ERROR" -> tokens[i].last
           [] OTHER                    -> tokens[i].first

\* The second pass over a source yields the tokens of the first, at the same
\* positions: the messages of the compiler agree with the list that
\* lexer_print printed.
SecondPassRepeats ==
  printed # << >> =>
    \A i \in 1 .. Len(tokens) : i <= Len(printed) => tokens[i] = printed[i]

\* Every loop of the lexer is left, and the users, who ask for tokens
\* until there is no more, reach the end of the text.
EndReached == <>[](Ends # {} \/ pc = "astray")
=============================================================================
