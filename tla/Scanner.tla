------------------------------- MODULE Scanner -------------------------------
(***************************************************************************)
(* What a lexer of Skard promises, independently of how it reads: it cuts  *)
(* a text into tokens from left to right, drops the blanks and comments in *)
(* front of each, and takes the longest lexeme there is at each place.     *)
(* The operators and keywords are those lexer.h lists.                     *)
(***************************************************************************)
EXTENDS Integers, Sequences, FiniteSetsExt

VARIABLES
  source,  \* the text, a sequence of characters
  tokens   \* the tokens delivered: a type and the extent of the lexeme

Letters ==
  {"a", "b", "c", "d", "e", "f", "g", "h", "i", "j", "k", "l", "m", "n", "o",
   "p", "q", "r", "s", "t", "u", "v", "w", "x", "y", "z",
   "A", "B", "C", "D", "E", "F", "G", "H", "I", "J", "K", "L", "M", "N", "O",
   "P", "Q", "R", "S", "T", "U", "V", "W", "X", "Y", "Z", "_"}
Digits == {"0", "1", "2", "3", "4", "5", "6", "7", "8", "9"}
Blanks == {" ", "\r", "\t"}
Quote  == "\""

\* The type of a token is named by its spelling.
Operators ==
  {[type |-> c, spelling |-> <<c>>] :
     c \in {"(", ")", "{", "}", "[", "]", ".", ",", ":", "+", "-", "*", "/",
            "@", "!", "=", ">", "<", "|"}}
  \cup {[type |-> "+=", spelling |-> <<"+", "=">>],
        [type |-> "-=", spelling |-> <<"-", "=">>],
        [type |-> "->", spelling |-> <<"-", ">">>],
        [type |-> "*=", spelling |-> <<"*", "=">>],
        [type |-> "/=", spelling |-> <<"/", "=">>],
        [type |-> "!=", spelling |-> <<"!", "=">>],
        [type |-> "==", spelling |-> <<"=", "=">>],
        [type |-> ">=", spelling |-> <<">", "=">>],
        [type |-> "<=", spelling |-> <<"<", "=">>],
        [type |-> "|>", spelling |-> <<"|", ">">>],
        [type |-> "||", spelling |-> <<"|", "|">>],
        [type |-> "&&", spelling |-> <<"&", "&">>]}

Keywords ==
  {[type |-> "package", spelling |-> <<"p", "a", "c", "k", "a", "g", "e">>],
   [type |-> "import",  spelling |-> <<"i", "m", "p", "o", "r", "t">>],
   [type |-> "struct",  spelling |-> <<"s", "t", "r", "u", "c", "t">>],
   [type |-> "self",    spelling |-> <<"s", "e", "l", "f">>],
   [type |-> "let",     spelling |-> <<"l", "e", "t">>],
   [type |-> "nil",     spelling |-> <<"n", "i", "l">>],
   [type |-> "fn",      spelling |-> <<"f", "n">>],
   [type |-> "return",  spelling |-> <<"r", "e", "t", "u", "r", "n">>],
   [type |-> "if",      spelling |-> <<"i", "f">>],
   [type |-> "else",    spelling |-> <<"e", "l", "s", "e">>],
   [type |-> "while",   spelling |-> <<"w", "h", "i", "l", "e">>],
   [type |-> "for",     spelling |-> <<"f", "o", "r">>],
   [type |-> "true",    spelling |-> <<"t", "r", "u", "e">>],
   [type |-> "false",   spelling |-> <<"f", "a", "l", "s", "e">>],
   [type |-> "match",   spelling |-> <<"m", "a", "t", "c", "h">>],
   [type |-> "with",    spelling |-> <<"w", "i", "t", "h">>],
   [type |-> "dump",    spelling |-> <<"d", "u", "m", "p">>]}
-----------------------------------------------------------------------------
At(place, spelling) ==
  /\ place + Len(spelling) - 1 <= Len(source)
  /\ SubSeq(source, place, place + Len(spelling) - 1) = spelling

(***************************************************************************)
(* Where the blank or comment at a place ends.  A line comment ends before *)
(* the end of its line, a block comment after the first */ whose * is the  *)
(* one that opened it or a later one, and both at the end of the text.     *)
(***************************************************************************)
AfterInsignificant(place) ==
  LET end == Len(source) + 1
  IN  CASE At(place, <<"/", "/">>) ->
             Min({q \in place .. end - 1 : source[q] = "\n"} \cup {end})
        [] At(place, <<"/", "*">>) ->
             Min({q + 2 : q \in {p \in place + 1 .. end - 1 : At(p, <<"*", "/">>)}}
                 \cup {end})
        [] OTHER -> IF place < end /\ source[place] \in Blanks THEN place + 1 ELSE place

NextSignificant(place) ==
  LET skip[p \in 1 .. Len(source) + 1] ==
        IF AfterInsignificant(p) = p THEN p ELSE skip[AfterInsignificant(p)]
  IN  skip[place]

All(first, last, characters) == \A i \in first .. last : source[i] \in characters

WordType(first, last) ==
  LET named == {k \in Keywords : SubSeq(source, first, last) = k.spelling}
  IN  IF named = {} THEN "identifier" ELSE (CHOOSE k \in named : TRUE).type

\* The lexemes that begin at a place of the text, the error of a place where
\* none does, and the end.
Lexemes(first) ==
  LET places == first .. Len(source)
      IsReal(last) == \E dot \in first + 1 .. last :
                        /\ source[dot] = "."
                        /\ All(first, dot - 1, Digits) /\ All(dot + 1, last, Digits)
  IN  {[type |-> "eol", last |-> p] : p \in {q \in {first} : source[q] = "\n"}}
      \cup {[type |-> WordType(first, p), last |-> p] :
              p \in {q \in places : source[first] \in Letters /\
                                    All(first, q, Letters \cup Digits)}}
      \cup {[type |-> "int", last |-> p] : p \in {q \in places : All(first, q, Digits)}}
      \cup {[type |-> "real", last |-> p] : p \in {q \in places : IsReal(q)}}
      \cup {[type |-> "string", last |-> p] :
              p \in {q \in places : /\ q > first /\ source[first] = Quote /\ source[q] = Quote
                                    /\ \A i \in first + 1 .. q - 1 :
                                         source[i] \notin {Quote, "\n"}}}
      \cup {[type |-> op.type, last |-> first + Len(op.spelling) - 1] :
              op \in {o \in Operators : At(first, o.spelling)}}

Longest(first) ==
  CASE first > Len(source)  -> [type |-> "EOF", last |-> Len(source)]
    [] OTHER -> IF Lexemes(first) = {} THEN [type |-> "ERROR", last |-> first]
                ELSE CHOOSE l \in Lexemes(first) : \A m \in Lexemes(first) : m.last <= l.last
-----------------------------------------------------------------------------
Consumed == IF tokens = << >> THEN 0 ELSE tokens[Len(tokens)].last

Deliver ==
  LET first == NextSignificant(Consumed + 1)
  IN  tokens' = Append(tokens, [type  |-> Longest(first).type,
                                first |-> first,
                                last  |-> Longest(first).last])

StartAgain == tokens' = << >>

ScannerNext == (Deliver \/ StartAgain) /\ UNCHANGED source

scannerVars == <<source, tokens>>

ScannerInit == tokens = << >>

ScannerSpec == ScannerInit /\ [][ScannerNext]_scannerVars
=============================================================================
