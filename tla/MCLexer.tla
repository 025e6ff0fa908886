------------------------------ MODULE MCLexer ------------------------------
(***************************************************************************)
(* Model-checking instance of Lexer: the texts to scan, what the lexer     *)
(* implements, and what the repository says of tokens that is not so.      *)
(***************************************************************************)
EXTENDS Lexer

Texts(characters, length) == UNION {[1 .. n -> characters] : n \in 0 .. length}

\* Comments, numbers, names, blanks and lines; longer ones for what may be in
\* and follow a comment, and a number.
Shapes ==
  Texts({"a", "1", ".", "/", "*", "\n", " "}, 4)
  \cup Texts({"a", "/", "*", "\n"}, 6) \cup Texts({"a", "1", ".", "\n", " "}, 5)

\* The operators, without a - before a = , and a character that is no token.
Symbols ==
  {s \in Texts({"(", "+", "-", "*", "/", "!", "=", ">", "<", "|", "&", "#"}, 3) :
     \A i \in 1 .. Len(s) - 1 : s[i] # "-" \/ s[i + 1] # "="}

Spellings == {k.prefix \o k.rest : k \in KeywordCases}

\* Each keyword, what remains when its end is cut off, what it becomes with
\* one more character, and with another one in each place.
Words ==
  UNION {   {SubSeq(w, 1, n) : n \in 0 .. Len(w)}
         \cup {Append(w, c) : c \in {"e", "_", "0", " ", "."}}
         \cup {<<c>> \o w : c \in {"f", " ", "0"}}
         \cup {[w EXCEPT ![i] = c] : i \in 1 .. Len(w), c \in {"e", "f", "t", "x"}} :
         w \in Spellings}

\* Strings that are empty, not closed on their line or not closed in the text:
\* the ones that the lexer does not cut short.
ShortStrings ==
  LET pieces == {<< >>, <<Quote, Quote>>, <<Quote, "\n">>, <<"a">>, <<" ">>, <<"\n">>}
  IN  {a \o b \o c : a \in pieces, b \in pieces, c \in pieces \cup {<<Quote>>}}

Lexemes == Shapes \cup Symbols \cup Words \cup ShortStrings

\* Strings, where the end of the text, a line or another quote may follow.
Strings == Texts({Quote, "a", "\n", " "}, 5)

\* A text whose only minus and equals signs stand together.
Assignment == {<<"a", "-", "=", "1">>}
-----------------------------------------------------------------------------
Abstract ==
  INSTANCE Scanner
    WITH tokens <- [i \in 1 .. Len(tokens) |->
                      [type  |-> tokens[i].type,
                       first |-> tokens[i].first,
                       last  |-> tokens[i].last]]

\* The character loops of the lexer cut a text exactly as the scanner does:
\* blanks and comments dropped, the longest lexeme taken, its type right.
ImplementsScanner == Abstract!ScannerSpec
-----------------------------------------------------------------------------
\* lexer.c:284 reports an "Unterminated string literal", so what is a string
\* literal must end with a quote as it began with one.
StringsClosed ==
  \A i \in 1 .. Len(tokens) :
    tokens[i].type = "string" =>
      /\ tokens[i].first < tokens[i].last
      /\ source[tokens[i].first] = Quote /\ source[tokens[i].last] = Quote

\* lexer.h:15 lists TOKEN_MINUS_ASSIGN between the tokens of + and of ->, so
\* a - and a = in a row are that token.
MinusAssign ==
  \A i \in 1 .. Len(tokens) :
    SubSeq(source, tokens[i].first, tokens[i].last) = <<"-", "=">> =>
      tokens[i].type = "-="
=============================================================================
