----------------------------- MODULE MCCompiler -----------------------------
(***************************************************************************)
(* Model-checking instance of Compiler: the texts.                         *)
(***************************************************************************)
EXTENDS Compiler

Texts(characters, length) == UNION {[1 .. n -> characters] : n \in 0 .. length}

\* Expressions, with comments in all places of the short ones.
Formulas ==
  Texts({"1", ".", "+", "*", "(", ")", "/"}, 4)
  \cup {a \o comment \o b : a \in Texts({"1", "+", "*"}, 2), b \in Texts({"1", "+"}, 2),
                           comment \in {<<"/", "*", "*", "/">>, <<"/", "/">>, <<"/", "*">>}}

\* What may follow the digits of a number.
Numerals == Texts({"1", ".", "e", "+"}, 5)

\* Strings, where the end of the text, a line or another quote may follow.
Strings == Texts({Quote, "1", "\n"}, 3)

\* Texts that succeed and fail in different places.
Mixed ==
  {<<"1">>, <<"1", "+">>, <<"#", "1">>, <<"+", "1", " ">>, <<"(", "1">>, << >>,
   <<"1", "\n">>, <<"#", "#">>, <<"1", "#">>}

AllTexts == Formulas \cup Numerals \cup Strings \cup Mixed
=============================================================================
