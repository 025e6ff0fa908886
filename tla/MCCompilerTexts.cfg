\* Expressions with comments, what may follow the digits of a number, strings,
\* and texts that fail, alone or two of them one after the other.
SPECIFICATION CompilerSpec
CONSTANTS
  Sources <- AllTexts
  MaxEnds = 4
  TokenTypes = {"int", "real", "identifier", "+", "*", "/", "(", ")", ".", "string", "eol"}
  MayFail = TRUE
  MaxTokens = 20
  Word = 64
  MaxTexts = 2
  MaxCharacters = 3
INVARIANTS PositionsExact VerdictOfText LiteralsReadWhole BlockHoldsText
PROPERTIES CallsReturn
\* The process may have exited, crashed or gone astray.
CHECK_DEADLOCK FALSE
