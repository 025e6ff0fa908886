\* Comments, numbers, names and lines in all texts of up to six characters,
\* operators, keywords and their neighbours, and strings.
SPECIFICATION LexerSpec
CONSTANTS
  Sources <- Lexemes
  MaxEnds = 2
INVARIANTS LexerTypeOK StaysInSource TokensInOrder SecondPassRepeats PositionsExact
PROPERTIES ImplementsScanner EndReached
\* The source ends; with a quote at its end, the process may go astray.
CHECK_DEADLOCK FALSE
