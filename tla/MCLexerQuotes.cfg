\* What the repository says of tokens, against what the lexer makes.
SPECIFICATION LexerSpec
CONSTANTS
  Sources <- Strings
  MaxEnds = 1
INVARIANTS StringsClosed
\* The source ends; with a quote at its end, the process may go astray.
CHECK_DEADLOCK FALSE
