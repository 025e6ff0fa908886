\* What the repository says of tokens, against what the lexer makes.
SPECIFICATION LexerSpec
CONSTANTS
  Sources <- Assignment
  MaxEnds = 1
INVARIANTS MinusAssign
\* The source ends; with a quote at its end, the process may go astray.
CHECK_DEADLOCK FALSE
