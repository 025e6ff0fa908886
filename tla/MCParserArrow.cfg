\* Which operators does the loop meet at the level of + and -?
SPECIFICATION ParserSpec
CONSTANTS
  TokenTypes = {"int", "+", "->"}
  MayFail = FALSE
  MaxTokens = 3
INVARIANT TermOperatorsListed
\* The process may have crashed.
CHECK_DEADLOCK FALSE
