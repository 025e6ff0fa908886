\* All sources over literals, one operator of each level and parentheses.
SPECIFICATION ParserSpec
CONSTANTS
  TokenTypes = {"int", "+", "*", "(", ")"}
  MayFail = FALSE
  MaxTokens = 7
INVARIANTS ParserTypeOK OwnedOnce FreedOnce VerdictExact TreeIsDerivation
PROPERTIES CompilationEnds
\* The process may have crashed.
CHECK_DEADLOCK FALSE
