\* Is every child there when the tree is printed?
SPECIFICATION ParserSpec
CONSTANTS
  TokenTypes = {"int", "+", "(", ")"}
  MayFail = FALSE
  MaxTokens = 3
INVARIANT ChildrenPresent
\* The process may have crashed.
CHECK_DEADLOCK FALSE
