\* Both kinds of literal and the operators whose types differ, tokens that
\* start nothing or continue nothing, one without an infix function, and a
\* lexer that reports errors.
SPECIFICATION ParserSpec
CONSTANTS
  TokenTypes = {"int", "real", "-", "/", "|", "(", ")", "->", "eol"}
  MayFail = TRUE
  MaxTokens = 5
INVARIANTS VerdictExact CrashExplained TypesExact
\* The process may have crashed.
CHECK_DEADLOCK FALSE
