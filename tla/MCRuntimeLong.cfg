\* Programs of constants only, from the first three-byte operands to indices
\* whose three bytes differ; runs push them all and go past the end.  Then
\* on to the limit, all that three bytes can tell apart, and one too many.
SPECIFICATION LongSpec
CONSTANTS
  Word = 8192
  MaxAlloc = 4095
  MinCapacity = 2
  Garbage = Garbage
  NoValue = NoValue
  Values = {v1, v2}
  Lines = {1}
  Columns = {1}
  Base = 4
  RawBytes = {}
  MaxConstants = 64
  MaxBytes = 256
  StackMin = 1
  MaxDepth = 1
  ShortProgram = 8
INVARIANTS AtBoundary
PROPERTIES ImplementsInterpreter ConstantsDecode
\* The process may have exited, or the machine gone wrong.
CHECK_DEADLOCK FALSE
