\* Short programs over every kind of instruction, run again and again on
\* a stack that starts at one cell and moves as it grows.
SPECIFICATION RuntimeSpec
CONSTANTS
  Word = 512
  MaxAlloc = 255
  MinCapacity = 2
  Garbage = Garbage
  NoValue = NoValue
  Values = {v1, v2}
  Lines = {1}
  Columns = {1}
  Base = 5
  RawBytes = {0, 1, 4}
  MaxConstants = 64
  MaxBytes = 4
  StackMin = 1
  MaxDepth = 2
INVARIANTS RuntimeTypeOK StackPointerValid
PROPERTIES ImplementsInterpreter BalancedRunsReturn
\* The process may have exited, or the machine gone wrong.
CHECK_DEADLOCK FALSE
