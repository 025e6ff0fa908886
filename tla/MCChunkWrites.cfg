\* Chunks of up to fifteen bytes in two lines: up to five line runs, the fifth
\* of which asks for more memory than there is, one-byte and three-byte
\* operands, and the limit on constants.
SPECIFICATION ChunkSpec
CONSTANTS
  Word = 512
  MaxAlloc = 255
  MinCapacity = 2
  Garbage = Garbage
  Values = {v1}
  Lines = {1, 2}
  Columns = {1}
  Base = 4
  RawBytes = {1}
  MaxConstants = 5
  MaxBytes = 13
INVARIANTS ChunkTypeOK MemorySafe LinesReadBack ReadBack WasteBounded
\* The process may have exited.
CHECK_DEADLOCK FALSE
