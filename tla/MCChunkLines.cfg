\* Does the array of lines grow only as it is used?
SPECIFICATION ChunkSpec
CONSTANTS
  Word = 512
  MaxAlloc = 255
  MinCapacity = 8
  Garbage = Garbage
  Values = {v1, v2}
  Lines = {1, 2}
  Columns = {0, 1}
  Base = 4
  RawBytes = {0, 1}
  MaxConstants = 64
  MaxBytes = 5
SYMMETRY Symmetry
INVARIANT LinesFrugal
\* The process may have exited.
CHECK_DEADLOCK FALSE
