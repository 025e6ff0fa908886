-------------------------------- MODULE Chunk --------------------------------
(***************************************************************************)
(* A chunk: bytecode, its constant pool, and for every byte of the code    *)
(* the source line (run-length encoded) and column it comes from.  The     *)
(* embedding program writes instructions into it, reads it back, runs it   *)
(* and frees it.                                                           *)
(***************************************************************************)
EXTENDS Memory

CONSTANTS
  Values,        \* what a constant can be (a tagged Real or Int)
  Lines,         \* source lines and
  Columns,       \* columns handed to the write functions
  Base,          \* number of values of a code byte (256)
  RawBytes,      \* the bytes the embedder writes one at a time
  MaxConstants,  \* SKARD_MAX_CHUNK_CONSTANTS (2^24)
  MaxBytes       \* bound: no write starts once the code is this long

ASSUME ChunkAssumption ==
  /\ Base \in Nat
  /\ Base >= 4
  /\ RawBytes \subseteq 0 .. (Base - 1)
  /\ MaxConstants \in Nat
  /\ MaxConstants <= Base * Base * Base
  /\ MaxBytes \in Nat
  /\ Lines \subseteq Nat
  /\ Columns \subseteq Nat

VARIABLES
  chunk,    \* the Chunk struct: four growable arrays
  status,   \* "running", or why the process exited
  written   \* history: every byte written, with the position given for it

chunkVars == <<chunk, status, written>>

OP_RETURN == 0
OP_DUMP == 1
OP_CONSTANT == 2
OP_CONSTANT_LONG == 3

Byte == 0 .. (Base - 1)

EmptyChunk ==
  [code |-> EmptyArray, constants |-> EmptyArray,
   lines |-> EmptyArray, columns |-> EmptyArray]

(***************************************************************************)
(* debug_info_add_line: lines holds <line, run length> pairs; extend the   *)
(* last run or open a new one.  The capacity test is the code's: it        *)
(* compares the capacity with itself.                                      *)
(***************************************************************************)
AddLine(lines, line) ==
  IF lines.capacity # 0 /\ lines.data[lines.count - 1] = line
  THEN Stored(lines, lines.count, [lines.data EXCEPT ![lines.count] = @ + 1])
  ELSE LET room == IF lines.capacity < (lines.capacity + 2) % Word
                   THEN Grown(lines, SizeWidth) ELSE lines
       IN  Stored(room, lines.count + 2,
                  [room.data EXCEPT ![lines.count + 1] = line,
                                    ![lines.count + 2] = 1])

AddColumn(columns, column) == Push(columns, SizeWidth, column)

\* chunk_write_byte, with debug_info_add.
WriteByte(c, byte, line, column) ==
  [code      |-> Push(c.code, ByteWidth, byte),
   constants |-> c.constants,
   lines     |-> AddLine(c.lines, line),
   columns   |-> AddColumn(c.columns, column)]

\* Mutant: an index that does not fit is given one byte.
Encoding_OneTooMany(index) ==
  IF index <= Base
  THEN <<OP_CONSTANT, index % Base>>
  ELSE <<OP_CONSTANT_LONG, index % Base, (index \div Base) % Base,
         (index \div (Base * Base)) % Base>>

\* The bytes chunk_write_op_constant emits for constant number index.
Encoding(index) ==
  IF index <= Base - 1
  THEN <<OP_CONSTANT, index % Base>>
  ELSE <<OP_CONSTANT_LONG, index % Base, (index \div Base) % Base,
         (index \div (Base * Base)) % Base>>

\* chunk_write_op_constant once the index is known to be small enough.
WriteOpConstant(c, value, line, column) ==
  LET index == c.constants.count
      bytes == Encoding(index)
      added == [c EXCEPT !.constants = Push(@, ValueWidth, value)]
      first == WriteByte(WriteByte(added, bytes[1], line, column),
                         bytes[2], line, column)
  IN  IF Len(bytes) = 2 THEN first
      ELSE WriteByte(WriteByte(first, bytes[3], line, column),
                     bytes[4], line, column)

\* Mutant: a run is taken to hold one more byte than it does.
ReadLine_RunTooLong(lines, offset) ==
  LET read[at \in Nat \X Nat] ==
        LET pos == at[1] rest == at[2] run == lines.data[pos * 2 + 2]
        IN  IF pos * 2 >= lines.count THEN 0
            ELSE IF rest > run THEN read[<<pos + 1, rest - run>>]
            ELSE lines.data[pos * 2 + 1]
  IN  read[<<0, offset>>]

(***************************************************************************)
(* debug_info_read_line: walk the runs, taking off their lengths from the  *)
(* offset, until the run that holds it; 0 when there is none.              *)
(***************************************************************************)
ReadLine(lines, offset) ==
  LET read[at \in Nat \X Nat] ==
        LET pos == at[1] rest == at[2] run == lines.data[pos * 2 + 2]
        IN  IF pos * 2 >= lines.count THEN 0
            ELSE IF rest >= run THEN read[<<pos + 1, rest - run>>]
            ELSE lines.data[pos * 2 + 1]
  IN  read[<<0, offset>>]

\* debug_info_read_column.
ReadColumn(columns, offset) == columns.data[offset + 1]
-----------------------------------------------------------------------------
Parts == {"code", "constants", "lines", "columns"}

\* Mutant: nobody checks the block for the lines.
Denied_LinesUnchecked(c) ==
  \E part \in Parts \ {"lines"} : c[part].memory = "refused"

Denied(c) == \E part \in Parts : c[part].memory = "refused"

Reallocated(c, d) == \E part \in Parts : c[part].capacity # d[part].capacity

Exit(reason) == status' = reason /\ UNCHANGED <<chunk, written>>

(***************************************************************************)
(* A write turns chunk into d unless one of the allocations it needs is    *)
(* refused: the allocator must refuse what is too large and may refuse     *)
(* anything, and reallocate() then calls error_not_enough_memory.          *)
(***************************************************************************)
Update(d, log) ==
  \/ /\ ~Denied(d)
     /\ chunk' = d
     /\ written' = written \o log
     /\ UNCHANGED status
  \/ /\ Reallocated(chunk, d)
     /\ Exit("out_of_memory")

LogOf(bytes, line, column) ==
  [i \in 1 .. Len(bytes) |->
     [byte |-> bytes[i], line |-> line, column |-> column]]

CanWrite == status = "running" /\ chunk.code.count < MaxBytes

chunk_write_byte(byte, line, column) ==
  /\ CanWrite
  /\ Update(WriteByte(chunk, byte, line, column),
            LogOf(<<byte>>, line, column))

\* Mutant: one constant more than the limit is let through.
chunk_write_op_constant_LimitLate(value, line, column) ==
  /\ CanWrite
  /\ IF chunk.constants.count > MaxConstants
     THEN LET added == Push(chunk.constants, ValueWidth, value)
          IN  \/ added.memory = "granted" /\ Exit("too_many_constants")
              \/ IsFull(chunk.constants) /\ Exit("out_of_memory")
     ELSE Update(WriteOpConstant(chunk, value, line, column),
                 LogOf(Encoding(chunk.constants.count), line, column))

chunk_write_op_constant(value, line, column) ==
  /\ CanWrite
  /\ IF chunk.constants.count >= MaxConstants
     THEN LET added == Push(chunk.constants, ValueWidth, value)
          IN  \/ added.memory = "granted" /\ Exit("too_many_constants")
              \/ IsFull(chunk.constants) /\ Exit("out_of_memory")
     ELSE Update(WriteOpConstant(chunk, value, line, column),
                 LogOf(Encoding(chunk.constants.count), line, column))

\* chunk_free releases every block and leaves an initialised chunk.
chunk_free ==
  /\ status = "running"
  /\ chunk' = EmptyChunk
  /\ written' = << >>
  /\ UNCHANGED status

ChunkInit ==
  /\ chunk = EmptyChunk
  /\ status = "running"
  /\ written = << >>

ChunkNext ==
  \/ \E line \in Lines, column \in Columns :
       \/ \E byte \in RawBytes : chunk_write_byte(byte, line, column)
       \/ \E value \in Values : chunk_write_op_constant(value, line, column)
  \/ chunk_free

ChunkSpec == ChunkInit /\ [][ChunkNext]_chunkVars
-----------------------------------------------------------------------------
ArrayOf(S) ==
  [count : Nat, capacity : Nat, data : Seq(S \cup {Garbage}), memory : {"granted"}]

\* Type invariant of the chunk: what each C array may hold.
ChunkTypeOK ==
  /\ chunk \in [code : ArrayOf(Byte), constants : ArrayOf(Values),
                lines : ArrayOf(Nat), columns : ArrayOf(Columns)]
  /\ status \in {"running", "out_of_memory", "too_many_constants"}
  /\ written \in Seq([byte : Byte, line : Lines, column : Columns])

(***************************************************************************)
(* Every array owns the block its struct says it owns, and everything it   *)
(* counts lies inside that block.  The size computation of                 *)
(* SKARD_GROW_ARRAY therefore never wrapped around, not even to the size 0 *)
(* that reallocate() answers with a silent NULL.  (A store outside the     *)
(* block leaves data alone while count moves on, so it shows here.)        *)
(***************************************************************************)
MemorySafe ==
  \A part \in Parts :
     /\ chunk[part].count <= chunk[part].capacity
     /\ chunk[part].capacity = Len(chunk[part].data)

(***************************************************************************)
(* What the VM fetches and the disassembler reads is what was written: the *)
(* byte at every offset, and its column by debug_info_read_column, through *)
(* every reallocation of the two arrays.                                   *)
(***************************************************************************)
Logged(c, log) ==
  /\ c.code.count = Len(log)
  /\ c.columns.count = Len(log)
  /\ \A i \in 1 .. Len(log) :
       /\ log[i].byte = c.code.data[i]
       /\ log[i].column = ReadColumn(c.columns, i - 1)

ReadBack == Logged(chunk, written)

(***************************************************************************)
(* debug_info_read_line recovers the line of every byte from the run       *)
(* lengths, and answers 0 past the last byte.                              *)
(***************************************************************************)
LinesReadBack ==
  /\ \A i \in 1 .. Len(written) :
       written[i].line = ReadLine(chunk.lines, i - 1)
  /\ ReadLine(chunk.lines, Len(written)) = 0

\* Doubling when full never leaves more than half of a buffer unused.
Frugal(array) == array.capacity <= MinCapacity \/ array.capacity <= 2 * array.count

\* The code, the constant pool and the columns (chunk_write_byte,
\* value_array_add, debug_info_add_column) grow in proportion to their use.
WasteBounded ==
  \A part \in Parts \ {"lines"} : Frugal(chunk[part])

\* The same for the lines, whose capacity test (debug_info_add_line) ought
\* to make room only when the two cells of a new run do not fit.
LinesFrugal == Frugal(chunk.lines)
=============================================================================
