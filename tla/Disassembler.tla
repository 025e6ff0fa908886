---------------------------- MODULE Disassembler ----------------------------
(***************************************************************************)
(* debug.c: reading a chunk back, instruction by instruction.  The module  *)
(* is pure; what the C code prints is the value of Listing.                *)
(***************************************************************************)
EXTENDS Chunk

CONSTANT NoValue  \* stands for the absent operand of a simple instruction

At(c, offset) == c.code.data[offset + 1]

\* The index a constant instruction refers to (one byte, or three bytes
\* with the least significant first).
Operand(c, offset) ==
  IF At(c, offset) = OP_CONSTANT THEN At(c, offset + 1)
  ELSE At(c, offset + 1) + At(c, offset + 2) * Base
         + At(c, offset + 3) * (Base * Base)

\* What disassemble_instruction returns minus its argument.
Size(opcode) ==
  CASE opcode = OP_CONSTANT      -> 2
    [] opcode = OP_CONSTANT_LONG -> 4
    [] OTHER                     -> 1

\* One line of the listing: position, opcode and the value of the operand.
Instruction(c, offset) ==
  LET opcode == At(c, offset)
  IN  [op     |-> IF Size(opcode) = 4 THEN OP_CONSTANT ELSE opcode,
       value  |-> IF Size(opcode) = 1 THEN NoValue
                  ELSE c.constants.data[Operand(c, offset) + 1],
       line   |-> ReadLine(c.lines, offset),
       column |-> ReadColumn(c.columns, offset)]

\* The offsets disassemble_chunk visits.
Offsets(c) ==
  LET visit[offset \in Nat] ==
        IF offset >= c.code.count THEN << >>
        ELSE <<offset>> \o visit[offset + Size(At(c, offset))]
  IN  visit[0]

Listing(c) ==
  LET offsets == Offsets(c)
  IN  [k \in 1 .. Len(offsets) |-> Instruction(c, offsets[k])]
=============================================================================
