--------------------------------- MODULE VM ---------------------------------
(***************************************************************************)
(* The virtual machine: an operand stack in a growing block of memory and  *)
(* the loop that fetches and executes the bytecode of a chunk.             *)
(*                                                                         *)
(* A pointer is a block and an offset into it.  Block 0 is NULL; moving    *)
(* the stack takes it from block 1 to block 2 or back, so that a pointer   *)
(* that was not recomputed after a reallocation is seen to be stale.       *)
(***************************************************************************)
EXTENDS Chunk

CONSTANTS
  StackMin,  \* SKARD_VM_STACK_MIN_SIZE (256)
  MaxDepth   \* bound: no run starts with this many values on the stack

ASSUME VMAssumption ==
  /\ StackMin \in Nat
  /\ StackMin >= 1
  /\ 16 * StackMin < Word
  /\ MaxDepth \in Nat
  /\ Garbage \notin Values \cup Byte

VARIABLES
  vmState,  \* "ready", "running", the result of the last run, or "undefined"
            \* once the run has left defined behaviour
  ip,       \* offset of the next byte from the start of the code
  stack,    \* the block that holds the stack, with its capacity
  top,      \* stack_top
  output    \* history: what the current or last run dumped

vmVars == <<vmState, ip, stack, top, output>>

EmptyStack == [block |-> 0, capacity |-> 0, data |-> << >>, memory |-> "granted"]

Null == [block |-> 0, offset |-> 0]

StackBase == [block |-> stack.block, offset |-> 0]

Depth == IF top = StackBase THEN 0 ELSE top.offset

GrowStackCapacity(capacity) ==
  IF capacity < StackMin THEN StackMin ELSE (2 * capacity) % Word

\* The block realloc() returns: the old one, or another one.
NewBlocks == IF stack.block = 0 THEN {1} ELSE {1, 2}

\* Mutant: the values on the stack are not moved along.
GrownStack_Fresh(block) ==
  LET capacity == GrowStackCapacity(stack.capacity)
      size     == RequestSize(ValueWidth, capacity)
  IN  [block    |-> block,
       capacity |-> capacity,
       data     |-> Reallocate(<< >>, size, ValueWidth),
       memory   |-> IF size > MaxAlloc THEN "refused" ELSE "granted"]

\* vm_stack_push: the stack with room for one more value, then the store
\* through stack_top, which lands in the stack only if it points there.
GrownStack(block) ==
  LET capacity == GrowStackCapacity(stack.capacity)
      size     == RequestSize(ValueWidth, capacity)
  IN  [block    |-> block,
       capacity |-> capacity,
       data     |-> Reallocate(stack.data, size, ValueWidth),
       memory   |-> IF size > MaxAlloc THEN "refused" ELSE "granted"]

\* Mutant: stack_top keeps pointing into the old block.
RebasedTop_Stale(block) == top

RebasedTop(block) == [block |-> block, offset |-> Depth]

StoreAndAdvance(room, pointer, value) ==
  /\ stack' = IF pointer.block = room.block
              THEN [room EXCEPT !.data[pointer.offset + 1] = value]
              ELSE room
  /\ top' = [pointer EXCEPT !.offset = @ + 1]

vm_stack_push(value) ==
  IF Depth = stack.capacity
  THEN \E block \in NewBlocks :
         /\ GrownStack(block).memory = "granted"
         /\ StoreAndAdvance(GrownStack(block), RebasedTop(block), value)
  ELSE StoreAndAdvance(stack, top, value)

\* vm_stack_pop: the cell stays where it is, the value is what it holds.
vm_stack_pop == top' = [top EXCEPT !.offset = @ - 1]

Popped == stack.data[top.offset]
-----------------------------------------------------------------------------
Idle == status = "running" /\ vmState \in {"ready", "ok", "runtime_error"}

Running == status = "running" /\ vmState = "running"

\* The next n bytes are code; beyond lies memory nobody has written.
InCode(n) == ip + n <= chunk.code.count

Fetch(k) == chunk.code.data[ip + k + 1]

Opcode == IF InCode(1) THEN Fetch(0) ELSE Garbage

\* Mutant: the most significant byte first.
LongIndex_BigEndian == Fetch(3) + Fetch(2) * Base + Fetch(1) * (Base * Base)

\* (vm->ip[-3]) | (vm->ip[-2]) << 8 | (vm->ip[-1]) << 16
LongIndex == Fetch(1) + Fetch(2) * Base + Fetch(3) * (Base * Base)

\* The operand of a constant instruction is there and names a constant.
HasConstant     == InCode(2) /\ Fetch(1) < chunk.constants.count
HasConstantLong == InCode(4) /\ LongIndex < chunk.constants.count

vm_run ==
  /\ Idle
  /\ Depth < MaxDepth
  /\ ip' = 0
  /\ vmState' = "running"
  /\ output' = << >>
  /\ UNCHANGED <<stack, top, chunkVars>>

\* Mutant: the switch is left, but not the loop.
return_Break ==
  /\ Running /\ Opcode = OP_RETURN
  /\ ip' = ip + 1
  /\ UNCHANGED <<vmState, stack, top, output, chunkVars>>

return ==
  /\ Running /\ Opcode = OP_RETURN
  /\ ip' = ip + 1
  /\ vmState' = "ok"
  /\ UNCHANGED <<stack, top, output, chunkVars>>

\* Mutant: the value is printed and stays on the stack.
dump_Peek ==
  /\ Running /\ Opcode = OP_DUMP
  /\ Depth > 0
  /\ ip' = ip + 1
  /\ output' = Append(output, Popped)
  /\ UNCHANGED <<vmState, stack, top, chunkVars>>

dump ==
  /\ Running /\ Opcode = OP_DUMP
  /\ Depth > 0
  /\ ip' = ip + 1
  /\ vm_stack_pop
  /\ output' = Append(output, Popped)
  /\ UNCHANGED <<vmState, stack, chunkVars>>

\* Push constant number index, the instruction being size bytes long.
PushConstant(size, index) ==
  /\ ip' = ip + size
  /\ vm_stack_push(chunk.constants.data[index + 1])
  /\ UNCHANGED <<vmState, output, chunkVars>>

constant ==
  /\ Running /\ Opcode = OP_CONSTANT /\ HasConstant
  /\ PushConstant(2, Fetch(1))

\* Mutant: the operand is skipped one byte short.
constant_long_Short ==
  /\ Running /\ Opcode = OP_CONSTANT_LONG /\ HasConstantLong
  /\ PushConstant(3, LongIndex)

constant_long ==
  /\ Running /\ Opcode = OP_CONSTANT_LONG /\ HasConstantLong
  /\ PushConstant(4, LongIndex)

unknown ==
  /\ Running
  /\ Opcode \notin {Garbage, OP_RETURN, OP_DUMP, OP_CONSTANT, OP_CONSTANT_LONG}
  /\ ip' = ip + 1
  /\ vmState' = "runtime_error"
  /\ UNCHANGED <<stack, top, output, chunkVars>>

\* The loop checks neither the end of the code, nor the depth of the stack,
\* nor the index of a constant: such a step may do anything.
Astray ==
  /\ Running
  /\ \/ Opcode = Garbage
     \/ Opcode = OP_DUMP /\ Depth = 0
     \/ Opcode = OP_CONSTANT /\ ~HasConstant
     \/ Opcode = OP_CONSTANT_LONG /\ ~HasConstantLong
  /\ vmState' = "undefined"
  /\ UNCHANGED <<ip, stack, top, output, chunkVars>>

\* A push whose allocation is refused ends the process.
StackRefused ==
  /\ Running /\ Opcode \in {OP_CONSTANT, OP_CONSTANT_LONG}
  /\ Depth = stack.capacity
  /\ Exit("out_of_memory")
  /\ UNCHANGED vmVars

vm_free ==
  /\ Idle
  /\ stack' = EmptyStack
  /\ top' = Null
  /\ UNCHANGED <<vmState, ip, output, chunkVars>>

VMInit ==
  /\ vmState = "ready"
  /\ ip = 0
  /\ stack = EmptyStack
  /\ top = Null
  /\ output = << >>

\* One iteration of vm_loop.
vm_loop ==
  return \/ dump \/ constant \/ constant_long \/ unknown \/ Astray \/ StackRefused

VMNext == vm_run \/ vm_loop \/ vm_free
=============================================================================
