---------------------------- MODULE RuntimeProofs ----------------------------
(***************************************************************************)
(* Proofs about the runtime: the chunk's invariant, kept by the machine,   *)
(* joined with the shape of the operand stack, and the runtime as an       *)
(* implementation of Interpreter.  That the machine pushes only values     *)
(* needs that the operands it decodes are inside of the code, that code    *)
(* cells hold what was written, and that the cells of the constant pool    *)
(* below its count hold values.                                            *)
(***************************************************************************)
EXTENDS Runtime, ChunkProofs, FiniteSetTheorems

\* The constants in use have been stored.
PoolInv == \A i \in 1 .. chunk.constants.count : chunk.constants.data[i] \in Values

\* The block of the stack was granted and is as large as the struct says,
\* stack_top points into it, and what lies below was pushed.
StackInv ==
  /\ stack \in [block : 0 .. 2, capacity : Nat,
                data : Seq(Values \cup {Garbage}), memory : {"granted"}]
  /\ top \in [block : 0 .. 2, offset : Nat]
  /\ top.block = stack.block
  /\ top.offset <= stack.capacity
  /\ stack.capacity = Len(stack.data)
  /\ ValueWidth * stack.capacity <= MaxAlloc
  /\ \A i \in 1 .. top.offset : stack.data[i] \in Values

MachineInv ==
  /\ vmState \in {"ready", "running", "ok", "runtime_error", "undefined"}
  /\ ip \in Nat
  /\ output \in Seq(Values)

RInv == IInv /\ PoolInv /\ StackInv /\ MachineInv
-----------------------------------------------------------------------------
\* The invariant says of the four arrays what the embedder and the machine
\* need to know of them.
LEMMA PoolIsArray ==
  IInv => /\ ArrayInv(chunk.constants, Values, ValueWidth)
          /\ chunk.constants.count \in Nat
          /\ chunk.constants.memory = "granted"
  BY DEF IInv, ChunkInv, ArrayInv, ArrayOf

\* chunk_write_op_constant puts the value behind the constants there were.
LEMMA ConstantStored ==
  ASSUME IInv, NEW value, value \in Values, NEW line, NEW column,
         ~Denied(WriteOpConstant(chunk, value, line, column))
  PROVE  LET added == WriteOpConstant(chunk, value, line, column).constants
         IN  /\ added.count = chunk.constants.count + 1
             /\ added.data[chunk.constants.count + 1] = value
             /\ \A i \in 1 .. chunk.constants.count :
                  added.data[i] = chunk.constants.data[i]
<1> DEFINE pool == Push(chunk.constants, ValueWidth, value)
           added == WriteOpConstant(chunk, value, line, column).constants
<1>1. added = pool
  <2>1. /\ chunk = [code |-> chunk.code, constants |-> chunk.constants,
                    lines |-> chunk.lines, columns |-> chunk.columns]
    BY DEF IInv, ChunkInv
  <2> HIDE DEF pool
  <2>2. [chunk EXCEPT !.constants = pool].constants = pool
    BY <2>1
  <2> QED BY <2>2 DEF WriteOpConstant, WriteByte, pool
<1>2. pool.memory = "granted"
  <2>1. pool.memory # "refused"
    BY <1>1 DEF Denied, Parts
  <2> QED BY <2>1, PoolIsArray DEF Push, Stored, Grown
<1>3. /\ pool.count = chunk.constants.count + 1
      /\ pool.data[chunk.constants.count + 1] = value
      /\ \A i \in 1 .. chunk.constants.count : pool.data[i] = chunk.constants.data[i]
  <2>1. ValueWidth \in Widths
    BY DEF Widths
  <2>2. ArrayInv(chunk.constants, Values, ValueWidth)
    BY PoolIsArray
  <2>3. Push(chunk.constants, ValueWidth, value).memory = "granted"
    BY <1>2
  <2> HIDE DEF pool
  <2>4. /\ Push(chunk.constants, ValueWidth, value).count = chunk.constants.count + 1
        /\ Push(chunk.constants, ValueWidth, value).data[chunk.constants.count + 1] = value
        /\ \A i \in 1 .. chunk.constants.count :
             Push(chunk.constants, ValueWidth, value).data[i] = chunk.constants.data[i]
    <3>1. chunk.constants.count \in Nat
      BY PoolIsArray
    <3> QED BY <2>1, <2>2, <2>3, <3>1, PushProperties DEF ArrayInv
  <2> QED BY <2>4 DEF pool
<1> HIDE DEF pool
<1> QED BY <1>1, <1>3

\* value_array_add puts a value behind those that are there.
LEMMA PoolKept == IInv /\ PoolInv /\ [ChunkNext]_chunkVars => PoolInv'
<1> SUFFICES ASSUME IInv, PoolInv, [ChunkNext]_chunkVars PROVE PoolInv'
  OBVIOUS
<1>1. CASE UNCHANGED chunk.constants
  BY <1>1 DEF PoolInv
<1>2. ASSUME UNCHANGED chunk PROVE PoolInv'
  BY <1>1, <1>2
<1>3. ASSUME NEW line \in Lines, NEW column \in Columns, NEW byte \in RawBytes,
             chunk_write_byte(byte, line, column)
      PROVE  PoolInv'
  <2>1. CASE chunk' = WriteByte(chunk, byte, line, column)
    BY <1>1, <2>1 DEF WriteByte
  <2>2. CASE UNCHANGED chunk
    BY <1>2, <2>2
  <2> QED BY <1>3, <2>1, <2>2 DEF chunk_write_byte, Update, Exit
<1>4. ASSUME NEW line \in Lines, NEW column \in Columns, NEW value \in Values,
             chunk_write_op_constant(value, line, column)
      PROVE  PoolInv'
  <2>1. CASE /\ ~Denied(WriteOpConstant(chunk, value, line, column))
             /\ chunk' = WriteOpConstant(chunk, value, line, column)
    <3>1. /\ chunk'.constants.count = chunk.constants.count + 1
          /\ chunk'.constants.data[chunk.constants.count + 1] = value
          /\ \A i \in 1 .. chunk.constants.count :
               chunk'.constants.data[i] = chunk.constants.data[i]
      BY <2>1, ConstantStored
    <3> QED BY <3>1, PoolIsArray DEF PoolInv
  <2>2. CASE UNCHANGED chunk
    BY <1>2, <2>2
  <2> QED BY <1>4, <2>1, <2>2 DEF chunk_write_op_constant, Update, Exit
<1>5. CASE chunk_free
  BY <1>5 DEF chunk_free, EmptyChunk, EmptyArray, PoolInv
<1>6. CASE UNCHANGED chunkVars
  BY <1>2, <1>6 DEF chunkVars
<1> QED
  BY <1>3, <1>4, <1>5, <1>6 DEF ChunkNext

\* What the machine fetches inside of the code is a byte that was written.
LEMMA FetchIsByte ==
  ASSUME IInv, ip \in Nat, NEW n \in Nat, InCode(n), NEW k \in 0 .. n - 1
  PROVE  Fetch(k) \in Byte
<1>1. chunk.code.count = Len(written) /\ written \in Seq(Entry)
  BY DEF IInv, Recorded, Logged
<1>2. ip + k + 1 \in 1 .. Len(written)
  BY <1>1 DEF InCode
<1>3. written[ip + k + 1].byte = chunk.code.data[ip + k + 1]
  BY <1>2 DEF IInv, Recorded, Logged
<1>4. written[ip + k + 1] \in Entry
  BY <1>1, <1>2
<1> QED
  BY <1>3, <1>4 DEF Fetch, Entry

\* So a constant that the machine takes from the pool is a value.
LEMMA ConstantIsValue ==
  ASSUME IInv, PoolInv, ip \in Nat
  PROVE  /\ HasConstant     => chunk.constants.data[Fetch(1) + 1] \in Values
         /\ HasConstantLong => chunk.constants.data[LongIndex + 1] \in Values
<1>1. chunk.constants.count \in Nat /\ Base \in Nat
  BY PoolIsArray, ChunkAssumption
<1>2. ASSUME HasConstant PROVE chunk.constants.data[Fetch(1) + 1] \in Values
  <2>1. Fetch(1) \in Nat /\ Fetch(1) < chunk.constants.count
    BY <1>2, FetchIsByte DEF HasConstant, Byte
  <2>2. Fetch(1) + 1 \in 1 .. chunk.constants.count
    BY <1>1, <2>1
  <2> QED BY <2>2 DEF PoolInv
<1>3. ASSUME HasConstantLong PROVE chunk.constants.data[LongIndex + 1] \in Values
  <2>1. Fetch(1) \in Nat /\ Fetch(2) \in Nat /\ Fetch(3) \in Nat
    BY <1>3, FetchIsByte DEF HasConstantLong, Byte
  <2>2. LongIndex \in Nat
    BY <1>1, <2>1 DEF LongIndex
  <2>3. LongIndex + 1 \in 1 .. chunk.constants.count
    BY <1>1, <1>3, <2>2 DEF HasConstantLong
  <2> QED BY <2>3 DEF PoolInv
<1> QED
  BY <1>2, <1>3
-----------------------------------------------------------------------------
\* The comparison of two pointers by which vm_stack_push tells an empty stack
\* does not matter: the depth is the offset of stack_top either way.
LEMMA DepthIsOffset == StackInv => Depth = top.offset
  BY DEF StackInv, Depth, StackBase

\* The first block and every doubled one are as large as was asked for.
LEMMA GrownStackProperties ==
  ASSUME StackInv, NEW block \in 0 .. 2, GrownStack(block).memory = "granted"
  PROVE  LET room == GrownStack(block)
         IN  /\ room \in [block : 0 .. 2, capacity : Nat,
                          data : Seq(Values \cup {Garbage}), memory : {"granted"}]
             /\ room.block = block
             /\ room.capacity > stack.capacity
             /\ room.capacity = Len(room.data)
             /\ ValueWidth * room.capacity <= MaxAlloc
             /\ \A i \in 1 .. stack.capacity : room.data[i] = stack.data[i]
<1> DEFINE c == GrowStackCapacity(stack.capacity)
           d == Reallocate(stack.data, RequestSize(ValueWidth, c), ValueWidth)
<1>1. stack.capacity \in Nat /\ stack.data \in Seq(Values \cup {Garbage})
      /\ stack.capacity = Len(stack.data) /\ 16 * stack.capacity <= MaxAlloc
  BY DEF StackInv, ValueWidth
<1>2. c = IF stack.capacity < StackMin THEN StackMin ELSE 2 * stack.capacity
  <2>1. 2 * stack.capacity < Word
    BY <1>1, MemoryAssumption
  <2>2. \A n \in Nat : n < Word => n % Word = n
    BY MemoryAssumption
  <2>3. 2 * stack.capacity \in Nat
    BY <1>1
  <2>4. (2 * stack.capacity) % Word = 2 * stack.capacity
    BY <2>1, <2>2, <2>3
  <2> QED BY <2>4 DEF GrowStackCapacity
<1>3. c \in Nat /\ c > stack.capacity /\ 16 * c < Word
  BY <1>1, <1>2, VMAssumption, MemoryAssumption
<1> HIDE DEF c
<1>4. RequestSize(ValueWidth, c) = 16 * c
  BY <1>3, MemoryAssumption DEF RequestSize, ValueWidth
<1>5. d = [i \in 1 .. c |-> IF i \in 1 .. Len(stack.data) THEN stack.data[i] ELSE Garbage]
  <2>1. (16 * c) \div 16 = c
    BY <1>3
  <2> QED BY <1>4, <2>1 DEF Reallocate, ValueWidth
<1>6. GrownStack(block) = [block |-> block, capacity |-> c, data |-> d,
                           memory |-> IF 16 * c > MaxAlloc THEN "refused" ELSE "granted"]
  <2> HIDE DEF d
  <2>1. GrownStack(block) =
          [block |-> block, capacity |-> c, data |-> d,
           memory |-> IF RequestSize(ValueWidth, c) > MaxAlloc THEN "refused" ELSE "granted"]
    BY DEF GrownStack, c, d
  <2> QED BY <1>4, <2>1
<1> HIDE DEF d
<1>7. 16 * c <= MaxAlloc
  BY <1>3, <1>6, MemoryAssumption
<1>8. d \in Seq(Values \cup {Garbage}) /\ Len(d) = c
  <2>1. \A i \in 1 .. Len(stack.data) : stack.data[i] \in Values \cup {Garbage}
    BY <1>1
  <2>2. d \in [1 .. c -> Values \cup {Garbage}]
    BY <1>5, <2>1, Zenon
  <2> QED BY <1>3, <2>2, FunctionIsSequence
<1>9. \A i \in 1 .. stack.capacity : d[i] = stack.data[i]
  BY <1>1, <1>3, <1>5
<1>10. GrownStack(block) = [block |-> block, capacity |-> c, data |-> d,
                            memory |-> "granted"]
  BY <1>3, <1>6, <1>7, MemoryAssumption
<1> QED
  BY <1>3, <1>7, <1>8, <1>9, <1>10 DEF ValueWidth

\* A push goes into the block the machine owns, wherever realloc put it, on
\* top of what was there.
LEMMA PushKeepsStack ==
  ASSUME NEW value \in Values, StackInv, vm_stack_push(value)
  PROVE  /\ StackInv'
         /\ top'.offset = top.offset + 1
         /\ stack'.data[top.offset + 1] = value
         /\ \A i \in 1 .. top.offset : stack'.data[i] = stack.data[i]
<1> DEFINE Pushed ==
             /\ StackInv'
             /\ top'.offset = top.offset + 1
             /\ stack'.data[top.offset + 1] = value
             /\ \A i \in 1 .. top.offset : stack'.data[i] = stack.data[i]
<1> DEFINE Blocks == [block : 0 .. 2, capacity : Nat,
                      data : Seq(Values \cup {Garbage}), memory : {"granted"}]
           Pointers == [block : 0 .. 2, offset : Nat]
<1>1. ASSUME NEW room \in Blocks, NEW pointer \in Pointers,
             room.block = pointer.block,
             pointer.offset < room.capacity,
             room.capacity = Len(room.data),
             ValueWidth * room.capacity <= MaxAlloc,
             pointer.offset = top.offset,
             \A i \in 1 .. top.offset : room.data[i] = stack.data[i],
             StoreAndAdvance(room, pointer, value)
      PROVE  Pushed
  <2> DEFINE d == [room.data EXCEPT ![pointer.offset + 1] = value]
  <2>1. /\ stack' = [room EXCEPT !.data = d]
        /\ top' = [pointer EXCEPT !.offset = pointer.offset + 1]
    BY <1>1 DEF StoreAndAdvance
  <2>2. /\ pointer.offset \in Nat /\ pointer.offset + 1 \in 1 .. Len(room.data)
        /\ room.data \in Seq(Values \cup {Garbage})
    BY <1>1
  <2>3. d \in Seq(Values \cup {Garbage}) /\ Len(d) = Len(room.data)
    BY <2>2
  <2>4. /\ \A i \in 1 .. pointer.offset + 1 : d[i] \in Values
        /\ d[pointer.offset + 1] = value
        /\ \A i \in 1 .. pointer.offset : d[i] = stack.data[i]
    <3>1. /\ d[pointer.offset + 1] = value
          /\ \A i \in 1 .. pointer.offset : d[i] = stack.data[i]
      BY <1>1, <2>2
    <3>2. \A i \in 1 .. pointer.offset : stack.data[i] \in Values
      BY <1>1 DEF StackInv
    <3> HIDE DEF d
    <3> QED BY <2>2, <3>1, <3>2
  <2> HIDE DEF d
  <2>5. /\ stack' \in Blocks /\ top' \in Pointers
        /\ stack'.data = d /\ stack'.capacity = room.capacity /\ stack'.block = room.block
        /\ top'.offset = pointer.offset + 1 /\ top'.block = pointer.block
    BY <1>1, <2>1, <2>2, <2>3
  <2>6. StackInv'
    BY <1>1, <2>2, <2>3, <2>4, <2>5 DEF StackInv
  <2> QED BY <1>1, <2>4, <2>5, <2>6
<1>2. stack \in Blocks /\ top \in Pointers /\ Depth = top.offset
  BY DepthIsOffset DEF StackInv
<1>3. CASE Depth = stack.capacity
  <2>1. PICK block \in NewBlocks :
          /\ GrownStack(block).memory = "granted"
          /\ StoreAndAdvance(GrownStack(block), RebasedTop(block), value)
    BY <1>3 DEF vm_stack_push
  <2>2. block \in 0 .. 2
    BY DEF NewBlocks
  <2>3. RebasedTop(block) = [block |-> block, offset |-> stack.capacity]
    BY <1>3 DEF RebasedTop
  <2>4. stack.capacity \in Nat
    BY <1>2
  <2> DEFINE room == GrownStack(block)
  <2>5. /\ room \in Blocks /\ room.block = block
        /\ room.capacity > stack.capacity
        /\ room.capacity = Len(room.data)
        /\ ValueWidth * room.capacity <= MaxAlloc
        /\ \A i \in 1 .. stack.capacity : room.data[i] = stack.data[i]
    BY <2>1, <2>2, GrownStackProperties
  <2> HIDE DEF room
  <2>6. StoreAndAdvance(room, RebasedTop(block), value)
    BY <2>1 DEF room
  <2>7. RebasedTop(block) \in Pointers
    BY <2>2, <2>3, <2>4
  <2>8. stack.capacity = top.offset
    BY <1>2, <1>3
  <2> QED BY <1>1, <2>3, <2>5, <2>6, <2>7, <2>8
<1>4. CASE Depth # stack.capacity
  <2>1. StoreAndAdvance(stack, top, value)
    BY <1>4 DEF vm_stack_push
  <2>2. top.offset < stack.capacity
    BY <1>2, <1>4 DEF StackInv
  <2> QED BY <1>1, <1>2, <2>1, <2>2 DEF StackInv
<1> QED
  BY <1>3, <1>4

\* A machine and a chunk that were just made.
LEMMA RuntimeInvariantHolds == RuntimeInit => RInv
<1> SUFFICES ASSUME RuntimeInit PROVE RInv
  OBVIOUS
<1>1. IInv
  BY InvariantHolds DEF RuntimeInit
<1>2. PoolInv
  BY DEF RuntimeInit, ChunkInit, EmptyChunk, EmptyArray, PoolInv
<1>3. StackInv
  BY MemoryAssumption DEF RuntimeInit, VMInit, EmptyStack, Null, StackInv, ValueWidth
<1>4. MachineInv
  BY DEF RuntimeInit, VMInit, MachineInv
<1> QED
  BY <1>1, <1>2, <1>3, <1>4 DEF RInv

\* Every step of the embedder and of the machine keeps the invariant.
LEMMA RuntimeInvariantKept == RInv /\ [RuntimeNext]_runtimeVars => RInv'
<1> SUFFICES ASSUME RInv, [RuntimeNext]_runtimeVars PROVE RInv'
  OBVIOUS
<1> USE DEF RInv
<1>1. ASSUME UNCHANGED chunkVars PROVE IInv' /\ PoolInv'
  <2>1. IInv'
    BY <1>1, InvariantKept
  <2>2. PoolInv'
    BY <1>1, PoolKept
  <2> QED BY <2>1, <2>2
<1>2. ASSUME UNCHANGED <<stack, top>> PROVE StackInv'
  BY <1>2 DEF StackInv
<1>3. CASE Embed
  <2>1. IInv' /\ PoolInv'
    BY <1>3, InvariantKept, PoolKept DEF Embed
  <2>2. StackInv' /\ MachineInv'
    BY <1>2, <1>3 DEF Embed, vmVars, MachineInv
  <2> QED BY <2>1, <2>2
<1>4. CASE vm_run
  BY <1>1, <1>2, <1>4 DEF vm_run, MachineInv
<1>5. CASE return
  BY <1>1, <1>2, <1>5 DEF return, MachineInv
<1>6. CASE dump
  <2>1. top.offset \in Nat /\ top.offset > 0
    BY <1>6, DepthIsOffset DEF dump, StackInv
  <2>2. stack.data[top.offset] \in Values
    BY <2>1 DEF StackInv
  <2>3. MachineInv'
    BY <1>6, <2>2 DEF dump, Popped, MachineInv
  <2>4. StackInv'
    <3>1. top' = [top EXCEPT !.offset = top.offset - 1] /\ stack' = stack
      BY <1>6 DEF dump, vm_stack_pop
    <3>2. /\ top' \in [block : 0 .. 2, offset : Nat] /\ top'.block = top.block
          /\ top'.offset = top.offset - 1
      BY <2>1, <3>1 DEF StackInv
    <3> QED BY <2>1, <3>1, <3>2 DEF StackInv
  <2> QED BY <1>1, <1>6, <2>3, <2>4 DEF dump
<1>7. ASSUME NEW size \in Nat, NEW index, PushConstant(size, index),
             chunk.constants.data[index + 1] \in Values
      PROVE  RInv'
  <2>1. StackInv'
    BY <1>7, PushKeepsStack DEF PushConstant
  <2>2. MachineInv'
    BY <1>7 DEF PushConstant, MachineInv
  <2> QED BY <1>1, <1>7, <2>1, <2>2 DEF PushConstant
<1>8. CASE constant
  <2>1. chunk.constants.data[Fetch(1) + 1] \in Values
    BY <1>8, ConstantIsValue DEF constant, MachineInv
  <2> QED BY <1>7, <1>8, <2>1 DEF constant
<1>9. CASE constant_long
  <2>1. chunk.constants.data[LongIndex + 1] \in Values
    BY <1>9, ConstantIsValue DEF constant_long, MachineInv
  <2> QED BY <1>7, <1>9, <2>1 DEF constant_long
<1>10. CASE unknown
  BY <1>1, <1>2, <1>10 DEF unknown, MachineInv
<1>11. CASE Astray
  BY <1>1, <1>2, <1>11 DEF Astray, MachineInv
<1>12. CASE StackRefused
  <2>1. IInv' /\ PoolInv'
    BY <1>12 DEF StackRefused, Exit, IInv, PoolInv
  <2>2. StackInv' /\ MachineInv'
    BY <1>2, <1>12 DEF StackRefused, vmVars, MachineInv
  <2> QED BY <2>1, <2>2
<1>13. CASE vm_free
  <2>1. StackInv'
    BY <1>13, MemoryAssumption DEF vm_free, EmptyStack, Null, StackInv, ValueWidth
  <2> QED BY <1>1, <1>13, <2>1 DEF vm_free, MachineInv
<1>14. CASE UNCHANGED runtimeVars
  <2>1. UNCHANGED chunkVars /\ UNCHANGED <<stack, top>> /\ UNCHANGED <<vmState, ip, output>>
    BY <1>14 DEF runtimeVars, vmVars
  <2> QED BY <1>1, <1>2, <2>1 DEF MachineInv
<1> QED
  BY <1>3, <1>4, <1>5, <1>6, <1>8, <1>9, <1>10, <1>11, <1>12, <1>13, <1>14
     DEF RuntimeNext, VMNext, vm_loop

\* The invariant holds whatever the embedder writes, runs and frees.
THEOREM RuntimeInvariance == RuntimeSpec => []RInv
  BY RuntimeInvariantHolds, RuntimeInvariantKept, PTL DEF RuntimeSpec

\* The machine dumps values only, and its stack holds what its type says,
\* for every program (vm_loop, vm_stack_push, vm_stack_pop).
THEOREM RuntimeTypeCorrect == RuntimeSpec => []RuntimeTypeOK
<1>1. RInv => RuntimeTypeOK
  <2>1. IInv => ChunkTypeOK
    BY DEF IInv, ChunkInv, LinesInv, ArrayInv, ChunkTypeOK, Entry
  <2> QED BY <2>1 DEF RInv, StackInv, MachineInv, RuntimeTypeOK
<1> QED BY <1>1, RuntimeInvariance, PTL

\* stack_top never points into a block that realloc has given back, nor past
\* the end of its own, and no cell below it is unwritten, however often the
\* stack grows and moves (vm_stack_push, vm.c:28).
THEOREM StackPointerNeverStale == RuntimeSpec => []StackPointerValid
<1>1. RInv => StackPointerValid
  BY VMAssumption DEF RInv, StackInv, StackPointerValid
<1> QED BY <1>1, RuntimeInvariance, PTL

\* Running programs between the writes changes nothing of what is proved of
\* chunks: their arrays stay inside of their blocks and read back.
THEOREM ChunksStayIntact == RuntimeSpec => [](MemorySafe /\ ReadBack)
<1>1. RInv => MemorySafe /\ ReadBack
  BY DEF RInv, IInv, ChunkInv, LinesInv, ArrayInv, MemorySafe, ReadBack, Recorded, Parts
<1> QED BY <1>1, RuntimeInvariance, PTL
-----------------------------------------------------------------------------
(***************************************************************************)
(* The runtime implements Interpreter.  A chunk is laid out as n           *)
(* instructions, number k at offset at[k]; the machine only ever stands at *)
(* one of these offsets or at the end, and appending to the chunk leaves   *)
(* them, and what the disassembler reads there, alone.                     *)
(***************************************************************************)

\* Instruction number k starts at at[k], and the last one ends with the code.
Layout(c, n, at) ==
  /\ n \in Nat /\ at \in [0 .. n -> Nat]
  /\ at[0] = 0 /\ at[n] = c.code.count
  /\ \A k \in 0 .. n - 1 : at[k + 1] = at[k] + Size(At(c, at[k]))

\* An instruction is one, two or four bytes long.
LEMMA SizeIsSmall == \A opcode : Size(opcode) \in {1, 2, 4}
  BY DEF Size

\* Instructions follow one another.
LEMMA LayoutGrows ==
  ASSUME NEW c, NEW n, NEW at, Layout(c, n, at)
  PROVE  /\ \A k \in 0 .. n : at[k] \in Nat
         /\ \A j, k \in 0 .. n : j < k => at[j] < at[k]
<1>1. n \in Nat /\ at \in [0 .. n -> Nat]
  BY DEF Layout
<1>2. ASSUME NEW k \in 0 .. n - 1 PROVE at[k] < at[k + 1]
  <2>1. at[k + 1] = at[k] + Size(At(c, at[k])) /\ at[k] \in Nat
    BY <1>1 DEF Layout
  <2> QED BY <2>1, SizeIsSmall
<1>3. ASSUME NEW j \in 0 .. n PROVE \A k \in 0 .. n : j < k => at[j] < at[k]
  <2> DEFINE T == {k \in 0 .. n : j < k => at[j] < at[k]}
  <2>1. 0 \in T
    BY <1>1
  <2>2. ASSUME NEW k \in 0 .. n - 1, k \in T PROVE k + 1 \in T
    <3>1. k + 1 \in 0 .. n /\ at[j] \in Nat /\ at[k] \in Nat /\ at[k + 1] \in Nat
      BY <1>1
    <3>2. at[k] < at[k + 1]
      BY <1>2
    <3> QED BY <1>1, <2>2, <3>1, <3>2
  <2>3. \A k \in 0 .. n : k \in T
    <3> HIDE DEF T
    <3> QED BY <1>1, <2>1, <2>2, UpTo
  <2> QED BY <2>3
<1> QED BY <1>1, <1>3
-----------------------------------------------------------------------------
(***************************************************************************)
(* disassemble_chunk.  Visits(c, f) says that f answers as its loop does   *)
(* from an offset on.                                                      *)
(***************************************************************************)
VisitStep(c, f, offset) ==
  IF offset >= c.code.count THEN << >>
  ELSE <<offset>> \o f[offset + Size(At(c, offset))]

Visits(c, f) == f = [offset \in Nat |-> VisitStep(c, f, offset)]

\* The recursion of Offsets is well founded: every instruction has a size.
LEMMA VisitsExist ==
  ASSUME NEW c, c.code.count \in Nat
  PROVE  \E f : Visits(c, f)
<1> DEFINE From(g, j) == \A offset \in Nat :
                           offset >= j => g[offset] = VisitStep(c, g, offset)
           T == {j \in Nat : \E g : From(g, j)}
<1>1. c.code.count \in T
  <2> DEFINE g == [offset \in Nat |-> << >>]
  <2>1. From(g, c.code.count)
    BY DEF VisitStep
  <2> HIDE DEF From
  <2> QED BY <2>1
<1>2. ASSUME NEW i \in 0 .. c.code.count - 1, i + 1 \in T PROVE i \in T
  <2>1. PICK g : From(g, i + 1)
    BY <1>2
  <2> DEFINE h == [offset \in Nat |-> IF offset = i THEN VisitStep(c, g, i) ELSE g[offset]]
  <2>2. h[i] = VisitStep(c, g, i) /\ \A offset \in Nat : offset # i => h[offset] = g[offset]
    OBVIOUS
  <2> HIDE DEF h
  <2>3. ASSUME NEW offset \in Nat, offset >= i
        PROVE  VisitStep(c, h, offset) = VisitStep(c, g, offset)
    <3>1. offset + Size(At(c, offset)) \in Nat /\ offset + Size(At(c, offset)) # i
      BY <2>3, SizeIsSmall
    <3>2. h[offset + Size(At(c, offset))] = g[offset + Size(At(c, offset))]
      BY <2>2, <3>1
    <3> QED BY <3>2 DEF VisitStep
  <2>4. From(h, i)
    BY <2>1, <2>2, <2>3
  <2> HIDE DEF From
  <2> QED BY <2>4
<1>3. 0 \in T
  <2> HIDE DEF T
  <2> QED BY <1>1, <1>2, DownFrom
<1>4. PICK g : From(g, 0)
  BY <1>3
<1> DEFINE f == [offset \in Nat |-> g[offset]]
<1>5. ASSUME NEW offset \in Nat PROVE VisitStep(c, f, offset) = VisitStep(c, g, offset)
  <2>1. offset + Size(At(c, offset)) \in Nat
    BY SizeIsSmall
  <2>2. f[offset + Size(At(c, offset))] = g[offset + Size(At(c, offset))]
    BY <2>1
  <2> HIDE DEF f
  <2> QED BY <2>2 DEF VisitStep
<1>6. f = [offset \in Nat |-> VisitStep(c, f, offset)]
  <2>1. \A offset \in Nat : g[offset] = VisitStep(c, g, offset)
    BY <1>4
  <2> QED BY <1>5, <2>1
<1> HIDE DEF f
<1>7. Visits(c, f)
  BY <1>6 DEF Visits
<1> QED BY <1>7

\* Offsets is the value at 0 of a function that visits the instructions.
LEMMA OffsetsIs ==
  ASSUME NEW c, c.code.count \in Nat
  PROVE  \E f : Visits(c, f) /\ Offsets(c) = f[0]
<1>1. Visits(c, CHOOSE f : Visits(c, f))
  BY VisitsExist
<1>2. Offsets(c) = (CHOOSE f : Visits(c, f))[0]
  BY Zenon DEF Offsets, Visits, VisitStep
<1> QED BY <1>1, <1>2

\* The disassembler visits the instructions, each at its start.
LEMMA OffsetsAreLaidOut ==
  ASSUME NEW c, NEW n, NEW at, Layout(c, n, at)
  PROVE  Offsets(c) = [k \in 1 .. n |-> at[k - 1]]
<1>1. /\ n \in Nat /\ \A k \in 0 .. n : at[k] \in Nat
      /\ at[0] = 0 /\ at[n] = c.code.count /\ c.code.count \in Nat
      /\ \A k \in 0 .. n - 1 : at[k + 1] = at[k] + Size(At(c, at[k])) /\ at[k] < at[n]
  <2>1. /\ n \in Nat /\ at[0] = 0 /\ at[n] = c.code.count
        /\ \A k \in 0 .. n - 1 : at[k + 1] = at[k] + Size(At(c, at[k]))
    BY DEF Layout
  <2>2. /\ \A k \in 0 .. n : at[k] \in Nat
        /\ \A j, k \in 0 .. n : j < k => at[j] < at[k]
    BY LayoutGrows
  <2>3. n \in 0 .. n /\ \A k \in 0 .. n - 1 : k \in 0 .. n /\ k < n
    BY <2>1
  <2> QED BY <2>1, <2>2, <2>3
<1>2. PICK f : Visits(c, f) /\ Offsets(c) = f[0]
  BY <1>1, OffsetsIs
<1>3. \A offset \in Nat : f[offset] = VisitStep(c, f, offset)
  BY <1>2 DEF Visits
<1> DEFINE Rest(k) == [i \in 1 .. n - k |-> at[k + i - 1]]
           T == {k \in 0 .. n : f[at[k]] = Rest(k)}
<1>4. n \in T
  <2>1. f[at[n]] = << >>
    <3>1. at[n] \in Nat /\ at[n] >= c.code.count
      BY <1>1
    <3> QED BY <1>3, <3>1 DEF VisitStep
  <2>2. Rest(n) = << >>
    BY <1>1
  <2> QED BY <1>1, <2>1, <2>2
<1>5. ASSUME NEW k \in 0 .. n - 1, k + 1 \in T PROVE k \in T
  <2>1. f[at[k]] = <<at[k]>> \o f[at[k + 1]]
    <3>1. /\ at[k] \in Nat /\ ~(at[k] >= c.code.count)
          /\ at[k + 1] = at[k] + Size(At(c, at[k]))
      <4>1. k \in 0 .. n
        BY <1>1
      <4> QED BY <1>1, <4>1
    <3>2. f[at[k]] = VisitStep(c, f, at[k])
      BY <1>3, <3>1
    <3> QED BY <3>1, <3>2 DEF VisitStep
  <2>2. f[at[k + 1]] = Rest(k + 1)
    BY <1>5
  <2>3. Rest(k + 1) \in Seq(Nat) /\ Len(Rest(k + 1)) = n - k - 1
    <3>1. \A i \in 1 .. n - k - 1 : at[k + i] \in Nat
      BY <1>1
    <3>2. Rest(k + 1) \in [1 .. n - k - 1 -> Nat] /\ n - k - 1 \in Nat
      BY <1>1, <3>1
    <3> HIDE DEF Rest
    <3> QED BY <3>2, FunctionIsSequence
  <2>4. <<at[k]>> \o Rest(k + 1) = Rest(k)
    <3> DEFINE s == <<at[k]>> \o Rest(k + 1)
    <3>1. at[k] \in Nat
      BY <1>1
    <3>2. \A i \in 1 .. n - k - 1 : Rest(k + 1)[i] = at[k + i]
      BY <1>1
    <3> HIDE DEF Rest
    <3>3. s \in Seq(Nat) /\ Len(s) = n - k /\ s[1] = at[k]
      BY <1>1, <2>3, <3>1
    <3>4. ASSUME NEW i \in 2 .. n - k PROVE s[i] = at[k + i - 1]
      <4>1. i - 1 \in 1 .. n - k - 1 /\ k + (i - 1) = k + i - 1
        BY <1>1
      <4>2. s[i] = Rest(k + 1)[i - 1]
        BY <1>1, <2>3, <3>1, <4>1
      <4> QED BY <3>2, <4>1, <4>2
    <3>5. \A i \in 1 .. n - k : s[i] = at[k + i - 1]
      <4> SUFFICES ASSUME NEW i \in 1 .. n - k PROVE s[i] = at[k + i - 1]
        OBVIOUS
      <4>1. CASE i = 1
        BY <1>1, <3>3, <4>1
      <4>2. CASE i # 1
        <5>1. i \in 2 .. n - k
          BY <1>1, <4>2
        <5> HIDE DEF s
        <5> QED BY <3>4, <5>1
      <4> QED BY <4>1, <4>2
    <3> HIDE DEF s
    <3>6. s = [i \in 1 .. n - k |-> s[i]]
      <4>1. s = [i \in 1 .. Len(s) |-> s[i]]
        BY <3>3
      <4> QED BY <3>3, <4>1
    <3>7. s = [i \in 1 .. n - k |-> at[k + i - 1]]
      BY <3>5, <3>6
    <3> QED BY <3>7 DEF s, Rest
  <2>5. k \in 0 .. n
    BY <1>1
  <2> HIDE DEF Rest
  <2> QED BY <2>1, <2>2, <2>4, <2>5
<1>6. \A k \in 0 .. n : k \in T
  <2> HIDE DEF T
  <2> QED BY <1>1, <1>4, <1>5, DownFrom
<1>7. f[at[0]] = Rest(0)
  BY <1>1, <1>6
<1>8. Rest(0) = [k \in 1 .. n |-> at[k - 1]]
  BY <1>1
<1> QED BY <1>1, <1>2, <1>7, <1>8
-----------------------------------------------------------------------------
\* A constant instruction names a constant that is there.
Decodable(c, n, at) ==
  \A k \in 0 .. n - 1 :
    Size(At(c, at[k])) # 1 => /\ Operand(c, at[k]) \in Nat
                              /\ Operand(c, at[k]) < c.constants.count

\* What the disassembler reads at offset is what was logged there.
LEMMA LoggedByte ==
  ASSUME NEW c, NEW log, Recorded(c, log), Len(log) \in Nat, NEW offset \in 0 .. Len(log) - 1
  PROVE  /\ At(c, offset) = log[offset + 1].byte
         /\ ReadLine(c.lines, offset) = log[offset + 1].line
         /\ ReadColumn(c.columns, offset) = log[offset + 1].column
<1>1. offset + 1 \in 1 .. Len(log) /\ offset + 1 - 1 = offset
  OBVIOUS
<1>2. /\ log[offset + 1].byte = c.code.data[offset + 1]
      /\ log[offset + 1].column = ReadColumn(c.columns, offset)
  BY <1>1 DEF Recorded, Logged
<1>3. log[offset + 1].line = ReadLine(c.lines, offset)
  BY <1>1, RunsAreRead DEF Recorded
<1> QED BY <1>2, <1>3 DEF At

\* Writing on leaves the instructions that are there alone.
LEMMA InstructionKept ==
  ASSUME NEW c, NEW d, NEW log \in Seq(Entry), NEW more \in Seq(Entry),
         Recorded(c, log), Recorded(d, log \o more),
         c.constants.count \in Nat, d.constants.count \in Nat,
         c.constants.count <= d.constants.count,
         \A i \in 1 .. c.constants.count : d.constants.data[i] = c.constants.data[i],
         NEW offset \in Nat, offset + Size(At(c, offset)) <= Len(log),
         Size(At(c, offset)) # 1 => /\ Operand(c, offset) \in Nat
                                    /\ Operand(c, offset) < c.constants.count
  PROVE  /\ At(d, offset) = At(c, offset)
         /\ Size(At(c, offset)) # 1 => Operand(d, offset) = Operand(c, offset)
         /\ Instruction(d, offset) = Instruction(c, offset)
<1> DEFINE size == Size(At(c, offset))
<1>1. size \in {1, 2, 4} /\ Len(log) \in Nat /\ Len(log \o more) \in Nat /\ Len(log) <= Len(log \o more)
  BY SizeIsSmall
<1>2. ASSUME NEW j \in 0 .. size - 1
      PROVE  /\ At(d, offset + j) = At(c, offset + j)
             /\ ReadLine(d.lines, offset + j) = ReadLine(c.lines, offset + j)
             /\ ReadColumn(d.columns, offset + j) = ReadColumn(c.columns, offset + j)
  <2>1. offset + j \in 0 .. Len(log) - 1 /\ offset + j \in 0 .. Len(log \o more) - 1
    BY <1>1
  <2>2. (log \o more)[offset + j + 1] = log[offset + j + 1]
    BY <2>1
  <2>3. /\ At(c, offset + j) = log[offset + j + 1].byte
        /\ ReadLine(c.lines, offset + j) = log[offset + j + 1].line
        /\ ReadColumn(c.columns, offset + j) = log[offset + j + 1].column
    BY <1>1, <2>1, LoggedByte
  <2> DEFINE all == log \o more
  <2>4. Recorded(d, all) /\ Len(all) \in Nat /\ offset + j \in 0 .. Len(all) - 1
    BY <1>1, <2>1
  <2> HIDE DEF all
  <2>5. /\ At(d, offset + j) = all[offset + j + 1].byte
        /\ ReadLine(d.lines, offset + j) = all[offset + j + 1].line
        /\ ReadColumn(d.columns, offset + j) = all[offset + j + 1].column
    BY <2>4, LoggedByte
  <2>6. all[offset + j + 1] = log[offset + j + 1]
    BY <2>2 DEF all
  <2> QED BY <2>3, <2>5, <2>6
<1>3. 0 \in 0 .. size - 1 /\ offset + 0 = offset
  BY <1>1
<1>4. At(d, offset) = At(c, offset) /\ ReadLine(d.lines, offset) = ReadLine(c.lines, offset)
      /\ ReadColumn(d.columns, offset) = ReadColumn(c.columns, offset)
  BY <1>2, <1>3
<1>5. ASSUME size # 1 PROVE Operand(d, offset) = Operand(c, offset)
  <2>1. CASE At(c, offset) = OP_CONSTANT
    <3>1. 1 \in 0 .. size - 1
      BY <2>1 DEF Size
    <3>2. At(d, offset + 1) = At(c, offset + 1)
      BY <1>2, <3>1
    <3> QED BY <1>4, <2>1, <3>2 DEF Operand
  <2>2. CASE At(c, offset) # OP_CONSTANT
    <3>1. size = 4
      BY <1>5, <2>2 DEF Size
    <3>2. 1 \in 0 .. size - 1 /\ 2 \in 0 .. size - 1 /\ 3 \in 0 .. size - 1
      BY <3>1
    <3>3. /\ At(d, offset + 1) = At(c, offset + 1) /\ At(d, offset + 2) = At(c, offset + 2)
          /\ At(d, offset + 3) = At(c, offset + 3)
      BY <1>2, <3>2
    <3> QED BY <1>4, <2>2, <3>3 DEF Operand
  <2> QED BY <2>1, <2>2
<1>6. Instruction(d, offset) = Instruction(c, offset)
  <2>1. CASE size = 1
    BY <1>4, <2>1 DEF Instruction
  <2>2. CASE size # 1
    <3>1. Operand(c, offset) + 1 \in 1 .. c.constants.count
      BY <2>2
    <3>2. d.constants.data[Operand(d, offset) + 1] = c.constants.data[Operand(c, offset) + 1]
      BY <1>5, <2>2, <3>1
    <3> QED BY <1>4, <2>2, <3>2 DEF Instruction
  <2> QED BY <2>1, <2>2
<1> QED BY <1>4, <1>5, <1>6

\* A sequence is what comes before its last element, and that.
LEMMA LastAppended ==
  ASSUME NEW n \in Nat, NEW S, NEW f \in [1 .. n + 1 -> S], NEW g,
         g = [k \in 1 .. n |-> f[k]]
  PROVE  f = Append(g, f[n + 1])
<1>1. g \in Seq(S) /\ Len(g) = n
  <2>1. g \in [1 .. n -> S]
    OBVIOUS
  <2> QED BY <2>1, FunctionIsSequence
<1>2. f \in Seq(S) /\ Len(f) = n + 1
  BY FunctionIsSequence
<1>3. f[n + 1] \in S
  OBVIOUS
<1>4. ASSUME NEW k \in 1 .. n + 1 PROVE f[k] = Append(g, f[n + 1])[k]
  <2>1. CASE k = n + 1
    BY <1>1, <1>3, <2>1
  <2>2. CASE k \in 1 .. n
    BY <1>1, <1>3, <2>2
  <2> QED BY <2>1, <2>2
<1> DEFINE h == Append(g, f[n + 1])
<1>5. h \in Seq(S) /\ Len(h) = n + 1
  BY <1>1, <1>3
<1>6. \A k \in 1 .. n + 1 : f[k] = h[k]
  BY <1>4
<1> HIDE DEF h
<1>7. f = h
  BY <1>2, <1>5, <1>6
<1> QED BY <1>7 DEF h

\* The listing has one line for each instruction of a layout.
LEMMA ListingIsLaidOut ==
  ASSUME NEW c, NEW n, NEW at, Layout(c, n, at)
  PROVE  /\ n \in Nat
         /\ Listing(c) = [k \in 1 .. n |-> Instruction(c, at[k - 1])]
         /\ Len(Listing(c)) = n
<1>1. Offsets(c) = [k \in 1 .. n |-> at[k - 1]] /\ n \in Nat
  <2>1. n \in Nat
    BY DEF Layout
  <2> QED BY <2>1, OffsetsAreLaidOut
<1>2. Len(Offsets(c)) = n /\ \A k \in 1 .. n : Offsets(c)[k] = at[k - 1]
  BY <1>1
<1>3. Listing(c) = [k \in 1 .. n |-> Instruction(c, Offsets(c)[k])]
  BY <1>2 DEF Listing
<1>4. Listing(c) = [k \in 1 .. n |-> Instruction(c, at[k - 1])]
  BY <1>2, <1>3
<1>5. Len(Listing(c)) = n
  BY <1>1, <1>4
<1> QED BY <1>1, <1>4, <1>5

\* Writing one instruction adds it to the listing and changes nothing else.
LEMMA InstructionAdded ==
  ASSUME NEW c, NEW d, NEW log \in Seq(Entry), NEW more \in Seq(Entry),
         Recorded(c, log), Recorded(d, log \o more),
         c.constants.count \in Nat, d.constants.count \in Nat,
         c.constants.count <= d.constants.count,
         \A i \in 1 .. c.constants.count : d.constants.data[i] = c.constants.data[i],
         NEW n, NEW at, Layout(c, n, at), Decodable(c, n, at),
         Size(At(d, Len(log))) = Len(more),
         Size(At(d, Len(log))) # 1 => /\ Operand(d, Len(log)) \in Nat
                                      /\ Operand(d, Len(log)) < d.constants.count
  PROVE  /\ \E after : Layout(d, n + 1, after) /\ Decodable(d, n + 1, after)
         /\ Listing(d) = Append(Listing(c), Instruction(d, Len(log)))
<1>1. /\ n \in Nat /\ at \in [0 .. n -> Nat] /\ at[0] = 0 /\ at[n] = Len(log)
      /\ \A k \in 0 .. n - 1 : at[k + 1] = at[k] + Size(At(c, at[k]))
  BY DEF Layout, Recorded, Logged
<1>2. d.code.count = Len(log) + Len(more) /\ Len(log) \in Nat /\ Len(more) \in Nat
  BY DEF Recorded, Logged
<1>3. ASSUME NEW k \in 0 .. n - 1
      PROVE  /\ at[k] \in Nat
             /\ At(d, at[k]) = At(c, at[k])
             /\ Size(At(c, at[k])) # 1 => /\ Operand(d, at[k]) = Operand(c, at[k])
                                          /\ Operand(c, at[k]) \in Nat
                                          /\ Operand(c, at[k]) < c.constants.count
             /\ Instruction(d, at[k]) = Instruction(c, at[k])
  <2>1. k \in 0 .. n /\ k + 1 \in 0 .. n /\ n \in 0 .. n /\ (k + 1 = n \/ k + 1 < n)
    <3>1. n \in Nat
      BY DEF Layout
    <3> QED BY <3>1
  <2>2. at[k] \in Nat /\ at[k + 1] \in Nat /\ at[k + 1] <= at[n]
    <3>1. /\ \A i \in 0 .. n : at[i] \in Nat
          /\ \A i, j \in 0 .. n : i < j => at[i] < at[j]
      BY LayoutGrows
    <3> QED BY <2>1, <3>1
  <2>3. at[k] + Size(At(c, at[k])) <= Len(log)
    BY <1>1, <2>2
  <2>4. Size(At(c, at[k])) # 1 => /\ Operand(c, at[k]) \in Nat
                                  /\ Operand(c, at[k]) < c.constants.count
    BY DEF Decodable
  <2>5. at[k] \in Nat
    BY <2>2
  <2>6. /\ At(d, at[k]) = At(c, at[k])
        /\ Size(At(c, at[k])) # 1 => Operand(d, at[k]) = Operand(c, at[k])
        /\ Instruction(d, at[k]) = Instruction(c, at[k])
    BY <2>3, <2>4, <2>5, InstructionKept
  <2> QED BY <2>4, <2>5, <2>6
<1> DEFINE after == [k \in 0 .. n + 1 |-> IF k = n + 1 THEN Len(log) + Len(more) ELSE at[k]]
<1>4. /\ after \in [0 .. n + 1 -> Nat] /\ after[n + 1] = Len(log) + Len(more)
      /\ after[n] = Len(log) /\ after[0] = 0
      /\ \A k \in 0 .. n : after[k] = at[k]
  <2>1. after \in [0 .. n + 1 -> Nat]
    <3>1. ASSUME NEW k \in 0 .. n + 1
          PROVE  (IF k = n + 1 THEN Len(log) + Len(more) ELSE at[k]) \in Nat
      BY <1>1, <1>2
    <3> QED BY <3>1
  <2>2. /\ n + 1 \in 0 .. n + 1 /\ n \in 0 .. n /\ 0 \in 0 .. n
        /\ \A k \in 0 .. n : k \in 0 .. n + 1 /\ k # n + 1
    BY <1>1
  <2>3. /\ after[n + 1] = Len(log) + Len(more)
        /\ \A k \in 0 .. n : after[k] = at[k]
    BY <2>2
  <2> QED BY <1>1, <2>1, <2>2, <2>3
<1> HIDE DEF after
<1>5. Layout(d, n + 1, after)
  <2>1. ASSUME NEW k \in 0 .. n PROVE after[k + 1] = after[k] + Size(At(d, after[k]))
    <3>1. CASE k = n
      BY <1>1, <1>4, <3>1
    <3>2. CASE k # n
      <4>1. k \in 0 .. n - 1 /\ k + 1 \in 0 .. n
        BY <1>1, <3>2
      <4> QED BY <1>1, <1>3, <1>4, <4>1
    <3> QED BY <3>1, <3>2
  <2>2. n + 1 \in Nat /\ 0 .. (n + 1) - 1 = 0 .. n
    BY <1>1
  <2> QED BY <1>2, <1>4, <2>1, <2>2 DEF Layout
<1>6. Decodable(d, n + 1, after)
  <2>1. ASSUME NEW k \in 0 .. n, Size(At(d, after[k])) # 1
        PROVE  Operand(d, after[k]) \in Nat /\ Operand(d, after[k]) < d.constants.count
    <3>1. CASE k = n
      BY <1>4, <2>1, <3>1
    <3>2. CASE k # n
      <4>1. k \in 0 .. n - 1
        BY <1>1, <3>2
      <4>2. after[k] = at[k]
        BY <1>4
      <4>3. Operand(d, at[k]) = Operand(c, at[k]) /\ Operand(c, at[k]) \in Nat
            /\ Operand(c, at[k]) < c.constants.count
        BY <1>3, <2>1, <4>1, <4>2
      <4> QED BY <4>2, <4>3
    <3> QED BY <3>1, <3>2
  <2>2. 0 .. (n + 1) - 1 = 0 .. n
    BY <1>1
  <2>3. \A k \in 0 .. (n + 1) - 1 : k \in 0 .. n
    BY <2>2
  <2>4. ASSUME NEW k \in 0 .. (n + 1) - 1, Size(At(d, after[k])) # 1
        PROVE  Operand(d, after[k]) \in Nat /\ Operand(d, after[k]) < d.constants.count
    BY <2>1, <2>3, <2>4, Zenon
  <2> QED BY <2>4, Zenon DEF Decodable
<1>7. Listing(d) = Append(Listing(c), Instruction(d, Len(log)))
  <2> DEFINE f == Listing(d)
             g == Listing(c)
             S == {f[k] : k \in 1 .. n + 1}
  <2>1. f = [k \in 1 .. n + 1 |-> Instruction(d, after[k - 1])] /\ n + 1 \in Nat
    BY <1>5, ListingIsLaidOut
  <2>2. g = [k \in 1 .. n |-> Instruction(c, at[k - 1])]
    BY ListingIsLaidOut
  <2>3. \A k \in 1 .. n : Instruction(d, after[k - 1]) = Instruction(c, at[k - 1])
    <3> TAKE k \in 1 .. n
    <3>1. k - 1 \in 0 .. n - 1 /\ k - 1 \in 0 .. n
      BY <1>1
    <3> QED BY <1>3, <1>4, <3>1
  <2> HIDE DEF f, g
  <2>4. f[n + 1] = Instruction(d, Len(log))
    <3>1. n + 1 \in 1 .. n + 1 /\ (n + 1) - 1 = n
      BY <1>1
    <3>2. f[n + 1] = Instruction(d, after[(n + 1) - 1])
      BY <2>1, <3>1, Zenon
    <3>3. after[(n + 1) - 1] = Len(log)
      BY <1>4, <3>1
    <3> QED BY <3>2, <3>3
  <2>5. \A k \in 1 .. n : k \in 1 .. n + 1 /\ f[k] = Instruction(c, at[k - 1])
    BY <1>1, <2>1, <2>3
  <2>6. g = [k \in 1 .. n |-> f[k]]
    BY <2>2, <2>5
  <2>7. f \in [1 .. n + 1 -> S]
    BY <2>1
  <2> HIDE DEF S
  <2>8. f = Append(g, f[n + 1])
    BY <1>1, <2>6, <2>7, LastAppended
  <2> QED BY <2>4, <2>8 DEF f, g
<1> QED BY <1>5, <1>6, <1>7
-----------------------------------------------------------------------------
\* Dividing leaves a quotient and a remainder,
LEMMA DivMod ==
  ASSUME NEW x \in Nat, NEW d \in Nat, d > 0
  PROVE  /\ x \div d \in Nat /\ x % d \in 0 .. d - 1
         /\ x = d * (x \div d) + (x % d)
OBVIOUS

\* and there is no other quotient.
LEMMA DivUnique ==
  ASSUME NEW x \in Nat, NEW d \in Nat, d > 0, NEW q \in Nat, NEW r \in 0 .. d - 1, x = d * q + r
  PROVE  x \div d = q
OBVIOUS

\* An index below Base^3 is what its three bytes stand for.
LEMMA ThreeBytes ==
  ASSUME NEW x \in Nat, x < Base * Base * Base
  PROVE  x = (x % Base) + ((x \div Base) % Base) * Base
               + ((x \div (Base * Base)) % Base) * (Base * Base)
<1> USE ChunkAssumption
<1> DEFINE q == x \div Base
           p == q \div Base
<1>1. q \in Nat /\ x % Base \in 0 .. Base - 1 /\ x = Base * q + (x % Base)
  BY DivMod
<1>2. p \in Nat /\ q % Base \in 0 .. Base - 1 /\ q = Base * p + (q % Base)
  BY <1>1, DivMod
<1> HIDE DEF q, p
<1> DEFINE r == Base * (q % Base) + (x % Base)
<1>3. r \in 0 .. Base * Base - 1
  <2>1. Base * (q % Base) <= Base * (Base - 1)
    BY <1>1, <1>2
  <2> QED BY <1>1, <1>2, <2>1
<1>4. x = (Base * Base) * p + r
  <2>1. ASSUME NEW a \in Int, NEW b \in Int, x = Base * q + a, q = Base * p + b
        PROVE  x = (Base * Base) * p + (Base * b + a)
    <3>1. Base * (Base * p + b) = (Base * Base) * p + Base * b
      BY <1>2
    <3>2. x = Base * (Base * p + b) + a
      BY <2>1
    <3>3. (Base * Base) * p \in Int /\ Base * b \in Int
      BY <1>2
    <3> HIDE DEF r
    <3> QED BY <3>1, <3>2, <3>3
  <2>2. /\ x % Base \in Int /\ q % Base \in Int
        /\ x = Base * q + (x % Base) /\ q = Base * p + (q % Base)
    BY <1>1, <1>2
  <2>3. x = (Base * Base) * p + (Base * (q % Base) + (x % Base))
    BY <2>1, <2>2, Zenon
  <2> QED BY <2>3
<1> HIDE DEF r
<1>5. Base * Base \in Nat /\ Base * Base > 0
  OBVIOUS
<1>6. x \div (Base * Base) = p
  BY <1>2, <1>3, <1>4, <1>5, DivUnique
<1>7. p < Base
  BY <1>1, <1>2, <1>3, <1>4
<1>8. p % Base = p
  BY <1>2, <1>7
<1>9. x = (x % Base) + (q % Base) * Base + p * (Base * Base)
  BY <1>1, <1>2, <1>4 DEF r
<1> QED BY <1>6, <1>8, <1>9 DEF q

\* What the concatenation of two sequences is, for the provers.
LEMMA Concatenated ==
  ASSUME NEW S, NEW s \in Seq(S), NEW t \in Seq(S)
  PROVE  /\ s \o t \in Seq(S)
         /\ Len(s) \in Nat /\ Len(t) \in Nat /\ Len(s \o t) = Len(s) + Len(t)
         /\ \A i \in 1 .. Len(t) : (s \o t)[Len(s) + i] = t[i]
  OBVIOUS

\* The chunk in use is laid out as instructions.
LayoutInv == \E n, at : Layout(chunk, n, at) /\ Decodable(chunk, n, at)

\* chunk_write_byte adds an instruction without an operand.
LEMMA ByteDecodes ==
  ASSUME IInv, IInv', LayoutInv, NEW byte \in RawBytes, NEW line \in Lines,
         NEW column \in Columns, chunk_write_byte(byte, line, column),
         status' = "running"
  PROVE  /\ LayoutInv'
         /\ Listing(chunk)' = Append(Listing(chunk), Instruction(chunk', Len(written)))
<1> DEFINE d == WriteByte(chunk, byte, line, column)
           more == LogOf(<<byte>>, line, column)
<1>1. /\ ~Denied(d) /\ chunk' = d /\ written' = written \o more
  BY DEF chunk_write_byte, Update, Exit
<1> HIDE DEF d
<1>2. /\ byte \in Byte /\ byte # OP_CONSTANT /\ byte # OP_CONSTANT_LONG
  BY ChunkAssumption, RuntimeAssumption DEF Byte
<1>3. more \in Seq(Entry) /\ Len(more) = 1 /\ more[1].byte = byte
  BY <1>2 DEF LogOf, Entry
<1> HIDE DEF more
<1>4. written \in Seq(Entry) /\ Recorded(chunk, written) /\ Recorded(chunk', written')
  BY DEF IInv
<1>5. d.constants = chunk.constants /\ chunk.constants.count \in Nat
  BY PoolIsArray DEF d, WriteByte
<1>6. Recorded(d, written \o more)
  BY <1>1, <1>4
<1>7. Size(At(d, Len(written))) = 1
  <2> DEFINE all == written \o more
  <2>1. /\ Len(all) \in Nat /\ Len(written) \in 0 .. Len(all) - 1
        /\ all[Len(written) + 1] = more[1]
    <3>1. /\ Len(written) \in Nat /\ Len(all) = Len(written) + Len(more)
          /\ \A i \in 1 .. Len(more) : all[Len(written) + i] = more[i]
      BY <1>3, <1>4, Concatenated
    <3> HIDE DEF all
    <3> QED BY <1>3, <3>1
  <2> HIDE DEF all
  <2>2. Recorded(d, all)
    BY <1>6 DEF all
  <2>3. At(d, Len(written)) = all[Len(written) + 1].byte
    BY <2>1, <2>2, LoggedByte
  <2> QED BY <1>2, <1>3, <2>1, <2>3 DEF Size
<1>8. PICK n, at : Layout(chunk, n, at) /\ Decodable(chunk, n, at)
  BY DEF LayoutInv
<1>9. /\ \E after : Layout(d, n + 1, after) /\ Decodable(d, n + 1, after)
      /\ Listing(d) = Append(Listing(chunk), Instruction(d, Len(written)))
  <2>1. /\ d.constants.count \in Nat
        /\ chunk.constants.count <= d.constants.count
        /\ \A i \in 1 .. chunk.constants.count :
             d.constants.data[i] = chunk.constants.data[i]
    BY <1>5
  <2>2. Size(At(d, Len(written))) = Len(more)
    BY <1>3, <1>7
  <2> QED BY <1>3, <1>4, <1>5, <1>6, <1>7, <1>8, <2>1, <2>2, InstructionAdded
<1>10. \E m, after : Layout(d, m, after) /\ Decodable(d, m, after)
  BY <1>9
<1> QED BY <1>1, <1>9, <1>10 DEF LayoutInv

\* The bytes of an encoded index, read back by the disassembler, are one
\* instruction with that index as its operand.
LEMMA EncodingDecodes ==
  ASSUME NEW c, NEW index \in Nat, index < MaxConstants, NEW offset \in Nat,
         \A j \in 1 .. Len(Encoding(index)) : At(c, offset + (j - 1)) = Encoding(index)[j]
  PROVE  /\ Size(At(c, offset)) = Len(Encoding(index))
         /\ Size(At(c, offset)) # 1
         /\ Operand(c, offset) = index
         /\ Size(At(c, offset)) # 4 => At(c, offset) = OP_CONSTANT
<1> DEFINE bytes == Encoding(index)
<1>1. CASE index <= Base - 1
  <2>1. Len(bytes) = 2 /\ bytes[1] = OP_CONSTANT /\ bytes[2] = index % Base
    BY <1>1 DEF Encoding
  <2>2. index % Base = index
    BY <1>1, ChunkAssumption
  <2> HIDE DEF bytes
  <2>3. At(c, offset) = OP_CONSTANT /\ At(c, offset + 1) = index
    <3>1. 1 \in 1 .. 2 /\ 2 \in 1 .. 2 /\ offset + (1 - 1) = offset /\ offset + (2 - 1) = offset + 1
      OBVIOUS
    <3>2. \A j \in 1 .. 2 : At(c, offset + (j - 1)) = bytes[j]
      BY <2>1 DEF bytes
    <3> QED BY <2>1, <2>2, <3>1, <3>2
  <2>4. Size(OP_CONSTANT) = 2
    BY DEF Size, OP_CONSTANT, OP_CONSTANT_LONG
  <2> QED BY <2>1, <2>3, <2>4 DEF bytes, Operand
<1>2. CASE ~(index <= Base - 1)
  <2>1. /\ Len(bytes) = 4 /\ bytes[1] = OP_CONSTANT_LONG /\ bytes[2] = index % Base
        /\ bytes[3] = (index \div Base) % Base
        /\ bytes[4] = (index \div (Base * Base)) % Base
    BY <1>2 DEF Encoding
  <2>2. index = (index % Base) + ((index \div Base) % Base) * Base
                 + ((index \div (Base * Base)) % Base) * (Base * Base)
    <3>1. index < Base * Base * Base
      BY ChunkAssumption
    <3> QED BY <3>1, ThreeBytes
  <2> HIDE DEF bytes
  <2>3. /\ At(c, offset) = OP_CONSTANT_LONG /\ At(c, offset + 1) = bytes[2]
        /\ At(c, offset + 2) = bytes[3] /\ At(c, offset + 3) = bytes[4]
    <3>1. /\ offset + (1 - 1) = offset /\ offset + (2 - 1) = offset + 1
          /\ offset + (3 - 1) = offset + 2 /\ offset + (4 - 1) = offset + 3
      OBVIOUS
    <3>2. \A j \in {1, 2, 3, 4} : At(c, offset + (j - 1)) = bytes[j]
      BY <2>1 DEF bytes
    <3> QED BY <2>1, <3>1, <3>2
  <2>4. Size(OP_CONSTANT_LONG) = 4 /\ OP_CONSTANT_LONG # OP_CONSTANT
    BY DEF Size, OP_CONSTANT, OP_CONSTANT_LONG
  <2>5. Operand(c, offset) = bytes[2] + bytes[3] * Base + bytes[4] * (Base * Base)
    BY <2>3, <2>4 DEF Operand
  <2>6. Operand(c, offset) = index
    BY <2>1, <2>2, <2>5
  <2> QED BY <2>1, <2>3, <2>4, <2>6 DEF bytes
<1> QED BY <1>1, <1>2

\* chunk_write_op_constant adds one instruction that pushes the constant.
LEMMA ConstantDecodes ==
  ASSUME IInv, IInv', LayoutInv, NEW value \in Values, NEW line \in Lines,
         NEW column \in Columns, chunk_write_op_constant(value, line, column),
         status' = "running"
  PROVE  /\ LayoutInv'
         /\ Listing(chunk)' =
              Append(Listing(chunk), [op |-> OP_CONSTANT, value |-> value,
                                      line |-> line, column |-> column])
<1> DEFINE d == WriteOpConstant(chunk, value, line, column)
           index == chunk.constants.count
           bytes == Encoding(index)
           more == LogOf(bytes, line, column)
           all == written \o more
<1>1. /\ index < MaxConstants /\ ~Denied(d) /\ chunk' = d /\ written' = all
  <2>1. index \in Nat /\ MaxConstants \in Nat
    BY PoolIsArray, ChunkAssumption
  <2>2. ~(index >= MaxConstants)
    BY DEF chunk_write_op_constant, Exit
  <2> HIDE DEF index
  <2>3. Update(d, more)
    BY <2>2 DEF chunk_write_op_constant, index
  <2> QED BY <2>1, <2>2, <2>3 DEF Update, Exit
<1>2. index \in Nat /\ bytes \in Seq(Byte) /\ Len(bytes) \in {2, 4}
  BY PoolIsArray, EncodingBytes
<1>3. d.constants.count = index + 1 /\ d.constants.data[index + 1] = value
      /\ \A i \in 1 .. index : d.constants.data[i] = chunk.constants.data[i]
  BY <1>1, ConstantStored
<1>4. /\ more \in Seq(Entry) /\ Len(more) = Len(bytes)
      /\ \A j \in 1 .. Len(bytes) :
           more[j].byte = bytes[j] /\ more[j].line = line /\ more[j].column = column
  BY <1>2 DEF LogOf, Entry
<1>5. written \in Seq(Entry) /\ Recorded(chunk, written) /\ Recorded(d, all)
  BY <1>1 DEF IInv
<1> HIDE DEF d, index, more
<1>6. /\ Len(written) \in Nat /\ Len(all) = Len(written) + Len(bytes)
      /\ \A j \in 1 .. Len(bytes) : all[Len(written) + j] = more[j]
  <2>1. /\ Len(written) \in Nat /\ Len(all) = Len(written) + Len(more)
        /\ \A j \in 1 .. Len(more) : all[Len(written) + j] = more[j]
    <3>1. written \in Seq(Entry) /\ more \in Seq(Entry)
      BY <1>4, <1>5
    <3> QED BY <3>1, Concatenated
  <2> HIDE DEF all, bytes
  <2> QED BY <1>4, <2>1
<1> HIDE DEF all
<1>7. ASSUME NEW j \in 1 .. Len(bytes)
      PROVE  /\ At(d, Len(written) + (j - 1)) = bytes[j]
             /\ ReadLine(d.lines, Len(written) + (j - 1)) = line
             /\ ReadColumn(d.columns, Len(written) + (j - 1)) = column
  <2>1. /\ Len(all) \in Nat /\ Len(written) + (j - 1) \in 0 .. Len(all) - 1
        /\ Len(written) + (j - 1) + 1 = Len(written) + j
    BY <1>2, <1>6
  <2>2. /\ At(d, Len(written) + (j - 1)) = all[Len(written) + (j - 1) + 1].byte
        /\ ReadLine(d.lines, Len(written) + (j - 1)) = all[Len(written) + (j - 1) + 1].line
        /\ ReadColumn(d.columns, Len(written) + (j - 1)) = all[Len(written) + (j - 1) + 1].column
    BY <1>5, <2>1, LoggedByte
  <2> QED BY <1>4, <1>6, <2>1, <2>2
<1>8. /\ Size(At(d, Len(written))) = Len(bytes)
      /\ Size(At(d, Len(written))) # 1
      /\ Operand(d, Len(written)) = index
      /\ Size(At(d, Len(written))) # 4 => At(d, Len(written)) = OP_CONSTANT
  BY <1>1, <1>2, <1>6, <1>7, EncodingDecodes
<1>9. 1 \in 1 .. Len(bytes) /\ Len(written) + (1 - 1) = Len(written)
  <2> HIDE DEF bytes
  <2>1. Len(bytes) = 2 \/ Len(bytes) = 4
    BY <1>2
  <2>2. Len(written) \in Nat
    BY <1>6
  <2> QED BY <2>1, <2>2
<1>10. /\ ReadLine(d.lines, Len(written)) = line
       /\ ReadColumn(d.columns, Len(written)) = column
  BY <1>7, <1>9
<1>11. Instruction(d, Len(written)) = [op |-> OP_CONSTANT, value |-> value,
                                      line |-> line, column |-> column]
  <2>1. IF Size(At(d, Len(written))) = 4 THEN TRUE ELSE At(d, Len(written)) = OP_CONSTANT
    BY <1>8
  <2>2. d.constants.data[Operand(d, Len(written)) + 1] = value
    BY <1>3, <1>8
  <2> QED BY <1>8, <1>10, <2>1, <2>2 DEF Instruction
<1>12. PICK n, at : Layout(chunk, n, at) /\ Decodable(chunk, n, at)
  BY DEF LayoutInv
<1>13. /\ \E after : Layout(d, n + 1, after) /\ Decodable(d, n + 1, after)
       /\ Listing(d) = Append(Listing(chunk), Instruction(d, Len(written)))
  <2>1. /\ chunk.constants.count \in Nat /\ d.constants.count \in Nat
        /\ chunk.constants.count <= d.constants.count
        /\ \A i \in 1 .. chunk.constants.count :
             d.constants.data[i] = chunk.constants.data[i]
    BY <1>2, <1>3 DEF index
  <2>2. Size(At(d, Len(written))) = Len(more)
    BY <1>4, <1>8
  <2>3. Operand(d, Len(written)) \in Nat /\ Operand(d, Len(written)) < d.constants.count
    BY <1>2, <1>3, <1>8
  <2>4. Recorded(d, written \o more)
    BY <1>5 DEF all
  <2> QED BY <1>4, <1>5, <1>12, <2>1, <2>2, <2>3, <2>4, InstructionAdded
<1>14. \E m, after : Layout(d, m, after) /\ Decodable(d, m, after)
  BY <1>13
<1> QED BY <1>1, <1>11, <1>13, <1>14 DEF LayoutInv
-----------------------------------------------------------------------------
\* The machine stands where an instruction starts, or at the end.
StandsAt(n, at) ==
  /\ Layout(chunk, n, at)
  /\ Decodable(chunk, n, at)
  /\ Running => \E m \in 0 .. n : ip = at[m]

LInv == RInv /\ \E n, at : StandsAt(n, at)

\* Where the machine stands at instruction m, it fetches that instruction;
\* it finds its operand, and the next one begins where it goes on.
LEMMA FetchesInstruction ==
  ASSUME RInv, NEW n, NEW at, Layout(chunk, n, at), Decodable(chunk, n, at),
         NEW m \in 0 .. n, ip = at[m]
  PROVE  \/ /\ m = n /\ ~InCode(1) /\ Opcode = Garbage
         \/ /\ m \in 0 .. n - 1 /\ m + 1 \in 0 .. n /\ at[m + 1] = ip + Size(Opcode)
            /\ Opcode = At(chunk, at[m]) /\ Opcode \in Byte /\ Opcode # Garbage
            /\ Opcode = OP_CONSTANT => HasConstant /\ Operand(chunk, at[m]) = Fetch(1)
            /\ Opcode = OP_CONSTANT_LONG => HasConstantLong /\ Operand(chunk, at[m]) = LongIndex
<1>1. /\ n \in Nat /\ at[n] = chunk.code.count
      /\ \A k \in 0 .. n : at[k] \in Nat
      /\ \A j, k \in 0 .. n : j < k => at[j] < at[k]
      /\ \A k \in 0 .. n - 1 : at[k + 1] = at[k] + Size(At(chunk, at[k]))
  <2>1. /\ n \in Nat /\ at[n] = chunk.code.count
        /\ \A k \in 0 .. n - 1 : at[k + 1] = at[k] + Size(At(chunk, at[k]))
    BY DEF Layout
  <2>2. /\ \A k \in 0 .. n : at[k] \in Nat
        /\ \A j, k \in 0 .. n : j < k => at[j] < at[k]
    BY LayoutGrows
  <2> QED BY <2>1, <2>2
<1>2. CASE m = n
  BY <1>1, <1>2 DEF InCode, Opcode
<1>3. CASE m # n
  <2>1. /\ m \in 0 .. n - 1 /\ m + 1 \in 0 .. n /\ n \in 0 .. n /\ (m + 1 = n \/ m + 1 < n)
    BY <1>1, <1>3
  <2>2. /\ ip \in Nat /\ at[m + 1] \in Nat /\ at[m + 1] <= chunk.code.count
        /\ at[m + 1] = ip + Size(At(chunk, ip))
    BY <1>1, <2>1
  <2>3. InCode(1) /\ chunk.code.count \in Nat
    BY <1>1, <2>1, <2>2, SizeIsSmall DEF InCode
  <2>4. Opcode = At(chunk, ip)
    BY <2>2, <2>3 DEF Opcode, Fetch, At
  <2>5. Opcode \in Byte
    <3>1. 0 \in 0 .. 1 - 1
      OBVIOUS
    <3> QED BY <2>2, <2>3, <3>1, FetchIsByte DEF Opcode, RInv
  <2>6. Opcode # Garbage
    BY <2>5, VMAssumption
  <2>7. Size(Opcode) # 1 => /\ Operand(chunk, ip) \in Nat
                            /\ Operand(chunk, ip) < chunk.constants.count
    BY <2>1, <2>4 DEF Decodable
  <2>8. ASSUME Opcode = OP_CONSTANT
        PROVE  HasConstant /\ Operand(chunk, ip) = Fetch(1)
    <3>1. Size(Opcode) = 2
      BY <2>8 DEF Size, OP_CONSTANT, OP_CONSTANT_LONG
    <3>2. Operand(chunk, ip) = Fetch(1)
      BY <2>2, <2>4, <2>8 DEF Operand, Fetch, At
    <3>3. InCode(2)
      BY <2>2, <2>4, <3>1 DEF InCode
    <3> QED BY <2>7, <3>1, <3>2, <3>3 DEF HasConstant
  <2>9. ASSUME Opcode = OP_CONSTANT_LONG
        PROVE  HasConstantLong /\ Operand(chunk, ip) = LongIndex
    <3>1. Size(Opcode) = 4 /\ Opcode # OP_CONSTANT
      BY <2>9 DEF Size, OP_CONSTANT, OP_CONSTANT_LONG
    <3>2. Operand(chunk, ip) = LongIndex
      BY <2>2, <2>4, <3>1 DEF Operand, LongIndex, Fetch, At
    <3>3. InCode(4)
      BY <2>2, <2>4, <3>1 DEF InCode
    <3> QED BY <2>7, <3>1, <3>2, <3>3 DEF HasConstantLong
  <2> QED BY <2>1, <2>2, <2>4, <2>5, <2>6, <2>8, <2>9
<1> QED BY <1>2, <1>3

\* The layout survives whatever the embedder does with the chunk.
LEMMA LayoutKept ==
  ASSUME IInv, IInv', LayoutInv, ChunkNext
  PROVE  LayoutInv'
<1>1. ASSUME UNCHANGED chunk PROVE LayoutInv'
  BY <1>1 DEF LayoutInv
<1>2. ASSUME NEW line \in Lines, NEW column \in Columns, NEW byte \in RawBytes,
             chunk_write_byte(byte, line, column)
      PROVE  LayoutInv'
  <2>1. CASE status' = "running"
    BY <1>2, <2>1, ByteDecodes
  <2>2. CASE status' # "running"
    BY <1>1, <1>2, <2>2 DEF chunk_write_byte, CanWrite, Update, Exit
  <2> QED BY <2>1, <2>2
<1>3. ASSUME NEW line \in Lines, NEW column \in Columns, NEW value \in Values,
             chunk_write_op_constant(value, line, column)
      PROVE  LayoutInv'
  <2>1. CASE status' = "running"
    BY <1>3, <2>1, ConstantDecodes
  <2>2. CASE status' # "running"
    BY <1>1, <1>3, <2>2 DEF chunk_write_op_constant, CanWrite, Update, Exit
  <2> QED BY <2>1, <2>2
<1>4. CASE chunk_free
  <2> DEFINE at == [k \in 0 .. 0 |-> 0]
  <2>1. at \in [0 .. 0 -> Nat] /\ at[0] = 0
    OBVIOUS
  <2> HIDE DEF at
  <2>2. Layout(EmptyChunk, 0, at) /\ Decodable(EmptyChunk, 0, at)
    BY <2>1 DEF Layout, Decodable, EmptyChunk, EmptyArray
  <2>3. \E n, a : Layout(EmptyChunk, n, a) /\ Decodable(EmptyChunk, n, a)
    BY <2>2
  <2> QED BY <1>4, <2>3 DEF chunk_free, LayoutInv
<1> QED BY <1>2, <1>3, <1>4 DEF ChunkNext

\* An empty chunk and a machine that does not run satisfy the invariant.
LEMMA LInvHolds == RuntimeInit => LInv
<1> SUFFICES ASSUME RuntimeInit PROVE LInv
  OBVIOUS
<1>1. RInv
  BY RuntimeInvariantHolds
<1> DEFINE at == [k \in 0 .. 0 |-> 0]
<1>2. at \in [0 .. 0 -> Nat] /\ at[0] = 0
  OBVIOUS
<1> HIDE DEF at
<1>3. chunk = EmptyChunk /\ ~Running
  BY DEF RuntimeInit, ChunkInit, VMInit, Running
<1>4. StandsAt(0, at)
  BY <1>2, <1>3 DEF StandsAt, Layout, Decodable, EmptyChunk, EmptyArray
<1> QED BY <1>1, <1>4 DEF LInv

\* The machine moves from instruction to instruction.
LEMMA LInvKept == LInv /\ [RuntimeNext]_runtimeVars => LInv'
<1> SUFFICES ASSUME LInv, [RuntimeNext]_runtimeVars PROVE LInv'
  OBVIOUS
<1>1. RInv /\ RInv' /\ IInv /\ IInv'
  BY RuntimeInvariantKept DEF LInv, RInv
<1>2. PICK n, at : StandsAt(n, at)
  BY DEF LInv
<1>3. Layout(chunk, n, at) /\ Decodable(chunk, n, at) /\ LayoutInv
  BY <1>2 DEF StandsAt, LayoutInv
<1>4. ASSUME LayoutInv', ~Running' PROVE LInv'
  BY <1>1, <1>4 DEF LInv, StandsAt, LayoutInv
<1>5. ASSUME UNCHANGED chunk PROVE LayoutInv'
  BY <1>3, <1>5 DEF LayoutInv
<1>6. ASSUME UNCHANGED chunk, NEW m \in 0 .. n, ip' = at[m] PROVE LInv'
  <2>1. Layout(chunk', n, at) /\ Decodable(chunk', n, at)
    BY <1>3, <1>6
  <2>2. StandsAt(n, at)'
    BY <1>6, <2>1 DEF StandsAt
  <2> QED BY <1>1, <2>2 DEF LInv
<1>7. ASSUME Running, UNCHANGED chunk, ip' = ip + Size(Opcode), Opcode # Garbage PROVE LInv'
  <2>1. PICK m \in 0 .. n : ip = at[m]
    BY <1>2, <1>7 DEF StandsAt
  <2>2. m + 1 \in 0 .. n /\ at[m + 1] = ip + Size(Opcode)
    BY <1>1, <1>3, <1>7, <2>1, FetchesInstruction
  <2> QED BY <1>6, <1>7, <2>2
<1>8. /\ OP_RETURN # Garbage /\ OP_DUMP # Garbage /\ OP_CONSTANT # Garbage
      /\ OP_CONSTANT_LONG # Garbage
  BY VMAssumption, ChunkAssumption
     DEF Byte, OP_RETURN, OP_DUMP, OP_CONSTANT, OP_CONSTANT_LONG
<1>9. CASE Embed
  <2>1. LayoutInv'
    BY <1>1, <1>3, <1>9, LayoutKept DEF Embed
  <2>2. ~Running'
    BY <1>9 DEF Embed, Idle, Running, vmVars
  <2> QED BY <1>4, <2>1, <2>2
<1>10. CASE vm_run
  <2>1. UNCHANGED chunk /\ ip' = 0
    BY <1>10 DEF vm_run, chunkVars
  <2>2. 0 \in 0 .. n /\ at[0] = 0
    BY <1>3 DEF Layout
  <2> QED BY <1>6, <2>1, <2>2
<1>11. CASE return \/ unknown \/ Astray \/ StackRefused
  <2>1. UNCHANGED chunk /\ ~Running'
    BY <1>11 DEF return, unknown, Astray, StackRefused, Exit, Running, chunkVars
  <2> QED BY <1>4, <1>5, <2>1
<1>12. CASE dump
  <2>1. Size(OP_DUMP) = 1
    BY DEF Size, OP_DUMP, OP_CONSTANT, OP_CONSTANT_LONG
  <2> QED BY <1>7, <1>8, <1>12, <2>1 DEF dump, chunkVars
<1>13. CASE constant
  <2>1. Size(OP_CONSTANT) = 2
    BY DEF Size, OP_CONSTANT, OP_CONSTANT_LONG
  <2> QED BY <1>7, <1>8, <1>13, <2>1 DEF constant, PushConstant, chunkVars
<1>14. CASE constant_long
  <2>1. Size(OP_CONSTANT_LONG) = 4
    BY DEF Size, OP_CONSTANT, OP_CONSTANT_LONG
  <2> QED BY <1>7, <1>8, <1>14, <2>1 DEF constant_long, PushConstant, chunkVars
<1>15. CASE vm_free
  <2>1. UNCHANGED chunk /\ ~Running'
    BY <1>15 DEF vm_free, Idle, Running, chunkVars
  <2> QED BY <1>4, <1>5, <2>1
<1>16. CASE UNCHANGED runtimeVars
  <2>1. UNCHANGED <<chunk, status, ip, vmState>>
    BY <1>16 DEF runtimeVars, chunkVars, vmVars
  <2>2. StandsAt(n, at)'
    BY <1>2, <2>1 DEF StandsAt, Running
  <2> QED BY <1>1, <2>2 DEF LInv
<1> QED
  BY <1>9, <1>10, <1>11, <1>12, <1>13, <1>14, <1>15, <1>16
     DEF RuntimeNext, VMNext, vm_loop

\* It does, whatever is written, run and freed.
THEOREM LayoutInvariance == RuntimeSpec => []LInv
  BY LInvHolds, LInvKept, PTL DEF RuntimeSpec

\* The machine never executes the operand of an instruction: where it stands
\* is where the disassembler sees an instruction start, or the end, for every
\* program of any length (vm_loop, disassemble_chunk).
THEOREM StandsAtBoundaries == RuntimeSpec => []AtBoundary
<1>1. LInv => AtBoundary
  <2> SUFFICES ASSUME LInv, Running PROVE AtBoundary
    BY DEF AtBoundary
  <2>1. PICK n, at : StandsAt(n, at)
    BY DEF LInv
  <2>2. Layout(chunk, n, at) /\ n \in Nat
    BY <2>1 DEF StandsAt, Layout
  <2>3. PICK m \in 0 .. n : ip = at[m]
    BY <2>1 DEF StandsAt
  <2>4. CASE m = n
    BY <2>2, <2>3, <2>4 DEF AtBoundary, Layout
  <2>5. CASE m # n
    <3>1. Offsets(chunk) = [k \in 1 .. n |-> at[k - 1]]
      BY <2>2, OffsetsAreLaidOut
    <3>2. m + 1 \in 1 .. n /\ (m + 1) - 1 = m
      BY <2>2, <2>5
    <3>3. Len(Offsets(chunk)) = n /\ Offsets(chunk)[m + 1] = ip
      BY <2>2, <2>3, <3>1, <3>2
    <3> QED BY <3>2, <3>3 DEF AtBoundary
  <2> QED BY <2>4, <2>5
<1> QED BY <1>1, LayoutInvariance, PTL

\* A constant is one instruction with the value and the position given for
\* it, for every index below MaxConstants, in one byte or in three
\* (chunk_write_op_constant, disassemble_instruction).
THEOREM ConstantsAreDecoded == RuntimeSpec => ConstantsDecode
<1>1. LInv /\ LInv' /\ [RuntimeNext]_runtimeVars =>
        [\A value \in Values, line \in Lines, column \in Columns :
           chunk_write_op_constant(value, line, column) /\ status' = "running"
             => Listing(chunk)' =
                  Append(Listing(chunk), [op |-> OP_CONSTANT, value |-> value,
                                          line |-> line, column |-> column])
        ]_runtimeVars
  <2> SUFFICES ASSUME LInv, LInv', NEW value \in Values, NEW line \in Lines,
                      NEW column \in Columns,
                      chunk_write_op_constant(value, line, column), status' = "running"
               PROVE  Listing(chunk)' =
                        Append(Listing(chunk), [op |-> OP_CONSTANT, value |-> value,
                                                line |-> line, column |-> column])
    OBVIOUS
  <2>1. IInv /\ IInv' /\ LayoutInv
    BY DEF LInv, RInv, StandsAt, LayoutInv
  <2> QED BY <2>1, ConstantDecodes
<1> QED BY <1>1, LayoutInvariance, PTL DEF RuntimeSpec, ConstantsDecode
-----------------------------------------------------------------------------
\* As many instructions lie before number m as that says.
LEMMA ExecutedIs ==
  ASSUME NEW c, NEW n, NEW at, Layout(c, n, at), NEW m \in 0 .. n
  PROVE  Cardinality({k \in 1 .. Len(Offsets(c)) : Offsets(c)[k] < at[m]}) = m
<1>1. n \in Nat
  BY DEF Layout
<1>2. /\ \A k \in 0 .. n : at[k] \in Nat
      /\ \A j, k \in 0 .. n : j < k => at[j] < at[k]
  BY LayoutGrows
<1>3. Offsets(c) = [k \in 1 .. n |-> at[k - 1]]
  BY OffsetsAreLaidOut
<1>4. Len(Offsets(c)) = n /\ \A k \in 1 .. n : Offsets(c)[k] = at[k - 1]
  BY <1>1, <1>3
<1>5. ASSUME NEW k \in 1 .. n PROVE at[k - 1] < at[m] <=> k \in 1 .. m
  <2>1. k - 1 \in 0 .. n /\ (k - 1 < m \/ k - 1 = m \/ m < k - 1)
    BY <1>1
  <2>2. k - 1 < m <=> k \in 1 .. m
    BY <1>1
  <2> QED BY <1>2, <2>1, <2>2
<1>6. {k \in 1 .. n : Offsets(c)[k] < at[m]} = 1 .. m
  <2>1. \A k \in 1 .. m : k \in 1 .. n
    BY <1>1
  <2>2. \A k \in 1 .. n : Offsets(c)[k] < at[m] <=> k \in 1 .. m
    BY <1>4, <1>5
  <2> QED BY <2>1, <2>2
<1>7. Cardinality(1 .. m) = m
  BY <1>1, FS_Interval
<1> QED BY <1>4, <1>6, <1>7

\* The instruction the disassembler lists is the one the machine fetches.
LEMMA ListsInstruction ==
  ASSUME NEW n, NEW at, Layout(chunk, n, at), NEW m \in 0 .. n - 1
  PROVE  /\ Listing(chunk)[m + 1] = Instruction(chunk, at[m])
         /\ m < Len(Listing(chunk))
<1>1. /\ n \in Nat
      /\ Listing(chunk) = [k \in 1 .. n |-> Instruction(chunk, at[k - 1])]
      /\ Len(Listing(chunk)) = n
  BY ListingIsLaidOut
<1>2. m + 1 \in 1 .. n /\ (m + 1) - 1 = m
  BY <1>1
<1> QED BY <1>1, <1>2

\* The first k elements of a sequence, as a function.
LEMMA InitialPart ==
  ASSUME NEW S, NEW s \in Seq(S), NEW k \in 0 .. Len(s)
  PROVE  SubSeq(s, 1, k) = [i \in 1 .. k |-> s[i]] /\ Len(SubSeq(s, 1, k)) = k
  OBVIOUS

\* The operands are the cells below stack_top.
LEMMA OperandsAre ==
  StackInv => /\ Operands = [i \in 1 .. top.offset |-> stack.data[i]]
              /\ Operands \in Seq(Values) /\ Len(Operands) = top.offset
<1> SUFFICES ASSUME StackInv
             PROVE  /\ Operands = [i \in 1 .. top.offset |-> stack.data[i]]
                    /\ Operands \in Seq(Values) /\ Len(Operands) = top.offset
  OBVIOUS
<1>1. /\ Depth = top.offset /\ top.offset \in 0 .. Len(stack.data) /\ top.offset \in Nat
      /\ stack.data \in Seq(Values \cup {Garbage})
      /\ \A i \in 1 .. top.offset : stack.data[i] \in Values
  BY DepthIsOffset DEF StackInv
<1>2. Operands = [i \in 1 .. top.offset |-> stack.data[i]]
  BY <1>1, InitialPart DEF Operands
<1>3. Operands \in [1 .. top.offset -> Values]
  BY <1>1, <1>2
<1> QED BY <1>1, <1>2, <1>3, FunctionIsSequence

\* vm_loop takes the steps of the interpreter.
LEMMA MachineStep ==
  ASSUME LInv, LInv', vm_loop
  PROVE  I!Next
<1>1. RInv /\ StackInv
  BY DEF LInv, RInv
<1>2. PICK n, at : StandsAt(n, at)
  BY DEF LInv
<1>3. Layout(chunk, n, at) /\ Decodable(chunk, n, at)
  BY <1>2 DEF StandsAt
<1>4. Running
  BY DEF vm_loop, return, dump, constant, constant_long, unknown, Astray, StackRefused
<1>5. PICK m \in 0 .. n : ip = at[m]
  BY <1>2, <1>4 DEF StandsAt
<1> DEFINE program == Listing(chunk)
           pc == IF Running THEN Executed ELSE 0
           state == IF status = "running" THEN vmState ELSE "exited"
<1>6. pc = m /\ state = "running" /\ status = "running" /\ n \in Nat /\ Len(program) = n
  BY <1>3, <1>4, <1>5, ExecutedIs, ListingIsLaidOut DEF Running, Executed
<1>7. ASSUME UNCHANGED chunk PROVE program' = program
  BY <1>7
<1>8. ASSUME Opcode # Garbage
      PROVE  /\ m \in 0 .. n - 1 /\ m + 1 \in 0 .. n /\ m < Len(program)
             /\ at[m + 1] = ip + Size(Opcode)
             /\ program[m + 1].op = IF Size(Opcode) = 4 THEN OP_CONSTANT ELSE Opcode
             /\ program[m + 1].value =
                  IF Size(Opcode) = 1 THEN NoValue
                  ELSE chunk.constants.data[Operand(chunk, at[m]) + 1]
             /\ Opcode = OP_CONSTANT => Operand(chunk, at[m]) = Fetch(1)
             /\ Opcode = OP_CONSTANT_LONG => Operand(chunk, at[m]) = LongIndex
  <2>1. /\ m \in 0 .. n - 1 /\ m + 1 \in 0 .. n /\ at[m + 1] = ip + Size(Opcode)
        /\ Opcode = At(chunk, at[m])
        /\ Opcode = OP_CONSTANT => Operand(chunk, at[m]) = Fetch(1)
        /\ Opcode = OP_CONSTANT_LONG => Operand(chunk, at[m]) = LongIndex
    BY <1>1, <1>3, <1>5, <1>8, FetchesInstruction
  <2>2. program[m + 1] = Instruction(chunk, at[m]) /\ m < Len(program)
    BY <1>3, <2>1, ListsInstruction
  <2> QED BY <2>1, <2>2 DEF Instruction
<1>9. ASSUME UNCHANGED chunk, ip' = ip + Size(Opcode), Opcode # Garbage, Running'
      PROVE  pc' = pc + 1
  <2>1. Layout(chunk', n, at) /\ m + 1 \in 0 .. n /\ ip' = at[m + 1]
    BY <1>3, <1>8, <1>9
  <2>2. Executed' = m + 1
    BY <2>1, ExecutedIs DEF Executed
  <2> QED BY <1>6, <1>9, <2>2
<1>10. /\ OP_RETURN # Garbage /\ OP_DUMP # Garbage /\ OP_CONSTANT # Garbage
       /\ OP_CONSTANT_LONG # Garbage
       /\ Size(OP_RETURN) = 1 /\ Size(OP_DUMP) = 1
       /\ Size(OP_CONSTANT) = 2 /\ Size(OP_CONSTANT_LONG) = 4
  BY VMAssumption, ChunkAssumption
     DEF Byte, Size, OP_RETURN, OP_DUMP, OP_CONSTANT, OP_CONSTANT_LONG
<1>11. /\ Operands = [i \in 1 .. top.offset |-> stack.data[i]]
       /\ Operands \in Seq(Values) /\ Len(Operands) = top.offset
       /\ top.offset \in Nat /\ Depth = top.offset
  BY <1>1, OperandsAre, DepthIsOffset DEF StackInv
<1>12. ASSUME UNCHANGED <<chunk, stack, top, output>>, ~Running'
       PROVE  /\ pc' = 0 /\ program' = program /\ Operands' = Operands
              /\ output' = output
  BY <1>12 DEF Operands, Depth, StackBase
<1>13. CASE return
  <2>1. /\ Opcode = OP_RETURN /\ state' = "ok" /\ ~Running'
        /\ UNCHANGED <<chunk, stack, top, output>>
    BY <1>6, <1>13 DEF return, chunkVars, Running
  <2>2. m < Len(program) /\ program[m + 1].op = OP_RETURN
    BY <1>8, <1>10, <2>1
  <2>3. I!Leave
    BY <1>6, <1>12, <2>1, <2>2 DEF I!Leave, I!Executing, I!Finish
  <2> QED BY <2>3 DEF I!Next, I!Step
<1>14. CASE unknown
  <2>1. /\ Opcode \notin {Garbage, OP_RETURN, OP_DUMP, OP_CONSTANT, OP_CONSTANT_LONG}
        /\ state' = "runtime_error" /\ ~Running'
        /\ UNCHANGED <<chunk, stack, top, output>>
    BY <1>6, <1>14 DEF unknown, chunkVars, Running
  <2>2. Size(Opcode) = 1
    BY <2>1 DEF Size
  <2>3. m < Len(program) /\ program[m + 1].op \notin {OP_RETURN, OP_DUMP, OP_CONSTANT}
    BY <1>8, <2>1, <2>2
  <2>4. I!Reject
    BY <1>6, <1>12, <2>1, <2>3 DEF I!Reject, I!Finish
  <2> QED BY <2>4 DEF I!Next, I!Step
<1>15. CASE StackRefused
  <2>1. /\ state' = "exited" /\ ~Running'
        /\ UNCHANGED <<chunk, stack, top, output>>
    BY <1>15 DEF StackRefused, Exit, Running, vmVars
  <2>2. I!Stop
    BY <1>6, <1>12, <2>1 DEF I!Stop, I!Finish
  <2> QED BY <2>2 DEF I!Next
<1>16. CASE Astray
  <2>1. /\ state' = "undefined" /\ ~Running'
        /\ UNCHANGED <<chunk, stack, top, output>>
    BY <1>6, <1>16 DEF Astray, chunkVars, Running
  <2>2. I!Finish("undefined")
    BY <1>12, <2>1 DEF I!Finish
  <2>3. CASE Opcode = Garbage
    <3>1. m = n
      BY <1>1, <1>3, <1>5, <2>3, FetchesInstruction
    <3>2. I!GoWrong
      BY <1>6, <2>2, <3>1 DEF I!GoWrong
    <3> QED BY <3>2 DEF I!Next, I!Step
  <2>4. CASE Opcode = OP_DUMP /\ Depth = 0
    <3>1. m < Len(program) /\ program[m + 1].op = OP_DUMP
      BY <1>8, <1>10, <2>4
    <3>2. Operands = << >>
      BY <1>11, <2>4
    <3>3. I!GoWrong
      BY <1>6, <2>2, <3>1, <3>2 DEF I!GoWrong, I!Executing
    <3> QED BY <3>3 DEF I!Next, I!Step
  <2>5. ~(Opcode = OP_CONSTANT /\ ~HasConstant) /\ ~(Opcode = OP_CONSTANT_LONG /\ ~HasConstantLong)
    BY <1>1, <1>3, <1>5, <1>10, FetchesInstruction
  <2> QED BY <1>16, <2>3, <2>4, <2>5 DEF Astray
<1>17. CASE dump
  <2>1. /\ Opcode = OP_DUMP /\ Depth > 0 /\ ip' = ip + 1 /\ Running'
        /\ state' = state /\ UNCHANGED <<chunk, stack>>
        /\ output' = Append(output, stack.data[top.offset])
        /\ top' = [top EXCEPT !.offset = top.offset - 1]
    BY <1>6, <1>17 DEF dump, chunkVars, Running, Popped, vm_stack_pop
  <2>2. m < Len(program) /\ program[m + 1].op = OP_DUMP
    BY <1>8, <1>10, <2>1
  <2>3. pc' = pc + 1
    BY <1>9, <1>10, <2>1
  <2>4. /\ top'.offset = top.offset - 1 /\ top'.offset \in Nat
        /\ Operands' = [i \in 1 .. top'.offset |-> stack.data[i]]
    <3>1. top'.offset = top.offset - 1 /\ top'.offset \in Nat
      BY <1>1, <1>11, <2>1 DEF StackInv
    <3>2. StackInv'
      BY DEF LInv, RInv
    <3>3. Depth' = top'.offset /\ top'.offset \in 0 .. Len(stack'.data)
          /\ stack'.data \in Seq(Values \cup {Garbage})
      BY <3>1, <3>2 DEF StackInv, Depth, StackBase
    <3>4. Operands' = [i \in 1 .. top'.offset |-> stack'.data[i]]
      BY <3>3, InitialPart DEF Operands
    <3> QED BY <2>1, <3>1, <3>4
  <2>5. /\ Operands # << >> /\ Operands[Len(Operands)] = stack.data[top.offset]
        /\ Operands' = SubSeq(Operands, 1, Len(Operands) - 1)
    <3>1. top.offset > 0 /\ Len(Operands) - 1 = top.offset - 1
      BY <1>11, <2>1
    <3>2. SubSeq(Operands, 1, Len(Operands) - 1) = [i \in 1 .. top.offset - 1 |-> Operands[i]]
      BY <1>11, <3>1, InitialPart
    <3> QED BY <1>11, <2>4, <3>1, <3>2
  <2>6. I!Pop
    BY <1>6, <1>7, <2>1, <2>2, <2>3, <2>5 DEF I!Pop, I!Executing
  <2> QED BY <2>6 DEF I!Next, I!Step
<1>18. ASSUME NEW index, PushConstant(Size(Opcode), index), Opcode # Garbage,
              program[m + 1].op = OP_CONSTANT,
              program[m + 1].value = chunk.constants.data[index + 1],
              chunk.constants.data[index + 1] \in Values
       PROVE  I!Next
  <2> DEFINE value == chunk.constants.data[index + 1]
  <2>1. /\ ip' = ip + Size(Opcode) /\ vm_stack_push(value) /\ Running' /\ state' = state
        /\ UNCHANGED <<chunk, output>>
    BY <1>4, <1>6, <1>18 DEF PushConstant, chunkVars, Running
  <2>2. pc' = pc + 1 /\ m < Len(program)
    BY <1>8, <1>9, <1>18, <2>1
  <2>3. /\ StackInv' /\ top'.offset = top.offset + 1
        /\ stack'.data[top.offset + 1] = value
        /\ \A i \in 1 .. top.offset : stack'.data[i] = stack.data[i]
    BY <1>1, <1>18, <2>1, PushKeepsStack
  <2>4. Operands' = [i \in 1 .. top.offset + 1 |-> stack'.data[i]]
    <3>1. Depth' = top'.offset /\ top'.offset \in 0 .. Len(stack'.data)
          /\ stack'.data \in Seq(Values \cup {Garbage})
      BY <2>3 DEF StackInv, Depth, StackBase
    <3> QED BY <2>3, <3>1, InitialPart DEF Operands
  <2>5. Operands' = Append(Operands, value)
    <3> DEFINE after == Operands'
    <3>1. Operands = [i \in 1 .. top.offset |-> after[i]] /\ after[top.offset + 1] = value
      BY <1>11, <2>3, <2>4
    <3>2. after \in [1 .. top.offset + 1 -> Values]
      <4>1. \A i \in 1 .. top.offset + 1 : stack'.data[i] \in Values
        BY <2>3 DEF StackInv
      <4> QED BY <2>4, <4>1
    <3> HIDE DEF after
    <3>3. after = Append(Operands, after[top.offset + 1])
      BY <1>11, <3>1, <3>2, LastAppended
    <3> QED BY <3>1, <3>3 DEF after
  <2> HIDE DEF value
  <2>6. I!Push
    BY <1>6, <1>7, <1>18, <2>1, <2>2, <2>5 DEF I!Push, I!Executing, value
  <2> QED BY <2>6 DEF I!Next, I!Step
<1>19. CASE constant
  <2>1. chunk.constants.data[Fetch(1) + 1] \in Values
    BY <1>1, <1>19, ConstantIsValue DEF constant, RInv, MachineInv
  <2> QED BY <1>8, <1>10, <1>18, <1>19, <2>1 DEF constant
<1>20. CASE constant_long
  <2>1. chunk.constants.data[LongIndex + 1] \in Values
    BY <1>1, <1>20, ConstantIsValue DEF constant_long, RInv, MachineInv
  <2> QED BY <1>8, <1>10, <1>18, <1>20, <2>1 DEF constant_long
<1> QED
  BY <1>13, <1>14, <1>15, <1>16, <1>17, <1>19, <1>20 DEF vm_loop

\* An empty chunk lists nothing.
LEMMA EmptyListing == Listing(EmptyChunk) = << >>
<1> DEFINE at == [k \in 0 .. 0 |-> 0]
<1>1. at \in [0 .. 0 -> Nat] /\ at[0] = 0
  OBVIOUS
<1> HIDE DEF at
<1>2. Layout(EmptyChunk, 0, at)
  BY <1>1 DEF Layout, EmptyChunk, EmptyArray
<1>3. Listing(EmptyChunk) = [k \in 1 .. 0 |-> Instruction(EmptyChunk, at[k - 1])]
  BY <1>2, ListingIsLaidOut
<1> QED BY <1>3

\* The embedder's calls are the environment's steps of the interpreter.
LEMMA EmbedderStep ==
  ASSUME LInv, LInv', Embed
  PROVE  I!Next \/ UNCHANGED I!vars
<1>1. /\ IInv /\ IInv' /\ LayoutInv
  BY DEF LInv, RInv, StandsAt, LayoutInv
<1> DEFINE program == Listing(chunk)
           pc == IF Running THEN Executed ELSE 0
           state == IF status = "running" THEN vmState ELSE "exited"
<1>2. /\ Idle /\ ~Running /\ ~Running' /\ status = "running"
      /\ UNCHANGED <<vmState, stack, top, output>>
  BY DEF Embed, Idle, Running, vmVars
<1>3. /\ pc = 0 /\ pc' = 0 /\ Operands' = Operands /\ output' = output
      /\ state \in {"ready", "ok", "runtime_error"}
  BY <1>2 DEF Operands, Depth, StackBase, Idle
<1>4. ASSUME status' # "running", UNCHANGED chunk PROVE I!Next
  <2>1. program' = program /\ state' = "exited"
    BY <1>4
  <2>2. I!Stop
    BY <1>3, <2>1 DEF I!Stop, I!Finish
  <2> QED BY <2>2 DEF I!Next
<1>5. ASSUME status' = "running", NEW instruction, program' = Append(program, instruction)
      PROVE  I!Next
  <2>1. PICK n, at : Layout(chunk, n, at)
    BY <1>1 DEF LayoutInv
  <2> DEFINE S == {program[k] : k \in 1 .. n} \cup {instruction}
  <2>2. program \in Seq(S) /\ instruction \in S
    <3>1. /\ n \in Nat
          /\ program = [k \in 1 .. n |-> Instruction(chunk, at[k - 1])]
      BY <2>1, ListingIsLaidOut
    <3> HIDE DEF program
    <3>2. program \in [1 .. n -> S]
      BY <3>1
    <3> HIDE DEF S
    <3>3. program \in Seq(S)
      BY <3>1, <3>2, FunctionIsSequence
    <3> QED BY <3>3 DEF S
  <2>3. ASSUME NEW T, NEW s \in Seq(T), NEW x \in T
        PROVE  /\ Len(Append(s, x)) = Len(s) + 1
               /\ SubSeq(Append(s, x), 1, Len(s)) = s
    OBVIOUS
  <2>4. /\ Len(program') = Len(program) + 1
        /\ SubSeq(program', 1, Len(program)) = program
    <3> HIDE DEF S
    <3> QED BY <1>5, <2>2, <2>3
  <2>5. state' = state
    BY <1>2, <1>5
  <2>6. I!Emit
    BY <1>3, <2>4, <2>5 DEF I!Emit, I!Idle
  <2> QED BY <2>6 DEF I!Next
<1>6. ASSUME NEW line \in Lines, NEW column \in Columns, NEW byte \in RawBytes,
             chunk_write_byte(byte, line, column)
      PROVE  I!Next
  <2>1. CASE status' = "running"
    BY <1>1, <1>5, <1>6, <2>1, ByteDecodes
  <2>2. CASE status' # "running"
    BY <1>2, <1>4, <1>6, <2>2 DEF chunk_write_byte, Update, Exit
  <2> QED BY <2>1, <2>2
<1>7. ASSUME NEW line \in Lines, NEW column \in Columns, NEW value \in Values,
             chunk_write_op_constant(value, line, column)
      PROVE  I!Next
  <2>1. CASE status' = "running"
    BY <1>1, <1>5, <1>7, <2>1, ConstantDecodes
  <2>2. CASE status' # "running"
    BY <1>2, <1>4, <1>7, <2>2 DEF chunk_write_op_constant, Update, Exit
  <2> QED BY <2>1, <2>2
<1>8. CASE chunk_free
  <2>1. program' = << >> /\ state' = state
    BY <1>2, <1>8, EmptyListing DEF chunk_free
  <2>2. I!Clear
    BY <1>3, <2>1 DEF I!Clear, I!Idle
  <2> QED BY <2>2 DEF I!Next
<1>9. CASE UNCHANGED chunkVars
  <2>1. program' = program /\ state' = state
    BY <1>2, <1>9 DEF chunkVars
  <2> QED BY <1>3, <2>1 DEF I!vars
<1> QED BY <1>6, <1>7, <1>8, <1>9 DEF Embed, ChunkNext

(***************************************************************************)
(* Every step of the runtime is one of the interpreter, or none: bytes,    *)
(* operand widths, run-length encoded positions, growth and pointers       *)
(* cannot be observed, whatever the constants.  (That a run goes on, the   *)
(* fairness of ImplementsInterpreter, is left to the model checker.)       *)
(***************************************************************************)
THEOREM StepsAsInterpreter == RuntimeSpec => I!Safety
<1>1. RuntimeInit => I!Init
  <2> SUFFICES ASSUME RuntimeInit PROVE I!Init
    OBVIOUS
  <2>1. /\ chunk = EmptyChunk /\ status = "running" /\ vmState = "ready" /\ output = << >>
        /\ stack = EmptyStack /\ top = Null
    BY DEF RuntimeInit, ChunkInit, VMInit
  <2>2. Listing(chunk) = << >> /\ ~Running
    BY <2>1, EmptyListing DEF Running
  <2>3. Operands = << >>
    BY <2>1 DEF Operands, Depth, StackBase, EmptyStack, Null
  <2> QED BY <2>1, <2>2, <2>3 DEF I!Init
<1>2. LInv /\ LInv' /\ [RuntimeNext]_runtimeVars => [I!Next]_(I!vars)
  <2> SUFFICES ASSUME LInv, LInv', [RuntimeNext]_runtimeVars
               PROVE  I!Next \/ UNCHANGED I!vars
    OBVIOUS
  <2>1. CASE Embed
    BY <2>1, EmbedderStep
  <2>2. CASE vm_loop
    BY <2>2, MachineStep
  <2>3. CASE vm_run
    <3>1. /\ Idle /\ Running' /\ ip' = 0 /\ output' = << >>
          /\ UNCHANGED <<chunk, stack, top>> /\ status = "running" /\ status' = "running"
          /\ vmState' = "running" /\ vmState \in {"ready", "ok", "runtime_error"}
      BY <2>3 DEF vm_run, chunkVars, Idle, Running
    <3>2. Executed' = 0
      <4>1. PICK n, at : Layout(chunk', n, at)
        BY DEF LInv, StandsAt
      <4>2. 0 \in 0 .. n /\ at[0] = 0
        BY <4>1 DEF Layout
      <4> QED BY <3>1, <4>1, <4>2, ExecutedIs DEF Executed
    <3>3. Listing(chunk)' = Listing(chunk) /\ Operands' = Operands
      BY <3>1 DEF Operands, Depth, StackBase
    <3>4. I!Run
      BY <3>1, <3>2, <3>3 DEF I!Run, I!Idle
    <3> QED BY <3>4 DEF I!Next
  <2>4. CASE vm_free
    <3>1. /\ ~Running /\ ~Running' /\ vmState' = vmState /\ status = "running"
          /\ vmState \in {"ready", "ok", "runtime_error"} /\ status' = status
          /\ output' = output /\ chunk' = chunk /\ stack' = EmptyStack /\ top' = Null
      BY <2>4 DEF vm_free, chunkVars, Idle, Running
    <3>2. Operands' = << >>
      BY <3>1 DEF Operands, Depth, StackBase, EmptyStack, Null
    <3>3. Listing(chunk)' = Listing(chunk)
      BY <3>1
    <3>4. I!Empty
      BY <3>1, <3>2, <3>3 DEF I!Empty, I!Idle
    <3> QED BY <3>4 DEF I!Next
  <2>5. CASE UNCHANGED runtimeVars
    BY <2>5 DEF I!vars, runtimeVars, chunkVars, vmVars, Running, Executed, Operands,
                Depth, StackBase
  <2> QED BY <2>1, <2>2, <2>3, <2>4, <2>5 DEF RuntimeNext, VMNext
<1> QED BY <1>1, <1>2, LayoutInvariance, PTL DEF RuntimeSpec, I!Safety
=============================================================================
