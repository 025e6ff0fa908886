------------------------------- MODULE Runtime -------------------------------
(***************************************************************************)
(* The runtime as an embedding program (such as skard-runtime) uses it:    *)
(* one thread that writes a chunk, runs it, writes more, runs it again,    *)
(* frees the chunk or the machine and starts over, in any order.           *)
(***************************************************************************)
EXTENDS VM, Disassembler, FiniteSets

\* Raw bytes are instructions without an operand: the embedder writes
\* constants through chunk_write_op_constant.
ASSUME RuntimeAssumption ==
  RawBytes \cap {OP_CONSTANT, OP_CONSTANT_LONG} = {}

runtimeVars == <<chunkVars, vmVars>>

\* The chunk functions run to completion between two runs of the machine.
Embed == Idle /\ ChunkNext /\ UNCHANGED vmVars

RuntimeInit == ChunkInit /\ VMInit

RuntimeNext == Embed \/ VMNext

\* Once called, vm_run keeps iterating.
RuntimeSpec ==
  RuntimeInit /\ [][RuntimeNext]_runtimeVars /\ WF_runtimeVars(vm_loop)
-----------------------------------------------------------------------------
\* Instructions of the chunk that lie before ip.
Executed ==
  Cardinality({k \in 1 .. Len(Offsets(chunk)) : Offsets(chunk)[k] < ip})

Operands == SubSeq(stack.data, 1, Depth)

\* Type invariant of the machine.
RuntimeTypeOK ==
  /\ ChunkTypeOK
  /\ vmState \in {"ready", "running", "ok", "runtime_error", "undefined"}
  /\ ip \in Nat
  /\ stack \in [block : 0 .. 2, capacity : Nat,
                data : Seq(Values \cup {Garbage}), memory : {"granted"}]
  /\ top \in [block : 0 .. 2, offset : Nat]
  /\ output \in Seq(Values)

(***************************************************************************)
(* vm_stack_push and vm_stack_pop go through stack_top.  It always points  *)
(* into the block the machine owns (never into one that realloc has given  *)
(* back) or just past its end, and every cell below it holds a value that  *)
(* was pushed.                                                             *)
(***************************************************************************)
StackPointerValid ==
  /\ top.block = stack.block
  /\ top.offset \in 0 .. stack.capacity
  /\ stack.capacity = Len(stack.data)
  /\ \A i \in 1 .. top.offset : stack.data[i] # Garbage

(***************************************************************************)
(* vm_loop and the disassembler decode operands independently.  They agree *)
(* on where every instruction starts: the machine never executes the       *)
(* operand of an instruction.                                              *)
(***************************************************************************)
AtBoundary ==
  Running => \/ ip = chunk.code.count
             \/ \E k \in 1 .. Len(Offsets(chunk)) : Offsets(chunk)[k] = ip

(***************************************************************************)
(* The runtime implements the abstract interpreter: bytes, operand widths, *)
(* run-length encoded positions, stack growth and pointers are not         *)
(* observable, up to running out of memory.                                *)
(***************************************************************************)
I == INSTANCE Interpreter WITH
       Return   <- OP_RETURN,
       Dump     <- OP_DUMP,
       Constant <- OP_CONSTANT,
       program  <- Listing(chunk),
       pc       <- IF Running THEN Executed ELSE 0,
       values   <- Operands,
       state    <- IF status = "running" THEN vmState ELSE "exited"

ImplementsInterpreter == I!Spec

\* Executing program from instruction k on with a stack of the given depth
\* reaches a return (or an unknown instruction) before anything goes wrong.
Balanced(program, k, depth) ==
  LET finds[i \in Nat, d \in Nat] ==
        /\ i <= Len(program)
        /\ CASE program[i].op = OP_CONSTANT -> finds[i + 1, d + 1]
             [] program[i].op = OP_DUMP     -> d > 0 /\ finds[i + 1, d - 1]
             [] OTHER                       -> TRUE
  IN  finds[k, depth]

(***************************************************************************)
(* vm_loop has no bound on its iterations, no end-of-code check and no     *)
(* underflow check.  For a program that returns before it pops too much it *)
(* needs none: the run gives a result, or the process ends for want of     *)
(* memory.                                                                 *)
(***************************************************************************)
BalancedRunsReturn ==
  (Running /\ ip = 0 /\ Balanced(Listing(chunk), 1, Depth))
    ~> (vmState \in {"ok", "runtime_error"} \/ status # "running")

(***************************************************************************)
(* End to end: a constant written at a position is decoded as one          *)
(* instruction with that value and position, after all the instructions    *)
(* that were there, whichever of the two encodings its index needed.       *)
(***************************************************************************)
ConstantsDecode ==
  [][\A value \in Values, line \in Lines, column \in Columns :
       chunk_write_op_constant(value, line, column) /\ status' = "running"
         => Listing(chunk)' =
              Append(Listing(chunk), [op |-> OP_CONSTANT, value |-> value,
                                      line |-> line, column |-> column])
    ]_runtimeVars
=============================================================================
