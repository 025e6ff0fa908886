----------------------------- MODULE Interpreter -----------------------------
(***************************************************************************)
(* What the runtime promises its embedder, without bytes, pointers or      *)
(* blocks of memory: a chunk is a program, that is a sequence of           *)
(* instructions each carrying its operand and its source position, and     *)
(* running it works on one stack of values.  The stack outlives a run.     *)
(***************************************************************************)
EXTENDS Integers, Sequences

CONSTANTS Return, Dump, Constant  \* the opcodes that mean something

VARIABLES program, pc, values, output, state

vars == <<program, pc, values, output, state>>

Idle == state \in {"ready", "ok", "runtime_error"}

Init ==
  /\ program = << >>
  /\ pc = 0
  /\ values = << >>
  /\ output = << >>
  /\ state = "ready"

Emit ==
  /\ Idle
  /\ Len(program') = Len(program) + 1
  /\ SubSeq(program', 1, Len(program)) = program
  /\ UNCHANGED <<pc, values, output, state>>

Clear ==
  /\ Idle
  /\ program' = << >>
  /\ UNCHANGED <<pc, values, output, state>>

Empty ==
  /\ Idle
  /\ values' = << >>
  /\ UNCHANGED <<program, pc, output, state>>

Run ==
  /\ Idle
  /\ state' = "running"
  /\ pc' = 0
  /\ output' = << >>
  /\ UNCHANGED <<program, values>>

Executing(op) ==
  /\ state = "running"
  /\ pc < Len(program)
  /\ program[pc + 1].op = op

Finish(result) ==
  /\ state' = result
  /\ pc' = 0
  /\ UNCHANGED <<program, values, output>>

Push ==
  /\ Executing(Constant)
  /\ values' = Append(values, program[pc + 1].value)
  /\ pc' = pc + 1
  /\ UNCHANGED <<program, output, state>>

Pop ==
  /\ Executing(Dump)
  /\ values # << >>
  /\ output' = Append(output, values[Len(values)])
  /\ values' = SubSeq(values, 1, Len(values) - 1)
  /\ pc' = pc + 1
  /\ UNCHANGED <<program, state>>

Leave == Executing(Return) /\ Finish("ok")

Reject ==
  /\ state = "running"
  /\ pc < Len(program)
  /\ program[pc + 1].op \notin {Return, Dump, Constant}
  /\ Finish("runtime_error")

\* Nothing is promised of a program that pops an empty stack or has no end.
GoWrong ==
  /\ \/ Executing(Dump) /\ values = << >>
     \/ state = "running" /\ pc = Len(program)
  /\ Finish("undefined")

\* The process may run out of memory or of constants at any time.
Stop == state # "undefined" /\ state # "exited" /\ Finish("exited")

Step == Push \/ Pop \/ Leave \/ Reject \/ GoWrong

Next == Emit \/ Clear \/ Empty \/ Run \/ Step \/ Stop

Safety == Init /\ [][Next]_vars

\* Once running, the interpreter goes on unless the process stops.
Spec == Safety /\ WF_vars(Step)
=============================================================================
