------------------------------ MODULE MCRuntime ------------------------------
(***************************************************************************)
(* Model-checking instance of Runtime: short programs of any constants are *)
(* run; from there on the chunk only grows, up to the limit on constants.  *)
(***************************************************************************)
EXTENDS Runtime

CONSTANT ShortProgram  \* bound: number of constants in a program that is run

ASSUME MCRuntimeAssumption == ShortProgram \in Nat

(***************************************************************************)
(* Of the long programs, those in which every constant but the first is    *)
(* another one: an index that came out as that of the first would be       *)
(* decoded to a wrong value.                                               *)
(***************************************************************************)
FirstDiffers ==
  chunk.constants.count > ShortProgram =>
    \A i \in 2 .. chunk.constants.count :
       chunk.constants.data[i] # chunk.constants.data[1]

\* RuntimeNext for this instance.
LongNext ==
  \/ Embed /\ FirstDiffers'
  \/ chunk.constants.count <= ShortProgram /\ vm_run
  \/ vm_loop
  \/ vm_free

LongSpec ==
  RuntimeInit /\ [][LongNext]_runtimeVars /\ WF_runtimeVars(vm_loop)
=============================================================================
