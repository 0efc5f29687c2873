-------------------------- MODULE MCProfilerMemory --------------------------
(***************************************************************************)
(* Instances of ProfilerMemory for TLC: one Func has an array on the stack.*)
(***************************************************************************)
EXTENDS ProfilerMemory, TLC

CONSTANTS f1, f2

MCStackBytes == f1 :> 1 @@ f2 :> 0
=============================================================================
