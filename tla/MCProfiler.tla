----------------------------- MODULE MCProfiler -----------------------------
(***************************************************************************)
(* Instances of Profiler for TLC: two pipelines of one and two Funcs.      *)
(***************************************************************************)
EXTENDS Profiler

CONSTANTS p1, p2

MCNumFuncs == p1 :> 2 @@ p2 :> 1
=============================================================================
