---------------------------- MODULE MCJITRuntime ----------------------------
(* An instance of JITRuntime for TLC: p2 calls p1 as an extern.              *)
EXTENDS JITRuntime, TLC

CONSTANTS p1, p2

MCExternOf == (p1 :> None) @@ (p2 :> p1)
MCDeviceKinds == <<"OpenCL", "CUDA">>
MCTargets == {{}, {"CUDA"}}
=============================================================================
