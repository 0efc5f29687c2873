--------------------------- MODULE MCCopyInjection --------------------------
(* Instances of CopyInjection for TLC.                                       *)
EXTENDS CopyInjection

\* Devices are interchangeable: the pass and the runtime only compare them.
DeviceSymmetry == Permutations(Devices)
=============================================================================
