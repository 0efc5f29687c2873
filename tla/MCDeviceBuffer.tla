--------------------------- MODULE MCDeviceBuffer ---------------------------
(* Instances of DeviceBuffer for TLC.                                        *)
EXTENDS DeviceBuffer, TLC

\* No formula tells one thread, or one device, from another.
Symmetry == Permutations(Threads) \cup Permutations(Devices)
=============================================================================
