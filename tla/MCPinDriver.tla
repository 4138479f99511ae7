---------------------------- MODULE MCPinDriver ----------------------------
(* Instances of PinDriver for TLC. *)
EXTENDS PinDriver_Properties, TLC

ThreadSymmetry == Permutations(Threads)
=============================================================================
