-------------------------- MODULE MCContainerAccess --------------------------
(* Instances of ContainerAccess for TLC. *)
EXTENDS ContainerAccess_Properties, TLC

CONSTANT v1

OneValue == {v1}
Lines2 == 0 .. 1

(* An int of four bits holds the ids below 8: with three CPUs, 5 is on     *)
(* CPU 2, and 9 is -7, whose remainder is that of no CPU.                  *)
FourTids == {0, 1, 5, 9}
=============================================================================
