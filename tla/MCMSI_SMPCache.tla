--------------------------- MODULE MCMSI_SMPCache ---------------------------
(* Instances of MSI_SMPCache for TLC. *)
EXTENDS MSI_Properties, TLC

CONSTANTS v1, v2

OneValue == {v1}
TwoValues == {v1, v2}

Lines2 == 0 .. 1
Lines3 == 0 .. 2
HighLines == 1 .. 3

(* A value is only compared for equality and NaN is none of them.          *)
ValueSymmetry == Permutations(Values)
=============================================================================
