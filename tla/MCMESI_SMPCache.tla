--------------------------- MODULE MCMESI_SMPCache ---------------------------
(* Instances of MESI_SMPCache for TLC. *)
EXTENDS MESI_Properties

Lines3 == 0 .. 2
NoWords == {}
NoValues == {}
=============================================================================
