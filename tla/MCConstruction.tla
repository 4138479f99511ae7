--------------------------- MODULE MCConstruction ---------------------------
(* Instances of Construction for TLC. *)
EXTENDS Construction_Properties

LogsOfPowersOfTwo == {2, 3, 4} \cup 9 .. 16
FiveToEight == 5 .. 8
=============================================================================
