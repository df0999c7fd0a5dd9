-------------------------------- MODULE MCDB --------------------------------
(* Instances of DB for TLC. *)
EXTENDS DBInv, TLC

Symmetry == Permutations(Reader)
=============================================================================
