----------------------------- MODULE MCSurgery ------------------------------
(***************************************************************************)
(* Surgery on a file with six small keys to begin with.  Keys 1, 2 and 5   *)
(* are changed: two in the first leaf and one in another.                  *)
(***************************************************************************)
EXTENDS Surgery

Plans == {[start |-> 1..6, keys |-> {1, 2, 5}, values |-> {8, 300},
           ops |-> 2, txs |-> 2, cursor |-> FALSE]}
=============================================================================
