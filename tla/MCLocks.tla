------------------------------ MODULE MCLocks ------------------------------
(***************************************************************************)
(* Locks with three goroutines that divide the methods between them.       *)
(***************************************************************************)
EXTENDS Locks, TLC

CONSTANTS g1, g2, g3

Division ==
  g1 :> {"View", "Update"} @@ g2 :> {"Update", "WriteTo"} @@ g3 :> {"View", "Size", "Close"}
=============================================================================
