------------------------------ MODULE MCCursor ------------------------------
(***************************************************************************)
(* Tree and Cursor with pages that hold four small items.                  *)
(***************************************************************************)
EXTENDS Cursor

(* Twelve keys make a tree of three levels, five one of two; values of 120  *)
(* bytes need overflow pages.  A cursor is moved over five leaves under two *)
(* branches, over three leaves, and over two that can both be emptied.      *)
Deep == [start |-> 1..12, keys |-> 1..13, values |-> {8},
         ops |-> 4, txs |-> 1, cursor |-> FALSE]

Shallow == {[start |-> s, keys |-> 1..5, values |-> {8, 120},
             ops |-> 3, txs |-> 2, cursor |-> FALSE] : s \in {{}, 1..5}}

Walked == {[start |-> 1..11, keys |-> 1..11, values |-> {8},
            ops |-> 2, txs |-> 1, cursor |-> TRUE],
           [start |-> 1..7, keys |-> 1..7, values |-> {8},
            ops |-> 4, txs |-> 1, cursor |-> TRUE],
           [start |-> 1..5, keys |-> 1..5, values |-> {8},
            ops |-> 5, txs |-> 1, cursor |-> TRUE]}

Plans == {Deep} \union Shallow \union Walked
=============================================================================
