------------------------------ MODULE KeyValue ------------------------------
(***************************************************************************)
(* What a bucket promises: a map from keys to values that a write          *)
(* transaction changes one key at a time, and that Commit keeps and        *)
(* Rollback restores.                                                      *)
(***************************************************************************)
CONSTANTS Key, Value

VARIABLES
  current,  \* what the open write transaction sees
  saved     \* what the last commit left

Init == current = saved /\ \E D \in SUBSET Key : saved \in [D -> Value]

Put(k, v) ==
  /\ current' = [x \in DOMAIN current \union {k} |-> IF x = k THEN v ELSE current[x]]
  /\ UNCHANGED saved

Delete(k) ==
  /\ current' = [x \in DOMAIN current \ {k} |-> current[x]]
  /\ UNCHANGED saved

Commit ==
  /\ saved' = current
  /\ UNCHANGED current

Rollback ==
  /\ current' = saved
  /\ UNCHANGED saved

Next ==
  \/ \E k \in Key : Delete(k) \/ \E v \in Value : Put(k, v)
  \/ Commit
  \/ Rollback

Spec == Init /\ [][Next]_<<current, saved>>
=============================================================================
