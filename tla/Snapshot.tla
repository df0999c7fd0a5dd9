------------------------------ MODULE Snapshot ------------------------------
(***************************************************************************)
(* What bbolt promises its users, without pages, freelists or meta pages:  *)
(* one current version of the database, read transactions that keep the    *)
(* version they began with, commits that happen one at a time, and a crash *)
(* that loses at most the commit that had not been acknowledged yet.       *)
(***************************************************************************)
CONSTANTS
  Reader,   \* goroutines that open read-only transactions
  Version   \* the possible contents of the database

VARIABLES
  current,  \* the version a transaction that begins now sees
  durable,  \* the version of the last acknowledged commit
  views     \* the version each open read transaction sees

vars == <<current, durable, views>>

Init ==
  /\ current \in Version
  /\ durable = current
  /\ views = <<>>

BeginRead(r) ==
  /\ r \notin DOMAIN views
  /\ views' = [x \in DOMAIN views \cup {r} |->
                 IF x = r THEN current ELSE views[x]]
  /\ UNCHANGED <<current, durable>>

EndRead(r) ==
  /\ r \in DOMAIN views
  /\ views' = [x \in DOMAIN views \ {r} |-> views[x]]
  /\ UNCHANGED <<current, durable>>

\* A commit becomes visible, to new transactions only, ...
Commit ==
  /\ durable = current
  /\ current' \in Version
  /\ UNCHANGED <<durable, views>>

\* ... and is acknowledged when it is on stable storage.
Acknowledge ==
  /\ durable' = current
  /\ UNCHANGED <<current, views>>

Crash ==
  /\ current' \in {current, durable}
  /\ durable' = current'
  /\ views' = <<>>

Next ==
  \/ \E r \in Reader : BeginRead(r) \/ EndRead(r)
  \/ Commit \/ Acknowledge \/ Crash

Spec == Init /\ [][Next]_vars
=============================================================================
