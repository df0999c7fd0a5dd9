------------------------------ MODULE FreeSet ------------------------------
(***************************************************************************)
(* What the module Freelist takes a freelist backend and its pages to be:  *)
(* a set of ids from which allocate takes a run at one of the Candidates,  *)
(* to which release adds pending ids, and which comes back, together with  *)
(* the ids that were pending, when the list that was saved is read.        *)
(***************************************************************************)
EXTENDS Freelist

VARIABLES
  avail,  \* the ids that can be allocated
  pend,   \* those that were freed and are not released yet
  list    \* those of the list that was saved last

Init == avail = {} /\ pend = {} /\ list = {}

Allocate(n) ==
  /\ \E s \in Candidates(avail, n) : avail' = avail \ Run(s, n)
  /\ UNCHANGED <<pend, list>>

Free(id) ==
  /\ id \notin avail \cup pend
  /\ pend' = pend \cup {id}
  /\ UNCHANGED <<avail, list>>

Release(id) ==
  /\ pend' = pend \ {id}
  /\ avail' = avail \cup {id}
  /\ UNCHANGED list

Save == list' = avail \cup pend /\ UNCHANGED <<avail, pend>>

Read == avail' = readIDs(newFreelist, list).free /\ pend' = {} /\ UNCHANGED list

Next ==
  \/ \E n \in 1 .. Cardinality(Pgid) : Allocate(n)
  \/ \E id \in Pgid : Free(id)
  \/ \E id \in pend : Release(id)
  \/ Save
  \/ Read

Spec == Init /\ [][Next]_<<avail, pend, list>>
=============================================================================
