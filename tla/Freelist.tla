------------------------------ MODULE Freelist ------------------------------
(***************************************************************************)
(* The page freelist of bbolt (freelist.go, freelist_hmap.go) as pure      *)
(* operators: each takes a freelist and returns the freelist the method    *)
(* leaves behind.  The module DB applies them inside its actions.          *)
(*                                                                         *)
(* A freelist is a record                                                  *)
(*   free     the ids that can be allocated (f.ids, or the ids covered by  *)
(*            the spans of f.forwardMap)                                   *)
(*   pending  f.pending flattened: one record [tid, id, atx] for each id   *)
(*            in f.pending[tid].ids, with atx its entry in .alloctx        *)
(*   last     f.pending[tid].lastReleaseBegin; 0, Go's zero value, when    *)
(*            there is no f.pending[tid]                                   *)
(*   allocs   f.allocs; 0 when the key is absent, which is what the lookup *)
(*            in free() yields                                             *)
(*   cache    the keys of f.cache                                          *)
(*                                                                         *)
(* f.pending[tid] exists exactly when one of its ids is pending: free()    *)
(* adds at least one id when it creates the entry, and releaseRange()      *)
(* deletes the entry when it takes the last one.                           *)
(***************************************************************************)
EXTENDS Integers, FiniteSets

CONSTANTS
  Root,          \* first data page, the one after the two freelist regions
  MaxPgid,       \* bound on page ids
  MaxTxid,       \* bound on transaction ids
  FreelistType   \* "array" or "hashmap" (Options.FreelistType)

ASSUME FreelistAssumption ==
  /\ Root \in Nat \ {0} /\ MaxPgid \in Nat /\ Root <= MaxPgid
  /\ MaxTxid \in Nat /\ 1 <= MaxTxid
  /\ FreelistType \in {"array", "hashmap"}

Pgid == Root .. MaxPgid
Txid == 0 .. MaxTxid

\* One freed page that open read transactions may still need.
Pending == [tid : Txid, id : Pgid, atx : Txid]

FreelistRecord ==
  [free : SUBSET Pgid, pending : SUBSET Pending, last : [Txid -> Txid],
   allocs : [Pgid -> Txid], cache : SUBSET Pgid]

newFreelist ==
  [free |-> {}, pending |-> {}, last |-> [t \in Txid |-> 0],
   allocs |-> [p \in Pgid |-> 0], cache |-> {}]

Ids(pend) == {x.id : x \in pend}

\* count(): free_count() + pending_count().
count(fl) == Cardinality(fl.free) + Cardinality(fl.pending)

\* The n pages that start at s.
Run(s, n) == s .. (s + n - 1)

\* Where allocate(txid, n) may take its block: at the start of a maximal run of
\* free ids.  arrayAllocate takes the first one that is long enough;
\* hashmapAllocate one of exactly n pages if there is any, else a longer one, in
\* map order.  No candidate: both return 0.
Candidates(free, n) ==
  LET long  == {s \in free : s - 1 \notin free /\ Run(s, n) \subseteq free}
      exact == {s \in long : s + n \notin free}
  IN  IF FreelistType = "array" THEN {s \in long : \A u \in long : s <= u}
      ELSE IF exact # {} THEN exact ELSE long

allocate(fl, tid, s, n) ==
  [free    |-> fl.free \ Run(s, n),
   pending |-> fl.pending,
   last    |-> fl.last,
   allocs  |-> [fl.allocs EXCEPT ![s] = tid],
   cache   |-> fl.cache \ Run(s, n)]

\* Mutant: the overflow pages of the block are not freed.
freeHeadOnly(fl, tid, id, run) ==
  [fl EXCEPT !.pending = @ \cup {[tid |-> tid, id |-> id, atx |-> fl.allocs[id]]},
             !.allocs[id] = 0, !.cache = @ \cup {id}]

\* free(txid, p) for the page with the given id whose block, overflow pages
\* included, is run.  Every page of the block gets the transaction that
\* allocated the block's first page.  The method panics when a page of run is
\* in the cache: the invariant NoDoubleUse of DB shows that it never is.
free(fl, tid, id, run) ==
  [free    |-> fl.free,
   pending |-> fl.pending \cup
                 {[tid |-> tid, id |-> p, atx |-> fl.allocs[id]] : p \in run},
   last    |-> fl.last,
   allocs  |-> [fl.allocs EXCEPT ![id] = 0],
   cache   |-> fl.cache \cup run]

\* release(tid): everything freed by tid or earlier becomes available.
release(fl, tid) ==
  LET m == {x \in fl.pending : x.tid <= tid}
  IN  [free    |-> fl.free \cup Ids(m),
       pending |-> fl.pending \ m,
       last    |-> [t \in Txid |-> IF t <= tid THEN 0 ELSE fl.last[t]],
       allocs  |-> fl.allocs,
       cache   |-> fl.cache]

\* releaseRange(begin, end) when end is at least begin.  An entry whose last
\* matching call had the same begin is skipped.
releaseRange(fl, begin, end) ==
  LET m    == {x \in fl.pending : /\ begin <= x.tid /\ x.tid <= end
                                  /\ fl.last[x.tid] # begin
                                  /\ begin <= x.atx /\ x.atx <= end}
      rest == fl.pending \ m
  IN  [free    |-> fl.free \cup Ids(m),
       pending |-> rest,
       last    |-> [t \in Txid |->
                     IF begin <= t /\ t <= end
                     THEN IF \E x \in rest : x.tid = t THEN begin ELSE 0
                     ELSE fl.last[t]],
       allocs  |-> fl.allocs,
       cache   |-> fl.cache]

\* Mutant: the pages given back stay in the cache.
rollbackKeepsCache(fl, tid) ==
  LET mine == {x \in fl.pending : x.tid = tid}
  IN  [fl EXCEPT !.pending = @ \ mine, !.last[tid] = 0]

\* rollback(tid): forget what tid freed.  Pages another transaction had
\* allocated get their allocs entry back; pages tid itself had allocated
\* become free.
rollback(fl, tid) ==
  LET mine == {x \in fl.pending : x.tid = tid}
  IN  [free    |-> fl.free \cup {x.id : x \in {y \in mine : y.atx = tid}},
       pending |-> fl.pending \ mine,
       last    |-> [fl.last EXCEPT ![tid] = 0],
       allocs  |-> [p \in Pgid |->
                     IF \E x \in mine : x.id = p /\ x.atx \notin {0, tid}
                     THEN (CHOOSE x \in mine :
                             x.id = p /\ x.atx \notin {0, tid}).atx
                     ELSE fl.allocs[p]],
       cache   |-> fl.cache \ Ids(mine)]

\* readIDs(ids): arrayReadIDs replaces the list; hashmapReadIDs goes through
\* init(), which returns before it resets the span maps when ids is empty.
\* Both rebuild the cache (reindex).
readIDs(fl, ids) ==
  LET f == IF FreelistType = "hashmap" /\ ids = {} THEN fl.free ELSE ids
  IN  [free    |-> f,
       pending |-> fl.pending,
       last    |-> fl.last,
       allocs  |-> fl.allocs,
       cache   |-> f \cup Ids(fl.pending)]

\* read(p): an empty page only clears f.ids, which the hashmap backend does
\* not use, and leaves the cache as it is.
read(fl, ids) ==
  IF ids # {} THEN readIDs(fl, ids)
  ELSE [fl EXCEPT !.free = IF FreelistType = "hashmap" THEN fl.free ELSE {}]

\* Mutant: the pending pages are not taken out of what was read.
reloadKeepsPending(fl, ids) == read(fl, ids)

\* reload(p): read, then take the pending pages out again.
reload(fl, ids) ==
  LET r == read(fl, ids)
  IN  readIDs(r, r.free \ Ids(r.pending))

\* Mutant: only the free ids are written.
copyallWithoutPending(fl) == fl.free

\* copyall, what write() puts on the freelist page: free and pending ids.
copyall(fl) == fl.free \cup Ids(fl.pending)
=============================================================================
