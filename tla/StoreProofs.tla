---------------------------- MODULE StoreProofs -----------------------------
(***************************************************************************)
(* What follows from the invariants of DB.  The freelist's books are right:*)
(* a page is in one place only, none is lost, and a write transaction      *)
(* begins with every page that can be given back given back, in one step   *)
(* or by the loop of freePages.  The database implements the store of      *)
(* snapshots, module Snapshot.  And the copy that WriteTo makes is a whole *)
(* database.                                                               *)
(***************************************************************************)
EXTENDS Backup, DBProofs, WellFoundedInduction

-----------------------------------------------------------------------------
(* The books *)

\* The cache is exact in every reachable state.
LEMMA CacheInvariance == ASSUME Sound PROVE Spec => []CacheInv
<1>1. Init => CacheInv
  <2>1. Ids({}) = {}
    BY DEF Ids
  <2> QED
    BY <2>1 DEF Init, newFreelist, CacheInv, Exact, copyall
<1>2. IInv /\ IInv' /\ CacheInv /\ [Next]_vars => CacheInv'
  BY CacheStep
<1> QED
  BY <1>1, <1>2, Invariance, PTL DEF Spec

\* What Tx.Check reports as "already freed" or "reachable freed" cannot happen
\* in any state of a sound configuration: a page is in the live tree, free or
\* pending, in one place only, and the cache by which free() would notice it
\* agrees with the lists.
THEOREM OnePlace == ASSUME Sound PROVE Spec => []NoDoubleUse
<1>1. ASSUME IInv, CacheInv PROVE NoDoubleUse
  <2>1. CASE opened
    <3>1. FreelistOK(fl, Durable, LiveRoot)
      BY <1>1, <2>1 DEF IInv, FreelistInv
    <3>2. fl.free \cap Ids(fl.pending) = {}
      BY <3>1, Zenon DEF FreelistOK, PendingOK, Ids
    <3>3. DOMAIN LiveRoot \cap copyall(fl) = {}
      BY <3>1, Zenon DEF FreelistOK, PendingOK, Ids, copyall
    <3> QED
      BY <1>1, <2>1, <3>1, <3>2, <3>3, SMTT(60) DEF NoDoubleUse, CacheInv, Exact, FreelistOK
  <2> QED
    BY <2>1 DEF NoDoubleUse
<1> QED
  BY <1>1, Invariance, CacheInvariance, PTL

\* The books about releases hold in every reachable state.
LEMMA ReleaseInvariance == ASSUME Sound PROVE Spec => []ReleaseInv
<1>1. Init => ReleaseInv
  <2> SUFFICES ASSUME Init PROVE Released(fl, Durable.txid)
    BY DEF ReleaseInv
  <2>1. fl.pending = {} /\ fl.last = [t \in Txid |-> 0]
    BY DEF Init, newFreelist
  <2> QED
    BY <2>1 DEF Released
<1>2. IInv /\ IInv' /\ ReleaseInv /\ [Next]_vars => ReleaseInv'
  BY ReleaseStep
<1> QED
  BY <1>1, <1>2, Invariance, PTL DEF Spec

\* A nonempty set of numbers has a least element.
LEMMA Least ==
  ASSUME NEW S \in SUBSET Nat, NEW a \in S
  PROVE  \E m \in S : \A k \in S : m <= k
<1> DEFINE less == OpToRel(<, Nat)
<1>1. IsWellFoundedOn(less, Nat)
  BY NatLessThanWellFounded, Zenon
<1>2. \A x, y \in Nat : <<y, x>> \in less <=> y < x
  BY DEF OpToRel
<1> HIDE DEF less
<1>3. PICK m \in S : \A k \in S : ~(<<k, m>> \in less)
  BY <1>1, WFMin, Zenon
<1>4. ASSUME NEW k \in S PROVE m <= k
  <2>1. ~(k < m)
    BY <1>2, <1>3, Zenon
  <2> QED
    BY <2>1
<1> QED
  BY <1>4

\* A bounded nonempty set of numbers has a greatest element.
LEMMA Greatest ==
  ASSUME NEW S \in SUBSET Nat, NEW n \in Nat, NEW a \in S, \A k \in S : k <= n
  PROVE  \E m \in S : \A k \in S : k <= m
<1> DEFINE D == {n - k : k \in S}
<1>1. D \in SUBSET Nat /\ n - a \in D
  OBVIOUS
<1>2. PICK e \in D : \A x \in D : e <= x
  BY <1>1, Least, Zenon
<1>3. PICK m \in S : e = n - m
  OBVIOUS
<1>4. ASSUME NEW k \in S PROVE k <= m
  <2>1. n - m <= n - k
    BY <1>2, <1>3
  <2> QED
    BY <2>1
<1> QED
  BY <1>4, Zenon

\* A pair of ends the loop of freePages can come to, with no reader between them,
\* is one of its ranges.
LEMMA ExtentHas ==
  ASSUME NEW T, NEW b \in T, NEW c \in {u - 1 : u \in T} \cup {MaxTxid},
         NEW e, e = [begin |-> b + 1, end |-> c],
         e.begin <= e.end, \A u \in T : ~(e.begin <= u /\ u <= e.end)
  PROVE  e \in Extents(T)
<1> DEFINE V    == {u - 1 : u \in T} \cup {MaxTxid}
           A(u) == {[begin |-> u + 1, end |-> v] : v \in V}
<1>1. e \in A(b) /\ A(b) \in {A(u) : u \in T}
  BY Zenon
<1>2. e \in UNION {A(u) : u \in T}
  BY <1>1, Zenon
<1> QED
  BY <1>2, Zenon DEF Extents

\* A txid above some reader's and equal to none lies in one of the ranges that
\* freePages releases.
LEMMA ExtentOf ==
  ASSUME NEW T \in SUBSET Nat, NEW t \in Txid, t \notin T, \E u \in T : u <= t
  PROVE  \E e \in Extents(T) : e.begin <= t /\ t <= e.end
<1>1. t \in Nat /\ t <= MaxTxid /\ MaxTxid \in Nat
  BY FreelistAssumption DEF Txid
<1> DEFINE L == {u \in T : u < t}
           H == {u \in T : t < u}
<1>2. PICK b \in L : \A u \in L : u <= b
  <2>1. L \in SUBSET Nat /\ \A k \in L : k <= t
    <3>1. \A k \in L : k \in Nat /\ k < t
      OBVIOUS
    <3> HIDE DEF L
    <3> QED
      BY <1>1, <3>1
  <2>2. PICK a \in L : TRUE
    BY <1>1
  <2> HIDE DEF L
  <2> QED
    BY <1>1, <2>1, <2>2, Greatest, Zenon
<1>3. PICK c \in {u - 1 : u \in T} \cup {MaxTxid} :
        c \in Int /\ t <= c /\ \A u \in H : c < u
  <2>1. CASE H = {}
    BY <1>1, <2>1
  <2>2. CASE H # {}
    <3>1. PICK a \in H : \A u \in H : a <= u
      <4>1. H \in SUBSET Nat
        BY Zenon
      <4>2. PICK a \in H : TRUE
        BY <2>2, Zenon
      <4> HIDE DEF H
      <4> QED
        BY <4>1, <4>2, Least
    <3>2. a - 1 \in {u - 1 : u \in T} /\ t <= a - 1 /\ \A u \in H : a - 1 < u
      BY <1>1, <3>1
    <3> QED
      BY <3>2
  <2> QED
    BY <2>1, <2>2, Zenon
<1> DEFINE e == [begin |-> b + 1, end |-> c]
<1>4. e.begin <= t /\ t <= e.end
  BY <1>1, <1>2, <1>3
<1>5. b \in T /\ c \in {u - 1 : u \in T} \cup {MaxTxid}
  BY <1>2, <1>3, Zenon
<1>6. ASSUME NEW u \in T PROVE ~(e.begin <= u /\ u <= e.end)
  <2>1. u \in L \/ u \in H
    BY <1>1
  <2>2. CASE u \in L
    <3>1. u <= b /\ b \in Nat /\ u \in Nat
      BY <1>2, <2>2
    <3> QED
      BY <3>1
  <2>3. CASE u \in H
    <3>1. c < u /\ c \in Int /\ u \in Nat
      BY <1>3, <2>3, Zenon
    <3> QED
      BY <3>1
  <2> QED
    BY <2>1, <2>2, <2>3
<1>7. e.begin <= e.end
  BY <1>1, <1>2, <1>3, <1>4
<1>8. e \in Extents(T)
  BY <1>5, <1>6, <1>7, ExtentHas, Zenon
<1> QED
  BY <1>4, <1>8

\* What freePages leaves pending was freed by a reader's transaction, or some
\* reader began after the page was allocated and before it was freed.
LEMMA FreePagesReclaims ==
  ASSUME NEW f \in FreelistRecord, NEW T \in SUBSET Nat, NEW d \in Nat,
         Released(f, d), \A x \in f.pending : x.tid <= d,
         NEW x \in freePages(f, T).pending, x.tid \notin T
  PROVE  \E u \in T : x.atx <= u /\ u < x.tid
<1>1. /\ x \in f.pending /\ \E u \in T : ~(x.tid < u)
      /\ \A r \in Extents(T) : r.begin <= x.tid /\ x.tid <= r.end => x.atx < r.begin
  BY FreePagesReleases, Zenon
<1>2. x.tid \in Txid /\ x.tid \in Nat /\ x.atx \in Nat
  BY <1>1, FreelistFields, FreelistAssumption DEF Txid
<1>3. \E u \in T : u <= x.tid
  <2>1. PICK u \in T : ~(x.tid < u)
    BY <1>1, Zenon
  <2>2. u <= x.tid
    BY <1>2, <2>1
  <2> QED
    BY <2>2
<1>4. PICK r \in Extents(T) : r.begin <= x.tid /\ x.tid <= r.end
  BY <1>2, <1>3, ExtentOf
<1>5. PICK u \in T : r.begin = u + 1
  BY <1>4 DEF Extents
<1> QED
  BY <1>1, <1>2, <1>4, <1>5

\* A write transaction begins with every page that can be given back given
\* back: what freePages leaves pending was freed by a transaction some reader
\* began after, or belongs to a reader's tree.  No entry is lost by the shortcut
\* of lastReleaseBegin, over any sequence of transactions, failures and crashes.
THEOREM AllReclaimed == ASSUME Sound PROVE Spec => ReclaimsAll
<1> DEFINE T == {txs[r].txid : r \in DOMAIN txs}
           A == pc = "idle" /\ pc' = "body" =>
                  \A x \in fl'.pending :
                    x.tid \in T \/ \E u \in T : x.atx <= u /\ u < x.tid
<1>1. ASSUME IInv, ReleaseInv, [Next]_vars PROVE [A]_vars
  <2> SUFFICES ASSUME pc = "idle", pc' = "body" PROVE A
    OBVIOUS
  <2>1. BeginRW
    BY <1>1, Zenon
    DEF Next, Writer, vars, BeginRead, EndRead, Rollback, UpdatePanics, Commit,
       CommitPanics, DeleteBucket, Rebalance, SpillNode, SpillFails, Grow, GrowFails,
       WritePages, WriteFails, SyncPages, SyncFails, BeginWriteMeta, WriteMeta,
       WriteMetaFails, SyncMeta, SyncMetaFails, Crash, Kill, Close, Open, MemoryLost
  <2>2. T \in SUBSET Nat /\ fl' = freePages(fl, T)
    BY <1>1, <2>1, BeginFrees, Zenon
  <2>3. /\ Released(fl, Durable.txid) /\ fl \in FreelistRecord /\ Durable.txid \in Nat
        /\ \A x \in fl.pending : x.tid <= Durable.txid
    BY <1>1, <2>1, BeginFrees, InvTypes, Zenon DEF ReleaseInv, NoneFreed
  <2> HIDE DEF T
  <2> QED
    BY <2>2, <2>3, FreePagesReclaims
<1>2. Spec => [][A]_vars
  BY <1>1, Invariance, ReleaseInvariance, PTL DEF Spec
<1> QED
  BY <1>2 DEF ReclaimsAll

\* The file db.init writes lists every page.
LEMMA CompleteInit == Init => CompleteInv
<1> SUFFICES ASSUME Init PROVE CompleteInv
  OBVIOUS
<1> DEFINE m == InitMeta(1)
<1>1. IInv
  BY InitInv
<1>2. meta[1] = m /\ meta[0] = InitMeta(0) /\ disk.meta = meta /\ pc = "idle"
  BY DEF Init
<1>3. m.root = [p \in {Root} |-> [head |-> Root, tag |-> 1]] /\ m.pgid = Root + 1
      /\ m.valid /\ m.txid = 1 /\ InitMeta(0).txid = 0
  BY DEF InitMeta
<1>4. Durable = m /\ Current = m
  BY <1>2, <1>3 DEF Durable, Current, CurrentOf
<1>5. ASSUME NEW S PROVE Complete(m.root, m.pgid, S)
  BY <1>3, FreelistAssumption DEF Complete, Pgid
<1> QED
  BY <1>2, <1>4, <1>5, Zenon DEF CompleteInv, Complete, NoLeak, LiveRoot, LivePgid

\* All of the books hold in every reachable state of a sound configuration in
\* which Commit itself does not panic.
THEOREM Books ==
  ASSUME Sound, "assert" \notin Faults PROVE Spec => []BooksInv
<1>1. IInv /\ IInv' /\ CompleteInv /\ [Next]_vars => CompleteInv'
  BY CompleteStep
<1>2. IInv /\ CacheInv /\ ReleaseInv /\ CompleteInv => BooksInv
  BY DEF BooksInv
<1> QED
  BY <1>1, <1>2, CompleteInit, Invariance, CacheInvariance, ReleaseInvariance, PTL
  DEF Spec

\* No sequence of commits, rollbacks, failures and crashes of a sound
\* configuration in which Commit itself does not panic ever loses a page, what
\* Tx.Check would report as "unreachable unfreed".
THEOREM NoPageLost ==
  ASSUME Sound, "assert" \notin Faults PROVE Spec => []NoLeak
<1>1. BooksInv => NoLeak
  BY DEF BooksInv, CompleteInv
<1> QED
  BY <1>1, Books, PTL

-----------------------------------------------------------------------------
(* freePages and the loop it stands for *)

\* The ranges below h.
Below(T, h) == {x \in Extents(T) : x.end < h}

\* The range between two txids.
Between(lo, hi) == [begin |-> lo + 1, end |-> hi - 1]

\* The first reader above lo is hi.
NextTo(T, lo, hi) == lo <= hi /\ \A u \in T : u <= lo \/ hi <= u

\* The ranges below hi are those below lo and the one between, if there is room.
Adjoins(T, lo, hi) ==
  /\ lo + 1 > hi - 1 => Below(T, hi) = Below(T, lo)
  /\ ~(lo + 1 > hi - 1) =>
       /\ Between(lo, hi) \in Extents(T)
       /\ Below(T, hi) = Below(T, lo) \cup {Between(lo, hi)}

\* What a range is.
LEMMA ExtentIs ==
  ASSUME NEW T \in SUBSET Txid, NEW x \in Extents(T)
  PROVE  /\ x.begin \in Nat /\ x.end \in Int /\ x.begin <= x.end /\ x.end <= MaxTxid
         /\ \E u \in T : x.begin = u + 1
         /\ x.end = MaxTxid \/ \E u \in T : x.end = u - 1
         /\ \A u \in T : ~(x.begin <= u /\ u <= x.end)
         /\ x = [begin |-> x.begin, end |-> x.end]
<1>1. MaxTxid \in Nat /\ \A u \in T : u \in Nat /\ u <= MaxTxid
  BY FreelistAssumption DEF Txid
<1>2. /\ x \in [begin : {u + 1 : u \in T}, end : {u - 1 : u \in T} \cup {MaxTxid}]
      /\ x.begin <= x.end
      /\ \A u \in T : ~(x.begin <= u /\ u <= x.end)
  BY DEF Extents
<1>3. PICK u \in T : x.begin = u + 1
  BY <1>2
<1>4. x.end = MaxTxid \/ \E v \in T : x.end = v - 1
  BY <1>2
<1>5. x.begin \in Nat /\ x.end \in Int /\ x.end <= MaxTxid
  BY <1>1, <1>3, <1>4, SMTT(60)
<1>6. x = [begin |-> x.begin, end |-> x.end]
  BY <1>2
<1> QED
  BY <1>2, <1>3, <1>4, <1>5, <1>6, SMTT(60)

\* No txid is in two ranges.
LEMMA ExtentsApart ==
  ASSUME NEW T \in SUBSET Txid, NEW x \in Extents(T), NEW y \in Extents(T), NEW t \in Int,
         x.begin <= t, t <= x.end, y.begin <= t, t <= y.end
  PROVE  x = y
<1>1. MaxTxid \in Nat /\ \A u \in T : u \in Nat /\ u <= MaxTxid
  BY FreelistAssumption DEF Txid
<1>2. \A a, b \in Extents(T) : a.begin <= t /\ t <= a.end /\ b.begin <= t /\ t <= b.end
        => ~(a.begin < b.begin) /\ ~(a.end < b.end)
  <2> SUFFICES ASSUME NEW a \in Extents(T), NEW b \in Extents(T),
                      a.begin <= t, t <= a.end, b.begin <= t, t <= b.end
               PROVE  ~(a.begin < b.begin) /\ ~(a.end < b.end)
    OBVIOUS
  <2>1. /\ a.begin \in Nat /\ a.end \in Int /\ b.begin \in Nat /\ b.end \in Int /\ b.end <= MaxTxid
        /\ \A u \in T : ~(a.begin <= u /\ u <= a.end)
        /\ \A u \in T : ~(b.begin <= u /\ u <= b.end)
        /\ a.end = MaxTxid \/ \E u \in T : a.end = u - 1
    BY ExtentIs
  <2>2. PICK u \in T : b.begin = u + 1
    BY ExtentIs
  <2>3. ~(a.begin < b.begin)
    BY <1>1, <2>1, <2>2, SMTT(60)
  <2>4. ~(a.end < b.end)
    <3>1. CASE a.end = MaxTxid
      BY <1>1, <2>1, <3>1
    <3>2. CASE \E v \in T : a.end = v - 1
      <4>1. PICK v \in T : a.end = v - 1
        BY <3>2
      <4> QED
        BY <1>1, <2>1, <4>1
    <3> QED
      BY <2>1, <3>1, <3>2
  <2> QED
    BY <2>3, <2>4
<1>3. /\ x.begin \in Nat /\ x.end \in Int /\ x = [begin |-> x.begin, end |-> x.end]
      /\ y.begin \in Nat /\ y.end \in Int /\ y = [begin |-> y.begin, end |-> y.end]
  BY ExtentIs
<1>4. ~(x.begin < y.begin) /\ ~(x.end < y.end) /\ ~(y.begin < x.begin) /\ ~(y.end < x.end)
  BY <1>2
<1>5. x.begin = y.begin /\ x.end = y.end
  BY <1>3, <1>4
<1> QED
  BY <1>3, <1>5

\* Between one reader and the next above it there is one range, or no room.
LEMMA NextExtent ==
  ASSUME NEW T \in SUBSET Txid, NEW lo \in T, NEW hi \in T \cup {MaxTxid + 1}, NextTo(T, lo, hi)
  PROVE  Adjoins(T, lo, hi)
<1> DEFINE e == [begin |-> lo + 1, end |-> hi - 1]
<1> USE DEF NextTo
<1>1. /\ MaxTxid \in Nat /\ \A u \in T : u \in Nat /\ u <= MaxTxid
      /\ lo \in Nat /\ hi \in Nat /\ hi <= MaxTxid + 1
  BY FreelistAssumption DEF Txid
<1>2. \A x \in Below(T, lo) : x \in Below(T, hi)
  <2> SUFFICES ASSUME NEW x \in Below(T, lo) PROVE x \in Extents(T) /\ x.end < hi
    BY DEF Below
  <2>1. x \in Extents(T) /\ x.end < lo
    BY DEF Below
  <2>2. x.end \in Int
    BY <2>1, ExtentIs
  <2> QED
    BY <1>1, <2>1, <2>2
<1>3. \A x \in Below(T, hi) : x \in Below(T, lo) \/ (x = e /\ ~(lo + 1 > hi - 1))
  <2> SUFFICES ASSUME NEW x \in Below(T, hi), x \notin Below(T, lo)
               PROVE  x = e /\ ~(lo + 1 > hi - 1)
    OBVIOUS
  <2>1. x \in Extents(T) /\ x.end < hi /\ ~(x.end < lo)
    BY DEF Below
  <2>2. /\ x.begin \in Nat /\ x.end \in Int /\ x.begin <= x.end
        /\ \A u \in T : ~(x.begin <= u /\ u <= x.end)
        /\ x.end = MaxTxid \/ \E u \in T : x.end = u - 1
        /\ x = [begin |-> x.begin, end |-> x.end]
    BY <2>1, ExtentIs
  <2>3. PICK u \in T : x.begin = u + 1
    BY <2>1, ExtentIs
  <2>4. lo < x.begin /\ lo < x.end
    <3>1. ~(x.begin <= lo /\ lo <= x.end)
      BY <2>2
    <3> QED
      BY <1>1, <2>1, <2>2, <3>1, SMTT(60)
  <2>5. x.begin = lo + 1
    <3>1. u <= lo \/ hi <= u
      OBVIOUS
    <3> QED
      BY <1>1, <2>1, <2>2, <2>3, <2>4, <3>1
  <2>6. x.end = hi - 1
    <3>1. CASE x.end = MaxTxid
      BY <1>1, <2>1, <3>1
    <3>2. CASE \E v \in T : x.end = v - 1
      <4>1. PICK v \in T : x.end = v - 1
        BY <3>2
      <4>2. v <= lo \/ hi <= v
        OBVIOUS
      <4> QED
        BY <1>1, <2>1, <2>2, <2>4, <4>1, <4>2, SMTT(60)
    <3> QED
      BY <2>2, <3>1, <3>2
  <2> QED
    BY <1>1, <2>2, <2>5, <2>6, SMTT(60)
<1>4. ASSUME ~(lo + 1 > hi - 1) PROVE e \in Extents(T) /\ e \in Below(T, hi)
  <2>1. hi - 1 \in {u - 1 : u \in T} \cup {MaxTxid}
    <3>1. CASE hi \in T
      BY <3>1
    <3>2. CASE hi = MaxTxid + 1
      BY <1>1, <3>2
    <3> QED
      BY <3>1, <3>2
  <2>2. e.begin = lo + 1 /\ e.end = hi - 1
    OBVIOUS
  <2>3. e.begin <= e.end /\ e.end < hi
    BY <1>1, <1>4, <2>2
  <2>4. \A u \in T : ~(e.begin <= u /\ u <= e.end)
    BY <1>1, <2>2
  <2>5. e \in Extents(T)
    BY <2>1, <2>3, <2>4, ExtentHas, SMTT(60)
  <2> HIDE DEF e
  <2> QED
    BY <2>3, <2>5, Zenon DEF Below
<1> HIDE DEF e
<1>5. lo + 1 > hi - 1 => Below(T, hi) = Below(T, lo)
  BY <1>2, <1>3, Zenon
<1>6. ~(lo + 1 > hi - 1) => e \in Extents(T) /\ Below(T, hi) = Below(T, lo) \cup {e}
  BY <1>2, <1>3, <1>4
<1> QED
  BY <1>5, <1>6, Zenon DEF e, Between, Adjoins

\* Releasing one more range, above the others.
LEMMA ReleaseNext ==
  ASSUME NEW f \in FreelistRecord, NEW T \in SUBSET Txid, NEW X \in SUBSET Extents(T),
         NEW e \in Extents(T), \A x \in X : x.end < e.begin
  PROVE  releaseRange(releaseRanges(f, X), e.begin, e.end) = releaseRanges(f, X \cup {e})
<1> DEFINE In(t, x) == x.begin <= t /\ t <= x.end
           m1 == {x \in f.pending : \E r \in X :
                   /\ r.begin <= x.tid /\ x.tid <= r.end
                   /\ f.last[x.tid] # r.begin
                   /\ r.begin <= x.atx /\ x.atx <= r.end}
           g  == releaseRanges(f, X)
           m2 == {x \in g.pending : /\ e.begin <= x.tid /\ x.tid <= e.end
                                    /\ g.last[x.tid] # e.begin
                                    /\ e.begin <= x.atx /\ x.atx <= e.end}
           m  == {x \in f.pending : \E r \in X \cup {e} :
                   /\ r.begin <= x.tid /\ x.tid <= r.end
                   /\ f.last[x.tid] # r.begin
                   /\ r.begin <= x.atx /\ x.atx <= r.end}
<1>1. /\ MaxTxid \in Nat /\ Txid \subseteq Nat
      /\ \A x \in f.pending : x.tid \in Txid /\ x.atx \in Txid
  BY FreelistAssumption, FreelistFields DEF Txid
<1>2. \A x \in X \cup {e} : x.begin \in Nat /\ x.end \in Int
  BY ExtentIs
<1>3. \A t \in Txid : In(t, e) => \A x \in X : ~In(t, x)
  BY <1>1, <1>2
<1>4. /\ g.free = f.free \cup Ids(m1) /\ g.pending = f.pending \ m1
      /\ g.allocs = f.allocs /\ g.cache = f.cache
      /\ g.last = [t \in Txid |->
                     IF \E x \in X : In(t, x)
                     THEN IF \E x \in f.pending \ m1 : x.tid = t
                          THEN (CHOOSE x \in X : In(t, x)).begin
                          ELSE 0
                     ELSE f.last[t]]
  BY Zenon DEF releaseRanges
<1>5. \A t \in Txid : In(t, e) => g.last[t] = f.last[t]
  BY <1>3, <1>4, Zenon
<1> HIDE DEF g
<1>6. m = m1 \cup m2 /\ \A x \in m2 : x \in f.pending /\ In(x.tid, e)
  <2>1. \A x \in m : x \in m1 \/ x \in m2
    <3> SUFFICES ASSUME NEW x \in m, x \notin m1 PROVE x \in m2
      OBVIOUS
    <3>1. x \in f.pending /\ x \in g.pending /\ x.tid \in Txid
      BY <1>1, <1>4, SMTT(60)
    <3>2. /\ e.begin <= x.tid /\ x.tid <= e.end
          /\ f.last[x.tid] # e.begin
          /\ e.begin <= x.atx /\ x.atx <= e.end
      OBVIOUS
    <3> QED
      BY <1>5, <3>1, <3>2, SMTT(60)
  <2>2. \A x \in m1 : x \in m
    OBVIOUS
  <2>3. \A x \in m2 : x \in m /\ x \in f.pending /\ In(x.tid, e)
    <3> SUFFICES ASSUME NEW x \in m2 PROVE x \in m /\ x \in f.pending /\ In(x.tid, e)
      OBVIOUS
    <3>1. x \in f.pending /\ x.tid \in Txid
      BY <1>1, <1>4, Zenon
    <3>2. f.last[x.tid] # e.begin
      BY <1>5, <3>1, SMTT(60)
    <3> QED
      BY <3>1, <3>2, SMTT(60)
  <2> QED
    BY <2>1, <2>2, <2>3, SMTT(60)
<1>7. Ids(m) = Ids(m1) \cup Ids(m2)
  BY <1>6 DEF Ids
<1> DEFINE rest == g.pending \ m2
<1>8. rest = f.pending \ m
  BY <1>4, <1>6, Zenon
<1>9. \A t \in Txid : (\E x \in X \cup {e} : In(t, x)) <=> (\E x \in X : In(t, x)) \/ In(t, e)
  OBVIOUS
<1>10. ASSUME NEW t \in Txid, In(t, e) PROVE (CHOOSE x \in X \cup {e} : In(t, x)) = e
  BY <1>3, <1>10
<1>11. ASSUME NEW t \in Txid, NEW y \in X, In(t, y)
       PROVE  /\ (CHOOSE x \in X \cup {e} : In(t, x)) = y
              /\ (CHOOSE x \in X : In(t, x)) = y
  <2>1. \A x \in X \cup {e} : In(t, x) => x = y
    BY <1>1, <1>11, ExtentsApart, SMTT(60)
  <2> QED
    BY <1>11, <2>1
<1>12. \A t \in Txid : ~In(t, e) =>
          ((\E x \in rest : x.tid = t) <=> \E x \in f.pending \ m1 : x.tid = t)
  BY <1>4, <1>6, Zenon
<1> DEFINE L1 == [t \in Txid |-> IF In(t, e) THEN IF \E x \in rest : x.tid = t THEN e.begin ELSE 0
                                 ELSE g.last[t]]
           L2 == [t \in Txid |->
                     IF \E x \in X \cup {e} : In(t, x)
                     THEN IF \E x \in rest : x.tid = t
                          THEN (CHOOSE x \in X \cup {e} : In(t, x)).begin
                          ELSE 0
                     ELSE f.last[t]]
<1>13. releaseRange(g, e.begin, e.end) =
         [free |-> g.free \cup Ids(m2), pending |-> rest, last |-> L1,
          allocs |-> g.allocs, cache |-> g.cache]
  BY DEF releaseRange
<1>14. releaseRanges(f, X \cup {e}) =
         [free |-> f.free \cup Ids(m), pending |-> rest, last |-> L2,
          allocs |-> f.allocs, cache |-> f.cache]
  BY <1>8, Zenon DEF releaseRanges
<1> HIDE DEF m1, m2, m, rest
<1>15. ASSUME NEW t \in Txid PROVE L1[t] = L2[t]
  <2>1. CASE In(t, e)
    BY <1>10, <2>1, ZenonT(60)
  <2>2. CASE ~In(t, e) /\ \E x \in X : In(t, x)
    <3>1. PICK y \in X : In(t, y)
      BY <2>2
    <3>2. (CHOOSE x \in X \cup {e} : In(t, x)) = (CHOOSE x \in X : In(t, x))
      BY <1>11, <3>1, Zenon
    <3>3. L2[t] = IF \E x \in rest : x.tid = t THEN (CHOOSE x \in X : In(t, x)).begin ELSE 0
      BY <2>2, <3>2, Zenon
    <3>4. L1[t] = IF \E x \in f.pending \ m1 : x.tid = t THEN (CHOOSE x \in X : In(t, x)).begin ELSE 0
      BY <1>4, <2>2, SMTT(60)
    <3> QED
      BY <1>12, <2>2, <3>3, <3>4, SMTT(60)
  <2>3. CASE ~In(t, e) /\ ~\E x \in X : In(t, x)
    BY <1>4, <2>3
  <2> QED
    BY <2>1, <2>2, <2>3, Zenon
<1>16. L1 = L2
  BY <1>15
<1> HIDE DEF L1, L2
<1> QED
  BY <1>4, <1>7, <1>13, <1>14, <1>16, Zenon DEF g

\* Releasing no range changes nothing.
LEMMA ReleaseNone ==
  ASSUME NEW f \in FreelistRecord
  PROVE  releaseRanges(f, {}) = f
<1>1. /\ f.last = [t \in Txid |-> f.last[t]]
      /\ f = [free |-> f.free, pending |-> f.pending, last |-> f.last,
              allocs |-> f.allocs, cache |-> f.cache]
  BY DEF FreelistRecord
<1>2. releaseRanges(f, {}) =
        [free |-> f.free \cup Ids({}), pending |-> f.pending, last |-> [t \in Txid |-> f.last[t]],
         allocs |-> f.allocs, cache |-> f.cache]
  BY Zenon DEF releaseRanges
<1>3. Ids({}) = {}
  BY DEF Ids
<1> QED
  BY <1>1, <1>2, <1>3

\* release(minid - 1) gives back what was freed before the oldest reader began.
LEMMA ReleaseOldest ==
  ASSUME NEW f \in FreelistRecord, NEW T \in SUBSET Txid, NEW minid \in Nat,
         \/ T = {} /\ minid = MaxTxid + 1
         \/ minid \in T /\ \A u \in T : minid <= u
  PROVE  release(f, minid - 1) = releaseBelow(f, T)
<1>1. /\ MaxTxid \in Nat /\ \A t \in Txid : t \in Nat /\ t <= MaxTxid
      /\ \A x \in f.pending : x.tid \in Txid
  BY FreelistAssumption, FreelistFields DEF Txid
<1>2. \A t \in Txid : t <= minid - 1 <=> \A u \in T : t < u
  BY <1>1
<1>3. {x \in f.pending : x.tid <= minid - 1} = {x \in f.pending : \A u \in T : x.tid < u}
  BY <1>1, <1>2, SMTT(60)
<1>4. [t \in Txid |-> IF t <= minid - 1 THEN 0 ELSE f.last[t]] =
      [t \in Txid |-> IF \A u \in T : t < u THEN 0 ELSE f.last[t]]
  BY <1>2
<1> QED
  BY <1>3, <1>4, Zenon DEF release, releaseBelow

\* What the code does before the loop.
ReleaseFirst(f, minid) == IF minid > 0 THEN release(f, minid - 1) ELSE f

\* One turn of the loop.
Turn(L, f, ids, minid, i) ==
  IF i = 0 THEN [fl |-> ReleaseFirst(f, minid), minid |-> minid]
  ELSE [fl    |-> releaseRangeChecked(L[i - 1].fl, L[i - 1].minid, txidBefore(ids[i])),
        minid |-> ids[i] + 1]

Turns(L, f, ids, minid, n) == L = [i \in 0 .. n |-> Turn(L, f, ids, minid, i)]

\* A set of naturals that holds 0 and n + 1 with every n holds all of them.
LEMMA Induction ==
  ASSUME NEW S \in SUBSET Nat, 0 \in S, \A n \in S : n + 1 \in S
  PROVE  S = Nat
<1> SUFFICES ASSUME Nat \ S # {} PROVE FALSE
  BY Zenon
<1> DEFINE Lt == OpToRel(<, Nat)
<1>1. IsWellFoundedOn(Lt, Nat)
  BY NatLessThanWellFounded, Zenon
<1>2. PICK x \in Nat \ S : \A y \in Nat \ S : ~(<<y, x>> \in Lt)
  BY <1>1, WFMin, Zenon
<1>3. x - 1 \in Nat /\ x - 1 < x
  OBVIOUS
<1>4. <<x - 1, x>> \in Lt
  BY <1>3 DEF OpToRel
<1>5. x - 1 \in S
  BY <1>2, <1>3, <1>4, Zenon
<1>6. (x - 1) + 1 \in S
  BY <1>5
<1> QED
  BY <1>6

\* The loop is well defined.
LEMMA TurnsExist ==
  ASSUME NEW f, NEW ids, NEW minid, NEW n \in Nat
  PROVE  \E L : Turns(L, f, ids, minid, n)
<1> DEFINE S == {k \in Nat : \E L : L = [i \in 0 .. k |-> Turn(L, f, ids, minid, i)]}
<1>1. 0 \in S
  <2> DEFINE L == [i \in 0 .. 0 |-> [fl |-> ReleaseFirst(f, minid), minid |-> minid]]
  <2>1. \A i \in 0 .. 0 : Turn(L, f, ids, minid, i) = L[i]
    BY DEF Turn
  <2>2. L = [i \in 0 .. 0 |-> Turn(L, f, ids, minid, i)]
    BY <2>1
  <2> QED
    BY <2>2
<1>2. ASSUME NEW k \in S PROVE k + 1 \in S
  <2>1. PICK L : L = [i \in 0 .. k |-> Turn(L, f, ids, minid, i)]
    OBVIOUS
  <2> DEFINE M == [i \in 0 .. (k + 1) |-> IF i = k + 1 THEN Turn(L, f, ids, minid, i) ELSE L[i]]
  <2>2. \A i \in 1 .. (k + 1) : M[i - 1] = L[i - 1]
    BY SMTT(60)
  <2>3. \A i \in 0 .. (k + 1) : Turn(M, f, ids, minid, i) = Turn(L, f, ids, minid, i)
    BY <2>2 DEF Turn
  <2>4. \A i \in 0 .. k : L[i] = Turn(L, f, ids, minid, i)
    BY <2>1
  <2>5. \A i \in 0 .. (k + 1) : M[i] = Turn(M, f, ids, minid, i)
    BY <2>3, <2>4
  <2>6. M = [i \in 0 .. (k + 1) |-> Turn(M, f, ids, minid, i)]
    BY <2>5
  <2> HIDE DEF M
  <2> QED
    BY <2>6
<1>3. S = Nat
  <2> HIDE DEF S
  <2>1. S \subseteq Nat
    BY DEF S
  <2> QED
    BY <1>1, <1>2, <2>1, Induction, SMTT(60)
<1>4. \E L : L = [i \in 0 .. n |-> Turn(L, f, ids, minid, i)]
  BY <1>3
<1> QED
  BY <1>4, Zenon DEF Turns

\* minid before the loop.
Oldest(n, ids) == IF n = 0 THEN MaxTxid + 1 ELSE ids[1]

\* A run of the loop, and its result.
LoopRun(L, f, ids, n) ==
  /\ L[0] = [fl |-> ReleaseFirst(f, Oldest(n, ids)), minid |-> Oldest(n, ids)]
  /\ \A i \in 1 .. n :
       L[i] = [fl    |-> releaseRangeChecked(L[i - 1].fl, L[i - 1].minid,
                                             txidBefore(ids[i])),
               minid |-> ids[i] + 1]
  /\ freePagesLoop(f, n, ids) = releaseRangeChecked(L[n].fl, L[n].minid, MaxTxid)

\* The loop goes from reader to reader.
LEMMA LoopIs ==
  ASSUME NEW f, NEW ids, NEW n \in Nat
  PROVE  \E L : LoopRun(L, f, ids, n)
<1> DEFINE minid == Oldest(n, ids)
           L0 == CHOOSE L : Turns(L, f, ids, minid, n)
<1>1. freePagesLoop(f, n, ids) = releaseRangeChecked(L0[n].fl, L0[n].minid, MaxTxid)
  BY Zenon DEF freePagesLoop, ReleaseFirst, Turn, Turns, Oldest
<1> HIDE DEF minid
<1>2. \E L : Turns(L, f, ids, minid, n)
  BY TurnsExist, Zenon
<1>3. Turns(L0, f, ids, minid, n)
  BY <1>2, Zenon
<1> HIDE DEF L0
<1>4. \A i \in 0 .. n : L0[i] = Turn(L0, f, ids, minid, i)
  BY <1>3, Zenon DEF Turns
<1>5. L0[0] = [fl |-> ReleaseFirst(f, minid), minid |-> minid]
  <2>1. 0 \in 0 .. n
    OBVIOUS
  <2>2. L0[0] = Turn(L0, f, ids, minid, 0)
    BY <1>4, <2>1, Zenon
  <2> QED
    BY <2>2, Zenon DEF Turn
<1>6. \A i \in 1 .. n :
        L0[i] = [fl    |-> releaseRangeChecked(L0[i - 1].fl, L0[i - 1].minid,
                                               txidBefore(ids[i])),
                 minid |-> ids[i] + 1]
  BY <1>4 DEF Turn
<1> QED
  BY <1>1, <1>5, <1>6, Zenon DEF LoopRun, minid

\* The loop over the readers in order releases what freePages releases at once.
LEMMA LoopReleases ==
  ASSUME NEW f \in FreelistRecord, NEW n \in Nat, NEW ids \in [1 .. n -> Txid],
         \A i \in 1 .. n : 1 <= ids[i],
         \A i, j \in 1 .. n : i < j => ids[i] <= ids[j]
  PROVE  freePages(f, {ids[i] : i \in 1 .. n}) = freePagesLoop(f, n, ids)
<1> DEFINE T == {ids[i] : i \in 1 .. n}
           minid == Oldest(n, ids)
           g == releaseBelow(f, T)
<1>1. /\ MaxTxid \in Nat /\ T \in SUBSET Txid
      /\ \A t \in Txid : t \in Nat /\ t <= MaxTxid
      /\ \A i \in 1 .. n : ids[i] \in T /\ ids[i] \in Nat
      /\ \A u \in T : \E i \in 1 .. n : u = ids[i]
      /\ \A i, j \in 1 .. n : i <= j => ids[i] <= ids[j]
  <2>1. MaxTxid \in Nat /\ \A t \in Txid : t \in Nat /\ t <= MaxTxid
    BY FreelistAssumption DEF Txid
  <2>2. \A i, j \in 1 .. n : i <= j => ids[i] <= ids[j]
    BY <2>1
  <2> QED
    BY <2>1, <2>2, SMTT(60)
<1>0. PICK L : LoopRun(L, f, ids, n)
  BY LoopIs, Zenon
<1>2. /\ L[0] = [fl |-> release(f, minid - 1), minid |-> minid]
      /\ \A i \in 1 .. n :
           L[i] = [fl    |-> releaseRangeChecked(L[i - 1].fl, L[i - 1].minid, ids[i] - 1),
                   minid |-> ids[i] + 1]
      /\ freePagesLoop(f, n, ids) = releaseRangeChecked(L[n].fl, L[n].minid, MaxTxid)
  <2>1. \A i \in 1 .. n : txidBefore(ids[i]) = ids[i] - 1
    BY <1>1, SMTT(60) DEF txidBefore
  <2>2. minid > 0
    BY <1>1, SMTT(60) DEF Oldest
  <2>3. ReleaseFirst(f, minid) = release(f, minid - 1)
    BY <2>2, Zenon DEF ReleaseFirst
  <2> QED
    BY <1>0, <2>1, <2>3, Zenon DEF LoopRun
<1> HIDE DEF T
<1>3. minid \in Nat /\ (\/ T = {} /\ minid = MaxTxid + 1
                        \/ minid \in T /\ \A u \in T : minid <= u)
  <2>1. CASE n = 0
    BY <1>1, <2>1 DEF T, Oldest
  <2>2. CASE n # 0
    <3>1. 1 \in 1 .. n /\ minid = ids[1]
      BY <2>2 DEF Oldest
    <3> HIDE DEF minid
    <3>2. \A i \in 1 .. n : ids[1] <= ids[i]
      BY <1>1, <3>1
    <3> QED
      BY <1>1, <3>1, <3>2, SMTT(60)
  <2> QED
    BY <2>1, <2>2
<1>4. release(f, minid - 1) = g
  BY <1>1, <1>3, ReleaseOldest, SMTT(60)
<1>5. g \in FreelistRecord
  BY <1>1, releaseBelowType
<1>6. freePages(f, T) = releaseRanges(g, Extents(T))
  BY DEF freePages
<1> HIDE DEF g, minid
<1>7. releaseRanges(g, {}) = g
  BY <1>5, ReleaseNone
<1>8. ASSUME NEW lo \in T, NEW hi \in T \cup {MaxTxid + 1}, NextTo(T, lo, hi)
      PROVE  releaseRangeChecked(releaseRanges(g, Below(T, lo)), lo + 1, hi - 1)
               = releaseRanges(g, Below(T, hi))
  <2> DEFINE e == Between(lo, hi)
  <2>0. T \in SUBSET Txid
    BY <1>1
  <2>1. /\ lo + 1 > hi - 1 => Below(T, hi) = Below(T, lo)
        /\ ~(lo + 1 > hi - 1) => e \in Extents(T) /\ Below(T, hi) = Below(T, lo) \cup {e}
    <3>1. Adjoins(T, lo, hi)
      BY <1>8, <2>0, NextExtent
    <3> QED
      BY <3>1, Zenon DEF Adjoins
  <2>2. CASE lo + 1 > hi - 1
    BY <2>1, <2>2, Zenon DEF releaseRangeChecked
  <2>3. CASE ~(lo + 1 > hi - 1)
    <3>1. e.begin = lo + 1 /\ e.end = hi - 1
      BY DEF Between
    <3> HIDE DEF e
    <3>2. e \in Extents(T) /\ Below(T, hi) = Below(T, lo) \cup {e}
      BY <2>1, <2>3, SMTT(60)
    <3>3. Below(T, lo) \in SUBSET Extents(T)
      BY DEF Below
    <3>4. \A x \in Below(T, lo) : x.end < e.begin
      <4> SUFFICES ASSUME NEW x \in Below(T, lo) PROVE x.end < lo + 1
        BY <3>1
      <4>1. x \in Extents(T) /\ x.end < lo
        BY SMTT(60) DEF Below
      <4>2. x.end \in Int /\ lo \in Int
        BY <1>1, <4>1, ExtentIs, SMTT(60)
      <4> QED
        BY <4>1, <4>2
    <3>5. releaseRange(releaseRanges(g, Below(T, lo)), e.begin, e.end)
            = releaseRanges(g, Below(T, lo) \cup {e})
      BY <1>5, <2>0, <3>2, <3>3, <3>4, ReleaseNext, SMTT(30)
    <3> QED
      BY <2>3, <3>1, <3>2, <3>5, SMTT(60) DEF releaseRangeChecked
  <2> QED
    BY <2>2, <2>3, SMTT(60)
<1>9. n # 0 => Below(T, ids[1]) = {}
  <2> SUFFICES ASSUME n # 0, NEW x \in Below(T, ids[1]) PROVE FALSE
    OBVIOUS
  <2>1. x \in Extents(T) /\ x.end < ids[1] /\ ids[1] \in Nat
    BY <1>1 DEF Below
  <2>2. x.begin \in Nat /\ x.end \in Int /\ x.begin <= x.end
    BY <1>1, <2>1, ExtentIs, SMTT(60)
  <2>3. PICK u \in T : x.begin = u + 1
    BY <1>1, <2>1, ExtentIs, SMTT(60)
  <2>4. u \in Nat /\ ids[1] <= u
    <3>1. PICK i \in 1 .. n : u = ids[i]
      BY <1>1
    <3> QED
      BY <1>1, <3>1, SMTT(60)
  <2> QED
    BY <2>1, <2>2, <2>3, <2>4, SMTT(60)
<1>10. Below(T, MaxTxid + 1) = Extents(T)
  <2>1. \A x \in Extents(T) : x.end < MaxTxid + 1
    <3> SUFFICES ASSUME NEW x \in Extents(T) PROVE x.end < MaxTxid + 1
      OBVIOUS
    <3>1. x.end \in Int /\ x.end <= MaxTxid
      BY <1>1, ExtentIs, SMTT(60)
    <3> QED
      BY <1>1, <3>1, SMTT(60)
  <2> QED
    BY <2>1 DEF Below
<1> DEFINE At(k) == L[k] = [fl |-> releaseRanges(g, Below(T, ids[k])), minid |-> ids[k] + 1]
           S == {k \in Nat : k + 1 \in 1 .. n => At(k + 1)}
<1>11. 0 \in S
  <2> SUFFICES ASSUME 1 \in 1 .. n PROVE At(1)
    OBVIOUS
  <2>1. L[0].fl = g /\ L[0].minid = ids[1]
    BY <1>2, <1>4, SMTT(60) DEF minid, Oldest
  <2>2. L[1] = [fl |-> releaseRangeChecked(L[0].fl, L[0].minid, ids[1] - 1), minid |-> ids[1] + 1]
    BY <1>2
  <2>3. ids[1] > ids[1] - 1
    BY <1>1, SMTT(60)
  <2>4. releaseRangeChecked(g, ids[1], ids[1] - 1) = g
    BY <2>3 DEF releaseRangeChecked
  <2>5. Below(T, ids[1]) = {}
    BY <1>9, SMTT(60)
  <2> QED
    BY <1>7, <2>1, <2>2, <2>4, <2>5, SMTT(60)
<1>12. ASSUME NEW k \in S PROVE k + 1 \in S
  <2> SUFFICES ASSUME k + 2 \in 1 .. n PROVE At(k + 2)
    OBVIOUS
  <2>1. k \in Nat /\ k + 1 \in 1 .. n /\ At(k + 1) /\ (k + 2) - 1 = k + 1
    OBVIOUS
  <2> DEFINE lo == ids[k + 1]
             hi == ids[k + 2]
  <2>2. L[k + 1].fl = releaseRanges(g, Below(T, lo)) /\ L[k + 1].minid = lo + 1
    BY <2>1
  <2>3. L[k + 2] = [fl |-> releaseRangeChecked(L[k + 1].fl, L[k + 1].minid, hi - 1), minid |-> hi + 1]
    <3>1. L[k + 2] = [fl |-> releaseRangeChecked(L[(k + 2) - 1].fl, L[(k + 2) - 1].minid, ids[k + 2] - 1),
                      minid |-> ids[k + 2] + 1]
      BY <1>2, SMTT(60)
    <3> QED
      BY <2>1, <3>1, Zenon
  <2>4. lo \in T /\ hi \in T /\ lo <= hi
    BY <1>1, <2>1, SMTT(60)
  <2>5. \A u \in T : u <= lo \/ hi <= u
    <3> SUFFICES ASSUME NEW u \in T PROVE u <= lo \/ hi <= u
      OBVIOUS
    <3>1. PICK i \in 1 .. n : u = ids[i]
      BY <1>1
    <3>2. i <= k + 1 \/ k + 2 <= i
      BY <2>1, SMTT(60)
    <3> QED
      BY <1>1, <2>1, <3>1, <3>2, SMTT(60)
  <2> HIDE DEF lo, hi
  <2>6. releaseRangeChecked(releaseRanges(g, Below(T, lo)), lo + 1, hi - 1) = releaseRanges(g, Below(T, hi))
    BY <1>8, <2>4, <2>5, SMTT(60) DEF NextTo
  <2> QED
    BY <2>2, <2>3, <2>6, SMTT(60) DEF hi
<1>13. S = Nat
  <2> HIDE DEF S
  <2>1. S \subseteq Nat
    BY DEF S
  <2> QED
    BY <1>11, <1>12, <2>1, Induction, SMTT(60)
<1>14. CASE n = 0
  <2>1. T = {} /\ minid = MaxTxid + 1 /\ Extents(T) = {}
    BY <1>1, <1>14, SMTT(60) DEF T, Extents, minid, Oldest
  <2>2. L[n].fl = g /\ L[n].minid = MaxTxid + 1
    BY <1>2, <1>4, <1>14, <2>1, SMTT(60)
  <2>3. releaseRangeChecked(g, MaxTxid + 1, MaxTxid) = g
    <3>1. MaxTxid + 1 > MaxTxid
      BY <1>1
    <3> QED
      BY <3>1 DEF releaseRangeChecked
  <2> QED
    BY <1>2, <1>6, <1>7, <2>1, <2>2, <2>3, Zenon DEF T
<1>15. CASE n # 0
  <2>1. At(n)
    <3>1. n - 1 \in Nat /\ (n - 1) + 1 = n /\ n \in 1 .. n
      BY <1>15, SMTT(60)
    <3> QED
      BY <1>13, <3>1, Zenon
  <2> DEFINE lo == ids[n]
  <2>2. L[n].fl = releaseRanges(g, Below(T, lo)) /\ L[n].minid = lo + 1
    BY <2>1
  <2>3. lo \in T /\ lo <= MaxTxid + 1 /\ \A u \in T : u <= lo
    <3>1. n \in 1 .. n
      BY <1>15
    <3> QED
      BY <1>1, <3>1
  <2>4. MaxTxid = (MaxTxid + 1) - 1
    BY <1>1
  <2> HIDE DEF lo
  <2>5. releaseRangeChecked(releaseRanges(g, Below(T, lo)), lo + 1, (MaxTxid + 1) - 1)
          = releaseRanges(g, Below(T, MaxTxid + 1))
    BY <1>8, <2>3, SMTT(60) DEF NextTo
  <2> QED
    BY <1>2, <1>6, <1>10, <2>2, <2>4, <2>5, Zenon DEF T
<1> QED
  BY <1>14, <1>15, SMTT(60)

\* freePages, which the model writes as one step over the set of readers, does in
\* every reachable state what the loop in the code does over db.txs sorted by
\* txid: release below the oldest, then releaseRange between neighbours and
\* above the youngest, whichever way readers with the same txid are sorted.
THEOREM FreePages == ASSUME Sound PROVE Spec => []FreePagesIsLoop
<1>1. ASSUME IInv PROVE FreePagesIsLoop
  <2> DEFINE T == {txs[r].txid : r \in DOMAIN txs}
  <2>2. fl \in FreelistRecord
    BY <1>1, InvTypes, SMTT(60)
  <2>3. \A r \in DOMAIN txs : txs[r].txid \in Txid /\ 1 <= txs[r].txid
    <3> SUFFICES ASSUME NEW r \in DOMAIN txs
                 PROVE  txs[r].txid \in Txid /\ 1 <= txs[r].txid
      BY SMTT(60)
    <3>1. txs[r] \in Meta /\ Durable.txid \in Nat
      BY <1>1, InvTypes, SMTT(60)
    <3>2. txs[r].txid \in Nat
      BY <3>1, MetaFields, SMTT(60)
    <3>3. /\ 1 <= txs[r].txid /\ txs[r].txid <= Durable.txid + 1
          /\ pc # "metasync" => txs[r].txid <= Durable.txid
          /\ Durable.txid <= MaxTxid
      BY <1>1, Zenon DEF IInv, ReaderInv, SlotInv
    <3>4. pc # "idle" => wmeta.txid \in Txid
      BY <1>1, InvTypes DEF TypeInv
    <3>5. pc # "idle" => wmeta.txid = Durable.txid + 1
      BY <1>1, Zenon DEF IInv, WriterInv
    <3> QED
      BY <3>1, <3>2, <3>3, <3>4, <3>5, FreelistAssumption, SMTT(60) DEF Txid
  <2> SUFFICES ASSUME NEW n \in 0 .. Cardinality(Reader), NEW s \in [1 .. n -> DOMAIN txs],
                      \A r \in DOMAIN txs : \E i \in 1 .. n : s[i] = r,
                      \A i, j \in 1 .. n : i < j => txs[s[i]].txid <= txs[s[j]].txid
               PROVE  freePages(fl, T) = freePagesLoop(fl, n, [i \in 1 .. n |-> txs[s[i]].txid])
    BY Zenon DEF FreePagesIsLoop
  <2>1. n \in Nat
    OBVIOUS
  <2> DEFINE ids == [i \in 1 .. n |-> txs[s[i]].txid]
  <2>4. ids \in [1 .. n -> Txid]
    BY <2>3
  <2>5. /\ \A i \in 1 .. n : 1 <= ids[i]
        /\ \A i, j \in 1 .. n : i < j => ids[i] <= ids[j]
    BY <2>3, SMTT(60)
  <2>6. T = {ids[i] : i \in 1 .. n}
    BY SMTT(60)
  <2> HIDE DEF ids, T
  <2>7. freePages(fl, {ids[i] : i \in 1 .. n}) = freePagesLoop(fl, n, ids)
    BY <2>1, <2>2, <2>4, <2>5, LoopReleases, SMTT(60)
  <2> QED
    BY <2>6, <2>7, ZenonT(60) DEF ids, T
<1> QED
  BY Invariance, <1>1, PTL

-----------------------------------------------------------------------------
(* The snapshot store *)

\* The contents a transaction with meta m reads when its pages are intact.
Tags(m) == [p \in DOMAIN m.root |-> m.root[p].tag]

\* With intact pages the contents read through a meta are what its tree says.
LEMMA ContentIs ==
  ASSUME NEW m, NEW pg, Intact(m.root, pg)
  PROVE  Content(m, pg) = Tags(m)
BY DEF Content, Tags, Intact

\* The state of the store in terms of metas only: pages hold what their trees say.
LEMMA StoreState ==
  ASSUME IInv
  PROVE  /\ Content(Current, page) = Tags(Current)
         /\ Content(CurrentOf(disk.meta), disk.page) = Tags(Durable)
         /\ [r \in DOMAIN txs |-> Content(txs[r], page)]
              = [r \in DOMAIN txs |-> Tags(txs[r])]
<1>1. Intact(Current.root, page)
  BY CurrentIs, Zenon DEF IInv, WriterInv, DurableInv, Readable
<1>2. Intact(Durable.root, disk.page)
  BY Zenon DEF IInv, DurableInv, Readable
<1>3. \A r \in DOMAIN txs : Content(txs[r], page) = Tags(txs[r])
  BY ContentIs, Zenon DEF IInv, ReaderInv
<1> QED
  BY <1>1, <1>2, <1>3, ContentIs DEF Durable

\* The same of the state after a step, where the meta that db.meta() returns is
\* the one being synced or the durable one.
LEMMA StoreStatePrime ==
  IInv' => /\ Content(Current, page)' = Tags(Current)'
           /\ Content(CurrentOf(disk.meta), disk.page)' = Tags(Durable)'
           /\ [r \in DOMAIN txs |-> Content(txs[r], page)]'
                = [r \in DOMAIN txs |-> Tags(txs[r])]'
           /\ Current' = IF pc' = "metasync" THEN wmeta' ELSE Durable'
<1>1. IInv => /\ Content(Current, page) = Tags(Current)
              /\ Content(CurrentOf(disk.meta), disk.page) = Tags(Durable)
              /\ [r \in DOMAIN txs |-> Content(txs[r], page)]
                   = [r \in DOMAIN txs |-> Tags(txs[r])]
              /\ Current = IF pc = "metasync" THEN wmeta ELSE Durable
  BY StoreState, CurrentIs
<1>2. (IInv => /\ Content(Current, page) = Tags(Current)
              /\ Content(CurrentOf(disk.meta), disk.page) = Tags(Durable)
              /\ [r \in DOMAIN txs |-> Content(txs[r], page)]
                   = [r \in DOMAIN txs |-> Tags(txs[r])]
              /\ Current = IF pc = "metasync" THEN wmeta ELSE Durable)'
  BY <1>1, PTL
<1> QED
  BY <1>2, SMTT(60)

\* Metas have contents.
LEMMA TagsType ==
  ASSUME NEW m \in Meta
  PROVE  Tags(m) \in UNION {[S -> Tag] : S \in SUBSET Pgid}
<1>1. m.root \in Tree
  BY MetaFields
<1>2. \A p \in DOMAIN m.root : p \in Pgid /\ m.root[p] \in Block
  BY <1>1, TreeType
<1>3. Tags(m) \in [DOMAIN m.root -> Tag]
  BY <1>2 DEF Tags, Block
<1> QED
  BY <1>2, <1>3, SMTT(60)

\* Without readers the store has no views.
LEMMA NoViews ==
  ASSUME NEW f, DOMAIN f = {}
  PROVE  [r \in DOMAIN f |-> Tags(f[r])] = <<>>
OBVIOUS

\* The store's state, over metas only.
Now == Tags(Current)
\* The version a crash falls back to.
Safe == Tags(Durable)
\* The versions the open read transactions see.
Views == [r \in DOMAIN txs |-> Tags(txs[r])]

\* What a step does to the store.
StoreStep ==
  \/ UNCHANGED <<Now, Safe, Views>>
  \/ \E r \in Reader :
       /\ r \notin DOMAIN Views
       /\ Views' = [x \in DOMAIN Views \cup {r} |-> IF x = r THEN Now ELSE Views[x]]
       /\ UNCHANGED <<Now, Safe>>
  \/ \E r \in Reader :
       /\ r \in DOMAIN Views
       /\ Views' = [x \in DOMAIN Views \ {r} |-> Views[x]]
       /\ UNCHANGED <<Now, Safe>>
  \/ /\ Safe = Now
     /\ Now' \in UNION {[S -> Tag] : S \in SUBSET Pgid}
     /\ UNCHANGED <<Safe, Views>>
  \/ /\ Safe' = Now
     /\ UNCHANGED <<Now, Views>>
  \/ /\ Now' \in {Now, Safe}
     /\ Safe' = Now'
     /\ Views' = <<>>

\* Every step of the database is a step of the store or none.
LEMMA StepOfStore ==
  ASSUME Sound, IInv, IInv', [Next]_vars
  PROVE  StoreStep
<1> DEFINE cur == IF pc = "metasync" THEN wmeta ELSE Durable
<1>1. Now = Tags(cur)
  BY CurrentIs DEF Now
<1>2. Now' = Tags(cur')
  BY StoreStatePrime, Zenon DEF Now, Tags
<1>3. CASE Gone /\ txs' = <<>> /\ pc' = "idle"
  <2>1. Durable' \in {Durable, cur} /\ cur' = Durable'
    BY <1>3 DEF Gone, Promoted
  <2>2. Safe' = Now' /\ Now' \in {Now, Safe}
    BY <1>1, <1>2, <2>1, Zenon DEF Safe, Tags
  <2>3. DOMAIN (txs') = {}
    BY <1>3
  <2>4. Views' = <<>>
    BY <2>3, NoViews DEF Views, Tags
  <2> QED
    BY <2>2, <2>4 DEF StoreStep
<1>4. CASE UNCHANGED <<cur, Durable, txs>>
  BY <1>1, <1>2, <1>4, Zenon DEF StoreStep, Safe, Views, Tags
<1>5. ASSUME NEW r \in Reader, BeginRead(r) PROVE StoreStep
  <2>1. UNCHANGED <<cur, Durable>> /\ r \notin DOMAIN txs
    BY <1>5 DEF BeginRead, Durable
  <2>2. txs' = [x \in DOMAIN txs \cup {r} |-> IF x = r THEN Current ELSE txs[x]]
    BY <1>5 DEF BeginRead
  <2>3. Views' = [x \in DOMAIN Views \cup {r} |-> IF x = r THEN Now ELSE Views[x]]
    BY <2>2, Zenon DEF Views, Now, Tags
  <2> QED
    BY <1>1, <1>2, <2>1, <2>3, Zenon DEF StoreStep, Safe, Tags, Views
<1>6. ASSUME NEW r \in Reader, EndRead(r) PROVE StoreStep
  <2>1. UNCHANGED <<cur, Durable>> /\ r \in DOMAIN txs
    BY <1>6 DEF EndRead, Durable
  <2>2. txs' = [x \in DOMAIN txs \ {r} |-> txs[x]]
    BY <1>6 DEF EndRead
  <2>3. Views' = [x \in DOMAIN Views \ {r} |-> Views[x]]
    BY <2>2 DEF Views, Tags
  <2> QED
    BY <1>1, <1>2, <2>1, <2>3, Zenon DEF StoreStep, Safe, Tags, Views
<1>7. CASE WriteMeta
  <2>1. UNCHANGED <<Durable, txs>> /\ cur = Durable
    BY <1>7 DEF WriteMeta, Durable
  <2>2. cur' \in Meta
    <3>1. wmeta' \in Meta /\ cur' = wmeta'
      BY <1>7, Zenon DEF WriteMeta, IInv, TypeOK
    <3> QED
      BY <3>1
  <2>3. Now' \in UNION {[S -> Tag] : S \in SUBSET Pgid}
    BY <1>2, <2>2, TagsType, Zenon
  <2> QED
    BY <1>1, <2>1, <2>3, Zenon DEF StoreStep, Safe, Tags, Views
<1>8. CASE SyncMeta
  <2>1. pc = "metasync" /\ pc' = "idle" /\ UNCHANGED <<meta, txs>> /\ Synced
    BY <1>8 DEF SyncMeta, close, file
  <2>2. Durable' = wmeta
    BY <2>1, CurrentIs, Zenon DEF Durable, Synced, Current
  <2>3. cur = wmeta /\ cur' = wmeta
    BY <2>1, <2>2
  <2> QED
    BY <1>1, <1>2, <2>1, <2>2, <2>3, Zenon DEF StoreStep, Safe, Tags, Views
<1>9. CASE Crash \/ Close
  <2>1. txs' = <<>> /\ pc' = "idle"
    BY <1>9, Zenon DEF Crash, Close, MemoryLost
  <2>2. Gone
    BY <1>9, CrashGone, Zenon DEF Close, MemoryLost, Gone, Durable, Stored
  <2> QED
    BY <1>3, <2>1, <2>2
<1>10. CASE Grow \/ SyncPages
  <2>1. /\ UNCHANGED <<txs, wmeta>>
        /\ Synced \/ UNCHANGED disk
        /\ pc \in {"spill", "sync"} /\ pc' \in {"write", "meta"}
    BY <1>10, Zenon DEF Grow, SyncPages
  <2>2. CurrentOf(meta) = Durable
    BY <2>1, CurrentIs DEF Current
  <2>3. Durable' = Durable
    BY <2>1, <2>2 DEF Durable, Synced
  <2> QED
    BY <1>4, <2>1, <2>3
<1>11. CASE \/ UNCHANGED vars \/ WritePages \/ BeginWriteMeta \/ Commit
            \/ BeginRW \/ Open
            \/ \E h \in Heads(wmeta.root) : DeleteBucket(h)
            \/ \E h \in OldHeads : Rebalance(h)
            \/ \E h \in OldHeads \cup {0}, n \in 1 .. MaxRun :
                 SpillNode(h, n) \/ SpillFails(h, n)
            \/ Rollback \/ UpdatePanics \/ CommitPanics \/ GrowFails
            \/ WriteFails \/ SyncFails \/ WriteMetaFails
  <2>1. UNCHANGED <<disk, txs>>
    BY <1>11, Zenon DEF vars, WritePages, BeginWriteMeta, Commit, BeginRW, Open,
      DeleteBucket, Rebalance, SpillNode, SpillFails, Rollback, UpdatePanics,
      CommitPanics, GrowFails, WriteFails, SyncFails, WriteMetaFails
  <2>2. \/ UNCHANGED <<pc, wmeta>>
        \/ pc # "metasync" /\ pc' # "metasync"
    BY <1>11, Zenon DEF vars, WritePages, BeginWriteMeta, Commit, BeginRW, Open,
      DeleteBucket, Rebalance, SpillNode, SpillFails, Rollback, UpdatePanics,
      CommitPanics, GrowFails, WriteFails, SyncFails, WriteMetaFails,
      physicalRollback, nonPhysicalRollback, close
  <2> QED
    BY <1>4, <2>1, <2>2 DEF Durable
<1>12. ~Kill /\ ~SyncMetaFails
  BY DEF Kill, SyncMetaFails, Sound
<1> HIDE DEF cur
<1> QED
  BY <1>5, <1>6, <1>7, <1>8, <1>9, <1>10, <1>11, <1>12, Zenon DEF Next, Writer

\* Under the refinement mapping such a step is a step of Snapshot, or a stutter.
LEMMA StoreRefines ==
  ASSUME IInv, IInv', StoreStep
  PROVE  [Store!Next]_(Store!vars)
<1> DEFINE c == Content(Current, page)
           d == Content(CurrentOf(disk.meta), disk.page)
           v == [r \in DOMAIN txs |-> Content(txs[r], page)]
<1>1. c = Now /\ d = Safe /\ v = Views
  BY StoreState, Zenon DEF Now, Safe, Views
<1>2. c' = Now' /\ d' = Safe' /\ v' = Views'
  BY StoreStatePrime, Zenon DEF Now, Safe, Views
<1>3. \/ UNCHANGED <<c, d, v>>
      \/ \E r \in Reader :
           /\ r \notin DOMAIN v
           /\ v' = [x \in DOMAIN v \cup {r} |-> IF x = r THEN c ELSE v[x]]
           /\ UNCHANGED <<c, d>>
      \/ \E r \in Reader :
           /\ r \in DOMAIN v
           /\ v' = [x \in DOMAIN v \ {r} |-> v[x]]
           /\ UNCHANGED <<c, d>>
      \/ /\ d = c
         /\ c' \in UNION {[S -> Tag] : S \in SUBSET Pgid}
         /\ UNCHANGED <<d, v>>
      \/ /\ d' = c
         /\ UNCHANGED <<c, v>>
      \/ /\ c' \in {c, d}
         /\ d' = c'
         /\ v' = <<>>
  <2> HIDE DEF c, d, v
  <2> QED
    BY <1>1, <1>2, Zenon DEF StoreStep
<1> QED
  BY <1>3, Zenon DEF Store!Next, Store!vars, Store!BeginRead, Store!EndRead,
    Store!Commit, Store!Acknowledge, Store!Crash

\* A new file is an initial state of Snapshot.
LEMMA StoreInit ==
  ASSUME Init
  PROVE  Store!Init
<1>1. IInv
  BY InitInv
<1>2. pc = "idle" /\ txs = <<>> /\ meta = disk.meta /\ page = disk.page
  BY Zenon DEF Init
<1>3. Content(Current, page) = Tags(Current)
  BY <1>1, StoreState
<1>4. Current \in Meta
  BY <1>1, <1>2, CurrentIs, InvTypes, Zenon
<1>5. Content(Current, page) \in UNION {[S -> Tag] : S \in SUBSET Pgid}
  BY <1>3, <1>4, TagsType, Zenon
<1>6. Content(CurrentOf(disk.meta), disk.page) = Content(Current, page)
  BY <1>2 DEF Current
<1>7. [r \in DOMAIN txs |-> Content(txs[r], page)] = <<>>
  <2>1. DOMAIN txs = {}
    BY <1>2
  <2> QED
    BY <1>1, <2>1, StoreState, NoViews, Zenon
<1> QED
  BY <1>5, <1>6, <1>7, Zenon DEF Store!Init

\* bbolt is a store of snapshots: a commit becomes visible to new transactions
\* at once and is then acknowledged, a read transaction keeps the version it
\* began with, and a crash loses at most the commit in flight, whatever the
\* transactions do with pages.
THEOREM Refinement ==
  ASSUME Sound
  PROVE  Spec => ImplementsSnapshot
<1>1. Spec => []IInv
  BY Invariance
<1>2. Init => Store!Init
  BY StoreInit
<1>3. IInv /\ IInv' /\ [Next]_vars => [Store!Next]_(Store!vars)
  BY StepOfStore, StoreRefines
<1> QED
  BY <1>1, <1>2, <1>3, PTL DEF Spec, ImplementsSnapshot, Store!Spec

-----------------------------------------------------------------------------
(* Backups *)

\* The meta page m, the freelist regions fs: what the copy must hold, but for
\* the pages of the tree.
Whole(m, fs) ==
  LET ids == fs[m.flid % 2].ids
  IN  /\ m.valid
      /\ fs[m.flid % 2].ok
      /\ DOMAIN m.root \cap ids = {}
      /\ \A p \in DOMAIN m.root : p < m.pgid
      /\ Complete(m.root, m.pgid, ids)

\* The pages of tree root below n have been copied.
CopiedBelow(root, n) == \A p \in DOMAIN root : p < n => copy.page[p] = root[p].tag

\* While it holds rwlock nothing is written; what it has copied of the meta
\* pages and the freelist is then what the file holds, and is the version the
\* read transaction begins with, whose pages are copied in order.
CopyInv ==
  LET m == CurrentOf(copy.meta)
  IN  /\ copy \in [page : [Pgid -> Tag], meta : [0..1 -> Meta], flist : [0..1 -> Region]]
      /\ next \in Nat /\ size \in Nat
      /\ at \in {"start", "metas", "begin"} => next = Root
      /\ at \in {"metas", "begin"} => rwlock /\ opened /\ mapped /\ pc = "idle"
      /\ at = "begin" /\ ~failed =>
           copy.meta = meta /\ copy.flist = flist /\ size = Current.pgid
      /\ at = "pages" => Copier \in DOMAIN txs
      /\ at = "pages" /\ ~failed =>
           /\ txs[Copier] = m
           /\ size = m.pgid
           /\ Whole(m, copy.flist)
           /\ CopiedBelow(m.root, next)
      /\ result = "ok" => at = "end"
      /\ CopyIsDatabase

\* WriteTo and the others only do what the database does.
LEMMA BackupSteps ==
  ASSUME [BackupNext]_<<vars, bvars>>
  PROVE  [Next]_vars
<1>1. CASE UNCHANGED <<vars, bvars>>
  BY <1>1
<1>2. CASE WriteTo
  BY <1>2, BackupAssumption, Zenon
  DEF WriteTo, Lock, CopyMetas, BeginCopy, CopyPage, CopyFails, CopyEnds, Return, Next
<1>3. CASE Others
  BY <1>3, Zenon DEF Others, Next
<1> QED
  BY <1>1, <1>2, <1>3 DEF BackupNext

\* When no write transaction is open the file holds a whole database.
LEMMA IdleWhole ==
  ASSUME BooksInv, pc = "idle"
  PROVE  Current \in Meta /\ Whole(Current, flist)
<1>1. Current = Durable /\ Durable \in Meta
  BY CurrentIs, InvTypes, ZenonT(60) DEF BooksInv
<1>2. Readable(Durable, page, flist) /\ flist[Durable.flid % 2].ids = Stored
  BY DEF BooksInv, IInv, DurableInv, Stored
<1>3. Complete(Durable.root, Durable.pgid, Stored)
  BY DEF BooksInv, CompleteInv
<1>4. Durable.valid
  BY Zenon DEF BooksInv, IInv, SlotInv
<1> QED
  BY <1>1, <1>2, <1>3, <1>4, Zenon DEF Whole, Readable

\* Before WriteTo begins there is nothing to say of the copy.
LEMMA CopyInit == BackupInit => CopyInv
<1> SUFFICES ASSUME BackupInit PROVE CopyInv
  OBVIOUS
<1>1. NoCopy \in [page : [Pgid -> Tag], meta : [0..1 -> Meta], flist : [0..1 -> Region]]
  BY NoMetaType, NoRegionType, DBAssumption, SMTT(60) DEF NoCopy, Tag
<1> QED
  BY <1>1, FreelistAssumption, Zenon DEF BackupInit, CopyInv, CopyIsDatabase

\* What the other transactions leave alone.
LEMMA OthersKeep ==
  ASSUME BooksInv, CopyInv, Others
  PROVE  /\ UNCHANGED bvars
         /\ at = "pages" => Copier \in DOMAIN txs' /\ txs'[Copier] = txs[Copier]
         /\ at \in {"metas", "begin"} => UNCHANGED <<file, opened, mapped, pc>>
<1>1. CASE \E r \in Reader \ {Copier} : BeginRead(r) \/ EndRead(r)
  BY <1>1, Zenon DEF BeginRead, EndRead, Others, CopyInv
<1>2. CASE ~rwlock /\ Writer
  <2>1. UNCHANGED txs
    BY <1>2, Zenon DEF Writer, BeginRW, Rollback, UpdatePanics, Commit, CommitPanics,
      DeleteBucket, Rebalance, SpillNode, SpillFails, Grow, GrowFails, WritePages,
      WriteFails, SyncPages, SyncFails, BeginWriteMeta, WriteMeta, WriteMetaFails,
      SyncMeta, SyncMetaFails
  <2> QED
    BY <1>2, <2>1, Zenon DEF Others, CopyInv
<1>3. CASE ~rwlock /\ Close
  <2>1. DOMAIN txs = {}
    BY <1>3 DEF Close
  <2> QED
    BY <1>3, <2>1, Zenon DEF Others, CopyInv
<1>4. CASE Open
  BY <1>4, Zenon DEF Open, Others, CopyInv
<1> QED
  BY <1>1, <1>2, <1>3, <1>4, Zenon DEF Others

\* Lock and the copy of the meta pages.
LEMMA MetasStep ==
  ASSUME BooksInv, CopyInv, Lock \/ CopyMetas
  PROVE  CopyInv'
<1>1. CASE Lock
  <2>1. /\ UNCHANGED <<opened, mapped, pc, next, copy, size, failed, result>>
        /\ opened /\ mapped /\ pc = "idle" /\ rwlock' /\ at = "start" /\ at' = "metas"
    BY <1>1, Zenon DEF Lock, vars
  <2>2. result' # "ok"
    BY <2>1, Zenon DEF CopyInv
  <2> QED
    BY <2>1, <2>2, Zenon DEF CopyInv, CopyIsDatabase
<1>2. CASE CopyMetas
  <2>1. /\ UNCHANGED <<vars, next, rwlock, result>> /\ at = "metas" /\ at' = "begin"
        /\ size' = Current.pgid
        /\ \/ copy' = [copy EXCEPT !.meta = meta, !.flist = flist] /\ failed' = failed
           \/ failed' /\ copy' = copy
    BY <1>2 DEF CopyMetas
  <2>2. Current \in Meta /\ Current.pgid \in Nat
    BY <2>1, IdleWhole, MetaFields, SMTT(60) DEF CopyInv
  <2>3. meta \in [0..1 -> Meta] /\ flist \in [0..1 -> Region]
    BY Zenon DEF BooksInv, IInv, TypeOK
  <2>4. /\ copy' \in [page : [Pgid -> Tag], meta : [0..1 -> Meta],
                      flist : [0..1 -> Region]]
        /\ ~failed' => copy'.meta = meta /\ copy'.flist = flist
    BY <2>1, <2>3, Zenon DEF CopyInv
  <2>5. Current' = Current /\ UNCHANGED <<meta, flist, opened, mapped, pc>>
    BY <2>1 DEF Current, vars
  <2>6. result' # "ok"
    BY <2>1 DEF CopyInv
  <2> QED
    BY <2>1, <2>2, <2>4, <2>5, <2>6, Zenon DEF CopyInv, CopyIsDatabase
<1> QED
  BY <1>1, <1>2

\* The read transaction begins with the version that was copied.
LEMMA BeginCopyStep ==
  ASSUME BooksInv, CopyInv, BeginCopy
  PROVE  CopyInv'
<1>1. /\ at = "begin" /\ at' = "pages" /\ UNCHANGED <<next, copy, size, failed, result>>
      /\ txs' = [x \in DOMAIN txs \cup {Copier} |->
                   IF x = Copier THEN Current ELSE txs[x]]
  BY DEF BeginCopy, BeginRead
<1>2. Copier \in DOMAIN txs' /\ txs'[Copier] = Current
  BY <1>1, Zenon
<1>3. pc = "idle" /\ result # "ok" /\ next = Root
  BY <1>1, Zenon DEF CopyInv
<1>4. Current \in Meta /\ Whole(Current, flist)
  BY <1>3, IdleWhole, SMTT(60)
<1>5. CopiedBelow(Current.root, Root)'
  <2>1. \A p \in DOMAIN Current.root : p \in Pgid
    BY <1>4, MetaFields, TreeType, SMTT(60)
  <2>2. Current' = Current
    BY Zenon DEF BeginCopy, BeginRead, file, Current
  <2> QED
    BY <2>1, <2>2, FreelistAssumption, SMTT(60) DEF CopiedBelow, Pgid
<1>6. ~failed => CurrentOf(copy.meta) = Current /\ copy.flist = flist /\ size = Current.pgid
  BY <1>1, Zenon DEF CopyInv, Current
<1>7. UNCHANGED <<meta, Current>>
  BY Zenon DEF BeginCopy, BeginRead, file, Current
<1> QED
  BY <1>1, <1>2, <1>3, <1>4, <1>5, <1>6, <1>7, Zenon DEF CopyInv, CopyIsDatabase

\* A page is copied as its transaction sees it.
LEMMA CopyPageStep ==
  ASSUME BooksInv, CopyInv, CopyPage
  PROVE  CopyInv'
<1>1. /\ at = "pages" /\ next < size /\ next' = next + 1
      /\ copy' = [copy EXCEPT !.page[next] = page[next]]
      /\ UNCHANGED <<vars, at, rwlock, size, failed, result>>
  BY DEF CopyPage
<1>2. /\ copy \in [page : [Pgid -> Tag], meta : [0..1 -> Meta], flist : [0..1 -> Region]]
      /\ next \in Nat
  BY Zenon DEF CopyInv
<1>3. page \in [Pgid -> Tag]
  BY Zenon DEF BooksInv, IInv, TypeOK
<1>4. /\ copy' \in [page : [Pgid -> Tag], meta : [0..1 -> Meta],
                    flist : [0..1 -> Region]]
      /\ copy'.meta = copy.meta /\ copy'.flist = copy.flist
      /\ \A p \in Pgid : copy'.page[p] = IF p = next THEN page[p] ELSE copy.page[p]
  BY <1>1, <1>2, <1>3, SMTT(60)
<1>5. ASSUME ~failed
      PROVE  CopiedBelow(CurrentOf(copy.meta).root, next)'
  <2> DEFINE m == CurrentOf(copy.meta)
  <2>1. Copier \in DOMAIN txs /\ txs[Copier] = m /\ CopiedBelow(m.root, next)
    BY <1>1, <1>5, SMTT(60) DEF CopyInv
  <2>2. Intact(m.root, page)
    BY <2>1, Zenon DEF BooksInv, IInv, ReaderInv
  <2>3. \A p \in DOMAIN m.root : p \in Pgid /\ p \in Nat
    <3>1. m.root \in Tree
      BY <2>1, InvTypes, Zenon DEF BooksInv
    <3> QED
      BY <3>1, TreeType, PgidNat, Zenon
  <2>4. m' = m
    BY <1>4, Zenon
  <2> HIDE DEF m
  <2>5. \A p \in DOMAIN m.root : p < next + 1 => copy'.page[p] = m.root[p].tag
    BY <1>2, <1>4, <2>1, <2>2, <2>3, SMTT(60) DEF CopiedBelow, Intact
  <2>6. CopiedBelow(m.root, next)'
    BY <1>1, <2>4, <2>5, SMTT(60) DEF CopiedBelow
  <2> QED
    BY <2>6 DEF m
<1>6. result' # "ok"
  BY <1>1, SMTT(60) DEF CopyInv
<1>7. at' = "pages" /\ next' \in Nat /\ size' \in Nat /\ Copier \in DOMAIN txs'
  <2>1. size \in Nat /\ Copier \in DOMAIN txs
    BY <1>1, Zenon DEF CopyInv
  <2> QED
    BY <1>1, <1>2, <2>1, SMTT(60) DEF vars
<1>8. ASSUME ~failed'
      PROVE  /\ txs'[Copier] = CurrentOf(copy.meta)'
             /\ size' = CurrentOf(copy.meta)'.pgid
             /\ Whole(CurrentOf(copy.meta), copy.flist)'
  <2>1. ~failed
    BY <1>1, <1>8
  <2>2. /\ txs[Copier] = CurrentOf(copy.meta) /\ size = CurrentOf(copy.meta).pgid
        /\ Whole(CurrentOf(copy.meta), copy.flist)
    BY <1>1, <2>1, Zenon DEF CopyInv
  <2>3. CurrentOf(copy.meta)' = CurrentOf(copy.meta) /\ UNCHANGED <<txs, size>>
    BY <1>1, <1>4, Zenon DEF vars
  <2>4. Whole(CurrentOf(copy.meta), copy.flist)' <=> Whole(CurrentOf(copy.meta), copy.flist)
    BY <1>4, <2>3, Zenon DEF Whole
  <2> QED
    BY <2>2, <2>3, <2>4, Zenon
<1>9. CopyIsDatabase'
  BY <1>6, Zenon DEF CopyIsDatabase
<1>10. ~failed' => CopiedBelow(CurrentOf(copy.meta).root, next)'
  BY <1>1, <1>5, Zenon
<1> QED
  BY <1>4, <1>6, <1>7, <1>8, <1>9, <1>10, Zenon DEF CopyInv

\* WriteTo returns.
LEMMA ReturnStep ==
  ASSUME BooksInv, CopyInv, CopyFails \/ CopyEnds
  PROVE  CopyInv'
<1>1. at = "pages" /\ at' = "end" /\ UNCHANGED <<next, rwlock, copy, size>>
  BY Zenon DEF CopyFails, CopyEnds, Return
<1>2. ASSUME result' = "ok", ~failed' PROVE CopyIsDatabase'
  <2> DEFINE m == CurrentOf(copy.meta)
  <2>1. next = size /\ ~failed
    BY <1>2 DEF CopyFails, CopyEnds, Return
  <2>2. Whole(m, copy.flist) /\ CopiedBelow(m.root, m.pgid)
    BY <1>1, <2>1, Zenon DEF CopyInv
  <2>3. Intact(m.root, copy.page)
    BY <2>2, Zenon DEF Whole, CopiedBelow, Intact
  <2>4. /\ m.valid /\ copy.flist[m.flid % 2].ok
        /\ DOMAIN m.root \cap copy.flist[m.flid % 2].ids = {}
        /\ {p \in Pgid : p < m.pgid} \subseteq DOMAIN m.root \cup copy.flist[m.flid % 2].ids
    BY <2>2, Zenon DEF Whole, Complete
  <2> HIDE DEF m
  <2>5. m' = m
    BY <1>1 DEF m
  <2> QED
    BY <1>1, <2>3, <2>4, <2>5, Zenon DEF CopyIsDatabase, m
<1> QED
  BY <1>1, <1>2, Zenon DEF CopyInv, CopyIsDatabase

\* The other transactions.
LEMMA OthersStep ==
  ASSUME BooksInv, CopyInv, Others
  PROVE  CopyInv'
<1>1. /\ UNCHANGED <<at, next, rwlock, copy, size, failed, result>>
      /\ at = "pages" => Copier \in DOMAIN txs' /\ txs'[Copier] = txs[Copier]
      /\ at \in {"metas", "begin"} => UNCHANGED <<file, opened, mapped, pc>>
  BY OthersKeep, Zenon DEF bvars
<1>2. at = "begin" => Current' = Current /\ UNCHANGED <<meta, flist>>
  BY <1>1, Zenon DEF Current, file
<1>3. CopyIsDatabase'
  BY <1>1, Zenon DEF CopyInv, CopyIsDatabase
<1>4. ASSUME at = "pages", ~failed
      PROVE  LET m == CurrentOf(copy.meta)
             IN  (/\ txs[Copier] = m /\ size = m.pgid
                  /\ Whole(m, copy.flist) /\ CopiedBelow(m.root, next))'
  <2>1. LET m == CurrentOf(copy.meta)
        IN  /\ txs[Copier] = m /\ size = m.pgid
            /\ Whole(m, copy.flist) /\ CopiedBelow(m.root, next)
    BY <1>4, Zenon DEF CopyInv
  <2>2. copy' = copy /\ next' = next /\ size' = size /\ txs'[Copier] = txs[Copier]
    BY <1>1, <1>4
  <2> QED
    BY <2>1, <2>2, Zenon DEF CopiedBelow
<1>5. (at \in {"metas", "begin"} => rwlock /\ opened /\ mapped /\ pc = "idle")'
  <2>1. at \in {"metas", "begin"} => rwlock /\ opened /\ mapped /\ pc = "idle"
    BY Zenon DEF CopyInv
  <2>2. /\ at' = at /\ rwlock' = rwlock
        /\ at \in {"metas", "begin"} => opened' = opened /\ mapped' = mapped /\ pc' = pc
    BY <1>1, Zenon
  <2> QED
    BY <2>1, <2>2, Zenon
<1>6. (at = "begin" /\ ~failed =>
         copy.meta = meta /\ copy.flist = flist /\ size = Current.pgid)'
  BY <1>1, <1>2, Zenon DEF CopyInv
<1>7. (at = "pages" => Copier \in DOMAIN txs)'
  BY <1>1, Zenon
<1>8. (/\ copy \in [page : [Pgid -> Tag], meta : [0..1 -> Meta], flist : [0..1 -> Region]]
       /\ next \in Nat /\ size \in Nat
       /\ at \in {"start", "metas", "begin"} => next = Root
       /\ result = "ok" => at = "end")'
  <2>1. /\ copy \in [page : [Pgid -> Tag], meta : [0..1 -> Meta], flist : [0..1 -> Region]]
        /\ next \in Nat /\ size \in Nat
        /\ at \in {"start", "metas", "begin"} => next = Root
        /\ result = "ok" => at = "end"
    BY Zenon DEF CopyInv
  <2>2. copy' = copy /\ next' = next /\ size' = size /\ at' = at /\ result' = result
    BY <1>1, Zenon
  <2> QED
    BY <2>1, <2>2, Zenon
<1> QED
  BY <1>1, <1>3, <1>4, <1>5, <1>6, <1>7, <1>8, Zenon DEF CopyInv

\* WriteTo copies a database that can be opened, while write transactions
\* commit, fail and roll back: for any number of pages, transactions and readers.
THEOREM BackupWhole ==
  ASSUME Sound, "assert" \notin Faults
  PROVE  BackupSpec => []CopyIsDatabase
<1>1. BackupSpec => Spec
  <2>1. BackupInit => Init
    BY DEF BackupInit
  <2>2. [BackupNext]_<<vars, bvars>> => [Next]_vars
    BY BackupSteps, Zenon
  <2> QED
    BY <2>1, <2>2, PTL DEF BackupSpec, Spec
<1>2. BooksInv /\ CopyInv /\ [BackupNext]_<<vars, bvars>> => CopyInv'
  <2> SUFFICES ASSUME BooksInv, CopyInv, [BackupNext]_<<vars, bvars>> PROVE CopyInv'
    OBVIOUS
  <2>1. CASE UNCHANGED <<vars, bvars>>
    BY <2>1, Zenon DEF vars, bvars, CopyInv, CopyIsDatabase, CopiedBelow, Whole, Current
  <2> QED
    BY <2>1, MetasStep, BeginCopyStep, CopyPageStep, ReturnStep, OthersStep, SMTT(60)
    DEF BackupNext, WriteTo
<1>3. CopyInv => CopyIsDatabase
  BY Zenon DEF CopyInv
<1> QED
  BY <1>1, <1>2, <1>3, CopyInit, Books, PTL DEF BackupSpec
=============================================================================
