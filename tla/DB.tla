--------------------------------- MODULE DB ---------------------------------
(***************************************************************************)
(* Transactions over the database file: DB.Begin, Tx.Commit, Tx.Rollback,  *)
(* the two meta pages, the two freelist regions, crashes and Open (db.go,  *)
(* tx.go, node.go and bucket.go where they free and allocate pages).       *)
(*                                                                         *)
(* The B+tree a meta page points to is abstracted to its pages: a function *)
(* from every page reachable from the root, overflow pages included, to    *)
(* the first page of its block and a tag naming the write transaction that *)
(* filled it.  A tree can be read back iff each of its pages still holds   *)
(* that tag.                                                               *)
(*                                                                         *)
(* The file is modelled twice: page, meta and flist are what read(), the   *)
(* mmap and the program see; disk is what survives a machine crash.  A     *)
(* writeAt changes the first, fdatasync copies it to the second, and a     *)
(* crash keeps for every page the one, the other, or a torn mixture.       *)
(***************************************************************************)
EXTENDS Freelist

CONSTANTS
  Reader,   \* goroutines that open read-only transactions
  MaxTag,   \* bound on the number of write transactions begun, plus one
  MaxRun,   \* bound on the pages of one node
  MaxCrash, \* bound on the number of crashes and closes
  HardLimitPendingPages, \* DB.HardLimitPendingPages
  Faults    \* which steps may fail, see AllFaults

\* panic: the user's function panics inside Update.  assert: Commit itself
\* panics.  mmap, remap: growing the mapping fails before or
\* after the old one is gone.  grow, write, sync,
\* meta, metasync: the system calls of Commit.  crash: the machine stops.
\* kill: only the process stops, the operating system keeps the file's pages.
AllFaults == {"panic", "assert", "mmap", "remap", "grow", "write", "sync",
              "meta", "metasync", "crash", "kill"}

ASSUME DBAssumption ==
  /\ MaxTag \in Nat /\ 1 <= MaxTag
  /\ MaxRun \in Nat /\ 1 <= MaxRun
  /\ MaxCrash \in Nat
  /\ HardLimitPendingPages \in Nat
  /\ Faults \subseteq AllFaults

VARIABLES
  page,    \* contents of the data pages: a tag, 0 for anything else
  meta,    \* the two meta pages
  flist,   \* the two freelist regions
  disk,    \* what of page, meta and flist is on stable storage
  opened,  \* db.opened
  mapped,  \* db.data # nil
  fl,      \* db.freelist
  stats,   \* the ids counted in db.stats.FreePageN and db.stats.PendingPageN
  txs,     \* db.txs: the meta copied by each open read transaction
  pc,      \* where db.rwtx is
  wmeta,   \* db.rwtx.meta
  tag,     \* tag of the current or last write transaction
  crashes  \* crashes and closes so far

file == <<page, meta, flist>>
vars == <<page, meta, flist, disk, opened, mapped, fl, stats, txs, pc,
          wmeta, tag, crashes>>

Tag == 0 .. MaxTag
Block == [head : Pgid, tag : Tag]
Tree == UNION {[S -> Block] : S \in SUBSET Pgid}

\* meta: valid stands for validate(), magic, version and checksum.
Meta == [valid : BOOLEAN, txid : Nat, flid : Nat, root : Tree, pgid : Nat]
Region == [ok : BOOLEAN, ids : SUBSET Pgid]

\* A meta page that is half written, and the meta of no transaction.
NoMeta == [valid |-> FALSE, txid |-> 0, flid |-> 0, root |-> <<>>, pgid |-> 0]
NoRegion == [ok |-> FALSE, ids |-> {}]

\* The free and pending ids a write transaction found when it closed.
Stats == [free : SUBSET Pgid, pending : SUBSET Pending]
NoStats == [free |-> {}, pending |-> {}]

-----------------------------------------------------------------------------
(* Reading the file *)

\* db.meta(): the valid meta with the highest txid.
CurrentOf(m) ==
  LET a == IF m[1].txid > m[0].txid THEN 1 ELSE 0
  IN  IF m[a].valid THEN m[a] ELSE m[1 - a]

Current == CurrentOf(meta)

\* db.freelistPage(): the region the current meta selects.
freelistPage == flist[Current.flid % 2]

\* The pages of the block that starts at h in a tree.
BlockAt(root, h) == {p \in DOMAIN root : root[p].head = h}
Heads(root) == {root[p].head : p \in DOMAIN root}

RemoveBlock(root, h) == [p \in DOMAIN root \ BlockAt(root, h) |-> root[p]]

\* The tree with a node of n pages at s written by the current transaction.
InsertBlock(root, s, n) ==
  [p \in DOMAIN root \cup Run(s, n) |->
     IF p \in Run(s, n) THEN [head |-> s, tag |-> tag] ELSE root[p]]

\* tx.meta with the tree and the high water mark replaced.
WithTree(m, root, pgid) == [m EXCEPT !.root = root, !.pgid = pgid]

-----------------------------------------------------------------------------
(* db.init(): the file Open creates, synced, with its freelist loaded. *)
InitMeta(i) ==
  [valid |-> TRUE, txid |-> i, flid |-> 0,
   root |-> [p \in {Root} |-> [head |-> Root, tag |-> 1]], pgid |-> Root + 1]

Init ==
  /\ page = [p \in Pgid |-> IF p = Root THEN 1 ELSE 0]
  /\ meta = [i \in 0..1 |-> InitMeta(i)]
  /\ flist = [i \in 0..1 |-> [ok |-> TRUE, ids |-> {}]]
  /\ disk = [page |-> page, meta |-> meta, flist |-> flist]
  /\ opened = TRUE
  /\ mapped = TRUE
  /\ fl = newFreelist
  /\ stats = NoStats
  /\ txs = <<>>
  /\ pc = "idle"
  /\ wmeta = NoMeta
  /\ tag = 1
  /\ crashes = 0

-----------------------------------------------------------------------------
(* Read-only transactions *)

\* beginTx: under metalock, copy the current meta and join db.txs.
BeginRead(r) ==
  /\ opened /\ mapped
  /\ r \notin DOMAIN txs
  /\ txs' = [x \in DOMAIN txs \cup {r} |-> IF x = r THEN Current ELSE txs[x]]
  /\ UNCHANGED <<file, disk, opened, mapped, fl, stats, pc, wmeta, tag, crashes>>

\* Rollback of a read transaction: close, removeTx.
EndRead(r) ==
  /\ r \in DOMAIN txs
  /\ txs' = [x \in DOMAIN txs \ {r} |-> txs[x]]
  /\ UNCHANGED <<file, disk, opened, mapped, fl, stats, pc, wmeta, tag, crashes>>

-----------------------------------------------------------------------------
(* The write transaction *)

\* Mutant: a range begins at the reader below it.
ExtentsFromReader(T) ==
  {x \in [begin : T, end : {u - 1 : u \in T} \cup {MaxTxid}] :
     x.begin <= x.end /\ \A u \in T : ~(x.begin < u /\ u <= x.end)}

\* Mutant: nothing above the youngest reader is released.
ExtentsBelowYoungest(T) ==
  {x \in [begin : {u + 1 : u \in T}, end : {u - 1 : u \in T}] :
     x.begin <= x.end /\ \A u \in T : ~(x.begin <= u /\ u <= x.end)}

\* The ranges the loop of freePages hands to releaseRange: the maximal ones
\* above the oldest reader that hold the txid of no reader.
Extents(T) ==
  {x \in UNION {{[begin |-> u + 1, end |-> v] :
                     v \in {w - 1 : w \in T} \cup {MaxTxid}} : u \in T} :
     x.begin <= x.end /\ \A u \in T : ~(x.begin <= u /\ u <= x.end)}

\* Mutant: when the page was allocated is not looked at.
releaseRangesIgnoringAlloc(f, X) ==
  LET m == {x \in f.pending : \E e \in X : e.begin <= x.tid /\ x.tid <= e.end}
  IN  [f EXCEPT !.free = @ \cup Ids(m), !.pending = @ \ m]

\* releaseRange over disjoint ranges, all at once.
releaseRanges(f, X) ==
  LET m    == {x \in f.pending : \E e \in X :
                 /\ e.begin <= x.tid /\ x.tid <= e.end
                 /\ f.last[x.tid] # e.begin
                 /\ e.begin <= x.atx /\ x.atx <= e.end}
      rest == f.pending \ m
  IN  [free    |-> f.free \cup Ids(m),
       pending |-> rest,
       last    |-> [t \in Txid |->
                     IF \E e \in X : e.begin <= t /\ t <= e.end
                     THEN IF \E x \in rest : x.tid = t
                          THEN (CHOOSE e \in X : e.begin <= t /\ t <= e.end).begin
                          ELSE 0
                     ELSE f.last[t]],
       allocs  |-> f.allocs,
       cache   |-> f.cache]

\* Mutant: db.txs is not sorted, and minid is not the oldest txid.
releaseBelowAny(f, T) ==
  LET m == {x \in f.pending : T = {} \/ \E u \in T : x.tid < u}
  IN  [f EXCEPT !.free = @ \cup Ids(m), !.pending = @ \ m]

\* release(minid-1), minid the oldest txid in T: what was freed before every
\* reader began.  Without readers, everything.
releaseBelow(f, T) ==
  LET m == {x \in f.pending : \A u \in T : x.tid < u}
  IN  [free    |-> f.free \cup Ids(m),
       pending |-> f.pending \ m,
       last    |-> [t \in Txid |-> IF \A u \in T : t < u THEN 0 ELSE f.last[t]],
       allocs  |-> f.allocs,
       cache   |-> f.cache]

\* freePages, T the txids of the open read transactions.
freePages(f, T) == releaseRanges(releaseBelow(f, T), Extents(T))

\* releaseRange with its early return.
releaseRangeChecked(f, begin, end) ==
  IF begin > end THEN f ELSE releaseRange(f, begin, end)

\* t - 1 on unsigned txids; MaxTxid stands for the largest.
txidBefore(t) == IF t = 0 THEN MaxTxid ELSE t - 1

\* freePages as it is written, over n read transactions with the given txids in
\* order: release below the oldest one, then one releaseRange below each and
\* one above the youngest.
freePagesLoop(f, n, ids) ==
  LET minid == IF n = 0 THEN MaxTxid + 1 ELSE ids[1]
      loop[i \in 0 .. n] ==
        IF i = 0
        THEN [fl |-> IF minid > 0 THEN release(f, minid - 1) ELSE f, minid |-> minid]
        ELSE LET prev == loop[i - 1]
             IN  [fl    |-> releaseRangeChecked(prev.fl, prev.minid, txidBefore(ids[i])),
                  minid |-> ids[i] + 1]
      last == loop[n]
  IN  releaseRangeChecked(last.fl, last.minid, MaxTxid)

\* tx.init of a write transaction: the next txid and the next freelist region.
NextMeta(m) == [m EXCEPT !.txid = @ + 1, !.flid = @ + 1]

\* beginRWTx: under rwlock and metalock, copy the current meta, take the next
\* txid and freelist region, and release what no reader needs any more.  When
\* the last write transaction left more pages in the freelist than the limit
\* it returns ErrHighLoadPendingPages, with nothing changed.
BeginRW ==
  /\ opened /\ mapped
  /\ pc = "idle"
  /\ count(stats) <= HardLimitPendingPages
  /\ tag < MaxTag
  /\ Current.txid < MaxTxid
  /\ wmeta' = NextMeta(Current)
  /\ fl' = freePages(fl, {txs[r].txid : r \in DOMAIN txs})
  /\ tag' = tag + 1
  /\ pc' = "body"
  /\ UNCHANGED <<file, disk, opened, mapped, stats, txs, crashes>>

\* Freeing the node at h of the transaction's tree.
FreeNode(h) ==
  /\ wmeta' = WithTree(wmeta, RemoveBlock(wmeta.root, h), wmeta.pgid)
  /\ fl' = free(fl, wmeta.txid, h, BlockAt(wmeta.root, h))

\* tx.close() of the write transaction: tx.meta and db.rwtx become nil, the
\* freelist is counted.
close == /\ pc' = "idle" /\ wmeta' = NoMeta
         /\ stats' = [free |-> fl'.free, pending |-> fl'.pending]

\* Mutant: the freelist is not rolled back.
closeOnly == UNCHANGED fl /\ close

\* The rollback of a transaction that has allocated nothing.
nonPhysicalRollback == fl' = rollback(fl, wmeta.txid) /\ close

\* The rollback after a failure, f being the freelist at that point: it reads
\* the freelist back from the region of the meta that is current then, unless
\* the mapping is gone.
physicalRollback(f) ==
  /\ fl' = LET r == rollback(f, wmeta.txid)
           IN  IF mapped' THEN reload(r, freelistPage'.ids) ELSE r
  /\ close

\* The nodes of the tree that this transaction has not written itself.
OldHeads == {h \in Heads(wmeta.root) : wmeta.root[h].tag # tag}

\* Bucket.DeleteBucket in the body of the transaction frees the bucket's
\* pages one by one; the root bucket's page stays.
DeleteBucket(h) ==
  /\ pc = "body"
  /\ Heads(wmeta.root) # {h}
  /\ FreeNode(h)
  /\ UNCHANGED <<file, disk, opened, mapped, stats, txs, pc, tag, crashes>>

\* Tx.Rollback by the user, or by Update when the function returns an error.
Rollback ==
  /\ pc = "body"
  /\ UNCHANGED <<file, disk, opened, mapped, txs, tag, crashes>>
  /\ nonPhysicalRollback

\* Tx.Commit begins.
Commit ==
  /\ pc = "body"
  /\ pc' = "spill"
  /\ UNCHANGED <<file, disk, opened, mapped, fl, stats, txs, wmeta, tag, crashes>>

\* node.free in rebalance, or a child bucket that becomes inline in spill.
Rebalance(h) ==
  /\ pc = "spill"
  /\ h \in OldHeads
  /\ FreeNode(h)
  /\ UNCHANGED <<file, disk, opened, mapped, stats, txs, pc, tag, crashes>>

\* node.spill: free the node's old page, if it has one (h # 0), and allocate n
\* pages from the freelist or at the high water mark.  Growing the mapping,
\* when it succeeds, leaves nothing behind that is modelled here.
SpillNode(h, n) ==
  LET f    == IF h = 0 THEN fl
              ELSE free(fl, wmeta.txid, h, BlockAt(wmeta.root, h))
      root == IF h = 0 THEN wmeta.root ELSE RemoveBlock(wmeta.root, h)
  IN  /\ pc = "spill"
      /\ \/ \E s \in Candidates(f.free, n) :
              /\ fl' = allocate(f, wmeta.txid, s, n)
              /\ wmeta' = WithTree(wmeta, InsertBlock(root, s, n), wmeta.pgid)
         \/ /\ Candidates(f.free, n) = {}
            /\ Run(wmeta.pgid, n) \subseteq Pgid
            /\ fl' = f
            /\ wmeta' = WithTree(wmeta, InsertBlock(root, wmeta.pgid, n),
                                 wmeta.pgid + n)
      /\ UNCHANGED <<file, disk, opened, mapped, stats, txs, pc, tag, crashes>>

\* allocate cannot grow the mapping: spill returns the error.  mmap() holds
\* mmaplock exclusively, so no read transaction is open.
SpillFails(h, n) ==
  LET f == IF h = 0 THEN fl
           ELSE free(fl, wmeta.txid, h, BlockAt(wmeta.root, h))
  IN  /\ pc = "spill"
      /\ Candidates(f.free, n) = {}
      /\ txs = <<>>
      /\ \/ "mmap" \in Faults /\ UNCHANGED mapped
         \/ "remap" \in Faults /\ mapped' = FALSE
      /\ UNCHANGED <<file, disk, opened, txs, tag, crashes>>
      /\ physicalRollback(f)

\* The user's function panics: Update's deferred call rolls back.
UpdatePanics ==
  /\ "panic" \in Faults
  /\ pc = "body"
  /\ UNCHANGED <<file, disk, opened, mapped, txs, tag, crashes>>
  /\ physicalRollback(fl)

\* Commit panics once it has spilled, at commitFreelist's assertion or at the
\* check of StrictMode, and what was deferred runs: tx.Rollback() by a user who
\* called Begin, the physical rollback in Update.
CommitPanics ==
  /\ "assert" \in Faults
  /\ pc \in {"spill", "meta"}
  /\ UNCHANGED <<file, disk, opened, mapped, txs, tag, crashes>>
  /\ nonPhysicalRollback \/ physicalRollback(fl)

Synced == disk' = [page |-> page, meta |-> meta, flist |-> flist]

\* commitFreelist, which serialises the freelist, and grow, which truncates
\* and syncs the file when the high water mark has moved past its end.
Grow ==
  /\ pc = "spill"
  /\ DOMAIN wmeta.root # {}
  /\ \/ UNCHANGED disk
     \/ wmeta.pgid > Current.pgid /\ Synced
  /\ pc' = "write"
  /\ UNCHANGED <<file, opened, mapped, fl, stats, txs, wmeta, tag, crashes>>

GrowFails ==
  /\ "grow" \in Faults
  /\ pc = "spill"
  /\ DOMAIN wmeta.root # {}
  /\ wmeta.pgid > Current.pgid
  /\ UNCHANGED <<file, disk, opened, mapped, txs, tag, crashes>>
  /\ physicalRollback(fl)

\* tx.pages but for the freelist page: what this transaction allocated.
DirtyPages == {p \in DOMAIN wmeta.root : wmeta.root[p].tag = tag}

\* tx.write up to its fdatasync: the freelist page of the transaction's region
\* and then the dirty pages, in page order.
WritePages ==
  /\ pc = "write"
  /\ flist' = [flist EXCEPT ![wmeta.flid % 2] =
                 [ok |-> TRUE, ids |-> copyall(fl)]]
  /\ page' = [p \in Pgid |-> IF p \in DirtyPages THEN tag ELSE page[p]]
  /\ pc' = "sync"
  /\ UNCHANGED <<meta, disk, opened, mapped, fl, stats, txs, wmeta, tag, crashes>>

\* A writeAt fails half way: at the freelist page, or at the dirty page q.
WriteFails ==
  /\ "write" \in Faults
  /\ pc = "write"
  /\ \/ /\ flist' = [flist EXCEPT ![wmeta.flid % 2] = NoRegion]
        /\ UNCHANGED page
     \/ \E q \in DirtyPages :
          /\ flist' = [flist EXCEPT ![wmeta.flid % 2] =
                         [ok |-> TRUE, ids |-> copyall(fl)]]
          /\ page' = [p \in Pgid |-> IF p \in DirtyPages /\ p < q THEN tag
                                     ELSE IF p = q THEN 0 ELSE page[p]]
  /\ UNCHANGED <<meta, disk, opened, mapped, txs, tag, crashes>>
  /\ physicalRollback(fl)

\* Mutant: the meta page is written before the data pages are synced.
SkipSyncPages ==
  /\ pc = "sync"
  /\ pc' = "meta"
  /\ UNCHANGED <<file, disk, opened, mapped, fl, stats, txs, wmeta, tag, crashes>>

\* The fdatasync of tx.write.
SyncPages ==
  /\ pc = "sync"
  /\ Synced
  /\ pc' = "meta"
  /\ UNCHANGED <<file, opened, mapped, fl, stats, txs, wmeta, tag, crashes>>

SyncFails ==
  /\ "sync" \in Faults
  /\ pc = "sync"
  /\ UNCHANGED <<file, disk, opened, mapped, txs, tag, crashes>>
  /\ physicalRollback(fl)

\* Mutant: the meta page of the previous transaction is overwritten.
BeginWriteSameMeta ==
  /\ pc = "meta"
  /\ meta' = [meta EXCEPT ![(wmeta.txid + 1) % 2] = NoMeta]
  /\ pc' = "torn"
  /\ UNCHANGED <<page, flist, disk, opened, mapped, fl, stats, txs, wmeta, tag, crashes>>

\* tx.writeMeta's writeAt: readers do not wait for it, so a read transaction
\* may begin while the page is half written.
BeginWriteMeta ==
  /\ pc = "meta"
  /\ meta' = [meta EXCEPT ![wmeta.txid % 2] = NoMeta]
  /\ pc' = "torn"
  /\ UNCHANGED <<page, flist, disk, opened, mapped, fl, stats, txs, wmeta, tag, crashes>>

WriteMeta ==
  /\ pc = "torn"
  /\ meta' = [meta EXCEPT ![wmeta.txid % 2] = wmeta]
  /\ pc' = "metasync"
  /\ UNCHANGED <<page, flist, disk, opened, mapped, fl, stats, txs, wmeta, tag, crashes>>

\* The writeAt fails, with nothing written or half way.  One that fails with the
\* meta whole is like a failed fdatasync, see SyncMetaFails.
WriteMetaFails ==
  /\ "meta" \in Faults
  /\ pc \in {"meta", "torn"}
  /\ UNCHANGED <<file, disk, opened, mapped, txs, tag, crashes>>
  /\ physicalRollback(fl)

\* The fdatasync of writeMeta, after which Commit closes and returns nil.
SyncMeta ==
  /\ pc = "metasync"
  /\ Synced
  /\ UNCHANGED <<file, opened, mapped, fl, txs, tag, crashes>>
  /\ close

\* Commit returns the error of that fdatasync, having rolled back.
SyncMetaFails ==
  /\ "metasync" \in Faults
  /\ pc = "metasync"
  /\ UNCHANGED <<file, disk, opened, mapped, txs, tag, crashes>>
  /\ physicalRollback(fl)
-----------------------------------------------------------------------------
(* Crashes, Close and Open *)

\* What the process holds in memory is gone.
MemoryLost ==
  /\ opened' = FALSE /\ mapped' = FALSE
  /\ fl' = newFreelist
  /\ stats' = NoStats
  /\ txs' = <<>>
  /\ pc' = "idle" /\ wmeta' = NoMeta
  /\ crashes' = crashes + 1
  /\ UNCHANGED tag

\* What may be found after a crash in a page written since the last sync.
Survivors(new, old, torn) == {new, old} \cup (IF new = old THEN {} ELSE {torn})

\* The machine stops.  Pages that were not synced survive or not, each by
\* itself; S did, U are torn.
Crash ==
  /\ "crash" \in Faults
  /\ opened
  /\ crashes < MaxCrash
  /\ LET unsynced == {p \in Pgid : page[p] # disk.page[p]}
     IN  \E S, U \in SUBSET unsynced :
           /\ S \cap U = {}
           /\ page' = [p \in Pgid |-> IF p \in S THEN page[p]
                                      ELSE IF p \in U THEN 0 ELSE disk.page[p]]
  /\ \E m0 \in Survivors(meta[0], disk.meta[0], NoMeta),
        m1 \in Survivors(meta[1], disk.meta[1], NoMeta) :
       meta' = [i \in 0..1 |-> IF i = 0 THEN m0 ELSE m1]
  /\ \E f0 \in Survivors(flist[0], disk.flist[0], NoRegion),
        f1 \in Survivors(flist[1], disk.flist[1], NoRegion) :
       flist' = [i \in 0..1 |-> IF i = 0 THEN f0 ELSE f1]
  /\ disk' = [page |-> page', meta |-> meta', flist |-> flist']
  /\ MemoryLost

\* The process is killed.
Kill ==
  /\ "kill" \in Faults
  /\ opened
  /\ crashes < MaxCrash
  /\ MemoryLost
  /\ UNCHANGED <<file, disk>>

\* DB.Close waits for rwlock and for every read transaction.
Close ==
  /\ opened
  /\ crashes < MaxCrash
  /\ pc = "idle"
  /\ txs = <<>>
  /\ MemoryLost
  /\ UNCHANGED <<file, disk>>

\* Open of an existing file: map it, require a valid meta, load the freelist.
Open ==
  /\ ~opened
  /\ Current.valid
  /\ freelistPage.ok
  /\ opened' = TRUE /\ mapped' = TRUE
  /\ fl' = read(newFreelist, freelistPage.ids)
  /\ stats' = [free |-> fl'.free, pending |-> {}]
  /\ UNCHANGED <<file, disk, txs, pc, wmeta, tag, crashes>>

-----------------------------------------------------------------------------
Writer ==
  \/ BeginRW \/ Rollback \/ UpdatePanics \/ Commit \/ CommitPanics
  \/ \E h \in Heads(wmeta.root) : DeleteBucket(h)
  \/ \E h \in OldHeads : Rebalance(h)
  \/ \E h \in OldHeads \cup {0}, n \in 1 .. MaxRun :
       SpillNode(h, n) \/ SpillFails(h, n)
  \/ Grow \/ GrowFails
  \/ WritePages \/ WriteFails \/ SyncPages \/ SyncFails
  \/ BeginWriteMeta \/ WriteMeta \/ WriteMetaFails \/ SyncMeta \/ SyncMetaFails

Next ==
  \/ \E r \in Reader : BeginRead(r) \/ EndRead(r)
  \/ Writer
  \/ Crash \/ Kill \/ Close \/ Open

Spec == Init /\ [][Next]_vars

-----------------------------------------------------------------------------
(* Properties *)

TypeOK ==
  /\ page \in [Pgid -> Tag]
  /\ meta \in [0..1 -> Meta]
  /\ flist \in [0..1 -> Region]
  /\ disk \in [page : [Pgid -> Tag], meta : [0..1 -> Meta],
               flist : [0..1 -> Region]]
  /\ opened \in BOOLEAN /\ mapped \in BOOLEAN
  /\ fl \in FreelistRecord
  /\ stats \in Stats
  /\ DOMAIN txs \subseteq Reader /\ \A r \in DOMAIN txs : txs[r] \in Meta
  /\ pc \in {"idle", "body", "spill", "write", "sync", "meta", "torn", "metasync"}
  /\ wmeta \in Meta
  /\ tag \in Tag
  /\ crashes \in 0 .. MaxCrash

\* A tree can be read back from pages pg.
Intact(root, pg) == \A p \in DOMAIN root : pg[p] = root[p].tag

\* A read transaction sees the tree it began with until it ends: no write
\* transaction, committed, rolled back or failed, ever puts anything into one
\* of its pages (README: "a consistent view of the database").
SnapshotIntact == \A r \in DOMAIN txs : Intact(txs[r].root, page)

\* The definition of freePages that the actions use computes what the loop of
\* the source computes, in whatever order sort.Sort leaves read transactions
\* with the same txid.
FreePagesIsLoop ==
  LET T     == {txs[r].txid : r \in DOMAIN txs}
      freed == freePages(fl, T)
  IN  \A n \in 0 .. Cardinality(Reader) : n = Cardinality(DOMAIN txs) =>
        \A s \in [1 .. n -> DOMAIN txs] :
          /\ \A r \in DOMAIN txs : \E i \in 1 .. n : s[i] = r
          /\ \A i, j \in 1 .. n : i < j => txs[s[i]].txid <= txs[s[j]].txid
          => freed = freePagesLoop(fl, n, [i \in 1 .. n |-> txs[s[i]].txid])

\* No page that an open read transaction can reach may be allocated: freePages,
\* rollback and reload never move one of them to the free ids.
ReadersKeepPages == \A r \in DOMAIN txs : DOMAIN txs[r].root \cap fl.free = {}

\* The tree of the transaction that is being written, or the current one.
LiveRoot == IF pc = "idle" THEN Current.root ELSE wmeta.root
LivePgid == IF pc = "idle" THEN Current.pgid ELSE wmeta.pgid

\* What Tx.Check (tx_check.go) reports as an error, "already freed" and
\* "reachable freed", in every state and not only when a check happens to run:
\* a page is in one place only.  The cache with which free() recognises a page
\* that is already free agrees with the lists.
NoDoubleUse ==
  opened /\ mapped =>
    /\ \A x, y \in fl.pending : x.id = y.id => x = y
    /\ fl.free \cap Ids(fl.pending) = {}
    /\ DOMAIN LiveRoot \cap copyall(fl) = {}
    /\ fl.cache = copyall(fl)

\* Tx.Check's "unreachable unfreed": every page below the high water mark is
\* reachable or free, so that no sequence of commits, rollbacks, failures and
\* crashes ever loses a page.
NoLeak ==
  opened /\ mapped =>
    {p \in Pgid : p < LivePgid} \subseteq DOMAIN LiveRoot \cup copyall(fl)

\* Whatever survived a crash can be opened: a valid meta page, its freelist,
\* and every page of the tree it points to ("partially written data pages are
\* ignored in the event of a crash", README).
Recoverable ==
  ~opened => /\ Current.valid
             /\ freelistPage.ok
             /\ Intact(Current.root, page)
             /\ DOMAIN Current.root \cap freelistPage.ids = {}

\* A write transaction begins with every page that can be given back given
\* back: what freePages leaves pending was freed by the very transaction some
\* reader began after, or is, as far as allocs tells, in the tree of a reader.
\* In particular skipping an entry by its lastReleaseBegin loses nothing.
ReclaimsAll ==
  [][pc = "idle" /\ pc' = "body" =>
       LET T == {txs[r].txid : r \in DOMAIN txs}
       IN  \A x \in fl'.pending :
             x.tid \in T \/ \E u \in T : x.atx <= u /\ u < x.tid]_vars

\* The contents a transaction with meta m reads from pages pg.
Content(m, pg) == [p \in DOMAIN m.root |-> pg[p]]

Store == INSTANCE Snapshot WITH
  Version <- UNION {[S -> Tag] : S \in SUBSET Pgid},
  current <- Content(Current, page),
  durable <- Content(CurrentOf(disk.meta), disk.page),
  views   <- [r \in DOMAIN txs |-> Content(txs[r], page)]

\* Transactions over pages, meta pages and freelists implement the snapshot
\* store: commits are atomic, at the moment the meta page is whole, and
\* durable once acknowledged; read transactions never see a later version; a
\* crash keeps the last acknowledged version or the one being committed.
ImplementsSnapshot == Store!Spec

=============================================================================
