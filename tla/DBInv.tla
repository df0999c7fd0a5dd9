------------------------------- MODULE DBInv --------------------------------
(***************************************************************************)
(* The inductive invariants of DB: IInv, behind SnapshotIntact,            *)
(* ReadersKeepPages and Recoverable, and BooksInv, behind NoDoubleUse,     *)
(* NoLeak and ReclaimsAll.  TLC checks them on small instances, DBProofs   *)
(* and StoreProofs prove them.                                             *)
(*                                                                         *)
(* IInv is stated around the durable meta, the one a crash cannot lose.    *)
(* All that a write transaction does until its own meta page is synced     *)
(* leaves the durable tree and its freelist region alone, and moves pages  *)
(* of the durable tree to pending at most.                                 *)
(***************************************************************************)
EXTENDS DB

\* The configurations for which isolation and recovery are proved: no failing
\* fdatasync of a meta page, no killed process, and either the array freelist or
\* no failure but crashes, because reload of the hashmap freelist is not exact.
\* The properties fail in the others (see README).
Sound ==
  /\ FreelistType = "array" \/ Faults \subseteq {"crash"}
  /\ "metasync" \notin Faults /\ "kill" \notin Faults

Durable == CurrentOf(disk.meta)

\* Every block of a tree is whole: a page's head is in the tree and belongs
\* to the same block, which was written by one transaction.
Blocks(root) ==
  \A p \in DOMAIN root : root[p].head \in DOMAIN root /\ root[root[p].head] = root[p]

\* A meta page that db.meta() does not prefer to meta d.
Older(m, d) == ~m.valid \/ m.txid < d.txid

\* The durable meta is in the page its txid selects, on disk and in the file;
\* the other page is older or broken, or holds the writer's meta.
SlotInv ==
  LET d == Durable
      s == d.txid % 2
  IN  /\ d.valid
      /\ 1 <= d.txid /\ d.txid <= MaxTxid
      /\ disk.meta[s] = d
      /\ meta[s] = d
      /\ Older(disk.meta[1 - s], d)
      /\ IF pc = "metasync" THEN meta[1 - s] = wmeta ELSE Older(meta[1 - s], d)

\* A tree and the freelist region that goes with it, read from pages pg and
\* regions fs: pages hold what was written, and none of them is listed free.
Readable(d, pg, fs) ==
  /\ Blocks(d.root)
  /\ Intact(d.root, pg)
  /\ fs[d.flid % 2].ok
  /\ \A p \in DOMAIN d.root : p < d.pgid /\ p \notin fs[d.flid % 2].ids
  /\ \A p \in fs[d.flid % 2].ids : p < d.pgid

\* The durable tree and its freelist can be read, now and after a crash.
DurableInv ==
  LET d == Durable
  IN  /\ Readable(d, page, flist)
      /\ Readable(d, disk.page, disk.flist)
      /\ flist[d.flid % 2] = disk.flist[d.flid % 2]
      /\ \A p \in DOMAIN d.root :
           d.root[p].tag <= tag /\ (pc # "idle" => d.root[p].tag < tag)

\* The writer's tree: blocks of the durable tree, and new ones elsewhere.
TreeOf(d, root, pgid) ==
  /\ d.pgid <= pgid
  /\ Blocks(root)
  /\ \A p \in DOMAIN root :
       /\ p < pgid
       /\ root[p].tag <= tag
       /\ IF root[p].tag = tag THEN p \notin DOMAIN d.root
          ELSE p \in DOMAIN d.root /\ root[p] = d.root[p]

\* The write transaction: its meta follows the durable one, and once its pages
\* are written and synced they are what the file and the disk hold.
WriterInv ==
  /\ mapped => opened
  /\ ~opened => pc = "idle" /\ DOMAIN txs = {}
  /\ pc # "idle" =>
       /\ mapped
       /\ wmeta.valid
       /\ wmeta.txid = Durable.txid + 1 /\ wmeta.txid <= MaxTxid
       /\ wmeta.flid = Durable.flid + 1
       /\ TreeOf(Durable, wmeta.root, wmeta.pgid)
  /\ pc = "body" => DirtyPages = {}
  /\ pc \in {"sync", "meta", "torn", "metasync"} =>
       /\ flist[wmeta.flid % 2] = [ok |-> TRUE, ids |-> copyall(fl)]
       /\ Intact(wmeta.root, page)
  /\ pc \in {"meta", "torn", "metasync"} =>
       page = disk.page /\ flist = disk.flist

\* The pending entry x of freelist f, over the durable meta d and the live
\* tree: it is in no other place, and if it is a page of the durable tree then
\* the transaction after d freed it, and the freelist remembers who allocated
\* its block.
PendingOK(x, f, d, root) ==
  /\ x.id \notin f.free
  /\ x.id \notin DOMAIN root
  /\ x.id < d.pgid
  /\ x.tid <= d.txid + 1
  /\ IF x.tid = d.txid + 1
     THEN /\ x.id \in DOMAIN d.root
          /\ x.atx <= d.txid
          /\ f.allocs[d.root[x.id].head] = 0
          /\ [tid |-> x.tid, id |-> d.root[x.id].head, atx |-> x.atx] \in f.pending
     ELSE x.id \notin DOMAIN d.root

\* The page p of the durable tree is live, or that transaction freed it.
LiveOrFreed(p, f, d, root) ==
  IF p \in DOMAIN root
  THEN root[p] = d.root[p] /\ f.allocs[d.root[p].head] <= d.txid
  ELSE \E x \in f.pending : x.id = p /\ x.tid = d.txid + 1

\* Pages of the tree, free pages and pending pages are kept apart.
FreelistOK(f, d, root) ==
  /\ \A x \in f.pending : PendingOK(x, f, d, root)
  /\ \A x, y \in f.pending : x.id = y.id => x = y
  /\ \A p \in f.free :
       p < d.pgid /\ p \notin DOMAIN root /\ p \notin DOMAIN d.root
  /\ \A p \in Pgid : f.allocs[p] <= d.txid + 1
  /\ \A p \in DOMAIN d.root : LiveOrFreed(p, f, d, root)

\* Nothing is pending from after the durable transaction.
NoneFreed(f, d) == \A x \in f.pending : x.tid <= d.txid

FreelistInv ==
  opened => /\ FreelistOK(fl, Durable, LiveRoot)
            /\ pc = "idle" => NoneFreed(fl, Durable)

\* The page p of the tree of meta m is in the live tree, as the same block, or
\* is pending between the transaction that allocated it and the one that freed
\* it, with m in between.
KeptPage(p, m, f, d, root) ==
  \/ /\ p \in DOMAIN root
     /\ root[p] = m.root[p]
     /\ f.allocs[m.root[p].head] <= m.txid
  \/ \E x \in f.pending :
       /\ x.id = p /\ x.atx <= m.txid /\ m.txid < x.tid
       /\ x.tid = d.txid + 1 =>
            p \in DOMAIN d.root /\ d.root[p] = m.root[p]

Kept(m, f, d, root) == \A p \in DOMAIN m.root : KeptPage(p, m, f, d, root)

ReaderInv ==
  \A r \in DOMAIN txs :
    LET m == txs[r]
    IN  /\ 1 <= m.txid /\ m.txid <= Durable.txid + 1
        /\ pc # "metasync" => m.txid <= Durable.txid
        /\ Intact(m.root, page)
        /\ \A p \in DOMAIN m.root :
             /\ m.root[p].tag <= tag
             /\ pc \notin {"idle", "metasync"} => m.root[p].tag < tag
        /\ Kept(m, fl, Durable, LiveRoot)

\* All of it: what keeps readers' pages from being reused by tx.allocate and the
\* durable state from being overwritten before the meta page is synced.
IInv ==
  /\ TypeOK
  /\ SlotInv
  /\ DurableInv
  /\ WriterInv
  /\ FreelistInv
  /\ ReaderInv

-----------------------------------------------------------------------------
(* The books: what the freelist says about pages, beyond keeping them apart. *)

\* The cache of free() lists the free and the pending pages.
Exact(f) == f.cache = copyall(f)

CacheInv == opened => Exact(fl)

\* A pending page was not allocated after it was freed, and if the entry of the
\* transaction that freed it has a lastReleaseBegin, it was allocated before:
\* releaseRange skips nothing that it could still release.  Transactions later
\* than d have none.
Released(f, d) ==
  /\ \A x \in f.pending : /\ x.atx <= x.tid
                          /\ f.last[x.tid] # 0 => x.atx < f.last[x.tid]
  /\ \A t \in Txid : d < t => f.last[t] = 0

ReleaseInv == opened => Released(fl, Durable.txid)

\* Every page below the high water mark is in the tree or in ids.
Complete(root, pgid, ids) == \A p \in Pgid : p < pgid => p \in DOMAIN root \cup ids

\* The ids in the durable freelist region, which a rollback or Open reads back.
Stored == disk.flist[Durable.flid % 2].ids

\* No page is lost, in memory or in that region.
CompleteInv == NoLeak /\ Complete(Durable.root, Durable.pgid, Stored)

\* The freelist and the file account for every page: free() finds a page freed
\* twice, release and releaseRange skip nothing, rollback and reload lose nothing,
\* and no page that a reader or a crash needs is given away.
BooksInv == IInv /\ CacheInv /\ ReleaseInv /\ CompleteInv
=============================================================================
