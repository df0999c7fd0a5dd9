----------------------------- MODULE PageProofs -----------------------------
(***************************************************************************)
(* Type correctness of DB, and how the operations on the freelist and on   *)
(* trees of pages preserve FreelistOK and Kept: freeing a block,           *)
(* allocating one, rolling back, reloading, releasing, committing.  The    *)
(* lemmas of the second part are about any freelist, durable meta and tree;*)
(* DBProofs applies them to the actions of DB.                             *)
(*                                                                         *)
(* TypeOK alone is not inductive: a freelist entry is stamped with the txid*)
(* of the write transaction, which must not have passed MaxTxid.           *)
(***************************************************************************)
EXTENDS DBInv, TLAPS

-----------------------------------------------------------------------------
(* What the operators of Freelist return, for every freelist. *)

\* The pages of a freelist's pending entries are page ids.
LEMMA IdsType ==
  ASSUME NEW S \in SUBSET Pending
  PROVE  Ids(S) \subseteq Pgid
BY DEF Ids, Pending

\* newFreelist returns a freelist.
LEMMA newFreelistType == newFreelist \in FreelistRecord
BY FreelistAssumption DEF newFreelist, FreelistRecord, Txid, Pgid, Pending

\* allocate returns a freelist.
LEMMA allocateType ==
  ASSUME NEW f \in FreelistRecord, NEW tid \in Txid, NEW s \in Pgid, NEW n \in Nat
  PROVE  allocate(f, tid, s, n) \in FreelistRecord
BY DEF allocate, FreelistRecord

\* free returns a freelist.
LEMMA freeType ==
  ASSUME NEW f \in FreelistRecord, NEW tid \in Txid, NEW id \in Pgid,
         NEW run \in SUBSET Pgid
  PROVE  free(f, tid, id, run) \in FreelistRecord
BY FreelistAssumption DEF free, FreelistRecord, Pending, Txid

\* rollback returns a freelist.
LEMMA rollbackType ==
  ASSUME NEW f \in FreelistRecord, NEW tid \in Txid
  PROVE  rollback(f, tid) \in FreelistRecord
BY FreelistAssumption, IdsType DEF rollback, FreelistRecord, Txid, Pending, Ids

\* readIDs returns a freelist.
LEMMA readIDsType ==
  ASSUME NEW f \in FreelistRecord, NEW ids \in SUBSET Pgid
  PROVE  readIDs(f, ids) \in FreelistRecord
BY IdsType DEF readIDs, FreelistRecord

\* read returns a freelist.
LEMMA readType ==
  ASSUME NEW f \in FreelistRecord, NEW ids \in SUBSET Pgid
  PROVE  read(f, ids) \in FreelistRecord
BY readIDsType DEF read, FreelistRecord

\* reload returns a freelist.
LEMMA reloadType ==
  ASSUME NEW f \in FreelistRecord, NEW ids \in SUBSET Pgid
  PROVE  reload(f, ids) \in FreelistRecord
<1>1. read(f, ids) \in FreelistRecord
  BY readType
<1>2. read(f, ids).free \ Ids(read(f, ids).pending) \in SUBSET Pgid
  BY <1>1 DEF FreelistRecord
<1> QED
  BY <1>1, <1>2, readIDsType DEF reload

-----------------------------------------------------------------------------
(* What the operators of DB return. *)

\* TypeOK with the bound on the txid of an open write transaction.
TypeInv == TypeOK /\ (pc # "idle" => wmeta.txid \in Txid)

\* db.meta() returns a meta.
LEMMA CurrentOfType ==
  ASSUME NEW m \in [0..1 -> Meta]
  PROVE  CurrentOf(m) \in Meta
BY DEF CurrentOf

\* A tree is a function on page ids to blocks, and every such function is one.
LEMMA TreeType ==
  /\ \A T \in Tree : /\ DOMAIN T \in SUBSET Pgid
                     /\ T = [p \in DOMAIN T |-> T[p]]
                     /\ \A p \in DOMAIN T : T[p] \in Block
  /\ \A S \in SUBSET Pgid : [S -> Block] \subseteq Tree
BY DEF Tree

\* The half-written meta page and the empty tree are well formed.
LEMMA NoMetaType == NoMeta \in Meta
<1>1. <<>> \in [{} -> Block]
  OBVIOUS
<1> QED
  BY <1>1, TreeType, Zenon DEF NoMeta, Meta

\* A half-written region is a region.
LEMMA NoRegionType == NoRegion \in Region
BY DEF NoRegion, Region

\* What the updates of the transaction's meta change.
LEMMA WithTreeType ==
  ASSUME NEW m \in Meta, NEW T \in Tree, NEW k \in Nat
  PROVE  LET u == WithTree(m, T, k)
         IN  /\ u \in Meta /\ u.valid = m.valid /\ u.txid = m.txid
             /\ u.flid = m.flid /\ u.root = T /\ u.pgid = k
BY Zenon DEF Meta, WithTree

\* The meta a write transaction starts from, and the one it writes.
LEMMA NextMetaType ==
  ASSUME NEW m \in Meta
  PROVE  LET u == NextMeta(m)
         IN  /\ u \in Meta /\ u.valid = m.valid /\ u.txid = m.txid + 1
             /\ u.flid = m.flid + 1 /\ u.root = m.root /\ u.pgid = m.pgid
<1> DEFINE t == m.txid + 1
           l == m.flid + 1
<1>1. t \in Nat /\ l \in Nat
  BY DEF Meta
<1>2. NextMeta(m) = [m EXCEPT !.txid = t, !.flid = l]
  BY DEF NextMeta
<1> HIDE DEF t, l
<1>3. LET u == NextMeta(m)
      IN  /\ u \in Meta /\ u.valid = m.valid /\ u.txid = t
          /\ u.flid = l /\ u.root = m.root /\ u.pgid = m.pgid
  BY <1>1, <1>2, Zenon DEF Meta
<1> QED
  BY <1>3 DEF t, l

\* The tree operations return trees.
LEMMA RemoveBlockType ==
  ASSUME NEW T \in Tree, NEW h
  PROVE  RemoveBlock(T, h) \in Tree
<1>1. DOMAIN T \ BlockAt(T, h) \in SUBSET Pgid
  BY TreeType
<1>2. RemoveBlock(T, h) \in [DOMAIN T \ BlockAt(T, h) -> Block]
  BY TreeType DEF RemoveBlock
<1> QED
  BY <1>1, <1>2, TreeType

\* InsertBlock returns a tree.
LEMMA InsertBlockType ==
  ASSUME NEW T \in Tree, NEW s \in Pgid, NEW n, Run(s, n) \subseteq Pgid,
         tag \in Tag
  PROVE  InsertBlock(T, s, n) \in Tree
<1>1. DOMAIN T \cup Run(s, n) \in SUBSET Pgid
  BY TreeType
<1>2. InsertBlock(T, s, n) \in [DOMAIN T \cup Run(s, n) -> Block]
  BY TreeType DEF InsertBlock, Block
<1> QED
  BY <1>1, <1>2, TreeType

\* The pages of a block, and the heads of a tree, are pages.
LEMMA BlockAtType ==
  ASSUME NEW T \in Tree, NEW h
  PROVE  BlockAt(T, h) \in SUBSET Pgid /\ Heads(T) \subseteq Pgid
BY TreeType DEF BlockAt, Heads, Block

\* releaseRanges returns a freelist.
LEMMA releaseRangesType ==
  ASSUME NEW f \in FreelistRecord, NEW T \in SUBSET Nat
  PROVE  releaseRanges(f, Extents(T)) \in FreelistRecord
<1> DEFINE X == Extents(T)
           m == {x \in f.pending : \E e \in X :
                  /\ e.begin <= x.tid /\ x.tid <= e.end
                  /\ f.last[x.tid] # e.begin
                  /\ e.begin <= x.atx /\ x.atx <= e.end}
           B(t) == CHOOSE e \in X : e.begin <= t /\ t <= e.end
           l == releaseRanges(f, X).last
<1>1. \A e \in X : e.begin \in Nat
  BY DEF Extents
<1>2. ASSUME NEW t \in Txid, \E e \in X : e.begin <= t /\ t <= e.end
      PROVE  B(t).begin \in Txid
  <2>1. B(t) \in X /\ B(t).begin <= t
    BY <1>2
  <2> QED
    BY <2>1, <1>1, FreelistAssumption DEF Txid
<1>3. Ids(m) \subseteq Pgid
  <2>1. m \in SUBSET Pending
    BY DEF FreelistRecord
  <2> QED
    BY <2>1, IdsType
<1>4. 0 \in Txid
  BY FreelistAssumption DEF Txid
<1>5. l \in [Txid -> Txid]
  BY <1>2, <1>4 DEF releaseRanges, FreelistRecord
<1> QED
  BY <1>3, <1>5 DEF releaseRanges, FreelistRecord

\* releaseBelow returns a freelist.
LEMMA releaseBelowType ==
  ASSUME NEW f \in FreelistRecord, NEW T
  PROVE  releaseBelow(f, T) \in FreelistRecord
BY FreelistAssumption, IdsType, SMTT(30) DEF releaseBelow, FreelistRecord, Txid

\* freePages returns a freelist.
LEMMA freePagesType ==
  ASSUME NEW f \in FreelistRecord, NEW T \in SUBSET Nat
  PROVE  freePages(f, T) \in FreelistRecord
BY releaseBelowType, releaseRangesType DEF freePages

\* Init is type correct.
LEMMA InitType == Init => TypeInv
<1> SUFFICES ASSUME Init PROVE TypeInv
  OBVIOUS
<1>1. Root \in Pgid /\ 1 \in Tag /\ 0 \in Tag
  BY FreelistAssumption, DBAssumption DEF Pgid, Tag
<1>2. \A i \in 0..1 : InitMeta(i) \in Meta
  <2>1. [p \in {Root} |-> [head |-> Root, tag |-> 1]] \in [{Root} -> Block]
    BY <1>1 DEF Block
  <2>2. [p \in {Root} |-> [head |-> Root, tag |-> 1]] \in Tree
    BY <2>1, <1>1, TreeType
  <2> QED
    BY <2>2, FreelistAssumption DEF InitMeta, Meta
<1>3. page \in [Pgid -> Tag] /\ meta \in [0..1 -> Meta] /\ flist \in [0..1 -> Region]
  BY <1>1, <1>2 DEF Init, Region
<1>4. DOMAIN txs = {}
  BY DEF Init
<1> QED
  BY <1>1, <1>3, <1>4, NoMetaType, newFreelistType, DBAssumption
  DEF Init, TypeInv, TypeOK, NoStats, Stats

\* Rolling back leaves a freelist and no write transaction.
LEMMA nonPhysicalRollbackType ==
  ASSUME TypeInv, pc # "idle", nonPhysicalRollback
  PROVE  fl' \in FreelistRecord /\ wmeta' \in Meta /\ pc' = "idle" /\ stats' \in Stats
<1>1. fl' \in FreelistRecord
  BY rollbackType DEF nonPhysicalRollback, TypeInv, TypeOK
<1>2. [free |-> fl'.free, pending |-> fl'.pending] \in Stats
  BY <1>1 DEF FreelistRecord, Stats
<1> QED
  BY <1>1, <1>2, NoMetaType DEF nonPhysicalRollback, close

\* The same when the freelist is read back from the file.
LEMMA physicalRollbackType ==
  ASSUME TypeInv, pc # "idle", NEW f \in FreelistRecord, physicalRollback(f),
         meta' \in [0..1 -> Meta], flist' \in [0..1 -> Region]
  PROVE  fl' \in FreelistRecord /\ wmeta' \in Meta /\ pc' = "idle" /\ stats' \in Stats
<1>1. Current'.flid % 2 \in 0..1
  <2>1. Current' \in Meta
    BY CurrentOfType DEF Current
  <2> QED
    BY <2>1 DEF Meta
<1>2. freelistPage'.ids \in SUBSET Pgid
  BY <1>1 DEF freelistPage, Region
<1>3. rollback(f, wmeta.txid) \in FreelistRecord
  BY rollbackType DEF TypeInv
<1>4. fl' \in FreelistRecord
  BY <1>2, <1>3, reloadType DEF physicalRollback
<1>5. [free |-> fl'.free, pending |-> fl'.pending] \in Stats
  BY <1>4 DEF FreelistRecord, Stats
<1> QED
  BY <1>4, <1>5, NoMetaType DEF physicalRollback, close

\* Freeing a node of the transaction's tree.
LEMMA FreeNodeType ==
  ASSUME TypeInv, pc # "idle", NEW h \in Pgid
  PROVE  /\ free(fl, wmeta.txid, h, BlockAt(wmeta.root, h)) \in FreelistRecord
         /\ RemoveBlock(wmeta.root, h) \in Tree
         /\ FreeNode(h) => fl' \in FreelistRecord /\ wmeta' \in Meta
                           /\ wmeta'.txid = wmeta.txid
<1>1. wmeta.root \in Tree
  BY DEF TypeInv, TypeOK, Meta
<1>2. free(fl, wmeta.txid, h, BlockAt(wmeta.root, h)) \in FreelistRecord
  BY <1>1, BlockAtType, freeType DEF TypeInv, TypeOK
<1>3. RemoveBlock(wmeta.root, h) \in Tree
  BY <1>1, RemoveBlockType
<1>4. wmeta \in Meta /\ wmeta.pgid \in Nat
  BY DEF TypeInv, TypeOK, Meta
<1> QED
  BY <1>2, <1>3, <1>4, WithTreeType DEF FreeNode

\* The first pages of a transaction's nodes are pages.
LEMMA HeadsType ==
  ASSUME TypeInv
  PROVE  Heads(wmeta.root) \subseteq Pgid /\ OldHeads \subseteq Pgid
BY BlockAtType DEF TypeInv, TypeOK, Meta, OldHeads

\* Spilling a node.
LEMMA SpillNodeType ==
  ASSUME TypeInv, NEW h \in OldHeads \cup {0}, NEW n \in 1 .. MaxRun,
         SpillNode(h, n)
  PROVE  fl' \in FreelistRecord /\ wmeta' \in Meta /\ wmeta'.txid = wmeta.txid
<1> DEFINE f == IF h = 0 THEN fl
                ELSE free(fl, wmeta.txid, h, BlockAt(wmeta.root, h))
           root == IF h = 0 THEN wmeta.root ELSE RemoveBlock(wmeta.root, h)
<1>0. pc = "spill" /\ n \in Nat /\ n >= 1
  BY DBAssumption DEF SpillNode
<1>1. f \in FreelistRecord /\ root \in Tree
  BY <1>0, FreeNodeType, HeadsType, Zenon DEF TypeInv, TypeOK, Meta
<1>2. /\ wmeta.txid \in Txid /\ tag \in Tag
      /\ wmeta \in Meta /\ wmeta.pgid \in Nat
  BY <1>0 DEF TypeInv, TypeOK, Meta
<1>3. CASE \E s \in Candidates(f.free, n) :
              /\ fl' = allocate(f, wmeta.txid, s, n)
              /\ wmeta' = WithTree(wmeta, InsertBlock(root, s, n), wmeta.pgid)
  <2>1. PICK s \in Candidates(f.free, n) :
               /\ fl' = allocate(f, wmeta.txid, s, n)
               /\ wmeta' = WithTree(wmeta, InsertBlock(root, s, n), wmeta.pgid)
    BY <1>3
  <2>2. s \in Pgid /\ Run(s, n) \subseteq Pgid
    BY <1>1, Zenon DEF Candidates, FreelistRecord
  <2>3. InsertBlock(root, s, n) \in Tree
    BY <1>1, <1>2, <2>2, InsertBlockType
  <2> HIDE DEF f, root
  <2> QED
    BY <1>0, <1>1, <1>2, <2>1, <2>2, <2>3, allocateType, WithTreeType, Zenon
<1>4. CASE /\ Run(wmeta.pgid, n) \subseteq Pgid
           /\ fl' = f
           /\ wmeta' = WithTree(wmeta, InsertBlock(root, wmeta.pgid, n),
                                wmeta.pgid + n)
  <2>1. wmeta.pgid \in Run(wmeta.pgid, n)
    BY <1>0, <1>2 DEF Run, Meta
  <2>2. InsertBlock(root, wmeta.pgid, n) \in Tree
    BY <1>1, <1>2, <1>4, <2>1, InsertBlockType
  <2>3. wmeta.pgid + n \in Nat
    BY <1>0, <1>2
  <2> HIDE DEF f, root
  <2> QED
    BY <1>1, <1>2, <1>4, <2>2, <2>3, WithTreeType, Zenon
<1> QED
  BY <1>3, <1>4, Zenon DEF SpillNode

\* beginRWTx takes a txid within the bound.
LEMMA BeginRWType ==
  ASSUME TypeInv, BeginRW
  PROVE  fl' \in FreelistRecord /\ wmeta' \in Meta /\ wmeta'.txid \in Txid
<1>1. Current \in Meta /\ Current.txid < MaxTxid /\ Current.txid \in Nat
  BY CurrentOfType DEF BeginRW, TypeInv, TypeOK, Current, Meta
<1>2. {txs[r].txid : r \in DOMAIN txs} \in SUBSET Nat
  BY DEF TypeInv, TypeOK, Meta
<1>3. fl' \in FreelistRecord
  BY <1>2, freePagesType DEF BeginRW, TypeInv, TypeOK
<1>4. wmeta' \in Meta /\ wmeta'.txid = Current.txid + 1
  BY <1>1, NextMetaType DEF BeginRW
<1> QED
  BY <1>1, <1>3, <1>4, FreelistAssumption DEF Txid

\* A write of dirty pages leaves pages and regions well formed.
LEMMA WriteType ==
  ASSUME TypeInv, NEW q \in Pgid
  PROVE  /\ [flist EXCEPT ![wmeta.flid % 2] = NoRegion] \in [0..1 -> Region]
         /\ [flist EXCEPT ![wmeta.flid % 2] = [ok |-> TRUE, ids |-> copyall(fl)]]
              \in [0..1 -> Region]
         /\ [p \in Pgid |-> IF p \in DirtyPages THEN tag ELSE page[p]]
              \in [Pgid -> Tag]
         /\ [p \in Pgid |-> IF p \in DirtyPages /\ p < q THEN tag
                            ELSE IF p = q THEN 0 ELSE page[p]] \in [Pgid -> Tag]
<1>1. fl \in FreelistRecord /\ fl.free \in SUBSET Pgid /\ fl.pending \in SUBSET Pending
  BY DEF TypeInv, TypeOK, FreelistRecord
<1>2. [ok |-> TRUE, ids |-> copyall(fl)] \in Region
  BY <1>1, IdsType DEF copyall, Region
<1>3. NoRegion \in Region
  BY NoRegionType
<1>4. 0 \in Tag /\ tag \in Tag /\ page \in [Pgid -> Tag]
  BY DBAssumption DEF TypeInv, TypeOK, Tag
<1>5. flist \in [0..1 -> Region]
  BY DEF TypeInv, TypeOK
<1> QED
  BY <1>2, <1>3, <1>4, <1>5, Zenon

\* What a crash leaves behind is well formed.
LEMMA CrashType ==
  ASSUME TypeInv, Crash
  PROVE  /\ page' \in [Pgid -> Tag] /\ meta' \in [0..1 -> Meta]
         /\ flist' \in [0..1 -> Region]
<1>1. page' \in [Pgid -> Tag]
  BY DBAssumption DEF Crash, TypeInv, TypeOK, Tag
<1>2. meta' \in [0..1 -> Meta]
  <2>1. \A i \in 0..1 : Survivors(meta[i], disk.meta[i], NoMeta) \subseteq Meta
    BY NoMetaType DEF Survivors, TypeInv, TypeOK
  <2> QED
    BY <2>1 DEF Crash
<1>3. flist' \in [0..1 -> Region]
  <2>1. \A i \in 0..1 : Survivors(flist[i], disk.flist[i], NoRegion) \subseteq Region
    BY NoRegionType DEF Survivors, TypeInv, TypeOK
  <2> QED
    BY <2>1 DEF Crash
<1> QED
  BY <1>1, <1>2, <1>3

\* Every step of the system is type correct.
LEMMA NextType == TypeInv /\ [Next]_vars => TypeInv'
<1> SUFFICES ASSUME TypeInv, [Next]_vars
             PROVE  TypeInv'
  OBVIOUS
<1> USE DEF TypeInv, TypeOK
<1>0. NoMeta \in Meta /\ newFreelist \in FreelistRecord /\ NoStats \in Stats
  BY NoMetaType, newFreelistType DEF NoStats, Stats
<1>1. ASSUME NEW r \in Reader, BeginRead(r) PROVE TypeInv'
  <2>1. Current \in Meta
    BY CurrentOfType DEF Current
  <2> QED
    BY <1>1, <2>1 DEF BeginRead, file
<1>2. ASSUME NEW r \in Reader, EndRead(r) PROVE TypeInv'
  BY <1>2 DEF EndRead, file
<1>3. CASE BeginRW
  <2>1. tag' \in Tag
    BY <1>3, DBAssumption, SMTT(30) DEF BeginRW, Tag
  <2> QED
    BY <1>3, <2>1, BeginRWType, Zenon DEF BeginRW, file
<1>4. CASE Rollback
  BY <1>4, nonPhysicalRollbackType DEF Rollback, file
<1>5. CASE UpdatePanics
  BY <1>5, physicalRollbackType DEF UpdatePanics, file
<1>6. CASE Commit
  BY <1>6 DEF Commit, file
<1>7. CASE CommitPanics
  BY <1>7, nonPhysicalRollbackType, physicalRollbackType, SMTT(60) DEF CommitPanics, file
<1>8. ASSUME NEW h \in Heads(wmeta.root), DeleteBucket(h) PROVE TypeInv'
  BY <1>8, HeadsType, FreeNodeType DEF DeleteBucket, file
<1>9. ASSUME NEW h \in OldHeads, Rebalance(h) PROVE TypeInv'
  BY <1>9, HeadsType, FreeNodeType DEF Rebalance, file
<1>10. ASSUME NEW h \in OldHeads \cup {0}, NEW n \in 1 .. MaxRun, SpillNode(h, n)
       PROVE  TypeInv'
  BY <1>10, SpillNodeType, Zenon DEF SpillNode, file
<1>11. ASSUME NEW h \in OldHeads \cup {0}, NEW n \in 1 .. MaxRun, SpillFails(h, n)
       PROVE  TypeInv'
  <2> DEFINE f == IF h = 0 THEN fl
                  ELSE free(fl, wmeta.txid, h, BlockAt(wmeta.root, h))
  <2>1. f \in FreelistRecord
    BY <1>11, FreeNodeType, HeadsType, Zenon DEF SpillFails
  <2>2. physicalRollback(f) /\ pc # "idle"
    BY <1>11 DEF SpillFails
  <2>3. fl' \in FreelistRecord /\ wmeta' \in Meta /\ pc' = "idle" /\ stats' \in Stats
    BY <1>11, <2>1, <2>2, physicalRollbackType, Zenon DEF SpillFails, file
  <2> QED
    BY <1>11, <2>3, Zenon DEF SpillFails, file
<1>12. CASE Grow
  BY <1>12 DEF Grow, Synced, file
<1>13. CASE GrowFails
  BY <1>13, physicalRollbackType, Zenon DEF GrowFails, file
<1>14. CASE WritePages
  <2>1. page' \in [Pgid -> Tag] /\ flist' \in [0..1 -> Region]
    <3>1. Root \in Pgid
      BY FreelistAssumption DEF Pgid
    <3> QED
      BY <1>14, <3>1, WriteType, Zenon DEF WritePages
  <2> QED
    BY <1>14, <2>1, Zenon DEF WritePages
<1>15. CASE WriteFails
  <2>1. page' \in [Pgid -> Tag] /\ flist' \in [0..1 -> Region]
    <3>1. Root \in Pgid
      BY FreelistAssumption DEF Pgid
    <3>2. DirtyPages \subseteq Pgid
      BY BlockAtType, TreeType DEF DirtyPages, Meta
    <3>3. CASE flist' = [flist EXCEPT ![wmeta.flid % 2] = NoRegion] /\ page' = page
      BY <3>1, <3>3, WriteType, Zenon
    <3>4. ASSUME NEW q \in DirtyPages,
                 flist' = [flist EXCEPT ![wmeta.flid % 2] =
                             [ok |-> TRUE, ids |-> copyall(fl)]],
                 page' = [p \in Pgid |-> IF p \in DirtyPages /\ p < q THEN tag
                                         ELSE IF p = q THEN 0 ELSE page[p]]
          PROVE  page' \in [Pgid -> Tag] /\ flist' \in [0..1 -> Region]
      BY <3>2, <3>4, WriteType, Zenon
    <3> QED
      BY <1>15, <3>3, <3>4, Zenon DEF WriteFails
  <2>2. physicalRollback(fl) /\ pc # "idle" /\ meta' \in [0..1 -> Meta]
    BY <1>15, Zenon DEF WriteFails
  <2>3. fl' \in FreelistRecord /\ wmeta' \in Meta /\ pc' = "idle" /\ stats' \in Stats
    BY <2>1, <2>2, physicalRollbackType
  <2> QED
    BY <1>15, <2>1, <2>3, Zenon DEF WriteFails
<1>16. CASE SyncPages
  BY <1>16, Zenon DEF SyncPages, Synced, file
<1>17. CASE SyncFails
  BY <1>17, physicalRollbackType, Zenon DEF SyncFails, file
<1>18. CASE BeginWriteMeta
  BY <1>18, <1>0, Zenon DEF BeginWriteMeta
<1>19. CASE WriteMeta
  BY <1>19, Zenon DEF WriteMeta
<1>20. CASE WriteMetaFails
  BY <1>20, physicalRollbackType, Zenon DEF WriteMetaFails, file
<1>21. CASE SyncMeta
  <2>1. [free |-> fl'.free, pending |-> fl'.pending] \in Stats
    BY <1>21 DEF SyncMeta, FreelistRecord, Stats
  <2> QED
    BY <1>21, <1>0, <2>1, Zenon DEF SyncMeta, Synced, close, file
<1>22. CASE SyncMetaFails
  BY <1>22, physicalRollbackType, Zenon DEF SyncMetaFails, file
<1>23. ASSUME MemoryLost, crashes < MaxCrash,
              page' \in [Pgid -> Tag], meta' \in [0..1 -> Meta],
              flist' \in [0..1 -> Region],
              disk' \in [page : [Pgid -> Tag], meta : [0..1 -> Meta],
                         flist : [0..1 -> Region]]
       PROVE  TypeInv'
  <2>1. crashes' \in 0 .. MaxCrash
    BY <1>23, DBAssumption DEF MemoryLost
  <2>2. DOMAIN txs' = {}
    BY <1>23 DEF MemoryLost
  <2> QED
    BY <1>0, <1>23, <2>1, <2>2, Zenon DEF MemoryLost
<1>24. CASE Crash
  <2>1. /\ page' \in [Pgid -> Tag] /\ meta' \in [0..1 -> Meta]
        /\ flist' \in [0..1 -> Region]
    BY <1>24, CrashType
  <2> QED
    BY <1>23, <1>24, <2>1, Zenon DEF Crash
<1>25. CASE Kill
  BY <1>23, <1>25, Zenon DEF Kill, file
<1>26. CASE Close
  BY <1>23, <1>26, Zenon DEF Close, file
<1>27. CASE Open
  <2>1. Current.flid % 2 \in 0..1
    BY CurrentOfType DEF Current, Meta
  <2>2. freelistPage.ids \in SUBSET Pgid
    BY <2>1 DEF freelistPage, Region
  <2>3. fl' \in FreelistRecord
    BY <1>0, <1>27, <2>2, readType, Zenon DEF Open
  <2>4. fl'.free \in SUBSET Pgid
    BY <2>3 DEF FreelistRecord
  <2>5. stats' \in Stats
    BY <1>27, <2>4 DEF Open, Stats
  <2> QED
    BY <1>0, <1>27, <2>3, <2>5, Zenon DEF Open, file
<1>28. CASE UNCHANGED vars
  BY <1>28, Zenon DEF vars
<1> QED
  BY <1>1, <1>2, <1>3, <1>4, <1>5, <1>6, <1>7, <1>8, <1>9, <1>10, <1>11, <1>12,
     <1>13, <1>14, <1>15, <1>16, <1>17, <1>18, <1>19, <1>20, <1>21, <1>22,
     <1>24, <1>25, <1>26, <1>27, <1>28, Zenon
  DEF Next, Writer

\* Every reachable state is well typed, whatever fails.
THEOREM TypeCorrect == Spec => []TypeOK
<1>1. TypeInv => TypeOK
  BY DEF TypeInv
<1> QED
  BY InitType, NextType, <1>1, PTL DEF Spec

-----------------------------------------------------------------------------
(* Pages, free, pending and in trees *)

\* What the provers need to know about the fields of well-typed values.
LEMMA FreelistFields ==
  ASSUME NEW f \in FreelistRecord
  PROVE  /\ f.free \in SUBSET Pgid
         /\ f.pending \in SUBSET Pending
         /\ f.last \in [Txid -> Txid]
         /\ f.allocs \in [Pgid -> Txid]
         /\ \A x \in f.pending : /\ x.tid \in Nat /\ x.id \in Pgid /\ x.atx \in Nat
                                 /\ x.tid \in Txid /\ x.atx \in Txid
                                 /\ x = [tid |-> x.tid, id |-> x.id, atx |-> x.atx]
         /\ \A p \in Pgid : f.allocs[p] \in Nat
<1>1. /\ f.free \in SUBSET Pgid /\ f.pending \in SUBSET Pending
      /\ f.last \in [Txid -> Txid] /\ f.allocs \in [Pgid -> Txid]
  BY DEF FreelistRecord
<1>2. ASSUME NEW x \in f.pending
      PROVE  /\ x.tid \in Txid /\ x.id \in Pgid /\ x.atx \in Txid
             /\ x = [tid |-> x.tid, id |-> x.id, atx |-> x.atx]
  BY <1>1 DEF Pending
<1>3. Txid \subseteq Nat
  BY FreelistAssumption DEF Txid
<1> QED
  BY <1>1, <1>2, <1>3

\* Page ids are numbers.
LEMMA PgidNat == Pgid \subseteq Nat
BY FreelistAssumption DEF Pgid

\* The fields of a meta.
LEMMA MetaFields ==
  ASSUME NEW m \in Meta
  PROVE  /\ m.txid \in Nat /\ m.flid \in Nat /\ m.pgid \in Nat /\ m.root \in Tree
         /\ m.valid \in BOOLEAN
BY DEF Meta

\* The blocks of a tree.
LEMMA TreeFields ==
  ASSUME NEW T \in Tree
  PROVE  \A p \in DOMAIN T : /\ p \in Pgid /\ p \in Nat
                             /\ T[p].head \in Pgid /\ T[p].tag \in Nat
<1>1. \A p \in DOMAIN T : p \in Pgid /\ T[p] \in Block
  BY TreeType
<1> QED
  BY <1>1, FreelistAssumption, DBAssumption DEF Block, Pgid, Tag

\* Freeing a block of the durable tree: its pages become pending and leave the
\* tree, and a reader's page is found either before or after.
LEMMA FreeBlock ==
  ASSUME NEW f \in FreelistRecord, NEW d \in Meta, NEW root \in Tree, NEW h,
         d.txid + 1 \in Txid,
         Blocks(root), Blocks(d.root), FreelistOK(f, d, root),
         \A p \in DOMAIN d.root : p < d.pgid,
         h \in DOMAIN root, root[h].head = h,
         \A p \in BlockAt(root, h) : p \in DOMAIN d.root /\ root[p] = d.root[p]
  PROVE  LET g == free(f, d.txid + 1, h, BlockAt(root, h))
             R == RemoveBlock(root, h)
         IN  /\ Blocks(R)
             /\ FreelistOK(g, d, R)
             /\ \A m \in Meta : m.txid <= d.txid /\ Kept(m, f, d, root)
                                  => Kept(m, g, d, R)
<1> DEFINE t == d.txid + 1
           S == BlockAt(root, h)
           g == free(f, t, h, S)
           R == RemoveBlock(root, h)
           new == {[tid |-> t, id |-> p, atx |-> f.allocs[h]] : p \in S}
<1>1. /\ d.txid \in Nat /\ d.pgid \in Nat /\ d.root \in Tree
      /\ t \in Nat
  BY MetaFields
<1>2. h \in Pgid /\ f.allocs[h] \in Nat
  BY TreeFields, FreelistFields
<1>3. /\ DOMAIN R = DOMAIN root \ S
      /\ \A p \in DOMAIN R : R[p] = root[p] /\ root[p].head # h
  BY Zenon DEF RemoveBlock, BlockAt
<1>4. /\ g.free = f.free
      /\ g.pending = f.pending \cup new
      /\ g.allocs = [f.allocs EXCEPT ![h] = 0]
  BY Zenon DEF free
<1>5. /\ \A p \in Pgid : g.allocs[p] = IF p = h THEN 0 ELSE f.allocs[p]
      /\ h \in S
      /\ S \subseteq DOMAIN root /\ \A p \in S : root[p].head = h
  BY <1>2, <1>4, FreelistFields, Zenon DEF BlockAt
<1>6. \A x \in new : x.tid = t /\ x.id \in S /\ x.atx = f.allocs[h]
  OBVIOUS
<1>7. f.allocs[h] <= d.txid
  <2>1. h \in DOMAIN d.root /\ d.root[h].head = h
    BY <1>5, Zenon
  <2> QED
    BY <2>1, Zenon DEF FreelistOK, LiveOrFreed
<1> HIDE DEF t, S, g, R, new
<1>8. Blocks(R)
  BY <1>3, <1>5, TreeFields DEF Blocks, S, BlockAt
<1>9. ASSUME NEW x \in g.pending
      PROVE  PendingOK(x, g, d, R)
  <2>1. CASE x \in f.pending
    <3>1. PendingOK(x, f, d, root)
      BY <2>1, Zenon DEF FreelistOK
    <3> QED
      BY <2>1, <3>1, <1>1, <1>3, <1>4, <1>5, TreeFields, Zenon DEF PendingOK
  <2>2. CASE x \in new
    <3>1. x.id \in S /\ x.tid = t /\ x.atx = f.allocs[h]
      BY <2>2, <1>6, Zenon
    <3>2. x.id \in DOMAIN root /\ x.id \in DOMAIN d.root /\ d.root[x.id].head = h
      BY <3>1, <1>5, Zenon DEF S
    <3>3. x.id \notin g.free /\ x.id \notin DOMAIN R
      BY <3>1, <3>2, <1>3, <1>4, Zenon DEF FreelistOK
    <3>4. [tid |-> x.tid, id |-> h, atx |-> x.atx] \in g.pending
      BY <3>1, <1>4, <1>5, Zenon DEF new
    <3> QED
      BY <3>1, <3>2, <3>3, <3>4, <1>1, <1>2, <1>5, <1>7 DEF t, PendingOK
  <2> QED
    BY <2>1, <2>2, <1>4, Zenon
<1>10. ASSUME NEW x \in g.pending, NEW y \in g.pending, x.id = y.id
       PROVE  x = y
  <2>1. CASE x \in f.pending /\ y \in f.pending
    BY <1>10, <2>1, Zenon DEF FreelistOK
  <2>2. CASE x \in new /\ y \in new
    BY <1>10, <2>2 DEF new
  <2>3. ASSUME NEW u \in f.pending, NEW v \in new PROVE u.id # v.id
    BY <1>5, <1>6, Zenon DEF FreelistOK, PendingOK
  <2> QED
    BY <1>4, <1>10, <2>1, <2>2, <2>3, Zenon
<1>11. FreelistOK(g, d, R)
  <2>1. \A p \in g.free : p < d.pgid /\ p \notin DOMAIN R /\ p \notin DOMAIN d.root
    BY <1>3, <1>4, Zenon DEF FreelistOK
  <2>2. \A p \in Pgid : g.allocs[p] <= d.txid + 1
    BY <1>1, <1>5 DEF FreelistOK
  <2>3. ASSUME NEW p \in DOMAIN d.root
        PROVE  LiveOrFreed(p, g, d, R)
    <3>0. LiveOrFreed(p, f, d, root)
      BY Zenon DEF FreelistOK
    <3>1. CASE p \in DOMAIN R
      BY <3>0, <3>1, <1>1, <1>3, <1>5, TreeFields, Zenon DEF LiveOrFreed
    <3>2. CASE p \in S
      <4> DEFINE x == [tid |-> t, id |-> p, atx |-> f.allocs[h]]
      <4>1. x \in g.pending /\ x.id = p /\ x.tid = d.txid + 1
        BY <3>2, <1>4, Zenon DEF new, t
      <4>2. p \notin DOMAIN R
        BY <3>2, <1>3, Zenon
      <4> QED
        BY <4>1, <4>2, Zenon DEF LiveOrFreed
    <3>3. CASE p \notin DOMAIN root
      BY <3>0, <3>3, <1>3, <1>4, Zenon DEF LiveOrFreed
    <3> QED
      BY <3>1, <3>2, <3>3, <1>3, Zenon
  <2> QED
    BY <1>9, <1>10, <2>1, <2>2, <2>3, Zenon DEF FreelistOK
<1>12. ASSUME NEW m \in Meta, m.txid <= d.txid, Kept(m, f, d, root),
              NEW p \in DOMAIN m.root
       PROVE  KeptPage(p, m, g, d, R)
  <2>0. m.txid \in Nat /\ m.root \in Tree
    BY MetaFields, Zenon
  <2>1. CASE \E x \in f.pending :
               /\ x.id = p /\ x.atx <= m.txid /\ m.txid < x.tid
               /\ x.tid = d.txid + 1 =>
                    p \in DOMAIN d.root /\ d.root[p] = m.root[p]
    BY <2>1, <1>4, Zenon DEF KeptPage
  <2>2. CASE /\ p \in DOMAIN root
             /\ root[p] = m.root[p]
             /\ f.allocs[m.root[p].head] <= m.txid
    <3>1. CASE p \in S
      <4> DEFINE x == [tid |-> t, id |-> p, atx |-> f.allocs[h]]
      <4>1. x \in g.pending
        BY <3>1, <1>4, ZenonT(60) DEF new
      <4>2. x.id = p /\ x.atx <= m.txid /\ m.txid < x.tid
        BY <2>0, <2>2, <3>1, <1>1, <1>5, <1>12 DEF t
      <4>3. p \in DOMAIN d.root /\ d.root[p] = m.root[p]
        BY <2>2, <3>1, Zenon DEF S
      <4> QED
        BY <4>1, <4>2, <4>3, Zenon DEF KeptPage
    <3>2. CASE p \in DOMAIN R
      BY <2>0, <2>2, <3>2, <1>3, <1>5, TreeFields, ZenonT(60) DEF KeptPage
    <3> QED
      BY <2>2, <3>1, <3>2, <1>3, Zenon
  <2> QED
    BY <1>12, <2>1, <2>2, Zenon DEF Kept, KeptPage
<1>13. \A m \in Meta : m.txid <= d.txid /\ Kept(m, f, d, root) => Kept(m, g, d, R)
  BY <1>12, Zenon DEF Kept
<1> QED
  BY <1>8, <1>11, <1>13, Zenon DEF g, R, t, S

\* Putting a new block into the tree, at pages that are in no tree and not
\* pending.  The freelist g is f, or f after allocate has taken the block.
LEMMA InsertPages ==
  ASSUME NEW f \in FreelistRecord, NEW g \in FreelistRecord, NEW d \in Meta,
         NEW root \in Tree, NEW s \in Pgid, NEW n \in Nat, n >= 1,
         Run(s, n) \subseteq Pgid, d.txid + 1 \in Txid,
         Blocks(root), Blocks(d.root), FreelistOK(f, d, root),
         \A p \in Run(s, n) : /\ p \notin DOMAIN root /\ p \notin DOMAIN d.root
                              /\ p \notin g.free
                              /\ \A x \in f.pending : x.id # p,
         g.pending = f.pending, g.free \subseteq f.free,
         g.allocs = f.allocs \/ g.allocs = [f.allocs EXCEPT ![s] = d.txid + 1]
  PROVE  LET R == InsertBlock(root, s, n)
         IN  /\ Blocks(R)
             /\ FreelistOK(g, d, R)
             /\ \A m \in Meta : Kept(m, f, d, root) => Kept(m, g, d, R)
<1> DEFINE N == Run(s, n)
           R == InsertBlock(root, s, n)
<1>1. d.txid \in Nat /\ d.pgid \in Nat /\ d.root \in Tree
  BY MetaFields, Zenon
<1>2. s \in N
  BY FreelistAssumption DEF Run, Pgid
<1>3. /\ DOMAIN R = DOMAIN root \cup N
      /\ \A p \in N : R[p] = [head |-> s, tag |-> tag]
      /\ \A p \in DOMAIN root : p \notin N /\ R[p] = root[p]
  BY Zenon DEF InsertBlock
<1>4. \A p \in Pgid : p # s => g.allocs[p] = f.allocs[p]
  BY FreelistFields, Zenon
<1>5. \A p \in Pgid : g.allocs[p] <= d.txid + 1
  BY <1>1, FreelistFields DEF FreelistOK
<1>6. /\ \A p \in DOMAIN root : root[p].head \in Pgid /\ root[p].head # s
      /\ \A p \in DOMAIN d.root : d.root[p].head \in Pgid /\ d.root[p].head # s
  <2>1. s \notin DOMAIN root /\ s \notin DOMAIN d.root
    BY <1>2, Zenon
  <2> QED
    BY <1>1, <2>1, TreeFields, SMTT(60) DEF Blocks
<1> HIDE DEF N, R
<1>7. Blocks(R)
  <2> SUFFICES ASSUME NEW p \in DOMAIN R
               PROVE  R[p].head \in DOMAIN R /\ R[R[p].head] = R[p]
    BY Zenon DEF Blocks
  <2>1. CASE p \in N
    BY <1>2, <1>3, <2>1
  <2>2. CASE p \in DOMAIN root
    BY <1>3, <2>2 DEF Blocks
  <2> QED
    BY <1>3, <2>1, <2>2, Zenon
<1>8. FreelistOK(g, d, R)
  <2>1. ASSUME NEW x \in g.pending
        PROVE  PendingOK(x, g, d, R)
    <3>1. x \in f.pending /\ PendingOK(x, f, d, root) /\ x.id \notin N
      BY Zenon DEF FreelistOK, N
    <3> QED
      BY <3>1, <1>3, <1>4, <1>6, Zenon DEF PendingOK
  <2>2. \A x, y \in g.pending : x.id = y.id => x = y
    BY Zenon DEF FreelistOK
  <2>3. \A p \in g.free : p < d.pgid /\ p \notin DOMAIN R /\ p \notin DOMAIN d.root
    BY <1>3, Zenon DEF FreelistOK, N
  <2>4. ASSUME NEW p \in DOMAIN d.root
        PROVE  LiveOrFreed(p, g, d, R)
    <3>1. LiveOrFreed(p, f, d, root) /\ p \notin N
      BY Zenon DEF FreelistOK, N
    <3> QED
      BY <3>1, <1>3, <1>4, <1>6, Zenon DEF LiveOrFreed
  <2> QED
    BY <1>5, <2>1, <2>2, <2>3, <2>4, Zenon DEF FreelistOK
<1>9. ASSUME NEW m \in Meta, Kept(m, f, d, root), NEW p \in DOMAIN m.root
      PROVE  KeptPage(p, m, g, d, R)
  <2>1. KeptPage(p, m, f, d, root)
    BY <1>9, Zenon DEF Kept
  <2>2. CASE /\ p \in DOMAIN root
             /\ root[p] = m.root[p]
             /\ f.allocs[m.root[p].head] <= m.txid
    BY <1>3, <1>4, <1>6, <2>2, ZenonT(60) DEF KeptPage
  <2> QED
    BY <2>1, <2>2, Zenon DEF KeptPage
<1> QED
  BY <1>7, <1>8, <1>9, Zenon DEF R, Kept

\* Committing: the writer's meta e becomes the durable one.
LEMMA CommitPages ==
  ASSUME NEW f \in FreelistRecord, NEW d \in Meta, NEW e \in Meta,
         FreelistOK(f, d, e.root), e.txid = d.txid + 1, d.pgid <= e.pgid
  PROVE  /\ FreelistOK(f, e, e.root)
         /\ NoneFreed(f, e)
         /\ \A m \in Meta : Kept(m, f, d, e.root) => Kept(m, f, e, e.root)
<1>1. /\ d.txid \in Nat /\ d.pgid \in Nat /\ e.pgid \in Nat /\ e.txid \in Nat
      /\ e.root \in Tree
  BY MetaFields
<1>2. ASSUME NEW x \in f.pending
      PROVE  x.tid <= e.txid /\ PendingOK(x, f, e, e.root)
  <2>1. PendingOK(x, f, d, e.root) /\ x.tid \in Nat /\ x.id \in Nat
    BY FreelistFields, PgidNat, Zenon DEF FreelistOK
  <2> QED
    BY <1>1, <2>1, SMTT(30) DEF PendingOK
<1>3. \A p \in f.free : p < e.pgid /\ p \notin DOMAIN e.root
  BY <1>1, FreelistFields, PgidNat DEF FreelistOK
<1>4. \A p \in Pgid : f.allocs[p] <= e.txid /\ f.allocs[p] <= e.txid + 1
  BY <1>1, FreelistFields DEF FreelistOK
<1>5. \A p \in DOMAIN e.root : LiveOrFreed(p, f, e, e.root)
  BY <1>1, <1>4, TreeFields, Zenon DEF LiveOrFreed
<1>6. FreelistOK(f, e, e.root)
  BY <1>2, <1>3, <1>4, <1>5, Zenon DEF FreelistOK
<1>7. ASSUME NEW m \in Meta, NEW p \in DOMAIN m.root, KeptPage(p, m, f, d, e.root)
      PROVE  KeptPage(p, m, f, e, e.root)
  <2>1. \A x \in f.pending : x.tid # e.txid + 1
    BY <1>1, <1>2, FreelistFields
  <2> QED
    BY <1>7, <2>1, Zenon DEF KeptPage
<1> QED
  BY <1>2, <1>6, <1>7 DEF NoneFreed, Kept

\* Rolling back: the durable tree is live again, and every block of it has its
\* allocs entry back, so that readers find their pages where they were.
LEMMA RollbackPages ==
  ASSUME NEW f \in FreelistRecord, NEW d \in Meta, NEW root \in Tree,
         d.txid + 1 \in Txid, Blocks(root), Blocks(d.root), FreelistOK(f, d, root),
         \A p \in DOMAIN root :
           root[p].tag # tag => p \in DOMAIN d.root /\ root[p] = d.root[p]
  PROVE  LET g == rollback(f, d.txid + 1)
         IN  /\ FreelistOK(g, d, d.root)
             /\ NoneFreed(g, d)
             /\ \A m \in Meta :
                  /\ Kept(m, f, d, root)
                  /\ \A p \in DOMAIN m.root : m.root[p].tag # tag
                  => Kept(m, g, d, d.root)
<1> DEFINE t == d.txid + 1
           g == rollback(f, t)
           mine == {x \in f.pending : x.tid = t}
<1>1. d.txid \in Nat /\ d.root \in Tree /\ t \in Nat
  BY MetaFields, SMTT(60)
<1>2. ASSUME NEW x \in mine
      PROVE  /\ x \in f.pending /\ x.tid = t /\ x.atx \in Nat /\ x.id \in Pgid
             /\ x.id \notin DOMAIN root /\ x.id \in DOMAIN d.root
             /\ x.atx <= d.txid /\ x.atx # t
             /\ f.allocs[d.root[x.id].head] = 0
             /\ [tid |-> t, id |-> d.root[x.id].head, atx |-> x.atx] \in mine
  <2>1. PendingOK(x, f, d, root) /\ x.atx \in Nat /\ x.id \in Pgid
    BY FreelistFields, Zenon DEF FreelistOK
  <2> QED
    BY <1>1, <2>1, SMTT(30) DEF PendingOK
<1>3. g.pending = f.pending \ mine
  BY Zenon DEF rollback
<1>4. g.free = f.free
  <2>1. {y \in mine : y.atx = t} = {}
    BY <1>2, Zenon
  <2>2. g.free = f.free \cup {x.id : x \in {y \in mine : y.atx = t}}
    BY Zenon DEF rollback
  <2> QED
    BY <2>1, <2>2, Zenon
<1>5. \A p \in Pgid :
        g.allocs[p] = IF \E x \in mine : x.id = p /\ x.atx \notin {0, t}
                      THEN (CHOOSE x \in mine : x.id = p /\ x.atx \notin {0, t}).atx
                      ELSE f.allocs[p]
  BY Zenon DEF rollback
<1>6. ASSUME NEW p \in Pgid, \A x \in mine : x.id # p
      PROVE  g.allocs[p] = f.allocs[p]
  BY <1>5, <1>6, Zenon
<1>7. ASSUME NEW x \in mine
      PROVE  g.allocs[x.id] = IF x.atx = 0 THEN f.allocs[x.id] ELSE x.atx
  <2>1. \A y \in mine : y.id = x.id => y = x
    BY <1>2, Zenon DEF FreelistOK
  <2>2. CASE x.atx = 0
    BY <1>2, <1>5, <2>1, <2>2, Zenon
  <2>3. CASE x.atx # 0
    <3>1. x.atx \notin {0, t}
      BY <1>2, <2>3, Zenon
    <3>2. (CHOOSE y \in mine : y.id = x.id /\ y.atx \notin {0, t}) = x
      BY <2>1, <3>1, Zenon
    <3> QED
      BY <1>2, <1>5, <2>3, <3>1, <3>2, ZenonT(60)
  <2> QED
    BY <2>2, <2>3, Zenon
<1> HIDE DEF t, g, mine
<1>8. ASSUME NEW p \in DOMAIN root, p \in DOMAIN d.root, root[p] = d.root[p]
      PROVE  g.allocs[d.root[p].head] = f.allocs[d.root[p].head]
  <2>1. d.root[p].head \in DOMAIN root /\ d.root[p].head \in Pgid
    BY <1>1, <1>8, TreeFields, Zenon DEF Blocks
  <2> QED
    BY <1>2, <1>6, <2>1, Zenon
<1>9. ASSUME NEW x \in mine
      PROVE  g.allocs[d.root[x.id].head] = x.atx
  <2> DEFINE h == d.root[x.id].head
             y == [tid |-> t, id |-> h, atx |-> x.atx]
  <2>1. y \in mine /\ f.allocs[h] = 0
    BY <1>2, Zenon
  <2>2. g.allocs[y.id] = IF y.atx = 0 THEN f.allocs[y.id] ELSE y.atx
    BY <1>7, <2>1, Zenon
  <2> QED
    BY <2>1, <2>2, Zenon
<1>10. ASSUME NEW x \in g.pending
       PROVE  x.tid <= d.txid /\ PendingOK(x, g, d, d.root)
  <2>1. x \in f.pending /\ x \notin mine /\ x.tid \in Nat /\ PendingOK(x, f, d, root)
    BY <1>3, FreelistFields, Zenon DEF FreelistOK
  <2>2. x.tid # t
    BY <2>1, Zenon DEF mine
  <2> QED
    BY <1>1, <1>4, <2>1, <2>2 DEF PendingOK, t
<1>11. \A p \in g.free : p < d.pgid /\ p \notin DOMAIN d.root
  BY <1>4, Zenon DEF FreelistOK
<1>12. ASSUME NEW p \in Pgid PROVE g.allocs[p] <= d.txid + 1
  <2>1. f.allocs[p] <= d.txid + 1
    BY Zenon DEF FreelistOK
  <2>2. CASE \A x \in mine : x.id # p
    BY <1>6, <2>1, <2>2, Zenon
  <2>3. ASSUME NEW x \in mine, x.id = p PROVE g.allocs[p] <= d.txid + 1
    <3>1. x.atx \in Nat /\ x.atx <= d.txid
      BY <1>2, Zenon
    <3>2. g.allocs[p] = f.allocs[p] \/ g.allocs[p] = x.atx
      BY <1>7, <2>3, Zenon
    <3> QED
      BY <1>1, <2>1, <3>1, <3>2
  <2> QED
    BY <2>2, <2>3, Zenon
<1>13. ASSUME NEW p \in DOMAIN d.root PROVE LiveOrFreed(p, g, d, d.root)
  <2>1. LiveOrFreed(p, f, d, root)
    BY Zenon DEF FreelistOK
  <2>2. CASE p \in DOMAIN root
    BY <1>8, <2>1, <2>2, Zenon DEF LiveOrFreed
  <2>3. CASE p \notin DOMAIN root
    <3>1. PICK x \in mine : x.id = p
      BY <2>1, <2>3, Zenon DEF LiveOrFreed, mine, t
    <3> QED
      BY <1>2, <1>9, <3>1, Zenon DEF LiveOrFreed
  <2> QED
    BY <2>2, <2>3, Zenon
<1>14. FreelistOK(g, d, d.root)
  <2>1. \A x, y \in g.pending : x.id = y.id => x = y
    BY <1>3, Zenon DEF FreelistOK
  <2> QED
    BY <1>10, <1>11, <1>12, <1>13, <2>1, Zenon DEF FreelistOK
<1>15. ASSUME NEW m \in Meta, NEW p \in DOMAIN m.root, m.root[p].tag # tag,
              KeptPage(p, m, f, d, root)
       PROVE  KeptPage(p, m, g, d, d.root)
  <2>1. CASE /\ p \in DOMAIN root
             /\ root[p] = m.root[p]
             /\ f.allocs[m.root[p].head] <= m.txid
    <3>1. p \in DOMAIN d.root /\ root[p] = d.root[p]
      BY <1>15, <2>1, Zenon
    <3> QED
      BY <1>8, <2>1, <3>1 DEF KeptPage
  <2>2. ASSUME NEW x \in f.pending,
               x.id = p, x.atx <= m.txid, m.txid < x.tid,
               x.tid = t => p \in DOMAIN d.root /\ d.root[p] = m.root[p]
        PROVE  KeptPage(p, m, g, d, d.root)
    <3>1. CASE x \in mine
      BY <1>2, <1>9, <2>2, <3>1, Zenon DEF KeptPage
    <3>2. CASE x \notin mine
      <4>1. x \in g.pending /\ x.tid # t
        BY <1>3, <3>2, Zenon DEF mine
      <4> QED
        BY <2>2, <4>1, Zenon DEF KeptPage, t
    <3> QED
      BY <3>1, <3>2, Zenon
  <2> QED
    BY <1>15, <2>1, <2>2, Zenon DEF KeptPage, t
<1> QED
  BY <1>10, <1>14, <1>15, Zenon DEF NoneFreed, Kept, g, t

\* Reloading from the region of the durable meta, array backend: what comes back
\* from the region is in no tree and not pending.
LEMMA ReloadPages ==
  ASSUME FreelistType = "array",
         NEW f \in FreelistRecord, NEW d \in Meta, NEW ids \in SUBSET Pgid,
         FreelistOK(f, d, d.root), NoneFreed(f, d),
         \A p \in ids : p < d.pgid /\ p \notin DOMAIN d.root
  PROVE  LET g == reload(f, ids)
         IN  /\ FreelistOK(g, d, d.root)
             /\ NoneFreed(g, d)
             /\ \A m \in Meta : Kept(m, f, d, d.root) => Kept(m, g, d, d.root)
<1> DEFINE g == reload(f, ids)
<1>1. /\ read(f, ids).free = ids
      /\ read(f, ids).pending = f.pending
      /\ read(f, ids).allocs = f.allocs
  BY DEF read, readIDs, FreelistRecord
<1>2. g.free = ids \ Ids(f.pending) /\ g.pending = f.pending /\ g.allocs = f.allocs
  BY <1>1, Zenon DEF reload, readIDs
<1> HIDE DEF g
<1>3. ASSUME NEW x \in g.pending PROVE PendingOK(x, g, d, d.root)
  <2>1. PendingOK(x, f, d, d.root)
    BY <1>2, Zenon DEF FreelistOK
  <2>2. x.id \notin g.free
    BY <1>2, Zenon DEF Ids
  <2> QED
    BY <1>2, <2>1, <2>2, Zenon DEF PendingOK
<1>4. \A p \in DOMAIN d.root : LiveOrFreed(p, g, d, d.root)
  BY <1>2, Zenon DEF FreelistOK, LiveOrFreed
<1>5. FreelistOK(g, d, d.root)
  BY <1>2, <1>3, <1>4, Zenon DEF FreelistOK
<1>6. \A m \in Meta : Kept(m, f, d, d.root) => Kept(m, g, d, d.root)
  BY <1>2, Zenon DEF Kept, KeptPage
<1> QED
  BY <1>2, <1>5, <1>6, Zenon DEF NoneFreed, g

\* Opening: the freelist is read from the region of the durable meta.
LEMMA OpenPages ==
  ASSUME NEW d \in Meta, NEW ids \in SUBSET Pgid,
         \A p \in ids : p < d.pgid /\ p \notin DOMAIN d.root
  PROVE  LET g == read(newFreelist, ids)
         IN  FreelistOK(g, d, d.root) /\ NoneFreed(g, d)
<1> DEFINE g == read(newFreelist, ids)
<1>1. /\ newFreelist.free = {} /\ newFreelist.pending = {}
      /\ newFreelist.allocs = [p \in Pgid |-> 0]
  BY Zenon DEF newFreelist
<1>2. g.free = ids /\ g.pending = {} /\ g.allocs = [p \in Pgid |-> 0]
  BY <1>1, newFreelistType DEF read, readIDs, FreelistRecord
<1> HIDE DEF g
<1>3. d.txid \in Nat /\ d.root \in Tree
  BY MetaFields
<1>4. \A p \in DOMAIN d.root : LiveOrFreed(p, g, d, d.root)
  BY <1>2, <1>3, TreeFields DEF LiveOrFreed
<1> QED
  BY <1>2, <1>3, <1>4 DEF FreelistOK, NoneFreed, g

\* The heart of isolation.  freePages makes no page available that a reader
\* needs: one allocated at or before the reader's txid and freed after it.
LEMMA FreePagesKeeps ==
  ASSUME NEW f \in FreelistRecord, NEW T \in SUBSET Nat
  PROVE  LET g == freePages(f, T)
         IN  /\ g.pending \subseteq f.pending
             /\ g.free = f.free \cup Ids(f.pending \ g.pending)
             /\ g.allocs = f.allocs
             /\ \A x \in f.pending \ g.pending, u \in T : ~(x.atx <= u /\ u < x.tid)
<1> DEFINE e == releaseBelow(f, T)
           X == Extents(T)
           m == {x \in e.pending : \E r \in X :
                   /\ r.begin <= x.tid /\ x.tid <= r.end
                   /\ e.last[x.tid] # r.begin
                   /\ r.begin <= x.atx /\ x.atx <= r.end}
           g == releaseRanges(e, X)
<1>1. freePages(f, T) = g
  BY DEF freePages
<1>2. /\ e.pending \subseteq f.pending
      /\ e.free = f.free \cup Ids(f.pending \ e.pending)
      /\ e.allocs = f.allocs
      /\ \A x \in f.pending \ e.pending, u \in T : x.tid < u
  <2> DEFINE gone == {x \in f.pending : \A u \in T : x.tid < u}
  <2>1. /\ e.pending = f.pending \ gone /\ e.free = f.free \cup Ids(gone)
        /\ e.allocs = f.allocs
    BY Zenon DEF releaseBelow
  <2>2. f.pending \ e.pending = gone
    BY <2>1, Zenon
  <2> HIDE DEF e
  <2> QED
    BY <2>1, <2>2, Zenon
<1> HIDE DEF e
<1>3. /\ g.pending = e.pending \ m
      /\ g.free = e.free \cup Ids(m)
      /\ g.allocs = e.allocs
  BY Zenon DEF releaseRanges
<1>4. ASSUME NEW x \in f.pending \ e.pending, NEW u \in T
      PROVE  ~(x.atx <= u /\ u < x.tid)
  BY <1>2, FreelistFields
<1>5. ASSUME NEW x \in m, NEW u \in T
      PROVE  ~(x.atx <= u /\ u < x.tid)
  <2>1. PICK r \in X : /\ r.begin <= x.tid /\ x.tid <= r.end
                       /\ r.begin <= x.atx /\ x.atx <= r.end
    OBVIOUS
  <2>2. r.begin \in Int /\ r.end \in Int /\ ~(r.begin <= u /\ u <= r.end)
    BY FreelistAssumption DEF Extents
  <2>3. x.tid \in Nat /\ x.atx \in Nat /\ u \in Nat
    BY <1>2, FreelistFields, Zenon
  <2> QED
    BY <2>1, <2>2, <2>3
<1> HIDE DEF g, m
<1>6. f.pending \ g.pending = (f.pending \ e.pending) \cup m
  <2>1. m \subseteq e.pending
    BY DEF m
  <2> QED
    BY <1>2, <1>3, <2>1, Zenon
<1>7. g.free = f.free \cup Ids(f.pending \ g.pending)
  BY <1>2, <1>3, <1>6, Zenon DEF Ids
<1> QED
  BY <1>1, <1>2, <1>3, <1>4, <1>5, <1>6, <1>7, Zenon

\* A write transaction begins: T holds the txids of the open readers.
LEMMA BeginPages ==
  ASSUME NEW f \in FreelistRecord, NEW d \in Meta, NEW T \in SUBSET Nat,
         FreelistOK(f, d, d.root), NoneFreed(f, d)
  PROVE  LET g == freePages(f, T)
         IN  /\ FreelistOK(g, d, d.root)
             /\ NoneFreed(g, d)
             /\ \A m \in Meta : m.txid \in T /\ Kept(m, f, d, d.root)
                                  => Kept(m, g, d, d.root)
<1> DEFINE g == freePages(f, T)
<1>1. /\ g.pending \subseteq f.pending
      /\ g.free = f.free \cup Ids(f.pending \ g.pending)
      /\ g.allocs = f.allocs
      /\ \A x \in f.pending \ g.pending, u \in T : ~(x.atx <= u /\ u < x.tid)
  BY FreePagesKeeps, Zenon
<1> HIDE DEF g
<1>2. d.txid \in Nat
  BY MetaFields
<1>3. ASSUME NEW x \in f.pending
      PROVE  /\ PendingOK(x, f, d, d.root) /\ x.tid # d.txid + 1
             /\ x.id < d.pgid /\ x.id \notin DOMAIN d.root
  <2>1. PendingOK(x, f, d, d.root) /\ x.tid <= d.txid /\ x.tid \in Nat
    BY FreelistFields, Zenon DEF FreelistOK, NoneFreed
  <2> QED
    BY <1>2, <2>1, Zenon DEF PendingOK
<1>4. ASSUME NEW x \in g.pending PROVE PendingOK(x, g, d, d.root)
  <2>1. x.id \notin Ids(f.pending \ g.pending)
    BY <1>1, Zenon DEF Ids, FreelistOK
  <2>2. x.id \notin g.free
    BY <1>1, <1>3, <2>1, Zenon DEF PendingOK
  <2> QED
    BY <1>1, <1>3, <2>2, Zenon DEF PendingOK
<1>5. \A p \in g.free : p < d.pgid /\ p \notin DOMAIN d.root
  BY <1>1, <1>3, Zenon DEF Ids, FreelistOK
<1>6. \A p \in DOMAIN d.root : LiveOrFreed(p, g, d, d.root)
  BY <1>1, Zenon DEF FreelistOK, LiveOrFreed
<1>7. FreelistOK(g, d, d.root)
  BY <1>1, <1>4, <1>5, <1>6, Zenon DEF FreelistOK
<1>8. NoneFreed(g, d)
  BY <1>1, Zenon DEF NoneFreed
<1>9. ASSUME NEW m \in Meta, m.txid \in T, NEW p \in DOMAIN m.root,
             KeptPage(p, m, f, d, d.root)
      PROVE  KeptPage(p, m, g, d, d.root)
  BY <1>1, <1>9, Zenon DEF KeptPage
<1> QED
  BY <1>7, <1>8, <1>9, Zenon DEF Kept, g

-----------------------------------------------------------------------------
(* What IInv says of the current meta page and of the writer. *)

\* db.meta() picks d when the other page is broken or has a smaller txid.
LEMMA CurrentOfPicks ==
  ASSUME NEW m \in [0..1 -> Meta], NEW d \in Meta, NEW s \in 0..1,
         m[s] = d, d.valid, Older(m[1 - s], d)
  PROVE  CurrentOf(m) = d
<1>1. m[0].txid \in Nat /\ m[1].txid \in Nat
  BY MetaFields
<1>2. CASE s = 0
  BY <1>1, <1>2 DEF CurrentOf, Older
<1>3. CASE s = 1
  BY <1>1, <1>3 DEF CurrentOf, Older
<1> QED
  BY <1>2, <1>3

\* Types in the terms of the invariant.
LEMMA InvTypes ==
  ASSUME IInv
  PROVE  /\ TypeInv
         /\ Durable \in Meta /\ Durable.txid \in Nat /\ Durable.flid \in Nat
         /\ Durable.pgid \in Nat /\ Durable.root \in Tree
         /\ Durable.txid % 2 \in 0..1 /\ 1 - (Durable.txid % 2) \in 0..1
         /\ Durable.flid % 2 \in 0..1
         /\ wmeta \in Meta /\ wmeta.root \in Tree /\ wmeta.pgid \in Nat
         /\ fl \in FreelistRecord
         /\ tag \in Nat
         /\ \A r \in DOMAIN txs : txs[r] \in Meta /\ txs[r].root \in Tree
<1>1. TypeOK
  BY DEF IInv
<1>2. Durable \in Meta
  BY <1>1, CurrentOfType DEF TypeOK, Durable
<1>3. /\ Durable.txid \in Nat /\ Durable.flid \in Nat
      /\ Durable.pgid \in Nat /\ Durable.root \in Tree
  BY <1>2, MetaFields
<1>4. TypeInv
  <2>1. pc # "idle" => wmeta.txid \in Txid
    BY <1>3, FreelistAssumption DEF IInv, WriterInv, Txid
  <2> QED
    BY <1>1, <2>1 DEF TypeInv
<1>5. tag \in Nat
  BY <1>1, DBAssumption DEF TypeOK, Tag
<1>6. \A r \in DOMAIN txs : txs[r] \in Meta /\ txs[r].root \in Tree
  BY <1>1, MetaFields, Zenon DEF TypeOK
<1> QED
  BY <1>1, <1>2, <1>3, <1>4, <1>5, <1>6, MetaFields DEF TypeOK

\* db.meta() is the durable meta until the writer's is in the file.
LEMMA CurrentIs ==
  ASSUME IInv
  PROVE  Current = IF pc = "metasync" THEN wmeta ELSE Durable
<1> DEFINE d == Durable
           s == d.txid % 2
<1>1. /\ d \in Meta /\ d.txid \in Nat /\ s \in 0..1 /\ 1 - s \in 0..1
      /\ wmeta \in Meta /\ meta \in [0..1 -> Meta]
  BY InvTypes, Zenon DEF TypeInv, TypeOK
<1>2. d.valid /\ meta[s] = d
  BY Zenon DEF IInv, SlotInv
<1>3. CASE pc # "metasync"
  <2>1. Older(meta[1 - s], d)
    BY <1>3, Zenon DEF IInv, SlotInv
  <2> QED
    BY <1>1, <1>2, <1>3, <2>1, CurrentOfPicks, Zenon DEF Current
<1>4. CASE pc = "metasync"
  <2>1. meta[1 - s] = wmeta /\ wmeta.valid /\ wmeta.txid = d.txid + 1
    BY <1>4, Zenon DEF IInv, SlotInv, WriterInv
  <2>2. 1 - (1 - s) = s
    BY <1>1
  <2>3. Older(meta[1 - (1 - s)], wmeta)
    BY <1>1, <1>2, <2>1, <2>2 DEF Older
  <2> HIDE DEF s
  <2> QED
    BY <1>1, <1>4, <2>1, <2>3, CurrentOfPicks, Zenon DEF Current
<1> QED
  BY <1>3, <1>4

\* The live tree is the durable one when no write transaction is open.
LEMMA LiveRootIs ==
  ASSUME IInv
  PROVE  LiveRoot = IF pc = "idle" THEN Durable.root ELSE wmeta.root
BY CurrentIs DEF LiveRoot

\* The writer's txid and freelist region are not those of the durable meta.
LEMMA OtherSlot ==
  ASSUME IInv, pc # "idle"
  PROVE  /\ wmeta.txid % 2 = 1 - (Durable.txid % 2)
         /\ wmeta.flid % 2 \in 0..1 /\ wmeta.flid % 2 # Durable.flid % 2
         /\ Durable.txid + 1 \in Txid
<1>1. Durable.txid \in Nat /\ Durable.flid \in Nat
  BY InvTypes, Zenon
<1>2. /\ wmeta.txid = Durable.txid + 1 /\ wmeta.flid = Durable.flid + 1
      /\ wmeta.txid <= MaxTxid
  BY Zenon DEF IInv, WriterInv
<1> QED
  BY <1>1, <1>2, FreelistAssumption DEF Txid

\* What the writer writes is in neither the durable tree nor a reader's.
LEMMA DirtyApart ==
  ASSUME IInv, pc \notin {"idle", "metasync"}, NEW q \in DirtyPages
  PROVE  /\ q \notin DOMAIN Durable.root
         /\ \A r \in DOMAIN txs : q \notin DOMAIN txs[r].root
<1>1. q \in DOMAIN wmeta.root /\ wmeta.root[q].tag = tag
  BY DEF DirtyPages
<1>2. q \notin DOMAIN Durable.root
  BY <1>1, Zenon DEF IInv, WriterInv, TreeOf
<1>3. ASSUME NEW r \in DOMAIN txs, q \in DOMAIN txs[r].root PROVE FALSE
  <2>1. txs[r].root[q].tag < tag /\ KeptPage(q, txs[r], fl, Durable, wmeta.root)
    BY <1>3, LiveRootIs, Zenon DEF IInv, ReaderInv, Kept
  <2>2. txs[r].root[q] # wmeta.root[q]
    BY <1>1, <2>1, InvTypes
  <2>3. PICK x \in fl.pending : x.id = q
    BY <2>1, <2>2, Zenon DEF KeptPage
  <2>4. PendingOK(x, fl, Durable, wmeta.root)
    BY LiveRootIs, Zenon DEF IInv, FreelistInv, WriterInv, FreelistOK
  <2> QED
    BY <1>1, <2>3, <2>4, Zenon DEF PendingOK
<1> QED
  BY <1>2, <1>3

\* Freeing a node that the transaction has not written itself.
LEMMA FreeNodePages ==
  ASSUME IInv, pc \in {"body", "spill"},
         NEW h \in Heads(wmeta.root), wmeta.root[h].tag # tag
  PROVE  LET g == free(fl, wmeta.txid, h, BlockAt(wmeta.root, h))
             R == RemoveBlock(wmeta.root, h)
         IN  /\ g \in FreelistRecord /\ R \in Tree
             /\ TreeOf(Durable, R, wmeta.pgid)
             /\ FreelistOK(g, Durable, R)
             /\ \A r \in DOMAIN txs : Kept(txs[r], g, Durable, R)
             /\ \A p \in DOMAIN R : p \in DOMAIN wmeta.root /\ R[p] = wmeta.root[p]
<1> DEFINE d == Durable
           root == wmeta.root
           g == free(fl, d.txid + 1, h, BlockAt(root, h))
           R == RemoveBlock(root, h)
<1>1. /\ d \in Meta /\ root \in Tree /\ fl \in FreelistRecord /\ TypeInv
      /\ d.txid + 1 \in Txid /\ d.txid \in Nat
      /\ \A r \in DOMAIN txs : txs[r] \in Meta
  BY InvTypes, OtherSlot, Zenon
<1>2. wmeta.txid = d.txid + 1 /\ TreeOf(d, root, wmeta.pgid)
  BY Zenon DEF IInv, WriterInv
<1>3. Blocks(root) /\ h \in DOMAIN root /\ root[h].head = h
  BY <1>2 DEF TreeOf, Blocks, Heads
<1>4. \A p \in BlockAt(root, h) : p \in DOMAIN d.root /\ root[p] = d.root[p]
  <2> SUFFICES ASSUME NEW p \in BlockAt(root, h)
               PROVE  p \in DOMAIN d.root /\ root[p] = d.root[p]
    BY Zenon
  <2>1. p \in DOMAIN root /\ root[p] = root[h]
    BY <1>3, Zenon DEF BlockAt, Blocks
  <2> QED
    BY <1>2, <2>1, Zenon DEF TreeOf
<1>5. Blocks(d.root) /\ \A p \in DOMAIN d.root : p < d.pgid
  BY Zenon DEF IInv, DurableInv, Readable
<1>6. FreelistOK(fl, d, root)
  BY LiveRootIs, Zenon DEF IInv, FreelistInv, WriterInv
<1>7. \A r \in DOMAIN txs : txs[r].txid <= d.txid /\ Kept(txs[r], fl, d, root)
  BY LiveRootIs, Zenon DEF IInv, ReaderInv
<1>8. /\ Blocks(R) /\ FreelistOK(g, d, R)
      /\ \A m \in Meta : m.txid <= d.txid /\ Kept(m, fl, d, root) => Kept(m, g, d, R)
  BY <1>1, <1>3, <1>4, <1>5, <1>6, FreeBlock, Zenon
<1>9. \A p \in DOMAIN R : p \in DOMAIN root /\ R[p] = root[p]
  BY DEF RemoveBlock
<1>10. TreeOf(d, R, wmeta.pgid)
  BY <1>2, <1>8, <1>9, Zenon DEF TreeOf
<1>11. g \in FreelistRecord /\ R \in Tree
  BY <1>1, <1>2, FreeNodeType, BlockAtType, Zenon
<1> QED
  BY <1>1, <1>2, <1>7, <1>8, <1>9, <1>10, <1>11, Zenon

\* What spill has freed before it allocates.
LEMMA SpillFreed ==
  ASSUME IInv, pc = "spill", NEW h \in OldHeads \cup {0}
  PROVE  LET f == IF h = 0 THEN fl
                  ELSE free(fl, wmeta.txid, h, BlockAt(wmeta.root, h))
             root == IF h = 0 THEN wmeta.root ELSE RemoveBlock(wmeta.root, h)
         IN  /\ f \in FreelistRecord /\ root \in Tree
             /\ TreeOf(Durable, root, wmeta.pgid)
             /\ FreelistOK(f, Durable, root)
             /\ \A r \in DOMAIN txs : Kept(txs[r], f, Durable, root)
<1>1. CASE h = 0
  <2>1. FreelistOK(fl, Durable, wmeta.root)
    BY LiveRootIs, Zenon DEF IInv, FreelistInv, WriterInv
  <2>2. \A r \in DOMAIN txs : Kept(txs[r], fl, Durable, wmeta.root)
    BY LiveRootIs, Zenon DEF IInv, ReaderInv
  <2> QED
    BY <1>1, <2>1, <2>2, InvTypes, Zenon DEF IInv, WriterInv
<1>2. CASE h # 0
  <2>1. h \in Heads(wmeta.root) /\ wmeta.root[h].tag # tag
    BY <1>2 DEF OldHeads
  <2> QED
    BY <1>2, <2>1, FreeNodePages, Zenon
<1> QED
  BY <1>1, <1>2, Zenon

=============================================================================
