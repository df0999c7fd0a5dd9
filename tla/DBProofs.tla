------------------------------ MODULE DBProofs ------------------------------
(***************************************************************************)
(* IInv is an invariant of DB, and with it: read transactions keep their   *)
(* snapshot, freePages, rollback and reload give away none of their pages, *)
(* and what a crash leaves behind can be opened.  Then what each step does *)
(* to the books of the freelist: its cache, its marks and its completeness.*)
(***************************************************************************)
EXTENDS PageProofs

-----------------------------------------------------------------------------
(* A write transaction changes its tree, or is abandoned: nodes freed and
   spilled, Rollback, and every step of Commit that fails. *)

\* What a failed transaction leaves behind is an idle state as good as the one
\* it began in: f and root are the freelist and the tree at the point of
\* failure, and what was written so far hit none of the pages that matter.
LEMMA RollbackInv ==
  ASSUME IInv, TypeOK', pc \notin {"idle", "metasync"},
         NEW f \in FreelistRecord, NEW root \in Tree,
         Blocks(root), FreelistOK(f, Durable, root),
         \A p \in DOMAIN root :
           root[p].tag # tag => p \in DOMAIN Durable.root /\ root[p] = Durable.root[p],
         \A r \in DOMAIN txs : Kept(txs[r], f, Durable, root),
         UNCHANGED <<meta, disk, opened, txs, tag>>, mapped' => mapped,
         flist'[Durable.flid % 2] = flist[Durable.flid % 2],
         \A p \in DOMAIN Durable.root : page'[p] = page[p],
         \A r \in DOMAIN txs : \A p \in DOMAIN txs[r].root : page'[p] = page[p],
         \/ FreelistType = "array" /\ physicalRollback(f)
         \/ fl' = rollback(f, wmeta.txid) /\ close
  PROVE  IInv'
<1> DEFINE d == Durable
           g == rollback(f, d.txid + 1)
<1>1. Durable' = Durable
  BY DEF Durable
<1>2. pc' = "idle" /\ wmeta' = NoMeta
  BY DEF physicalRollback, close
<1>3. /\ d \in Meta /\ d.txid \in Nat /\ d.root \in Tree /\ d.txid + 1 \in Txid
      /\ d.flid % 2 \in 0..1
      /\ \A r \in DOMAIN txs : txs[r] \in Meta
  BY InvTypes, OtherSlot
<1>4. wmeta.txid = d.txid + 1
  BY DEF IInv, WriterInv
<1>5. SlotInv'
  <2>1. SlotInv
    BY DEF IInv
  <2> QED
    BY <1>1, <1>2, <2>1 DEF SlotInv
<1>6. Current' = d
  <2>1. Current = d
    BY CurrentIs
  <2> QED
    BY <2>1 DEF Current
<1>7. DurableInv'
  <2>1. DurableInv
    BY DEF IInv
  <2>2. Readable(d, page', flist')
    BY <2>1, Zenon DEF DurableInv, Readable, Intact
  <2> QED
    BY <1>1, <1>2, <2>1, <2>2 DEF DurableInv
<1>8. opened /\ mapped
  BY DEF IInv, WriterInv
<1>9. WriterInv'
  BY <1>2, <1>8 DEF WriterInv
<1>10. ASSUME NEW r \in DOMAIN txs
       PROVE  /\ 1 <= txs[r].txid /\ txs[r].txid <= d.txid
              /\ Intact(txs[r].root, page)
              /\ \A p \in DOMAIN txs[r].root :
                   txs[r].root[p].tag # tag /\ txs[r].root[p].tag <= tag
  <2>1. \A p \in DOMAIN txs[r].root : txs[r].root[p].tag < tag /\ txs[r].root[p].tag <= tag
    BY DEF IInv, ReaderInv
  <2>2. \A p \in DOMAIN txs[r].root : txs[r].root[p].tag \in Nat
    BY InvTypes, TreeFields
  <2>3. tag \in Nat
    BY InvTypes
  <2> QED
    BY <2>1, <2>2, <2>3 DEF IInv, ReaderInv
<1>11. Blocks(d.root)
  BY Zenon DEF IInv, DurableInv, Readable
<1>12. /\ g \in FreelistRecord
       /\ FreelistOK(g, d, d.root) /\ NoneFreed(g, d)
       /\ \A r \in DOMAIN txs : Kept(txs[r], g, d, d.root)
  BY <1>3, <1>10, <1>11, RollbackPages, rollbackType, Zenon
<1>13. /\ FreelistOK(fl', d, d.root) /\ NoneFreed(fl', d)
       /\ \A r \in DOMAIN txs : Kept(txs[r], fl', d, d.root)
  <2> HIDE DEF g
  <2>1. CASE fl' = g
    BY <1>12, <2>1, Zenon
  <2>2. CASE FreelistType = "array" /\ fl' = reload(g, freelistPage'.ids)
    <3> DEFINE ids == freelistPage'.ids
    <3>1. freelistPage' = flist[d.flid % 2]
      BY <1>6, Zenon DEF freelistPage
    <3>2. flist[d.flid % 2] \in Region
      BY <1>3, Zenon DEF IInv, TypeOK
    <3>3. ids \in SUBSET Pgid
      BY <3>1, <3>2, Zenon DEF Region
    <3>4. \A p \in ids : p < d.pgid /\ p \notin DOMAIN d.root
      BY <3>1, Zenon DEF IInv, DurableInv, Readable
    <3> HIDE DEF ids
    <3> QED
      BY <1>3, <1>12, <2>2, <3>3, <3>4, ReloadPages, Zenon DEF ids
  <2> QED
    BY <1>4, <2>1, <2>2, Zenon DEF physicalRollback, g
<1>14. LiveRoot' = d.root
  BY <1>2, <1>6, Zenon DEF LiveRoot
<1>15. FreelistInv'
  BY <1>1, <1>13, <1>14 DEF FreelistInv
<1>16. ReaderInv'
  <2> SUFFICES ASSUME NEW r \in DOMAIN txs
               PROVE  /\ 1 <= txs[r].txid /\ txs[r].txid <= d.txid + 1
                      /\ txs[r].txid <= d.txid
                      /\ Intact(txs[r].root, page')
                      /\ \A p \in DOMAIN txs[r].root : txs[r].root[p].tag <= tag
                      /\ Kept(txs[r], fl', d, d.root)
    BY <1>1, <1>2, <1>14, Zenon DEF ReaderInv
  <2>1. txs[r].txid \in Nat
    BY <1>3, MetaFields, Zenon
  <2> QED
    BY <1>3, <1>10, <1>13, <2>1 DEF Intact
<1> QED
  BY <1>5, <1>7, <1>9, <1>15, <1>16, Zenon DEF IInv

\* A step of the writer's body or spill changes its tree and the freelist only.
LEMMA TreeStepInv ==
  ASSUME IInv, TypeOK', pc \in {"body", "spill"},
         NEW R \in Tree, NEW k \in Nat,
         wmeta' = WithTree(wmeta, R, k),
         UNCHANGED <<file, disk, opened, mapped, txs, pc, tag>>,
         TreeOf(Durable, R, k), FreelistOK(fl', Durable, R),
         \A r \in DOMAIN txs : Kept(txs[r], fl', Durable, R),
         pc = "body" => \A p \in DOMAIN R : R[p].tag # tag
  PROVE  IInv'
<1>1. Durable' = Durable
  BY DEF Durable
<1>2. /\ wmeta'.valid = wmeta.valid /\ wmeta'.txid = wmeta.txid
      /\ wmeta'.flid = wmeta.flid /\ wmeta'.root = R /\ wmeta'.pgid = k
  <2>1. wmeta \in Meta
    BY InvTypes
  <2> QED
    BY <2>1, WithTreeType
<1>3. SlotInv'
  BY <1>1, Zenon DEF IInv, SlotInv, file
<1>4. DurableInv'
  BY <1>1, Zenon DEF IInv, DurableInv, file
<1>5. WriterInv'
  <2>1. TreeOf(Durable, R, k)'
    BY <1>1 DEF TreeOf
  <2>2. pc = "body" => DirtyPages' = {}
    BY <1>2 DEF DirtyPages
  <2> QED
    BY <1>1, <1>2, <2>1, <2>2, Zenon DEF IInv, WriterInv, file
<1>6. LiveRoot' = R
  BY <1>2 DEF LiveRoot
<1>7. FreelistInv'
  BY <1>1, <1>6 DEF FreelistInv
<1>8. ReaderInv'
  BY <1>1, <1>6, Zenon DEF IInv, ReaderInv, file
<1> QED
  BY <1>3, <1>4, <1>5, <1>7, <1>8 DEF IInv

\* DeleteBucket frees pages of the writer's tree only.
LEMMA DeleteBucketInv ==
  ASSUME IInv, TypeOK', NEW h \in Heads(wmeta.root), DeleteBucket(h)
  PROVE  IInv'
<1>1. wmeta.root[h].tag # tag
  <2>1. h \in DOMAIN wmeta.root
    BY Zenon DEF DeleteBucket, IInv, WriterInv, TreeOf, Blocks, Heads
  <2> QED
    BY <2>1 DEF DeleteBucket, IInv, WriterInv, DirtyPages
<1> DEFINE R == RemoveBlock(wmeta.root, h)
<1>2. /\ R \in Tree /\ wmeta.pgid \in Nat
      /\ TreeOf(Durable, R, wmeta.pgid) /\ FreelistOK(fl', Durable, R)
      /\ \A r \in DOMAIN txs : Kept(txs[r], fl', Durable, R)
  BY <1>1, FreeNodePages, InvTypes, Zenon DEF DeleteBucket, FreeNode
<1>3. \A p \in DOMAIN R : R[p].tag # tag
  BY Zenon DEF RemoveBlock, DeleteBucket, IInv, WriterInv, DirtyPages
<1> HIDE DEF R
<1> QED
  BY <1>2, <1>3, TreeStepInv DEF DeleteBucket, FreeNode, R

\* A node taken out by rebalance is freed like any other.
LEMMA RebalanceInv ==
  ASSUME IInv, TypeOK', NEW h \in OldHeads, Rebalance(h)
  PROVE  IInv'
<1> DEFINE R == RemoveBlock(wmeta.root, h)
<1>1. h \in Heads(wmeta.root) /\ wmeta.root[h].tag # tag
  BY DEF OldHeads
<1>2. /\ R \in Tree /\ wmeta.pgid \in Nat
      /\ TreeOf(Durable, R, wmeta.pgid) /\ FreelistOK(fl', Durable, R)
      /\ \A r \in DOMAIN txs : Kept(txs[r], fl', Durable, R)
  BY <1>1, FreeNodePages, InvTypes, Zenon DEF Rebalance, FreeNode
<1> HIDE DEF R
<1> QED
  BY <1>2, TreeStepInv DEF Rebalance, FreeNode, R

\* Putting a new block into the writer's tree.
LEMMA NewBlockTree ==
  ASSUME IInv, NEW root \in Tree, NEW s \in Pgid, NEW n \in Nat, NEW j \in Nat,
         NEW k \in Nat, TreeOf(Durable, root, j), j <= k,
         Run(s, n) \subseteq Pgid, Blocks(InsertBlock(root, s, n)),
         \A p \in Run(s, n) : p < k /\ p \notin DOMAIN Durable.root
  PROVE  TreeOf(Durable, InsertBlock(root, s, n), k)
<1> DEFINE R == InsertBlock(root, s, n)
<1>1. /\ DOMAIN R = DOMAIN root \cup Run(s, n)
      /\ \A p \in Run(s, n) : R[p] = [head |-> s, tag |-> tag]
      /\ \A p \in DOMAIN root \ Run(s, n) : R[p] = root[p]
  BY DEF InsertBlock
<1>2. tag \in Nat /\ Durable.pgid \in Nat
  BY InvTypes
<1> HIDE DEF R
<1>3. ASSUME NEW p \in DOMAIN R
      PROVE  /\ p < k
             /\ R[p].tag <= tag
             /\ IF R[p].tag = tag THEN p \notin DOMAIN Durable.root
                ELSE p \in DOMAIN Durable.root /\ R[p] = Durable.root[p]
  <2>1. CASE p \in Run(s, n)
    BY <1>1, <1>2, <2>1, SMTT(30)
  <2>2. CASE p \in DOMAIN root \ Run(s, n)
    <3>1. p \in Nat
      BY <2>2, TreeFields
    <3> QED
      BY <1>1, <1>2, <2>2, <3>1 DEF TreeOf
  <2> QED
    BY <1>1, <2>1, <2>2, Zenon
<1>4. Durable.pgid <= k
  BY <1>2 DEF TreeOf
<1> QED
  BY <1>3, <1>4, Zenon DEF TreeOf, R

\* spill frees a node and puts its new block where no tree or reader has pages.
LEMMA SpillNodeInv ==
  ASSUME IInv, TypeOK', NEW h \in OldHeads \cup {0}, NEW n \in 1 .. MaxRun,
         SpillNode(h, n)
  PROVE  IInv'
<1> DEFINE d == Durable
           f == IF h = 0 THEN fl
                ELSE free(fl, wmeta.txid, h, BlockAt(wmeta.root, h))
           root == IF h = 0 THEN wmeta.root ELSE RemoveBlock(wmeta.root, h)
<1>1. /\ pc = "spill"
      /\ UNCHANGED <<file, disk, opened, mapped, txs, pc, tag>>
      /\ \/ \E s \in Candidates(f.free, n) :
              /\ fl' = allocate(f, wmeta.txid, s, n)
              /\ wmeta' = WithTree(wmeta, InsertBlock(root, s, n), wmeta.pgid)
         \/ /\ Run(wmeta.pgid, n) \subseteq Pgid
            /\ fl' = f
            /\ wmeta' = WithTree(wmeta, InsertBlock(root, wmeta.pgid, n),
                                 wmeta.pgid + n)
  BY Zenon DEF SpillNode
<1>2. /\ f \in FreelistRecord /\ root \in Tree
      /\ TreeOf(d, root, wmeta.pgid)
      /\ FreelistOK(f, d, root)
      /\ \A r \in DOMAIN txs : Kept(txs[r], f, d, root)
  BY <1>1, SpillFreed, Zenon
<1> HIDE DEF f, root
<1>3. /\ d \in Meta /\ d.txid + 1 \in Txid /\ d.pgid \in Nat /\ wmeta.pgid \in Nat
      /\ wmeta.txid = d.txid + 1 /\ tag \in Tag /\ d.root \in Tree
      /\ \A r \in DOMAIN txs : txs[r] \in Meta
  BY <1>1, InvTypes, OtherSlot, Zenon DEF IInv, WriterInv, TypeOK
<1>4. n \in Nat /\ n >= 1
  BY DBAssumption
<1>5. Blocks(root) /\ Blocks(d.root) /\ d.pgid <= wmeta.pgid
  BY <1>2, Zenon DEF TreeOf, IInv, DurableInv, Readable
<1>6. ASSUME NEW s \in Candidates(f.free, n),
             fl' = allocate(f, wmeta.txid, s, n),
             wmeta' = WithTree(wmeta, InsertBlock(root, s, n), wmeta.pgid)
      PROVE  IInv'
  <2>1. s \in Pgid /\ Run(s, n) \subseteq Pgid /\ Run(s, n) \subseteq f.free
    BY <1>2, FreelistFields DEF Candidates
  <2>2. /\ fl' \in FreelistRecord
        /\ fl'.pending = f.pending /\ fl'.free = f.free \ Run(s, n)
        /\ fl'.allocs = [f.allocs EXCEPT ![s] = d.txid + 1]
    BY <1>2, <1>3, <1>4, <1>6, <2>1, allocateType, Zenon DEF allocate
  <2>3. \A p \in Run(s, n) : /\ p \notin DOMAIN root /\ p \notin DOMAIN d.root
                             /\ p < d.pgid
                             /\ p \notin fl'.free
                             /\ \A x \in f.pending : x.id # p
    BY <1>2, <2>1, <2>2, Zenon DEF FreelistOK, PendingOK
  <2> DEFINE R == InsertBlock(root, s, n)
  <2>4. /\ Blocks(R) /\ FreelistOK(fl', d, R)
        /\ \A m \in Meta : Kept(m, f, d, root) => Kept(m, fl', d, R)
    BY <1>2, <1>3, <1>4, <1>5, <2>1, <2>2, <2>3, InsertPages, Zenon
  <2>5. TreeOf(d, R, wmeta.pgid)
    <3>1. \A p \in Run(s, n) : p < wmeta.pgid
      BY <1>3, <1>5, <2>1, <2>3, PgidNat, SMTT(30)
    <3> QED
      BY <1>2, <1>3, <1>4, <2>1, <2>3, <2>4, <3>1, NewBlockTree, SMTT(30)
  <2>6. R \in Tree
    BY <1>2, <1>3, <2>1, InsertBlockType, Zenon
  <2> HIDE DEF R
  <2> QED
    BY <1>1, <1>2, <1>3, <1>6, <2>4, <2>5, <2>6, TreeStepInv, Zenon DEF R
<1>7. ASSUME Run(wmeta.pgid, n) \subseteq Pgid,
             fl' = f,
             wmeta' = WithTree(wmeta, InsertBlock(root, wmeta.pgid, n),
                               wmeta.pgid + n)
      PROVE  IInv'
  <2> DEFINE s == wmeta.pgid
             R == InsertBlock(root, s, n)
             k == s + n
  <2>1. s \in Pgid /\ Run(s, n) \subseteq Pgid /\ k \in Nat /\ s <= k
    BY <1>3, <1>4, <1>7, SMTT(30) DEF Run
  <2>2. \A p \in Run(s, n) : p \in Nat /\ s <= p /\ p < k
    BY <1>3, <1>4 DEF Run
  <2>3. ASSUME NEW p \in Run(s, n)
        PROVE  /\ p \notin DOMAIN root /\ p \notin DOMAIN d.root
               /\ p \notin f.free
               /\ \A x \in f.pending : x.id # p
    <3>1. \A q \in DOMAIN root : q \in Nat /\ q < s
      BY <1>2, TreeFields, Zenon DEF TreeOf
    <3>2. \A q \in DOMAIN d.root : q \in Nat /\ q < d.pgid
      BY <1>3, TreeFields, Zenon DEF IInv, DurableInv, Readable
    <3>3. \A q \in f.free : q \in Nat /\ q < d.pgid
      BY <1>2, FreelistFields, PgidNat DEF FreelistOK
    <3>4. \A x \in f.pending : x.id \in Nat /\ x.id < d.pgid
      BY <1>2, FreelistFields, PgidNat, Zenon DEF FreelistOK, PendingOK
    <3> QED
      BY <1>3, <1>5, <2>2, <3>1, <3>2, <3>3, <3>4, SMTT(30)
  <2>4. /\ Blocks(R) /\ FreelistOK(f, d, R)
        /\ \A m \in Meta : Kept(m, f, d, root) => Kept(m, f, d, R)
    BY <1>2, <1>3, <1>4, <1>5, <2>1, <2>3, InsertPages, Zenon
  <2>5. TreeOf(d, R, k)
    BY <1>2, <1>3, <1>4, <2>1, <2>2, <2>3, <2>4, NewBlockTree, Zenon
  <2>6. R \in Tree
    BY <1>2, <1>3, <2>1, InsertBlockType, Zenon
  <2>7. wmeta' = WithTree(wmeta, R, k)
    BY <1>7
  <2> HIDE DEF R, k
  <2> QED
    BY <1>1, <1>2, <1>3, <1>7, <2>1, <2>4, <2>5, <2>6, <2>7, TreeStepInv, Zenon
<1> QED
  BY <1>1, <1>6, <1>7

\* Every failure before the meta page is written, with nothing else changed.
LEMMA FailInv ==
  ASSUME IInv, TypeOK', pc \notin {"idle", "metasync"},
         UNCHANGED <<file, disk, opened, mapped, txs, tag>>,
         (FreelistType = "array" /\ physicalRollback(fl)) \/ nonPhysicalRollback
  PROVE  IInv'
<1>1. fl \in FreelistRecord /\ wmeta.root \in Tree
  BY InvTypes
<1>2. TreeOf(Durable, wmeta.root, wmeta.pgid) /\ opened
  BY Zenon DEF IInv, WriterInv
<1>3. /\ Blocks(wmeta.root)
      /\ \A p \in DOMAIN wmeta.root : wmeta.root[p].tag # tag =>
           p \in DOMAIN Durable.root /\ wmeta.root[p] = Durable.root[p]
  BY <1>2 DEF TreeOf
<1>4. FreelistOK(fl, Durable, wmeta.root)
  BY <1>2, LiveRootIs DEF IInv, FreelistInv
<1>5. \A r \in DOMAIN txs : Kept(txs[r], fl, Durable, wmeta.root)
  BY LiveRootIs, Zenon DEF IInv, ReaderInv
<1> QED
  BY <1>1, <1>3, <1>4, <1>5, RollbackInv, Zenon DEF file, nonPhysicalRollback

\* A spill whose allocation cannot grow the file ends in a rollback.
LEMMA SpillFailsInv ==
  ASSUME IInv, TypeOK', FreelistType = "array",
         NEW h \in OldHeads \cup {0}, NEW n \in 1 .. MaxRun, SpillFails(h, n)
  PROVE  IInv'
<1> DEFINE f == IF h = 0 THEN fl
                ELSE free(fl, wmeta.txid, h, BlockAt(wmeta.root, h))
           root == IF h = 0 THEN wmeta.root ELSE RemoveBlock(wmeta.root, h)
<1>1. /\ pc = "spill" /\ UNCHANGED <<file, disk, opened, txs, tag>>
      /\ physicalRollback(f)
      /\ mapped' = mapped \/ mapped' = FALSE
  BY DEF SpillFails
<1>2. /\ f \in FreelistRecord /\ root \in Tree
      /\ TreeOf(Durable, root, wmeta.pgid)
      /\ FreelistOK(f, Durable, root)
      /\ \A r \in DOMAIN txs : Kept(txs[r], f, Durable, root)
  BY <1>1, SpillFreed, Zenon
<1> HIDE DEF f, root
<1>3. /\ Blocks(root)
      /\ \A p \in DOMAIN root : root[p].tag # tag =>
           p \in DOMAIN Durable.root /\ root[p] = Durable.root[p]
  BY <1>2, Zenon DEF TreeOf
<1> QED
  BY <1>1, <1>2, <1>3, RollbackInv, SMTT(30) DEF file

\* Neither does a write that stops half-way, after which Commit rolls back.
LEMMA WriteFailsInv ==
  ASSUME IInv, TypeOK', FreelistType = "array", WriteFails
  PROVE  IInv'
<1> DEFINE d == Durable
           s == wmeta.flid % 2
<1>1. /\ pc = "write" /\ physicalRollback(fl)
      /\ UNCHANGED <<meta, disk, opened, mapped, txs, tag>>
  BY DEF WriteFails
<1>2. /\ d.root \in Tree /\ wmeta.root \in Tree /\ fl \in FreelistRecord
      /\ \A r \in DOMAIN txs : txs[r].root \in Tree
      /\ flist \in [0..1 -> Region]
  BY InvTypes, Zenon DEF TypeInv, TypeOK
<1>3. \E v : flist' = [flist EXCEPT ![s] = v]
  BY DEF WriteFails
<1>4. flist'[d.flid % 2] = flist[d.flid % 2]
  BY <1>1, <1>2, <1>3, OtherSlot, InvTypes, Zenon
<1>5. \A p \in Pgid : p \notin DirtyPages => page'[p] = page[p]
  BY DEF WriteFails
<1>6. /\ \A p \in DOMAIN d.root : page'[p] = page[p]
      /\ \A r \in DOMAIN txs : \A p \in DOMAIN txs[r].root : page'[p] = page[p]
  BY <1>1, <1>2, <1>5, DirtyApart, TreeFields, Zenon
<1>7. TreeOf(d, wmeta.root, wmeta.pgid) /\ opened
  BY <1>1, Zenon DEF IInv, WriterInv
<1>8. /\ Blocks(wmeta.root)
      /\ \A p \in DOMAIN wmeta.root : wmeta.root[p].tag # tag =>
           p \in DOMAIN d.root /\ wmeta.root[p] = d.root[p]
  BY <1>7 DEF TreeOf
<1>9. FreelistOK(fl, d, wmeta.root)
  BY <1>1, <1>7, LiveRootIs DEF IInv, FreelistInv
<1>10. \A r \in DOMAIN txs : Kept(txs[r], fl, d, wmeta.root)
  BY <1>1, LiveRootIs, Zenon DEF IInv, ReaderInv
<1> QED
  BY <1>1, <1>2, <1>4, <1>6, <1>8, <1>9, <1>10, RollbackInv, Zenon

-----------------------------------------------------------------------------
(* Transactions begin, a read transaction ends, and the steps of a Commit that
   succeeds. *)

\* A read transaction begins with the current tree, all pages of which are live
\* or were freed after it.
LEMMA BeginReadInv ==
  ASSUME IInv, TypeOK', NEW r \in Reader, BeginRead(r)
  PROVE  IInv'
<1> DEFINE d == Durable
           m == Current
<1>1. UNCHANGED <<file, disk, opened, mapped, fl, pc, wmeta, tag>> /\ opened
  BY DEF BeginRead
<1>2. Durable' = d /\ LiveRoot' = LiveRoot /\ Current' = Current
  BY <1>1 DEF Durable, LiveRoot, Current, file
<1>3. SlotInv' /\ DurableInv' /\ FreelistInv'
  BY <1>1, <1>2, Zenon DEF IInv, SlotInv, DurableInv, FreelistInv, file
<1>4. WriterInv'
  <2>1. DirtyPages' = DirtyPages
    BY <1>1 DEF DirtyPages
  <2> QED
    BY <1>1, <1>2, <2>1, Zenon DEF IInv, WriterInv, TreeOf, file
<1>5. /\ d.txid \in Nat /\ d.root \in Tree /\ wmeta.root \in Tree
      /\ fl \in FreelistRecord
  BY InvTypes
<1>6. FreelistOK(fl, d, LiveRoot) /\ 1 <= d.txid
  BY <1>1, Zenon DEF IInv, FreelistInv, SlotInv
<1>7. /\ 1 <= m.txid /\ m.txid <= d.txid + 1
      /\ pc # "metasync" => m.txid <= d.txid
      /\ Intact(m.root, page)
      /\ \A p \in DOMAIN m.root :
           /\ m.root[p].tag <= tag
           /\ pc \notin {"idle", "metasync"} => m.root[p].tag < tag
      /\ Kept(m, fl, d, LiveRoot)
  <2>1. CASE pc = "metasync"
    <3>1. m = wmeta /\ LiveRoot = wmeta.root
      BY <2>1, CurrentIs, LiveRootIs
    <3>2. /\ wmeta.txid = d.txid + 1 /\ Intact(wmeta.root, page)
          /\ \A p \in DOMAIN wmeta.root : wmeta.root[p].tag <= tag
      BY <2>1, Zenon DEF IInv, WriterInv, TreeOf
    <3>3. Kept(wmeta, fl, d, wmeta.root)
      <4>1. \A p \in DOMAIN wmeta.root : fl.allocs[wmeta.root[p].head] <= wmeta.txid
        BY <1>5, <1>6, <3>2, TreeFields, Zenon DEF FreelistOK
      <4> QED
        BY <4>1, Zenon DEF Kept, KeptPage
    <3> QED
      BY <1>5, <1>6, <2>1, <3>1, <3>2, <3>3
  <2>2. CASE pc # "metasync"
    <3>1. m = d
      BY <2>2, CurrentIs
    <3>2. /\ Intact(d.root, page)
          /\ \A p \in DOMAIN d.root :
               d.root[p].tag <= tag /\ (pc # "idle" => d.root[p].tag < tag)
      BY Zenon DEF IInv, DurableInv, Readable
    <3>3. ASSUME NEW p \in DOMAIN d.root PROVE KeptPage(p, d, fl, d, LiveRoot)
      <4>1. LiveOrFreed(p, fl, d, LiveRoot)
        BY <1>6, Zenon DEF FreelistOK
      <4>2. CASE p \in DOMAIN LiveRoot
        BY <4>1, <4>2, Zenon DEF LiveOrFreed, KeptPage
      <4>3. CASE p \notin DOMAIN LiveRoot
        <5>1. PICK x \in fl.pending : x.id = p /\ x.tid = d.txid + 1
          BY <4>1, <4>3 DEF LiveOrFreed
        <5>2. PendingOK(x, fl, d, LiveRoot)
          BY <1>6, Zenon DEF FreelistOK
        <5>3. x.atx <= d.txid /\ d.txid < x.tid
          BY <1>5, <5>1, <5>2 DEF PendingOK
        <5> QED
          BY <5>1, <5>3, Zenon DEF KeptPage
      <4> QED
        BY <4>2, <4>3
    <3> QED
      BY <1>5, <1>6, <2>2, <3>1, <3>2, <3>3 DEF Kept
  <2> QED
    BY <2>1, <2>2, Zenon
<1> HIDE DEF m
<1>8. ASSUME NEW q \in DOMAIN txs'
      PROVE  txs'[q] = m \/ (q \in DOMAIN txs /\ txs'[q] = txs[q])
  BY DEF BeginRead, m
<1>9. ReaderInv'
  <2>1. ReaderInv
    BY DEF IInv
  <2> SUFFICES ASSUME NEW q \in DOMAIN txs'
               PROVE  /\ 1 <= txs'[q].txid /\ txs'[q].txid <= d.txid + 1
                      /\ pc # "metasync" => txs'[q].txid <= d.txid
                      /\ Intact(txs'[q].root, page)
                      /\ \A p \in DOMAIN txs'[q].root :
                           /\ txs'[q].root[p].tag <= tag
                           /\ pc \notin {"idle", "metasync"} =>
                                txs'[q].root[p].tag < tag
                      /\ Kept(txs'[q], fl, d, LiveRoot)
    BY <1>1, <1>2, Zenon DEF ReaderInv, file
  <2>2. CASE txs'[q] = m
    BY <1>7, <2>2, Zenon
  <2>3. CASE q \in DOMAIN txs /\ txs'[q] = txs[q]
    BY <2>1, <2>3, Zenon DEF ReaderInv
  <2> QED
    BY <1>8, <2>2, <2>3, Zenon
<1> QED
  BY <1>3, <1>4, <1>9 DEF IInv

\* A read transaction that ends takes nothing from the others.
LEMMA EndReadInv ==
  ASSUME IInv, TypeOK', NEW r \in Reader, EndRead(r)
  PROVE  IInv'
<1>1. /\ UNCHANGED <<file, disk, opened, mapped, fl, pc, wmeta, tag>>
      /\ DOMAIN txs' \subseteq DOMAIN txs
      /\ \A q \in DOMAIN txs' : txs'[q] = txs[q]
  BY DEF EndRead
<1>2. Durable' = Durable /\ LiveRoot' = LiveRoot
  BY <1>1 DEF Durable, LiveRoot, Current, file
<1>3. SlotInv' /\ DurableInv' /\ FreelistInv'
  BY <1>1, <1>2, Zenon DEF IInv, SlotInv, DurableInv, FreelistInv, file
<1>4. WriterInv'
  <2>1. DirtyPages' = DirtyPages
    BY <1>1 DEF DirtyPages
  <2> QED
    BY <1>1, <1>2, <2>1, Zenon DEF IInv, WriterInv, TreeOf, file
<1>5. ReaderInv'
  BY <1>1, <1>2, Zenon DEF IInv, ReaderInv, file
<1> QED
  BY <1>3, <1>4, <1>5 DEF IInv

\* freePages, called when a write transaction begins, spares every reader.
LEMMA BeginRWInv ==
  ASSUME IInv, TypeOK', BeginRW
  PROVE  IInv'
<1> DEFINE d == Durable
           T == {txs[r].txid : r \in DOMAIN txs}
<1>1. /\ opened /\ mapped /\ pc = "idle" /\ pc' = "body" /\ tag' = tag + 1
      /\ wmeta' = NextMeta(d) /\ fl' = freePages(fl, T) /\ d.txid < MaxTxid
      /\ UNCHANGED <<file, disk, opened, mapped, txs>>
  BY CurrentIs, Zenon DEF BeginRW
<1>2. /\ d \in Meta /\ d.txid \in Nat /\ d.pgid \in Nat /\ d.root \in Tree
      /\ fl \in FreelistRecord /\ tag \in Nat
      /\ \A r \in DOMAIN txs : txs[r] \in Meta
  BY InvTypes
<1>3. Durable' = d
  BY <1>1, Zenon DEF Durable
<1>4. /\ wmeta'.valid = d.valid /\ wmeta'.txid = d.txid + 1
      /\ wmeta'.flid = d.flid + 1 /\ wmeta'.root = d.root /\ wmeta'.pgid = d.pgid
  BY <1>1, <1>2, NextMetaType, Zenon
<1>5. SlotInv'
  BY <1>1, <1>3, Zenon DEF IInv, SlotInv, file
<1>6. ASSUME NEW p \in DOMAIN d.root
      PROVE  d.root[p].tag <= tag' /\ d.root[p].tag < tag' /\ d.root[p].tag # tag'
  <2>1. d.root[p].tag <= tag /\ d.root[p].tag \in Nat
    BY <1>2, TreeFields, Zenon DEF IInv, DurableInv
  <2> QED
    BY <1>1, <1>2, <2>1
<1>7. DurableInv'
  BY <1>1, <1>3, <1>6, Zenon DEF IInv, DurableInv, file
<1>8. WriterInv'
  <2>1. TreeOf(d, d.root, d.pgid)'
    BY <1>2, <1>3, <1>6 DEF TreeOf, IInv, DurableInv, Readable
  <2>2. DirtyPages' = {}
    BY <1>4, <1>6 DEF DirtyPages
  <2>3. d.valid /\ d.txid + 1 <= MaxTxid
    BY <1>1, <1>2, FreelistAssumption DEF IInv, SlotInv
  <2> QED
    BY <1>1, <1>3, <1>4, <2>1, <2>2, <2>3, ZenonT(60) DEF WriterInv
<1>9. LiveRoot = d.root /\ LiveRoot' = d.root
  BY <1>1, <1>4, LiveRootIs, Zenon DEF LiveRoot
<1>10. /\ FreelistOK(fl', d, d.root)
       /\ \A m \in Meta : m.txid \in T /\ Kept(m, fl, d, d.root)
                            => Kept(m, fl', d, d.root)
  <2>1. T \in SUBSET Nat
    BY <1>2, MetaFields
  <2>2. FreelistOK(fl, d, d.root) /\ NoneFreed(fl, d)
    BY <1>1, <1>9, Zenon DEF IInv, FreelistInv
  <2> QED
    BY <1>1, <1>2, <2>1, <2>2, BeginPages, Zenon
<1>11. FreelistInv'
  BY <1>1, <1>3, <1>9, <1>10, Zenon DEF FreelistInv
<1>12. ReaderInv'
  <2> SUFFICES ASSUME NEW r \in DOMAIN txs
               PROVE  /\ 1 <= txs[r].txid /\ txs[r].txid <= d.txid + 1
                      /\ txs[r].txid <= d.txid
                      /\ Intact(txs[r].root, page)
                      /\ \A p \in DOMAIN txs[r].root :
                           txs[r].root[p].tag <= tag' /\ txs[r].root[p].tag < tag'
                      /\ Kept(txs[r], fl', d, d.root)
    BY <1>1, <1>3, <1>9, Zenon DEF ReaderInv, file
  <2>1. /\ 1 <= txs[r].txid /\ txs[r].txid <= d.txid + 1
        /\ txs[r].txid <= d.txid
        /\ Intact(txs[r].root, page)
        /\ \A p \in DOMAIN txs[r].root : txs[r].root[p].tag <= tag
        /\ Kept(txs[r], fl, d, d.root)
    BY <1>1, <1>9, Zenon DEF IInv, ReaderInv
  <2>2. \A p \in DOMAIN txs[r].root : txs[r].root[p].tag \in Nat
    BY <1>2, MetaFields, TreeFields, Zenon
  <2> QED
    BY <1>1, <1>2, <1>10, <2>1, <2>2
<1> QED
  BY <1>5, <1>7, <1>8, <1>11, <1>12 DEF IInv

\* A step that moves pc on, and may sync, leaves the invariant's state alone.
LEMMA AdvanceInv ==
  ASSUME IInv, TypeOK', pc \in {"body", "spill", "sync"},
         UNCHANGED <<file, opened, mapped, fl, txs, wmeta, tag>>,
         UNCHANGED disk \/ Synced,
         \/ pc = "body" /\ pc' = "spill"
         \/ pc = "spill" /\ pc' = "write"
         \/ pc = "sync" /\ pc' = "meta" /\ Synced
  PROVE  IInv'
<1> DEFINE d == Durable
<1>1. /\ d = CurrentOf(meta)
      /\ d.txid % 2 \in 0..1 /\ 1 - (d.txid % 2) \in 0..1 /\ d.flid % 2 \in 0..1
  BY CurrentIs, InvTypes, Zenon DEF Current
<1>2. Durable' = d
  BY <1>1 DEF Durable, Synced
<1>3. SlotInv'
  BY <1>2 DEF IInv, SlotInv, Synced, file
<1>4. DurableInv'
  BY <1>2 DEF IInv, DurableInv, Synced, file
<1>5. WriterInv'
  <2>1. TreeOf(d, wmeta.root, wmeta.pgid)'
    BY <1>2, Zenon DEF IInv, WriterInv, TreeOf
  <2> QED
    BY <1>2, <2>1 DEF IInv, WriterInv, Synced, file
<1>6. LiveRoot' = LiveRoot
  BY DEF LiveRoot
<1>7. FreelistInv'
  BY <1>2, <1>6 DEF IInv, FreelistInv
<1>8. ReaderInv'
  BY <1>2, <1>6, Zenon DEF IInv, ReaderInv, file
<1> QED
  BY <1>3, <1>4, <1>5, <1>7, <1>8 DEF IInv

\* Writing the dirty pages leaves the durable tree and the readers' alone.
LEMMA WritePagesInv ==
  ASSUME IInv, TypeOK', WritePages
  PROVE  IInv'
<1> DEFINE d == Durable
           s == wmeta.flid % 2
<1>1. /\ pc = "write" /\ pc' = "sync"
      /\ flist' = [flist EXCEPT ![s] = [ok |-> TRUE, ids |-> copyall(fl)]]
      /\ page' = [p \in Pgid |-> IF p \in DirtyPages THEN tag ELSE page[p]]
      /\ UNCHANGED <<meta, disk, opened, mapped, fl, txs, wmeta, tag>>
  BY Zenon DEF WritePages
<1>2. Durable' = d /\ LiveRoot' = LiveRoot
  BY <1>1, Zenon DEF Durable, LiveRoot
<1>3. /\ d.root \in Tree /\ wmeta.root \in Tree
      /\ \A r \in DOMAIN txs : txs[r].root \in Tree
      /\ flist \in [0..1 -> Region]
  BY InvTypes, Zenon DEF TypeInv, TypeOK
<1>4. flist'[d.flid % 2] = flist[d.flid % 2]
  BY <1>1, <1>3, OtherSlot, InvTypes, Zenon
<1>5. flist'[s] = [ok |-> TRUE, ids |-> copyall(fl)]
  BY <1>1, <1>3, OtherSlot, Zenon
<1>6. /\ \A p \in DOMAIN d.root : page'[p] = page[p]
      /\ \A r \in DOMAIN txs : \A p \in DOMAIN txs[r].root : page'[p] = page[p]
  BY <1>1, <1>3, DirtyApart, TreeFields, Zenon
<1>7. SlotInv'
  BY <1>1, <1>2, Zenon DEF IInv, SlotInv
<1>8. DurableInv'
  <2>1. DurableInv
    BY DEF IInv
  <2>2. Readable(d, page', flist')
    BY <1>4, <1>6, <2>1, Zenon DEF DurableInv, Readable, Intact
  <2> QED
    BY <1>1, <1>2, <1>4, <2>1, <2>2, Zenon DEF DurableInv
<1>9. WriterInv'
  <2>1. Intact(wmeta.root, page')
    <3> SUFFICES ASSUME NEW p \in DOMAIN wmeta.root
                 PROVE  page'[p] = wmeta.root[p].tag
      BY DEF Intact
    <3>1. p \in Pgid
      BY <1>3, TreeFields
    <3>2. CASE p \in DirtyPages
      BY <1>1, <3>1, <3>2, Zenon DEF DirtyPages
    <3>3. CASE p \notin DirtyPages
      <4>1. p \in DOMAIN d.root /\ wmeta.root[p] = d.root[p]
        BY <1>1, <3>3, Zenon DEF DirtyPages, IInv, WriterInv, TreeOf
      <4> QED
        BY <1>6, <4>1, Zenon DEF IInv, DurableInv, Readable, Intact
    <3> QED
      BY <3>2, <3>3
  <2>2. TreeOf(d, wmeta.root, wmeta.pgid)'
    BY <1>1, <1>2, Zenon DEF IInv, WriterInv, TreeOf
  <2> QED
    BY <1>1, <1>2, <1>5, <2>1, <2>2, Zenon DEF IInv, WriterInv
<1>10. FreelistInv'
  BY <1>1, <1>2, Zenon DEF IInv, FreelistInv
<1>11. ReaderInv'
  BY <1>1, <1>2, <1>6, Zenon DEF IInv, ReaderInv, Intact
<1> QED
  BY <1>7, <1>8, <1>9, <1>10, <1>11 DEF IInv

\* The writer's meta goes to the slot that is not the durable one.
LEMMA WriteMetaInv ==
  ASSUME IInv, TypeOK', BeginWriteMeta \/ WriteMeta
  PROVE  IInv'
<1> DEFINE d == Durable
           s == d.txid % 2
<1>1. /\ pc \in {"meta", "torn"}
      /\ UNCHANGED <<page, flist, disk, opened, mapped, fl, txs, wmeta, tag>>
      /\ \/ pc' = "torn" /\ meta' = [meta EXCEPT ![wmeta.txid % 2] = NoMeta]
         \/ pc' = "metasync" /\ meta' = [meta EXCEPT ![wmeta.txid % 2] = wmeta]
  BY Zenon DEF BeginWriteMeta, WriteMeta
<1>2. /\ s \in 0..1 /\ 1 - s \in 0..1 /\ wmeta.txid % 2 = 1 - s /\ s # 1 - s
      /\ meta \in [0..1 -> Meta]
  BY <1>1, InvTypes, OtherSlot DEF TypeInv, TypeOK
<1>3. Durable' = d /\ LiveRoot' = LiveRoot
  BY <1>1, Zenon DEF Durable, LiveRoot
<1>4. /\ meta'[s] = meta[s]
      /\ \/ pc' = "torn" /\ Older(meta'[1 - s], d)
         \/ pc' = "metasync" /\ meta'[1 - s] = wmeta
  <2> HIDE DEF s
  <2> QED
    BY <1>1, <1>2 DEF Older, NoMeta
<1>5. SlotInv'
  <2>1. SlotInv
    BY DEF IInv
  <2> QED
    BY <1>1, <1>3, <1>4, <2>1, Zenon DEF SlotInv
<1>6. DurableInv'
  BY <1>1, <1>3, Zenon DEF IInv, DurableInv
<1>7. WriterInv'
  <2>1. TreeOf(d, wmeta.root, wmeta.pgid)'
    BY <1>1, <1>3, Zenon DEF IInv, WriterInv, TreeOf
  <2> QED
    BY <1>1, <1>3, <2>1, Zenon DEF IInv, WriterInv
<1>8. FreelistInv'
  BY <1>1, <1>3 DEF IInv, FreelistInv
<1>9. ReaderInv'
  BY <1>1, <1>3, Zenon DEF IInv, ReaderInv
<1> QED
  BY <1>5, <1>6, <1>7, <1>8, <1>9 DEF IInv

\* Once its pages are synced, the writer's tree is fit to be the durable one.
LEMMA WriterReadable ==
  ASSUME IInv, pc = "metasync"
  PROVE  Readable(wmeta, page, flist)
<1> DEFINE ids == flist[wmeta.flid % 2].ids
<1>1. /\ TreeOf(Durable, wmeta.root, wmeta.pgid) /\ Intact(wmeta.root, page)
      /\ flist[wmeta.flid % 2] = [ok |-> TRUE, ids |-> copyall(fl)]
      /\ opened
  BY Zenon DEF IInv, WriterInv
<1>2. FreelistOK(fl, Durable, wmeta.root)
  BY <1>1, LiveRootIs, Zenon DEF IInv, FreelistInv
<1>3. ids = fl.free \cup Ids(fl.pending)
  BY <1>1 DEF copyall
<1>4. ASSUME NEW p \in ids
      PROVE  p < Durable.pgid /\ p \notin DOMAIN wmeta.root /\ p \in Nat
  <2>1. CASE p \in fl.free
    BY <1>2, <2>1, InvTypes, FreelistFields, PgidNat, Zenon DEF FreelistOK
  <2>2. ASSUME NEW x \in fl.pending, x.id = p
        PROVE  p < Durable.pgid /\ p \notin DOMAIN wmeta.root /\ p \in Nat
    BY <1>2, <2>2, InvTypes, FreelistFields, PgidNat, Zenon DEF FreelistOK, PendingOK
  <2> QED
    BY <1>3, <2>1, <2>2, Zenon DEF Ids
<1>5. \A p \in ids : p < wmeta.pgid /\ p \notin DOMAIN wmeta.root
  BY <1>1, <1>4, InvTypes, SMTT(30) DEF TreeOf
<1> QED
  BY <1>1, <1>5, SMTT(30) DEF Readable, TreeOf

\* When the meta is synced the writer's tree becomes the durable one.
LEMMA SyncMetaInv ==
  ASSUME IInv, TypeOK', SyncMeta
  PROVE  IInv'
<1> DEFINE d == Durable
           s == d.txid % 2
<1>1. /\ pc = "metasync" /\ pc' = "idle" /\ Synced
      /\ UNCHANGED <<file, opened, mapped, fl, txs, tag>>
  BY Zenon DEF SyncMeta, close
<1>2. /\ d \in Meta /\ d.txid \in Nat /\ s \in 0..1 /\ 1 - s \in 0..1
      /\ wmeta \in Meta /\ fl \in FreelistRecord /\ tag \in Nat
      /\ \A r \in DOMAIN txs : txs[r] \in Meta
  BY InvTypes, Zenon
<1>3. /\ wmeta.txid = d.txid + 1 /\ wmeta.valid /\ wmeta.txid <= MaxTxid
      /\ wmeta.txid % 2 = 1 - s
      /\ TreeOf(d, wmeta.root, wmeta.pgid)
      /\ opened
  <2>1. pc # "idle"
    BY <1>1
  <2>2. wmeta.txid % 2 = 1 - s
    BY <2>1, OtherSlot, InvTypes, Zenon
  <2> QED
    BY <2>1, <2>2, Zenon DEF IInv, WriterInv
<1>4. Durable' = wmeta /\ Current' = wmeta
  <2>1. Current = wmeta
    BY <1>1, CurrentIs
  <2> QED
    BY <1>1, <2>1, Zenon DEF Durable, Current, Synced, file
<1>5. SlotInv'
  <2>1. meta[1 - s] = wmeta /\ meta[s] = d
    BY <1>1, Zenon DEF IInv, SlotInv
  <2>2. Older(d, wmeta) /\ 1 <= wmeta.txid
    BY <1>2, <1>3 DEF Older
  <2>3. 1 - (1 - s) = s
    BY <1>2
  <2> HIDE DEF s
  <2> QED
    BY <1>1, <1>3, <1>4, <2>1, <2>2, <2>3, Zenon DEF SlotInv, Synced, file
<1>6. DurableInv'
  <2>1. Readable(wmeta, page, flist)
    BY <1>1, WriterReadable
  <2> QED
    BY <1>1, <1>3, <1>4, <2>1, Zenon DEF DurableInv, Synced, file, TreeOf
<1>7. WriterInv'
  BY <1>1, Zenon DEF IInv, WriterInv
<1>8. LiveRoot = wmeta.root /\ LiveRoot' = wmeta.root
  BY <1>1, <1>4, LiveRootIs, Zenon DEF LiveRoot
<1>9. /\ FreelistOK(fl, wmeta, wmeta.root) /\ NoneFreed(fl, wmeta)
      /\ \A m \in Meta : Kept(m, fl, d, wmeta.root) => Kept(m, fl, wmeta, wmeta.root)
  <2>1. FreelistOK(fl, d, wmeta.root) /\ d.pgid <= wmeta.pgid
    BY <1>3, <1>8, Zenon DEF IInv, FreelistInv, TreeOf
  <2> QED
    BY <1>2, <1>3, <2>1, CommitPages, Zenon
<1>10. FreelistInv'
  BY <1>1, <1>4, <1>8, <1>9, Zenon DEF FreelistInv
<1>11. ReaderInv'
  <2> SUFFICES ASSUME NEW r \in DOMAIN txs
               PROVE  /\ 1 <= txs[r].txid /\ txs[r].txid <= wmeta.txid + 1
                      /\ txs[r].txid <= wmeta.txid
                      /\ Intact(txs[r].root, page)
                      /\ \A p \in DOMAIN txs[r].root : txs[r].root[p].tag <= tag
                      /\ Kept(txs[r], fl, wmeta, wmeta.root)
    BY <1>1, <1>4, <1>8, Zenon DEF ReaderInv, file
  <2>1. /\ 1 <= txs[r].txid /\ txs[r].txid <= d.txid + 1
        /\ Intact(txs[r].root, page)
        /\ \A p \in DOMAIN txs[r].root : txs[r].root[p].tag <= tag
        /\ Kept(txs[r], fl, d, wmeta.root)
    BY <1>8, Zenon DEF IInv, ReaderInv
  <2>2. txs[r].txid \in Nat
    BY <1>2, MetaFields, Zenon
  <2>3. txs[r].txid <= wmeta.txid /\ txs[r].txid <= wmeta.txid + 1
    BY <1>2, <1>3, <2>1, <2>2
  <2>4. Kept(txs[r], fl, wmeta, wmeta.root)
    BY <1>2, <1>9, <2>1, Zenon
  <2> QED
    BY <2>1, <2>3, <2>4, Zenon
<1> QED
  BY <1>5, <1>6, <1>7, <1>10, <1>11 DEF IInv

-----------------------------------------------------------------------------
(* Init, crashes, Close and Open, and the invariant *)

\* The file that db.init writes satisfies the invariant.
LEMMA InitInv == Init => IInv
<1> SUFFICES ASSUME Init PROVE IInv
  OBVIOUS
<1>1. TypeOK
  BY InitType DEF TypeInv
<1> DEFINE d == InitMeta(1)
           T == [p \in {Root} |-> [head |-> Root, tag |-> 1]]
<1>2. /\ disk.meta = meta /\ disk.page = page /\ disk.flist = flist
      /\ meta[0] = InitMeta(0) /\ meta[1] = d
      /\ meta \in [0..1 -> Meta]
  BY <1>1 DEF Init, TypeOK
<1>3. /\ d.valid /\ d.txid = 1 /\ d.flid = 0 /\ d.pgid = Root + 1
      /\ d.root = T
      /\ InitMeta(0).txid = 0
  BY Zenon DEF InitMeta
<1>4. d \in Meta
  BY <1>2
<1> HIDE DEF d
<1>5. Durable = d /\ Current = d
  <2>1. Older(meta[1 - 1], d)
    BY <1>2, <1>3, SMTT(60) DEF Older
  <2> QED
    BY <1>2, <1>3, <1>4, <2>1, CurrentOfPicks DEF Durable, Current
<1>6. SlotInv
  <2>1. pc # "metasync"
    BY Zenon DEF Init
  <2>2. d.txid % 2 = 1 /\ 1 - (d.txid % 2) = 0
    BY <1>3
  <2>3. Older(meta[0], d)
    BY <1>2, <1>3 DEF Older
  <2> QED
    BY <1>2, <1>3, <1>5, <2>1, <2>2, <2>3, FreelistAssumption DEF SlotInv
<1>7. /\ DOMAIN T = {Root} /\ T[Root] = [head |-> Root, tag |-> 1]
      /\ Root \in Nat /\ Root \in Pgid
  BY FreelistAssumption DEF Pgid
<1> HIDE DEF T
<1>8. DurableInv
  <2>1. /\ flist[0] = [ok |-> TRUE, ids |-> {}] /\ page[Root] = 1
        /\ d.flid % 2 = 0
    BY <1>3, <1>7, SMTT(60) DEF Init
  <2>2. Readable(d, page, flist)
    BY <1>3, <1>7, <2>1 DEF Readable, Blocks, Intact
  <2> QED
    BY <1>2, <1>3, <1>5, <1>7, <2>2, SMTT(60) DEF DurableInv, Init
<1>9. WriterInv
  BY Zenon DEF WriterInv, Init
<1>10. LiveRoot = d.root
  BY <1>5, Zenon DEF LiveRoot, Init
<1>11. FreelistInv
  <2>1. fl.free = {} /\ fl.pending = {} /\ fl.allocs = [p \in Pgid |-> 0]
    BY Zenon DEF Init, newFreelist
  <2>2. \A p \in DOMAIN d.root : LiveOrFreed(p, fl, d, d.root)
    BY <1>3, <1>7, <2>1, SMTT(60) DEF LiveOrFreed
  <2>3. FreelistOK(fl, d, d.root)
    BY <1>3, <2>1, <2>2 DEF FreelistOK
  <2>4. NoneFreed(fl, d)
    BY <2>1, Zenon DEF NoneFreed
  <2> QED
    BY <1>5, <1>10, <2>3, <2>4, Zenon DEF FreelistInv
<1>12. ReaderInv
  <2>1. DOMAIN txs = {}
    BY DEF Init
  <2> QED
    BY <2>1, Zenon DEF ReaderInv
<1> QED
  BY <1>1, <1>6, <1>8, <1>9, <1>11, <1>12 DEF IInv

\* After a crash the durable meta is the one it was, or the writer's.
LEMMA CrashInv ==
  ASSUME IInv, TypeOK', Crash
  PROVE  IInv'
<1> DEFINE d == Durable
           s == d.txid % 2
<1>1. /\ disk' = [page |-> page', meta |-> meta', flist |-> flist']
      /\ opened' = FALSE /\ mapped' = FALSE /\ DOMAIN txs' = {}
      /\ pc' = "idle" /\ tag' = tag
  BY DEF Crash, MemoryLost
<1>2. /\ d \in Meta /\ d.txid \in Nat /\ s \in 0..1 /\ 1 - s \in 0..1
      /\ d.flid % 2 \in 0..1 /\ d.root \in Tree
      /\ wmeta \in Meta /\ wmeta.root \in Tree /\ tag \in Nat
      /\ meta' \in [0..1 -> Meta]
  BY InvTypes, Zenon DEF TypeOK
<1>3. \A p \in Pgid : page[p] = disk.page[p] => page'[p] = page[p]
  BY Zenon DEF Crash
<1>4. \A i \in 0..1 : meta'[i] \in Survivors(meta[i], disk.meta[i], NoMeta)
  BY DEF Crash
<1>5. \A i \in 0..1 : flist'[i] \in Survivors(flist[i], disk.flist[i], NoRegion)
  BY DEF Crash
<1>6. \A i \in 0..1 : flist[i] = disk.flist[i] => flist'[i] = flist[i]
  BY <1>5 DEF Survivors
<1>7. /\ d.valid /\ 1 <= d.txid /\ d.txid <= MaxTxid
      /\ meta[s] = d /\ disk.meta[s] = d
      /\ Older(disk.meta[1 - s], d)
      /\ IF pc = "metasync" THEN meta[1 - s] = wmeta ELSE Older(meta[1 - s], d)
  BY DEF IInv, SlotInv
<1>8. meta'[s] = d
  BY <1>2, <1>4, <1>7, Zenon DEF Survivors
<1>9. Older(meta'[1 - s], d) \/ (pc = "metasync" /\ meta'[1 - s] = wmeta)
  <2>1. Older(NoMeta, d)
    BY Zenon DEF Older, NoMeta
  <2>2. meta'[1 - s] \in {meta[1 - s], disk.meta[1 - s], NoMeta}
    BY <1>2, <1>4, Zenon DEF Survivors
  <2> HIDE DEF s
  <2> QED
    BY <1>7, <2>1, <2>2, Zenon
<1>10. ASSUME NEW e \in Meta, NEW i \in 0..1, i = e.txid % 2,
              meta'[i] = e, e.valid, Older(meta'[1 - i], e),
              1 <= e.txid, e.txid <= MaxTxid,
              Readable(e, page', flist'), \A p \in DOMAIN e.root : e.root[p].tag <= tag
       PROVE  IInv'
  <2>1. Durable' = e
    BY <1>1, <1>2, <1>10, CurrentOfPicks, Zenon DEF Durable
  <2>2. SlotInv' /\ DurableInv'
    BY <1>1, <1>10, <2>1, Zenon DEF SlotInv, DurableInv
  <2>3. WriterInv' /\ FreelistInv' /\ ReaderInv'
    BY <1>1, Zenon DEF WriterInv, FreelistInv, ReaderInv
  <2> QED
    BY <2>2, <2>3 DEF IInv
<1>11. CASE Older(meta'[1 - s], d)
  <2>1. DurableInv
    BY DEF IInv
  <2>2. \A p \in DOMAIN d.root : page'[p] = page[p]
    <3>1. \A p \in DOMAIN d.root : p \in Pgid /\ page[p] = disk.page[p]
      BY <1>2, <2>1, TreeFields, Zenon DEF DurableInv, Readable, Intact
    <3> QED
      BY <1>3, <3>1, Zenon
  <2>3. flist'[d.flid % 2] = flist[d.flid % 2]
    BY <1>2, <1>6, <2>1, Zenon DEF DurableInv
  <2>4. Readable(d, page', flist')
    BY <2>1, <2>2, <2>3, Zenon DEF DurableInv, Readable, Intact
  <2>5. \A p \in DOMAIN d.root : d.root[p].tag <= tag
    BY <2>1, Zenon DEF DurableInv
  <2> QED
    BY <1>2, <1>7, <1>8, <1>10, <1>11, <2>4, <2>5, Zenon
<1>12. CASE pc = "metasync" /\ meta'[1 - s] = wmeta
  <2>1. /\ wmeta.txid = d.txid + 1 /\ wmeta.valid /\ wmeta.txid <= MaxTxid
        /\ wmeta.txid % 2 = 1 - s /\ wmeta.flid % 2 \in 0..1
        /\ page = disk.page /\ flist = disk.flist
        /\ TreeOf(d, wmeta.root, wmeta.pgid)
    <3>1. pc # "idle"
      BY <1>12
    <3>2. wmeta.txid % 2 = 1 - s /\ wmeta.flid % 2 \in 0..1
      BY <3>1, OtherSlot, InvTypes, Zenon
    <3> QED
      BY <1>12, <3>1, <3>2, Zenon DEF IInv, WriterInv
  <2>2. Readable(wmeta, page, flist)
    BY <1>12, WriterReadable
  <2>3. \A p \in DOMAIN wmeta.root : page'[p] = page[p]
    BY <1>2, <1>3, <2>1, TreeFields, Zenon
  <2>4. flist'[wmeta.flid % 2] = flist[wmeta.flid % 2]
    BY <1>6, <2>1, Zenon
  <2>5. Readable(wmeta, page', flist')
    BY <2>2, <2>3, <2>4, Zenon DEF Readable, Intact
  <2>6. 1 - (1 - s) = s /\ 1 <= wmeta.txid
    BY <1>2, <2>1
  <2>7. Older(meta'[1 - (1 - s)], wmeta)
    BY <1>2, <1>8, <2>1, <2>6 DEF Older
  <2>8. \A p \in DOMAIN wmeta.root : wmeta.root[p].tag <= tag
    BY <2>1, Zenon DEF TreeOf
  <2> HIDE DEF s
  <2> QED
    BY <1>2, <1>10, <1>12, <2>1, <2>5, <2>6, <2>7, <2>8, Zenon
<1> QED
  BY <1>9, <1>11, <1>12, SMTT(60)

\* Closing loses what is in memory and nothing else.
LEMMA CloseInv ==
  ASSUME IInv, TypeOK', Close
  PROVE  IInv'
<1>1. /\ pc = "idle" /\ pc' = "idle" /\ opened' = FALSE /\ mapped' = FALSE
      /\ DOMAIN txs' = {} /\ UNCHANGED <<file, disk, tag>>
  BY DEF Close, MemoryLost
<1>2. Durable' = Durable
  BY <1>1 DEF Durable
<1>3. SlotInv' /\ DurableInv'
  BY <1>1, <1>2, Zenon DEF IInv, SlotInv, DurableInv, file
<1>4. WriterInv' /\ FreelistInv' /\ ReaderInv'
  BY <1>1, Zenon DEF WriterInv, FreelistInv, ReaderInv
<1> QED
  BY <1>3, <1>4 DEF IInv

\* Open rebuilds a freelist disjoint from the durable tree.
LEMMA OpenInv ==
  ASSUME IInv, TypeOK', Open
  PROVE  IInv'
<1> DEFINE d == Durable
           ids == flist[d.flid % 2].ids
<1>1. pc = "idle" /\ DOMAIN txs = {}
  BY Zenon DEF Open, IInv, WriterInv
<1>2. /\ opened' = TRUE /\ mapped' = TRUE
      /\ fl' = read(newFreelist, ids)
      /\ UNCHANGED <<file, disk, txs, pc, wmeta, tag>>
  BY <1>1, CurrentIs, Zenon DEF Open, freelistPage
<1>3. Durable' = d /\ LiveRoot' = d.root
  BY <1>1, <1>2, LiveRootIs, Zenon DEF Durable, LiveRoot, Current, file
<1>4. SlotInv' /\ DurableInv'
  BY <1>1, <1>2, <1>3, Zenon DEF IInv, SlotInv, DurableInv, file
<1>5. d \in Meta /\ ids \in SUBSET Pgid
  BY InvTypes, Zenon DEF TypeInv, TypeOK, Region
<1>6. \A p \in ids : p < d.pgid /\ p \notin DOMAIN d.root
  BY Zenon DEF IInv, DurableInv, Readable
<1>7. FreelistOK(fl', d, d.root) /\ NoneFreed(fl', d)
  BY <1>2, <1>5, <1>6, OpenPages, Zenon
<1>8. WriterInv' /\ ReaderInv'
  BY <1>1, <1>2, Zenon DEF WriterInv, ReaderInv
<1>9. FreelistInv'
  BY <1>3, <1>7 DEF FreelistInv
<1> QED
  BY <1>4, <1>8, <1>9 DEF IInv

\* Every step of the system preserves the invariant.
LEMMA NextInv == Sound /\ IInv /\ [Next]_vars => IInv'
<1> SUFFICES ASSUME Sound, IInv, [Next]_vars
             PROVE  IInv'
  OBVIOUS
<1>0. TypeOK'
  BY InvTypes, NextType, Zenon DEF TypeInv
<1>1. ASSUME NEW r \in Reader, BeginRead(r) PROVE IInv'
  BY <1>0, <1>1, BeginReadInv
<1>2. ASSUME NEW r \in Reader, EndRead(r) PROVE IInv'
  BY <1>0, <1>2, EndReadInv
<1>3. CASE BeginRW
  BY <1>0, <1>3, BeginRWInv
<1>4. CASE Rollback
  BY <1>0, <1>4, FailInv DEF Rollback
<1>5. CASE UpdatePanics
  BY <1>0, <1>5, FailInv, Zenon DEF UpdatePanics, Sound
<1>6. CASE Commit
  BY <1>0, <1>6, AdvanceInv, Zenon DEF Commit
<1>7. CASE CommitPanics
  BY <1>0, <1>7, FailInv DEF CommitPanics, Sound
<1>8. ASSUME NEW h \in Heads(wmeta.root), DeleteBucket(h) PROVE IInv'
  BY <1>0, <1>8, DeleteBucketInv
<1>9. ASSUME NEW h \in OldHeads, Rebalance(h) PROVE IInv'
  BY <1>0, <1>9, RebalanceInv
<1>10. ASSUME NEW h \in OldHeads \cup {0}, NEW n \in 1 .. MaxRun, SpillNode(h, n)
       PROVE  IInv'
  BY <1>0, <1>10, SpillNodeInv
<1>11. ASSUME NEW h \in OldHeads \cup {0}, NEW n \in 1 .. MaxRun, SpillFails(h, n)
       PROVE  IInv'
  BY <1>0, <1>11, SpillFailsInv, Zenon DEF SpillFails, Sound
<1>12. CASE Grow
  BY <1>0, <1>12, AdvanceInv, Zenon DEF Grow
<1>13. CASE GrowFails
  BY <1>0, <1>13, FailInv, Zenon DEF GrowFails, Sound
<1>14. CASE WritePages
  BY <1>0, <1>14, WritePagesInv
<1>15. CASE WriteFails
  BY <1>0, <1>15, WriteFailsInv, Zenon DEF WriteFails, Sound
<1>16. CASE SyncPages
  BY <1>0, <1>16, AdvanceInv, Zenon DEF SyncPages
<1>17. CASE SyncFails
  BY <1>0, <1>17, FailInv DEF SyncFails, Sound
<1>18. CASE BeginWriteMeta \/ WriteMeta
  BY <1>0, <1>18, WriteMetaInv
<1>19. CASE WriteMetaFails
  BY <1>0, <1>19, FailInv, Zenon DEF WriteMetaFails, Sound
<1>20. CASE SyncMeta
  BY <1>0, <1>20, SyncMetaInv
<1>21. CASE SyncMetaFails
  BY <1>21 DEF SyncMetaFails, Sound
<1>22. CASE Crash
  BY <1>0, <1>22, CrashInv
<1>23. CASE Kill
  BY <1>23 DEF Kill, Sound
<1>24. CASE Close
  BY <1>0, <1>24, CloseInv
<1>25. CASE Open
  BY <1>0, <1>25, OpenInv
<1>26. CASE UNCHANGED vars
  <2>1. Durable' = Durable /\ LiveRoot' = LiveRoot /\ DirtyPages' = DirtyPages
    BY <1>26, Zenon DEF vars, Durable, LiveRoot, Current, DirtyPages
  <2>2. SlotInv' /\ DurableInv' /\ FreelistInv'
    BY <1>26, <2>1, Zenon DEF vars, IInv, SlotInv, DurableInv, FreelistInv
  <2>3. WriterInv'
    BY <1>26, <2>1, Zenon DEF vars, IInv, WriterInv, TreeOf
  <2>4. ReaderInv'
    BY <1>26, <2>1, Zenon DEF vars, IInv, ReaderInv
  <2> QED
    BY <1>0, <2>2, <2>3, <2>4 DEF IInv
<1> QED
  BY <1>1, <1>2, <1>3, <1>4, <1>5, <1>6, <1>7, <1>8, <1>9, <1>10, <1>11, <1>12,
     <1>13, <1>14, <1>15, <1>16, <1>17, <1>18, <1>19, <1>20, <1>21, <1>22,
     <1>23, <1>24, <1>25, <1>26, Zenon
  DEF Next, Writer

\* The inductive invariant holds in every reachable state of a sound
\* configuration, for any number of readers, pages and transactions.
THEOREM Invariance == ASSUME Sound PROVE Spec => []IInv
<1>1. IInv /\ [Next]_vars => IInv'
  BY NextInv
<1> QED
  BY InitInv, <1>1, PTL DEF Spec

\* No write transaction, committed, rolled back or failed, ever changes a page
\* that an open read transaction can reach.
THEOREM Isolation == ASSUME Sound PROVE Spec => []SnapshotIntact
<1>1. IInv => SnapshotIntact
  BY Zenon DEF IInv, ReaderInv, SnapshotIntact
<1> QED
  BY Invariance, <1>1, PTL

\* freePages, rollback and reload leave no page of an open read transaction
\* among the pages that can be allocated.
THEOREM ReadersProtected == ASSUME Sound PROVE Spec => []ReadersKeepPages
<1>1. ASSUME IInv PROVE ReadersKeepPages
  <2> SUFFICES ASSUME NEW r \in DOMAIN txs, NEW p \in DOMAIN txs[r].root,
                      p \in fl.free
               PROVE  FALSE
    BY DEF ReadersKeepPages
  <2>1. KeptPage(p, txs[r], fl, Durable, LiveRoot)
    BY <1>1, Zenon DEF IInv, ReaderInv, Kept
  <2>2. FreelistOK(fl, Durable, LiveRoot)
    BY <1>1, Zenon DEF IInv, WriterInv, FreelistInv
  <2> QED
    BY <2>1, <2>2, Zenon DEF KeptPage, FreelistOK, PendingOK
<1> QED
  BY Invariance, <1>1, PTL

\* Whatever a crash at any point leaves in the file can be opened, and the tree
\* found there is whole.
THEOREM Recovery == ASSUME Sound PROVE Spec => []Recoverable
<1>1. ASSUME IInv PROVE Recoverable
  <2>1. ~opened => pc = "idle"
    BY <1>1, Zenon DEF IInv, WriterInv
  <2>2. ~opened => Current = Durable
    BY <1>1, <2>1, CurrentIs
  <2> QED
    BY <1>1, <2>2, Zenon
    DEF IInv, SlotInv, DurableInv, Readable, Recoverable, freelistPage
<1> QED
  BY Invariance, <1>1, PTL

-----------------------------------------------------------------------------
(* What a step does to the freelist, the live tree and the durable meta. *)

\* Nothing.
Quiet == UNCHANGED <<fl, opened, mapped, Durable, Stored, LiveRoot, LivePgid>>

\* The writer's meta and freelist become the durable ones.
Promoted == pc = "metasync" /\ Durable' = wmeta /\ Stored' = copyall(fl)

\* The commit is acknowledged.
Acknowledged ==
  Promoted /\ UNCHANGED <<fl, opened, mapped, LiveRoot, LivePgid>>

\* A crash or Close.
Gone == ~opened' /\ (Promoted \/ UNCHANGED <<Durable, Stored>>)

\* A node of the durable tree leaves the writer's.
Freed(h) ==
  /\ pc \in {"body", "spill"}
  /\ wmeta.root[h].tag # tag
  /\ FreeNode(h)
  /\ UNCHANGED <<opened, mapped, disk, pc>>

\* The freelist and the tree at the point of a failure: those of the writer, or
\* without the node it was about to spill.
AtFailure(f, root) ==
  \/ f = fl /\ root = wmeta.root
  \/ \E h \in OldHeads :
       /\ pc = "spill"
       /\ f = free(fl, wmeta.txid, h, BlockAt(wmeta.root, h))
       /\ root = RemoveBlock(wmeta.root, h)

\* The write transaction is rolled back.
Undone ==
  /\ pc \notin {"idle", "metasync"}
  /\ pc' = "idle"
  /\ UNCHANGED <<disk, opened, meta>>
  /\ mapped' => mapped
  /\ \E f, root : 
       /\ AtFailure(f, root)
       /\ \/ /\ fl' = rollback(f, wmeta.txid)
             /\ mapped' => f = fl /\ (pc = "body" \/ "assert" \in Faults)
          \/ /\ FreelistType = "array"
             /\ fl' = reload(rollback(f, wmeta.txid), Stored)

\* What a physical rollback reads back is the durable region.
LEMMA PhysicalUndone ==
  ASSUME IInv, FreelistType = "array", pc \notin {"idle", "metasync"},
         UNCHANGED <<meta, disk, opened>>, mapped' => mapped,
         flist'[Durable.flid % 2] = flist[Durable.flid % 2],
         NEW f, NEW root, AtFailure(f, root), physicalRollback(f)
  PROVE  Undone
<1>1. Current = Durable /\ Current' = Current
  BY CurrentIs DEF Current
<1>2. freelistPage'.ids = Stored
  BY <1>1 DEF freelistPage, Stored, IInv, DurableInv
<1>3. pc' = "idle"
  BY DEF physicalRollback, close
<1>4. \/ mapped' /\ fl' = reload(rollback(f, wmeta.txid), Stored)
      \/ ~mapped' /\ fl' = rollback(f, wmeta.txid)
  BY <1>2, SMTT(60) DEF physicalRollback
<1> QED
  BY <1>3, <1>4 DEF Undone

\* A write transaction that gives up, at whatever point.
LEMMA FailUndone ==
  ASSUME Sound, IInv, pc \notin {"idle", "metasync"},
         \/ Rollback \/ UpdatePanics \/ CommitPanics \/ GrowFails
         \/ WriteFails \/ SyncFails \/ WriteMetaFails
  PROVE  Undone
<1>1. AtFailure(fl, wmeta.root)
  BY SMTT(60) DEF AtFailure
<1>2. UNCHANGED <<meta, disk, opened>> /\ (mapped' => mapped)
  BY DEF Rollback, UpdatePanics, CommitPanics, GrowFails, WriteFails, SyncFails,
         WriteMetaFails, file
<1>3. CASE /\ pc = "body" \/ "assert" \in Faults
           /\ nonPhysicalRollback
  BY <1>1, <1>2, <1>3, SMTT(60) DEF Undone, nonPhysicalRollback, close
<1>4. CASE /\ flist'[Durable.flid % 2] = flist[Durable.flid % 2]
           /\ physicalRollback(fl)
           /\ FreelistType = "array"
  BY <1>1, <1>2, <1>4, PhysicalUndone, Zenon
<1>5. CASE WriteFails
  <2>1. \E v : flist' = [flist EXCEPT ![wmeta.flid % 2] = v]
    BY <1>5 DEF WriteFails
  <2>2. flist \in [0..1 -> Region]
    BY DEF IInv, TypeOK
  <2>3. flist'[Durable.flid % 2] = flist[Durable.flid % 2]
    BY <2>1, <2>2, OtherSlot, InvTypes
  <2> QED
    BY <1>4, <1>5, <2>3 DEF WriteFails, Sound
<1> QED
  BY <1>3, <1>4, <1>5
  DEF Rollback, UpdatePanics, CommitPanics, GrowFails, SyncFails, WriteMetaFails,
      file, Sound

\* A crash leaves the durable meta and its freelist, or the writer's.
LEMMA CrashGone ==
  ASSUME IInv, IInv', Crash
  PROVE  Gone
<1> DEFINE d == Durable
           s == d.txid % 2
<1>1. disk' = [page |-> page', meta |-> meta', flist |-> flist'] /\ ~opened'
  BY SMTT(60) DEF Crash, MemoryLost
<1>2. /\ d \in Meta /\ d.txid \in Nat /\ s \in 0..1 /\ 1 - s \in 0..1
      /\ d.flid % 2 \in 0..1 /\ wmeta \in Meta /\ meta' \in [0..1 -> Meta]
  BY InvTypes, Zenon DEF TypeOK, IInv
<1>3. /\ \A i \in 0..1 : meta'[i] \in Survivors(meta[i], disk.meta[i], NoMeta)
      /\ \A i \in 0..1 : flist'[i] \in Survivors(flist[i], disk.flist[i], NoRegion)
  BY DEF Crash
<1>4. \A i \in 0..1 : flist[i] = disk.flist[i] => flist'[i] = flist[i]
  BY <1>3, SMTT(60) DEF Survivors
<1>5. /\ d.valid /\ meta[s] = d /\ disk.meta[s] = d /\ Older(disk.meta[1 - s], d)
      /\ IF pc = "metasync" THEN meta[1 - s] = wmeta ELSE Older(meta[1 - s], d)
  BY DEF IInv, SlotInv
<1>6. meta'[s] = d
  BY <1>2, <1>3, <1>5, SMTT(60) DEF Survivors
<1>7. Older(meta'[1 - s], d) \/ (pc = "metasync" /\ meta'[1 - s] = wmeta)
  <2>1. Older(NoMeta, d)
    BY DEF Older, NoMeta
  <2>2. meta'[1 - s] \in {meta[1 - s], disk.meta[1 - s], NoMeta}
    BY <1>2, <1>3 DEF Survivors
  <2> HIDE DEF s
  <2> QED
    BY <1>5, <2>1, <2>2, SMTT(60)
<1>8. CASE Older(meta'[1 - s], d)
  <2>1. Durable' = d
    BY <1>1, <1>2, <1>5, <1>6, <1>8, CurrentOfPicks, Zenon DEF Durable
  <2>2. flist'[d.flid % 2] = disk.flist[d.flid % 2]
    BY <1>2, <1>4, Zenon DEF IInv, DurableInv
  <2>3. Stored' = Stored
    BY <1>1, <2>1, <2>2, SMTT(60) DEF Stored
  <2> QED
    BY <1>1, <2>1, <2>3 DEF Gone
<1>9. CASE pc = "metasync" /\ meta'[1 - s] = wmeta
  <2>1. /\ wmeta.txid = d.txid + 1 /\ wmeta.valid /\ flist = disk.flist
        /\ flist[wmeta.flid % 2] = [ok |-> TRUE, ids |-> copyall(fl)]
    BY <1>9 DEF IInv, WriterInv
  <2>2. 1 - (1 - s) = s
    BY <1>2
  <2>3. Older(meta'[1 - (1 - s)], wmeta)
    BY <1>2, <1>6, <2>1, <2>2, SMTT(60) DEF Older
  <2>4. Durable' = wmeta
    <3> HIDE DEF s
    <3> QED
      BY <1>1, <1>2, <1>9, <2>1, <2>3, CurrentOfPicks, SMTT(60) DEF Durable
  <2>5. wmeta.flid % 2 \in 0..1
    BY <1>9, OtherSlot
  <2>6. flist'[wmeta.flid % 2] = flist[wmeta.flid % 2]
    BY <1>4, <2>1, <2>5, SMTT(60)
  <2>7. Stored' = copyall(fl)
    BY <1>1, <2>1, <2>4, <2>6 DEF Stored
  <2> QED
    BY <1>1, <1>9, <2>4, <2>7, SMTT(60) DEF Gone, Promoted
<1> QED
  BY <1>7, <1>8, <1>9, SMTT(60)

\* Every step is one of these.
LEMMA Kinds ==
  ASSUME Sound, IInv, IInv', [Next]_vars
  PROVE  \/ Quiet \/ Acknowledged \/ Gone \/ Undone
         \/ Open \/ BeginRW
         \/ \E h \in Heads(wmeta.root) : Freed(h)
         \/ \E h \in OldHeads \cup {0}, n \in 1 .. MaxRun : SpillNode(h, n)
<1>1. CASE \/ UNCHANGED vars \/ WritePages \/ BeginWriteMeta \/ WriteMeta \/ Commit
           \/ \E r \in Reader : BeginRead(r) \/ EndRead(r)
  <2>1. UNCHANGED <<fl, opened, mapped, disk>>
    BY <1>1, Zenon
    DEF vars, WritePages, BeginWriteMeta, WriteMeta, Commit, BeginRead, EndRead
  <2>2. \/ UNCHANGED <<pc, wmeta, meta>>
        \/ pc # "idle" /\ pc' # "idle" /\ UNCHANGED wmeta
    BY <1>1, Zenon
    DEF vars, file, WritePages, BeginWriteMeta, WriteMeta, Commit, BeginRead, EndRead
  <2>3. LiveRoot' = LiveRoot /\ LivePgid' = LivePgid
    BY <2>2 DEF LiveRoot, LivePgid, Current
  <2>4. Durable' = Durable /\ Stored' = Stored
    BY <2>1 DEF Durable, Stored
  <2> QED
    BY <2>1, <2>3, <2>4 DEF Quiet
<1>2. CASE Grow \/ SyncPages
  <2>1. /\ UNCHANGED <<file, fl, opened, mapped, wmeta>>
        /\ pc \in {"spill", "sync"} /\ pc' \in {"write", "meta"}
        /\ Synced \/ UNCHANGED disk
    BY <1>2 DEF Grow, SyncPages
  <2>2. LiveRoot' = LiveRoot /\ LivePgid' = LivePgid
    BY <2>1 DEF LiveRoot, LivePgid
  <2>3. CurrentOf(meta) = Durable
    BY <2>1, CurrentIs DEF Current
  <2>4. Durable' = Durable
    BY <2>1, <2>3, SMTT(60) DEF Durable, Synced
  <2>5. Stored' = Stored
    BY <2>1, <2>4 DEF Stored, Synced, IInv, DurableInv
  <2> QED
    BY <2>1, <2>2, <2>4, <2>5 DEF Quiet
<1>3. CASE SyncMeta
  <2>1. /\ UNCHANGED <<file, fl, opened, mapped>>
        /\ pc = "metasync" /\ pc' = "idle" /\ Synced
    BY <1>3 DEF SyncMeta, close
  <2>2. CurrentOf(meta) = wmeta
    BY <2>1, CurrentIs DEF Current
  <2>3. Durable' = wmeta /\ Current' = wmeta
    BY <2>1, <2>2, SMTT(60) DEF Durable, Synced, Current, file
  <2>4. flist[wmeta.flid % 2].ids = copyall(fl)
    <3>1. flist[wmeta.flid % 2] = [ok |-> TRUE, ids |-> copyall(fl)]
      BY <2>1, Zenon DEF IInv, WriterInv
    <3> QED
      BY <3>1
  <2>5. Stored' = copyall(fl)
    BY <2>1, <2>3, <2>4 DEF Stored, Synced
  <2>6. LiveRoot' = LiveRoot /\ LivePgid' = LivePgid
    BY <2>1, <2>3 DEF LiveRoot, LivePgid
  <2> QED
    BY <2>1, <2>3, <2>5, <2>6, SMTT(60) DEF Acknowledged, Promoted
<1>4. CASE \/ Rollback \/ UpdatePanics \/ CommitPanics \/ GrowFails
           \/ WriteFails \/ SyncFails \/ WriteMetaFails
  <2>1. pc \notin {"idle", "metasync"}
    BY <1>4 DEF Rollback, UpdatePanics, CommitPanics, GrowFails, WriteFails,
                SyncFails, WriteMetaFails
  <2> QED
    BY <1>4, <2>1, FailUndone, SMTT(60)
<1>5. ASSUME NEW h \in OldHeads \cup {0}, NEW n \in 1 .. MaxRun, SpillFails(h, n)
      PROVE  Undone
  <2> DEFINE f == IF h = 0 THEN fl
                  ELSE free(fl, wmeta.txid, h, BlockAt(wmeta.root, h))
             root == IF h = 0 THEN wmeta.root ELSE RemoveBlock(wmeta.root, h)
  <2>1. /\ pc = "spill" /\ UNCHANGED <<file, disk, opened>> /\ physicalRollback(f)
        /\ mapped' = mapped \/ mapped' = FALSE
        /\ FreelistType = "array"
    BY <1>5 DEF SpillFails, Sound
  <2>2. AtFailure(f, root)
    BY <2>1 DEF AtFailure
  <2> HIDE DEF f, root
  <2> QED
    BY <2>1, <2>2, PhysicalUndone DEF file
<1>6. CASE Crash
  BY <1>6, CrashGone
<1>7. CASE Close
  <2>1. ~opened' /\ UNCHANGED disk
    BY <1>7 DEF Close, MemoryLost
  <2> QED
    BY <2>1 DEF Gone, Durable, Stored
<1>8. ASSUME NEW h \in Heads(wmeta.root), DeleteBucket(h) PROVE Freed(h)
  <2>1. h \in DOMAIN wmeta.root
    BY <1>8, Zenon DEF DeleteBucket, IInv, WriterInv, TreeOf, Blocks, Heads
  <2> QED
    BY <1>8, <2>1, Zenon DEF Freed, DeleteBucket, IInv, WriterInv, DirtyPages
<1>9. ASSUME NEW h \in OldHeads, Rebalance(h)
      PROVE  h \in Heads(wmeta.root) /\ Freed(h)
  BY <1>9 DEF OldHeads, Freed, Rebalance
<1>10. ~Kill /\ ~SyncMetaFails
  BY DEF Kill, SyncMetaFails, Sound
<1> QED
  BY <1>1, <1>2, <1>3, <1>4, <1>5, <1>6, <1>7, <1>8, <1>9, <1>10, Zenon
  DEF Next, Writer

-----------------------------------------------------------------------------
(* The cache of free() *)

\* The freelist and the tree at a failure are as sound as the writer's.
LEMMA AtFailureOK ==
  ASSUME IInv, pc \notin {"idle", "metasync"},
         NEW f, NEW root, AtFailure(f, root)
  PROVE  f \in FreelistRecord /\ root \in Tree /\ FreelistOK(f, Durable, root)
<1>1. CASE f = fl /\ root = wmeta.root
  BY <1>1, InvTypes, LiveRootIs, Zenon DEF IInv, FreelistInv, WriterInv
<1>2. ASSUME NEW h \in OldHeads, pc = "spill",
             f = free(fl, wmeta.txid, h, BlockAt(wmeta.root, h)),
             root = RemoveBlock(wmeta.root, h)
      PROVE  f \in FreelistRecord /\ root \in Tree /\ FreelistOK(f, Durable, root)
  <2>1. h \in Heads(wmeta.root) /\ wmeta.root[h].tag # tag
    BY DEF OldHeads
  <2> QED
    BY <1>2, <2>1, FreeNodePages, Zenon
<1> QED
  BY <1>1, <1>2 DEF AtFailure

\* rollback takes out what the transaction after d freed and changes nothing
\* else: it had allocated none of those pages itself.
LEMMA RollbackExact ==
  ASSUME NEW f \in FreelistRecord, NEW d \in Meta, NEW root,
         FreelistOK(f, d, root)
  PROVE  LET g == rollback(f, d.txid + 1)
             mine == {x \in f.pending : x.tid = d.txid + 1}
         IN  /\ g.free = f.free
             /\ g.pending = f.pending \ mine
             /\ g.last = [f.last EXCEPT ![d.txid + 1] = 0]
             /\ g.cache = f.cache \ Ids(mine)
             /\ \A x \in mine : x.id \in DOMAIN d.root
<1> DEFINE g == rollback(f, d.txid + 1)
           mine == {x \in f.pending : x.tid = d.txid + 1}
<1>1. d.txid \in Nat
  BY MetaFields, SMTT(60)
<1>2. ASSUME NEW x \in mine PROVE x.atx # d.txid + 1 /\ x.id \in DOMAIN d.root
  <2>1. PendingOK(x, f, d, root) /\ x.atx \in Nat /\ x.tid = d.txid + 1
    BY FreelistFields, SMTT(60) DEF FreelistOK
  <2> QED
    BY <1>1, <2>1, SMTT(60) DEF PendingOK
<1>3. {y \in mine : y.atx = d.txid + 1} = {}
  BY <1>2
<1>4. g.free = f.free \cup {x.id : x \in {y \in mine : y.atx = d.txid + 1}}
  BY Zenon DEF rollback
<1>5. g.free = f.free
  BY <1>3, <1>4, Zenon
<1>6. /\ g.pending = f.pending \ mine
      /\ g.last = [f.last EXCEPT ![d.txid + 1] = 0]
      /\ g.cache = f.cache \ Ids(mine)
  BY Zenon DEF rollback
<1> QED
  BY <1>2, <1>5, <1>6, Zenon

\* What reload of the array freelist leaves.
LEMMA ReloadExact ==
  ASSUME FreelistType = "array", NEW f \in FreelistRecord, NEW ids \in SUBSET Pgid
  PROVE  LET g == reload(f, ids)
         IN  /\ g.free = ids \ Ids(f.pending)
             /\ g.pending = f.pending
             /\ g.last = f.last
             /\ g.cache = copyall(g)
<1>1. /\ read(f, ids).free = ids
      /\ read(f, ids).pending = f.pending
      /\ read(f, ids).last = f.last
  BY SMTT(60) DEF read, readIDs, FreelistRecord
<1> QED
  BY <1>1, Zenon DEF reload, readIDs, copyall

\* What Open leaves.
LEMMA OpenExact ==
  ASSUME NEW ids \in SUBSET Pgid
  PROVE  LET g == read(newFreelist, ids)
         IN  /\ g.free = ids
             /\ g.pending = {}
             /\ g.last = [t \in Txid |-> 0]
             /\ g.cache = copyall(g)
<1>1. /\ newFreelist.free = {} /\ newFreelist.pending = {} /\ newFreelist.cache = {}
      /\ newFreelist.last = [t \in Txid |-> 0]
  BY DEF newFreelist
<1>2. Ids({}) = {}
  BY DEF Ids
<1>3. CASE ids = {}
  BY <1>1, <1>2, <1>3, newFreelistType DEF read, FreelistRecord, copyall
<1>4. CASE ids # {}
  BY <1>1, <1>2, <1>4, SMTT(60) DEF read, readIDs, copyall
<1> QED
  BY <1>3, <1>4

\* The ids that free adds to copyall.
LEMMA FreeCopyall ==
  ASSUME NEW f, NEW tid, NEW h, NEW S
  PROVE  copyall(free(f, tid, h, S)) = copyall(f) \cup S
<1> DEFINE new == {[tid |-> tid, id |-> p, atx |-> f.allocs[h]] : p \in S}
<1>1. \A p : p \in Ids(new) <=> p \in S
  <2>1. \A x \in new : x.id \in S
    OBVIOUS
  <2>2. ASSUME NEW p \in S PROVE \E x \in new : x.id = p
    <3> DEFINE x == [tid |-> tid, id |-> p, atx |-> f.allocs[h]]
    <3>1. x \in new
      BY Zenon
    <3>2. x.id = p
      OBVIOUS
    <3> QED
      BY <3>1, <3>2, Zenon
  <2> QED
    BY <2>1, <2>2, Zenon DEF Ids
<1>2. Ids(f.pending \cup new) = Ids(f.pending) \cup Ids(new)
  BY SMTT(60) DEF Ids
<1>3. free(f, tid, h, S).free = f.free /\ free(f, tid, h, S).pending = f.pending \cup new
  BY Zenon DEF free
<1> HIDE DEF new
<1> QED
  BY <1>1, <1>2, <1>3 DEF copyall

\* freePages moves ids from pending to free.
LEMMA FreePagesCopyall ==
  ASSUME NEW f \in FreelistRecord, NEW T \in SUBSET Nat
  PROVE  copyall(freePages(f, T)) = copyall(f)
<1> DEFINE g == freePages(f, T)
<1>1. g.pending \subseteq f.pending /\ g.free = f.free \cup Ids(f.pending \ g.pending)
  BY FreePagesKeeps
<1> HIDE DEF g
<1>2. Ids(f.pending \ g.pending) \cup Ids(g.pending) = Ids(f.pending)
  BY <1>1 DEF Ids
<1> QED
  BY <1>1, <1>2, SMTT(60) DEF copyall, g

\* Every operation of the freelist keeps its cache exact: free, ...
LEMMA FreeCache ==
  ASSUME NEW f, NEW tid, NEW h, NEW S, Exact(f)
  PROVE  Exact(free(f, tid, h, S))
<1>1. free(f, tid, h, S).cache = f.cache \cup S
  BY Zenon DEF free
<1> QED
  BY <1>1, FreeCopyall DEF Exact

\* ... allocate, ...
LEMMA AllocateCache ==
  ASSUME NEW f \in FreelistRecord, NEW tid, NEW s, NEW n, NEW d, NEW root,
         FreelistOK(f, d, root), Run(s, n) \subseteq f.free, Exact(f)
  PROVE  Exact(allocate(f, tid, s, n))
<1>1. Ids(f.pending) \cap Run(s, n) = {}
  BY Zenon DEF Ids, FreelistOK, PendingOK
<1> HIDE DEF Run
<1> QED
  BY <1>1, Zenon DEF Exact, copyall, allocate

\* ... rollback, ...
LEMMA RollbackCache ==
  ASSUME NEW f \in FreelistRecord, NEW d \in Meta, NEW root,
         FreelistOK(f, d, root), Exact(f)
  PROVE  Exact(rollback(f, d.txid + 1))
<1> DEFINE g == rollback(f, d.txid + 1)
           mine == {x \in f.pending : x.tid = d.txid + 1}
<1>1. g.free = f.free /\ g.pending = f.pending \ mine /\ g.cache = f.cache \ Ids(mine)
  BY RollbackExact, Zenon
<1> HIDE DEF g
<1>2. Ids(f.pending \ mine) = Ids(f.pending) \ Ids(mine)
  BY DEF Ids, FreelistOK
<1>3. f.free \cap Ids(mine) = {}
  BY ZenonT(60) DEF Ids, FreelistOK, PendingOK
<1> QED
  BY <1>1, <1>2, <1>3, Zenon DEF Exact, copyall, g

\* ... and freePages.
LEMMA FreePagesCache ==
  ASSUME NEW f \in FreelistRecord, NEW T \in SUBSET Nat, Exact(f)
  PROVE  Exact(freePages(f, T))
<1>1. freePages(f, T).cache = f.cache
  BY Zenon DEF freePages, releaseRanges, releaseBelow
<1> QED
  BY <1>1, FreePagesCopyall DEF Exact

\* The freelist from which Open and the rollback read.
LEMMA StoredType ==
  ASSUME IInv
  PROVE  /\ Stored \in SUBSET Pgid
         /\ flist[Durable.flid % 2].ids = Stored
<1>1. flist[Durable.flid % 2] \in Region
  BY InvTypes, ZenonT(60) DEF IInv, TypeOK
<1>2. flist[Durable.flid % 2].ids = Stored
  BY DEF IInv, DurableInv, Stored
<1> QED
  BY <1>1, <1>2 DEF Region

\* What Open and BeginRW do to the freelist, in terms of the durable meta.
LEMMA OpenReads ==
  ASSUME IInv, Open
  PROVE  /\ fl' = read(newFreelist, Stored)
         /\ UNCHANGED <<disk, meta, pc>> /\ pc = "idle"
<1>1. pc = "idle"
  BY Zenon DEF Open, IInv, WriterInv
<1> QED
  BY <1>1, CurrentIs, StoredType, Zenon DEF Open, freelistPage, file

\* beginRWTx starts from the durable meta and gives back, through freePages, what
\* the open read transactions allow.
LEMMA BeginFrees ==
  ASSUME IInv, BeginRW
  PROVE  /\ opened /\ pc = "idle" /\ UNCHANGED <<disk, opened, mapped>>
         /\ pc' = "body" /\ wmeta'.root = Durable.root /\ wmeta'.pgid = Durable.pgid
         /\ fl \in FreelistRecord
         /\ \E T \in SUBSET Nat : /\ T = {txs[r].txid : r \in DOMAIN txs}
                                  /\ fl' = freePages(fl, T)
         /\ FreelistOK(fl, Durable, Durable.root) /\ NoneFreed(fl, Durable)
<1>1. /\ opened /\ pc = "idle" /\ UNCHANGED <<disk, opened, mapped>> /\ pc' = "body"
      /\ wmeta' = NextMeta(Durable)
      /\ fl' = freePages(fl, {txs[r].txid : r \in DOMAIN txs})
  BY CurrentIs, SMTT(60) DEF BeginRW
<1>2. {txs[r].txid : r \in DOMAIN txs} \in SUBSET Nat
  BY InvTypes, MetaFields
<1>3. wmeta'.root = Durable.root /\ wmeta'.pgid = Durable.pgid
  BY <1>1, InvTypes, NextMetaType, Zenon
<1>4. FreelistOK(fl, Durable, Durable.root) /\ NoneFreed(fl, Durable)
  BY <1>1, LiveRootIs, ZenonT(60) DEF IInv, FreelistInv
<1> QED
  BY <1>1, <1>2, <1>3, <1>4, InvTypes, Zenon

\* Every step keeps the cache exact.
LEMMA CacheStep ==
  ASSUME Sound, IInv, IInv', CacheInv, [Next]_vars
  PROVE  CacheInv'
<1> SUFFICES ASSUME opened' PROVE Exact(fl')
  BY DEF CacheInv
<1>0. opened => Exact(fl)
  BY DEF CacheInv
<1>1. CASE Quiet \/ Acknowledged
  BY <1>0, <1>1, Zenon DEF Quiet, Acknowledged
<1>2. CASE Gone
  BY <1>2 DEF Gone
<1>3. CASE Undone
  <2>0. opened /\ wmeta.txid = Durable.txid + 1 /\ Durable \in Meta
    BY <1>3, InvTypes, Zenon DEF Undone, IInv, WriterInv
  <2>1. PICK f, root :
           /\ AtFailure(f, root)
           /\ \/ fl' = rollback(f, wmeta.txid)
              \/ /\ FreelistType = "array"
                 /\ fl' = reload(rollback(f, wmeta.txid), Stored)
    BY <1>3 DEF Undone
  <2>2. f \in FreelistRecord /\ root \in Tree /\ FreelistOK(f, Durable, root)
    BY <1>3, <2>1, AtFailureOK DEF Undone
  <2>3. Exact(f)
    BY <1>0, <2>0, <2>1, FreeCache, SMTT(60) DEF AtFailure
  <2>4. Exact(rollback(f, wmeta.txid))
    BY <2>0, <2>2, <2>3, RollbackCache, SMTT(60)
  <2>5. rollback(f, wmeta.txid) \in FreelistRecord
    BY <1>3, <2>0, <2>2, rollbackType, OtherSlot DEF Undone
  <2>6. FreelistType = "array" => Exact(reload(rollback(f, wmeta.txid), Stored))
    BY <2>5, StoredType, ReloadExact, Zenon DEF Exact
  <2> QED
    BY <2>1, <2>4, <2>6
<1>4. CASE Open
  BY <1>4, OpenReads, StoredType, OpenExact, Zenon DEF Exact
<1>5. CASE BeginRW
  BY <1>0, <1>5, BeginFrees, FreePagesCache, Zenon
<1>6. ASSUME NEW h \in Heads(wmeta.root), Freed(h) PROVE Exact(fl')
  BY <1>0, <1>6, FreeCache DEF Freed, FreeNode
<1>7. ASSUME NEW h \in OldHeads \cup {0}, NEW n \in 1 .. MaxRun, SpillNode(h, n)
      PROVE  Exact(fl')
  <2> DEFINE f == IF h = 0 THEN fl
                  ELSE free(fl, wmeta.txid, h, BlockAt(wmeta.root, h))
             root == IF h = 0 THEN wmeta.root ELSE RemoveBlock(wmeta.root, h)
  <2>1. /\ pc = "spill" /\ opened
        /\ \/ \E s \in Candidates(f.free, n) : fl' = allocate(f, wmeta.txid, s, n)
           \/ fl' = f
    BY <1>7, Zenon DEF SpillNode
  <2>2. f \in FreelistRecord /\ FreelistOK(f, Durable, root)
    BY <2>1, SpillFreed, Zenon
  <2>3. Exact(f)
    BY <1>0, <2>1, FreeCache, SMTT(60)
  <2> HIDE DEF f, root
  <2>4. ASSUME NEW s \in Candidates(f.free, n) PROVE Run(s, n) \subseteq f.free
    BY DEF Candidates
  <2> QED
    BY <2>1, <2>2, <2>3, <2>4, AllocateCache, Zenon
<1> QED
  BY <1>1, <1>2, <1>3, <1>4, <1>5, <1>6, <1>7, Kinds, SMTT(60)

-----------------------------------------------------------------------------
(* What freePages gives back *)

\* freePages keeps the agreement, and leaves pending only what some reader is not
\* younger than and what was allocated before the range its freeing falls into.
LEMMA FreePagesReleases ==
  ASSUME NEW f \in FreelistRecord, NEW T \in SUBSET Nat, NEW d \in Nat,
         Released(f, d), \A x \in f.pending : x.tid <= d
  PROVE  /\ Released(freePages(f, T), d)
         /\ \A x \in freePages(f, T).pending :
              /\ x \in f.pending /\ \E u \in T : ~(x.tid < u)
              /\ \A r \in Extents(T) :
                   r.begin <= x.tid /\ x.tid <= r.end => x.atx < r.begin
<1> DEFINE e == releaseBelow(f, T)
           X == Extents(T)
           m == {x \in e.pending : \E r \in X :
                   /\ r.begin <= x.tid /\ x.tid <= r.end
                   /\ e.last[x.tid] # r.begin
                   /\ r.begin <= x.atx /\ x.atx <= r.end}
           g == releaseRanges(e, X)
           in(t) == \E r \in X : r.begin <= t /\ t <= r.end
           pick(t) == CHOOSE r \in X : r.begin <= t /\ t <= r.end
<1>1. freePages(f, T) = g
  BY DEF freePages
<1>2. /\ e.pending = {x \in f.pending : \E u \in T : ~(x.tid < u)}
      /\ \A t \in Txid : e.last[t] = IF \A u \in T : t < u THEN 0 ELSE f.last[t]
  <2> DEFINE gone == {x \in f.pending : \A u \in T : x.tid < u}
  <2>1. e.pending = f.pending \ gone
    BY Zenon DEF releaseBelow
  <2>2. e.last = [t \in Txid |-> IF \A u \in T : t < u THEN 0 ELSE f.last[t]]
    BY Zenon DEF releaseBelow
  <2> HIDE DEF e
  <2> QED
    BY <2>1, <2>2, Zenon
<1> HIDE DEF e
<1>3. /\ g.pending = e.pending \ m
      /\ \A t \in Txid :
           g.last[t] = IF in(t)
                       THEN IF \E x \in e.pending \ m : x.tid = t
                            THEN pick(t).begin ELSE 0
                       ELSE e.last[t]
  BY Zenon DEF releaseRanges
<1>4. ASSUME NEW x \in f.pending
      PROVE  /\ x.tid \in Txid /\ x.tid \in Nat /\ x.atx \in Nat
             /\ x.atx <= x.tid /\ x.tid <= d
             /\ f.last[x.tid] \in Nat
             /\ f.last[x.tid] # 0 => x.atx < f.last[x.tid]
  BY FreelistFields, FreelistAssumption, SMTT(60) DEF Released, Txid
<1>5. ASSUME NEW r \in X
      PROVE  /\ r.begin \in Nat /\ r.begin # 0 /\ r.end \in Int
             /\ \E u \in T : r.begin = u + 1
  BY FreelistAssumption DEF Extents
<1>6. ASSUME NEW x \in g.pending, NEW r \in X, r.begin <= x.tid, x.tid <= r.end
      PROVE  x.atx < r.begin
  <2>1. x \in e.pending /\ x \notin m /\ x \in f.pending
    BY <1>2, <1>3, Zenon
  <2>2. e.last[x.tid] = 0 \/ e.last[x.tid] = f.last[x.tid]
    BY <1>2, <1>4, <2>1, Zenon
  <2>3. e.last[x.tid] = r.begin \/ ~(r.begin <= x.atx /\ x.atx <= r.end)
    BY <1>6, <2>1, Zenon
  <2> HIDE DEF m, g, X
  <2>4. CASE e.last[x.tid] = r.begin
    BY <1>4, <1>5, <2>1, <2>2, <2>4, ZenonT(60)
  <2>5. CASE ~(r.begin <= x.atx /\ x.atx <= r.end)
    BY <1>4, <1>5, <1>6, <2>1, <2>5
  <2> QED
    BY <2>3, <2>4, <2>5
<1>7. ASSUME NEW x \in g.pending
      PROVE  /\ x.atx <= x.tid
             /\ g.last[x.tid] # 0 => x.atx < g.last[x.tid]
  <2>1. x \in e.pending \ m /\ x \in f.pending
    BY <1>2, <1>3, Zenon
  <2>2. CASE in(x.tid)
    <3>1. pick(x.tid) \in X /\ pick(x.tid).begin <= x.tid /\ x.tid <= pick(x.tid).end
      BY <2>2, Zenon
    <3>2. g.last[x.tid] = pick(x.tid).begin
      BY <1>3, <1>4, <2>1, <2>2, Zenon
    <3> HIDE DEF pick, g
    <3> QED
      BY <1>4, <1>6, <2>1, <3>1, <3>2, Zenon
  <2>3. CASE ~in(x.tid)
    <3>1. g.last[x.tid] = e.last[x.tid]
      BY <1>3, <1>4, <2>1, <2>3, Zenon
    <3>2. e.last[x.tid] = 0 \/ e.last[x.tid] = f.last[x.tid]
      BY <1>2, <1>4, <2>1, Zenon
    <3> HIDE DEF g
    <3> QED
      BY <1>4, <2>1, <3>1, <3>2, Zenon
  <2> QED
    BY <2>2, <2>3, Zenon
<1>8. ASSUME NEW t \in Txid, d < t PROVE g.last[t] = 0
  <2>1. \A x \in e.pending : x.tid # t
    BY <1>2, <1>4, <1>8, FreelistAssumption DEF Txid
  <2>2. e.last[t] = 0
    BY <1>2, <1>8, Zenon DEF Released
  <2> QED
    BY <1>3, <2>1, <2>2, Zenon
<1>9. ASSUME NEW x \in g.pending PROVE x \in f.pending /\ \E u \in T : ~(x.tid < u)
  BY <1>2, <1>3, Zenon
<1> HIDE DEF g
<1> QED
  BY <1>1, <1>6, <1>7, <1>8, <1>9, Zenon DEF Released

\* Freeing a page of the durable tree stamps it with the next transaction, which
\* has no lastReleaseBegin.
LEMMA FreeReleases ==
  ASSUME NEW f \in FreelistRecord, NEW d \in Meta, d.txid + 1 \in Txid,
         NEW h \in Pgid, NEW S, NEW root,
         Released(f, d.txid), FreelistOK(free(f, d.txid + 1, h, S), d, root)
  PROVE  Released(free(f, d.txid + 1, h, S), d.txid)
<1> DEFINE g == free(f, d.txid + 1, h, S)
           new == {[tid |-> d.txid + 1, id |-> p, atx |-> f.allocs[h]] : p \in S}
<1>1. g.pending = f.pending \cup new /\ g.last = f.last
  BY Zenon DEF free
<1>2. /\ d.txid \in Nat /\ d.txid < d.txid + 1
      /\ \A t \in Txid : d.txid < t => f.last[t] = 0
  <2>1. d.txid \in Nat
    BY MetaFields
  <2>2. d.txid < d.txid + 1
    BY <2>1
  <2> QED
    BY <2>1, <2>2, Zenon DEF Released
<1>3. ASSUME NEW x \in new
      PROVE  /\ x.atx <= x.tid
             /\ f.last[x.tid] = 0
  <2>1. x \in g.pending /\ x.tid = d.txid + 1 /\ x.atx = f.allocs[h]
    <3>1. x \in g.pending
      BY <1>1, Zenon
    <3>2. PICK p \in S : x = [tid |-> d.txid + 1, id |-> p, atx |-> f.allocs[h]]
      BY Zenon
    <3>3. x.tid = d.txid + 1 /\ x.atx = f.allocs[h]
      BY <3>2, Zenon
    <3> QED
      BY <3>1, <3>3, Zenon
  <2>2. x.atx <= d.txid
    <3> HIDE DEF g
    <3> QED
      BY <2>1, Zenon DEF FreelistOK, PendingOK, g
  <2> HIDE DEF g, new
  <2>3. f.last[x.tid] = 0
    BY <1>2, <2>1, Zenon
  <2>4. x.atx \in Nat
    BY <2>1, FreelistFields
  <2>5. x.atx <= d.txid + 1
    BY <1>2, <2>2, <2>4, SMTT(60)
  <2> QED
    BY <2>1, <2>3, <2>5, ZenonT(60)
<1> HIDE DEF g, new
<1> QED
  BY <1>1, <1>3, Zenon DEF Released, g

\* rollback takes the transaction's own entries out.
LEMMA RollbackReleases ==
  ASSUME NEW f \in FreelistRecord, NEW d \in Meta, d.txid + 1 \in Txid,
         NEW root, FreelistOK(f, d, root), Released(f, d.txid)
  PROVE  Released(rollback(f, d.txid + 1), d.txid)
<1> DEFINE g == rollback(f, d.txid + 1)
<1>1. /\ g.pending \subseteq f.pending
      /\ \A x \in g.pending : x.tid # d.txid + 1
      /\ g.last = [f.last EXCEPT ![d.txid + 1] = 0]
  <2>1. /\ g.pending = f.pending \ {x \in f.pending : x.tid = d.txid + 1}
        /\ g.last = [f.last EXCEPT ![d.txid + 1] = 0]
    BY RollbackExact, Zenon
  <2> HIDE DEF g
  <2> QED
    BY <2>1, Zenon
<1> HIDE DEF g
<1>2. \A t \in Txid : g.last[t] = IF t = d.txid + 1 THEN 0 ELSE f.last[t]
  BY <1>1, FreelistFields
<1>3. \A x \in g.pending : x.tid \in Txid
  BY <1>1, FreelistFields
<1> QED
  BY <1>1, <1>2, <1>3, Zenon DEF Released, g

\* The head of a node is a page.
LEMMA HeadIsPage ==
  ASSUME IInv, NEW h \in Heads(wmeta.root)
  PROVE  h \in Pgid
BY InvTypes, TreeFields DEF Heads

\* Every step keeps the lastReleaseBegins in agreement with what is pending.
LEMMA ReleaseStep ==
  ASSUME Sound, IInv, IInv', ReleaseInv, [Next]_vars
  PROVE  ReleaseInv'
<1> SUFFICES ASSUME opened' PROVE Released(fl', Durable'.txid)
  BY Zenon DEF ReleaseInv, Released
<1>0. /\ opened => Released(fl, Durable.txid)
      /\ Durable \in Meta /\ Durable.txid \in Nat /\ fl \in FreelistRecord
  BY InvTypes, Zenon DEF ReleaseInv
<1>w. pc # "idle" => wmeta.txid = Durable.txid + 1 /\ opened /\ Durable.txid + 1 \in Txid
  BY OtherSlot, Zenon DEF IInv, WriterInv
<1>1. CASE Quiet
  BY <1>0, <1>1, SMTT(60) DEF Quiet
<1>2. CASE Acknowledged
  <2>1. Durable'.txid = Durable.txid + 1 /\ UNCHANGED <<fl, opened>>
    BY <1>2, <1>w DEF Acknowledged, Promoted
  <2>2. \A t \in Txid : Durable'.txid < t => Durable.txid < t
    BY <1>0, <2>1, FreelistAssumption DEF Txid
  <2> QED
    BY <1>0, <2>1, <2>2 DEF Released
<1>3. CASE Gone
  BY <1>3 DEF Gone
<1>4. CASE Undone
  <2>0. pc \notin {"idle", "metasync"} /\ Durable' = Durable
    BY <1>4 DEF Undone, Durable
  <2>1. PICK f, root :
           /\ AtFailure(f, root)
           /\ \/ fl' = rollback(f, wmeta.txid)
              \/ /\ FreelistType = "array"
                 /\ fl' = reload(rollback(f, wmeta.txid), Stored)
    BY <1>4 DEF Undone
  <2>2. f \in FreelistRecord /\ root \in Tree /\ FreelistOK(f, Durable, root)
    BY <2>0, <2>1, AtFailureOK
  <2>3. Released(f, Durable.txid)
    <3>1. CASE f = fl
      BY <1>0, <1>w, <2>0, <3>1
    <3>2. ASSUME NEW h \in OldHeads,
                 f = free(fl, wmeta.txid, h, BlockAt(wmeta.root, h))
          PROVE  Released(f, Durable.txid)
      <4>1. h \in Pgid
        BY HeadIsPage DEF OldHeads
      <4> QED
        BY <1>0, <1>w, <2>0, <2>2, <3>2, <4>1, FreeReleases, Zenon
    <3> QED
      BY <2>1, <3>1, <3>2 DEF AtFailure
  <2>4. Released(rollback(f, wmeta.txid), Durable.txid)
    BY <1>0, <1>w, <2>0, <2>2, <2>3, RollbackReleases, Zenon
  <2>5. rollback(f, wmeta.txid) \in FreelistRecord
    BY <1>w, <2>0, <2>2, rollbackType
  <2>6. FreelistType = "array" =>
          Released(reload(rollback(f, wmeta.txid), Stored), Durable.txid)
    <3> DEFINE g == rollback(f, wmeta.txid)
    <3>1. FreelistType = "array" => /\ reload(g, Stored).pending = g.pending
                                    /\ reload(g, Stored).last = g.last
      BY <2>5, StoredType, ReloadExact, Zenon
    <3> HIDE DEF g
    <3> QED
      BY <2>4, <3>1, Zenon DEF Released, g
  <2> QED
    BY <2>0, <2>1, <2>4, <2>6
<1>5. CASE Open
  <2>1. fl'.pending = {} /\ fl'.last = [t \in Txid |-> 0]
    BY <1>5, OpenReads, StoredType, OpenExact, Zenon
  <2> QED
    BY <2>1 DEF Released
<1>6. CASE BeginRW
  <2>1. Durable' = Durable
    BY <1>6, BeginFrees, Zenon DEF Durable
  <2>2. PICK T \in SUBSET Nat : fl' = freePages(fl, T)
    BY <1>6, BeginFrees, Zenon
  <2>3. opened /\ \A x \in fl.pending : x.tid <= Durable.txid
    BY <1>6, BeginFrees, Zenon DEF NoneFreed
  <2> QED
    BY <1>0, <2>1, <2>2, <2>3, FreePagesReleases
<1>7. ASSUME NEW h \in Heads(wmeta.root), Freed(h)
      PROVE  Released(fl', Durable'.txid)
  <2>1. /\ pc \in {"body", "spill"} /\ wmeta.root[h].tag # tag /\ Durable' = Durable
        /\ fl' = free(fl, wmeta.txid, h, BlockAt(wmeta.root, h))
    BY <1>7, Zenon DEF Freed, FreeNode, Durable
  <2>2. FreelistOK(fl', Durable, RemoveBlock(wmeta.root, h))
    BY <2>1, FreeNodePages, Zenon
  <2> QED
    BY <1>0, <1>w, <2>1, <2>2, HeadIsPage, FreeReleases, Zenon
<1>8. ASSUME NEW h \in OldHeads \cup {0}, NEW n \in 1 .. MaxRun, SpillNode(h, n)
      PROVE  Released(fl', Durable'.txid)
  <2> DEFINE f == IF h = 0 THEN fl
                  ELSE free(fl, wmeta.txid, h, BlockAt(wmeta.root, h))
             root == IF h = 0 THEN wmeta.root ELSE RemoveBlock(wmeta.root, h)
  <2>1. /\ pc = "spill" /\ Durable' = Durable
        /\ \/ \E s \in Candidates(f.free, n) : fl' = allocate(f, wmeta.txid, s, n)
           \/ fl' = f
    BY <1>8, Zenon DEF SpillNode, Durable
  <2>2. f \in FreelistRecord /\ FreelistOK(f, Durable, root)
    BY <2>1, SpillFreed, Zenon
  <2>3. Released(f, Durable.txid)
    <3>1. CASE h = 0
      BY <1>0, <1>w, <2>1, <3>1, Zenon
    <3>2. CASE h # 0
      <4>1. h \in Pgid /\ f = free(fl, wmeta.txid, h, BlockAt(wmeta.root, h))
        BY <3>2, HeadIsPage, Zenon DEF OldHeads
      <4> HIDE DEF f, root
      <4> QED
        BY <1>0, <1>w, <2>1, <2>2, <4>1, FreeReleases, Zenon
    <3> QED
      BY <3>1, <3>2
  <2> HIDE DEF f, root
  <2>4. fl'.pending = f.pending /\ fl'.last = f.last
    BY <2>1 DEF allocate
  <2> QED
    BY <2>1, <2>3, <2>4, Zenon DEF Released
<1> QED
  BY <1>1, <1>2, <1>3, <1>4, <1>5, <1>6, <1>7, <1>8, Kinds

-----------------------------------------------------------------------------
(* No page is lost *)

\* A freed node is still accounted for.
LEMMA FreeComplete ==
  ASSUME NEW f, NEW tid, NEW h, NEW root, NEW k, Complete(root, k, copyall(f))
  PROVE  LET S == BlockAt(root, h)
         IN  Complete(RemoveBlock(root, h), k, copyall(free(f, tid, h, S)))
<1>1. DOMAIN RemoveBlock(root, h) = DOMAIN root \ BlockAt(root, h)
  BY DEF RemoveBlock
<1> QED
  BY <1>1, FreeCopyall DEF Complete

\* So is a block that is allocated.
LEMMA AllocateComplete ==
  ASSUME NEW f, NEW tid, NEW s, NEW n, NEW root, NEW k, Complete(root, k, copyall(f))
  PROVE  Complete(InsertBlock(root, s, n), k, copyall(allocate(f, tid, s, n)))
<1>1. DOMAIN InsertBlock(root, s, n) = DOMAIN root \cup Run(s, n)
  BY Zenon DEF InsertBlock
<1>2. copyall(f) \subseteq copyall(allocate(f, tid, s, n)) \cup Run(s, n)
  BY Zenon DEF copyall, allocate
<1> QED
  BY <1>1, <1>2 DEF Complete

\* So are the pages by which the file grows.
LEMMA GrowComplete ==
  ASSUME NEW root, NEW k \in Nat, NEW n \in Nat, NEW ids, Complete(root, k, ids)
  PROVE  Complete(InsertBlock(root, k, n), k + n, ids)
<1>1. DOMAIN InsertBlock(root, k, n) = DOMAIN root \cup Run(k, n)
  BY Zenon DEF InsertBlock
<1>2. \A p \in Pgid : p < k + n => p < k \/ p \in Run(k, n)
  BY PgidNat DEF Run
<1> QED
  BY <1>1, <1>2 DEF Complete

\* The rollback of a transaction that has written no page loses none.
LEMMA RollbackComplete ==
  ASSUME NEW f \in FreelistRecord, NEW d \in Meta, NEW root \in Tree, NEW k \in Nat,
         FreelistOK(f, d, root), d.pgid <= k, DOMAIN root \subseteq DOMAIN d.root,
         Complete(root, k, copyall(f))
  PROVE  Complete(d.root, d.pgid, copyall(rollback(f, d.txid + 1)))
<1> DEFINE g == rollback(f, d.txid + 1)
           mine == {x \in f.pending : x.tid = d.txid + 1}
<1>1. /\ g.free = f.free /\ g.pending = f.pending \ mine
      /\ \A x \in mine : x.id \in DOMAIN d.root
  BY RollbackExact, Zenon
<1>2. d.pgid \in Nat
  BY MetaFields
<1> HIDE DEF g, mine
<1>3. ASSUME NEW p \in Pgid, p < d.pgid
      PROVE  p \in DOMAIN d.root \cup copyall(g)
  <2>1. p \in DOMAIN root \cup copyall(f)
    BY <1>2, <1>3, PgidNat DEF Complete
  <2>2. CASE p \in Ids(f.pending)
    BY <1>1, <2>2, Zenon DEF Ids, copyall
  <2> QED
    BY <1>1, <2>1, <2>2, Zenon DEF copyall
<1> QED
  BY <1>3, Zenon DEF Complete, g

\* Neither does reading the region back.
LEMMA ReloadComplete ==
  ASSUME FreelistType = "array", NEW f \in FreelistRecord, NEW ids \in SUBSET Pgid,
         NEW root, NEW k, Complete(root, k, ids)
  PROVE  Complete(root, k, copyall(reload(f, ids)))
<1>1. /\ reload(f, ids).free = ids \ Ids(f.pending)
      /\ reload(f, ids).pending = f.pending
  BY ReloadExact, Zenon
<1>2. ids \subseteq copyall(reload(f, ids))
  BY <1>1, Zenon DEF copyall
<1> QED
  BY <1>2 DEF Complete

\* Every step accounts for every page, unless Commit may panic.
LEMMA CompleteStep ==
  ASSUME Sound, "assert" \notin Faults, IInv, IInv', CompleteInv, [Next]_vars
  PROVE  CompleteInv'
<1> DEFINE d == Durable
           Live == opened' /\ mapped' => Complete(LiveRoot', LivePgid', copyall(fl'))
<1>0. /\ d \in Meta /\ d.pgid \in Nat /\ d.root \in Tree /\ fl \in FreelistRecord
      /\ wmeta.pgid \in Nat /\ wmeta.root \in Tree
  BY InvTypes, Zenon
<1>1. /\ Complete(d.root, d.pgid, Stored)
      /\ opened /\ mapped => Complete(LiveRoot, LivePgid, copyall(fl))
  BY Zenon DEF CompleteInv, NoLeak, Complete
<1>2. pc # "idle" => /\ opened /\ mapped /\ wmeta.txid = d.txid + 1
                     /\ d.txid + 1 \in Txid
                     /\ Complete(wmeta.root, wmeta.pgid, copyall(fl))
  BY <1>1, OtherSlot, Zenon DEF IInv, WriterInv, LiveRoot, LivePgid
<1>3. pc = "idle" => LiveRoot = d.root /\ LivePgid = d.pgid
  BY CurrentIs DEF LiveRoot, LivePgid
<1> SUFFICES Live /\ Complete(Durable'.root, Durable'.pgid, Stored')
  BY Zenon DEF CompleteInv, NoLeak, Complete
<1>4. CASE Quiet
  BY <1>1, <1>4 DEF Quiet
<1>5. ASSUME Promoted PROVE Complete(Durable'.root, Durable'.pgid, Stored')
  BY <1>2, <1>5, SMTT(60) DEF Promoted
<1>6. CASE Gone \/ Acknowledged
  BY <1>1, <1>5, <1>6 DEF Gone, Acknowledged
<1>7. CASE Undone
  <2>1. /\ pc \notin {"idle", "metasync"} /\ pc' = "idle"
        /\ Durable' = d /\ Stored' = Stored
    BY <1>7, Zenon DEF Undone, Durable, Stored
  <2>2. LiveRoot' = d.root /\ LivePgid' = d.pgid
    <3>1. Current' = d
      BY <1>7, <2>1, CurrentIs, Zenon DEF Undone, Current
    <3> QED
      BY <2>1, <3>1, Zenon DEF LiveRoot, LivePgid
  <2> SUFFICES ASSUME mapped' PROVE Complete(d.root, d.pgid, copyall(fl'))
    BY <1>1, <2>1, <2>2, Zenon
  <2>3. PICK f, root :
          /\ AtFailure(f, root)
          /\ \/ fl' = rollback(f, wmeta.txid) /\ f = fl /\ pc = "body"
             \/ /\ FreelistType = "array"
                /\ fl' = reload(rollback(f, wmeta.txid), Stored)
    BY <1>7, Zenon DEF Undone
  <2>4. CASE fl' = rollback(fl, wmeta.txid) /\ pc = "body"
    <3>1. FreelistOK(fl, d, wmeta.root)
      BY <1>2, <2>1, LiveRootIs, Zenon DEF IInv, FreelistInv
    <3>2. d.pgid <= wmeta.pgid /\ DOMAIN wmeta.root \subseteq DOMAIN d.root
      BY <2>4, Zenon DEF IInv, WriterInv, TreeOf, DirtyPages
    <3> QED
      BY <1>0, <1>2, <2>1, <2>4, <3>1, <3>2, RollbackComplete, Zenon
  <2>5. CASE FreelistType = "array" /\ fl' = reload(rollback(f, wmeta.txid), Stored)
    <3>1. rollback(f, wmeta.txid) \in FreelistRecord
      BY <1>2, <2>1, <2>3, AtFailureOK, rollbackType, Zenon
    <3> QED
      BY <1>1, <2>5, <3>1, StoredType, ReloadComplete, Zenon
  <2> QED
    BY <2>3, <2>4, <2>5, Zenon
<1>8. CASE Open
  <2>1. /\ Durable' = d /\ Stored' = Stored /\ pc' = "idle" /\ pc = "idle"
        /\ fl' = read(newFreelist, Stored) /\ UNCHANGED meta
    BY <1>8, OpenReads, Zenon DEF Durable, Stored
  <2>2. LiveRoot' = d.root /\ LivePgid' = d.pgid
    <3>1. Current' = d
      BY <2>1, CurrentIs DEF Current
    <3> QED
      BY <2>1, <3>1, Zenon DEF LiveRoot, LivePgid
  <2>3. Stored \subseteq copyall(fl')
    BY <2>1, StoredType, OpenExact, Zenon DEF copyall
  <2> QED
    BY <1>1, <2>1, <2>2, <2>3, Zenon DEF Complete
<1>9. CASE BeginRW
  <2>1. /\ Durable' = d /\ Stored' = Stored
        /\ LiveRoot' = d.root /\ LivePgid' = d.pgid
        /\ pc = "idle" /\ UNCHANGED <<opened, mapped>>
    BY <1>9, BeginFrees, Zenon DEF Durable, Stored, LiveRoot, LivePgid
  <2>2. copyall(fl') = copyall(fl)
    BY <1>0, <1>9, BeginFrees, FreePagesCopyall, Zenon
  <2> QED
    BY <1>1, <1>3, <2>1, <2>2
<1>10. ASSUME NEW h \in Heads(wmeta.root), Freed(h)
       PROVE  Live /\ Complete(Durable'.root, Durable'.pgid, Stored')
  <2> DEFINE R == RemoveBlock(wmeta.root, h)
  <2>1. /\ pc # "idle" /\ pc' # "idle" /\ wmeta' = WithTree(wmeta, R, wmeta.pgid)
        /\ fl' = free(fl, wmeta.txid, h, BlockAt(wmeta.root, h))
        /\ Durable' = d /\ Stored' = Stored
    BY <1>10, Zenon DEF Freed, FreeNode, Durable, Stored
  <2>2. LiveRoot' = R /\ LivePgid' = wmeta.pgid
    BY <2>1, InvTypes DEF LiveRoot, LivePgid, WithTree, Meta
  <2>3. Complete(R, wmeta.pgid, copyall(fl'))
    BY <1>2, <2>1, FreeComplete, Zenon
  <2> QED
    BY <1>1, <2>1, <2>2, <2>3, Zenon
<1>11. ASSUME NEW h \in OldHeads \cup {0}, NEW n \in 1 .. MaxRun, SpillNode(h, n)
       PROVE  Live /\ Complete(Durable'.root, Durable'.pgid, Stored')
  <2> DEFINE f == IF h = 0 THEN fl
                  ELSE free(fl, wmeta.txid, h, BlockAt(wmeta.root, h))
             root == IF h = 0 THEN wmeta.root ELSE RemoveBlock(wmeta.root, h)
  <2>1. /\ pc = "spill" /\ pc' = "spill" /\ Durable' = d /\ Stored' = Stored
        /\ \/ \E s \in Candidates(f.free, n) :
                /\ fl' = allocate(f, wmeta.txid, s, n)
                /\ wmeta' = WithTree(wmeta, InsertBlock(root, s, n), wmeta.pgid)
           \/ /\ fl' = f
              /\ wmeta' = WithTree(wmeta, InsertBlock(root, wmeta.pgid, n),
                                   wmeta.pgid + n)
    BY <1>11, Zenon DEF SpillNode, Durable, Stored
  <2>2. Complete(root, wmeta.pgid, copyall(f))
    BY <1>2, <2>1, FreeComplete, Zenon
  <2> HIDE DEF f, root
  <2>3. n \in Nat
    BY DBAssumption
  <2>4. Complete(wmeta'.root, wmeta'.pgid, copyall(fl'))
    <3>1. ASSUME NEW s, fl' = allocate(f, wmeta.txid, s, n),
                 wmeta' = WithTree(wmeta, InsertBlock(root, s, n), wmeta.pgid)
          PROVE  Complete(wmeta'.root, wmeta'.pgid, copyall(fl'))
      <4>1. wmeta'.root = InsertBlock(root, s, n) /\ wmeta'.pgid = wmeta.pgid
        BY <3>1, InvTypes DEF WithTree, Meta
      <4> QED
        BY <2>2, <3>1, <4>1, AllocateComplete, Zenon
    <3>2. ASSUME fl' = f,
                 wmeta' = WithTree(wmeta, InsertBlock(root, wmeta.pgid, n),
                                   wmeta.pgid + n)
          PROVE  Complete(wmeta'.root, wmeta'.pgid, copyall(fl'))
      <4>1. /\ wmeta'.root = InsertBlock(root, wmeta.pgid, n)
            /\ wmeta'.pgid = wmeta.pgid + n
        BY <3>2, InvTypes DEF WithTree, Meta
      <4> QED
        BY <1>0, <2>2, <2>3, <3>2, <4>1, GrowComplete, Zenon
    <3> QED
      BY <2>1, <3>1, <3>2, Zenon
  <2>5. LiveRoot' = wmeta'.root /\ LivePgid' = wmeta'.pgid
    BY <2>1, Zenon DEF LiveRoot, LivePgid
  <2> QED
    BY <1>1, <2>1, <2>4, <2>5, Zenon
<1> QED
  BY <1>4, <1>6, <1>7, <1>8, <1>9, <1>10, <1>11, Kinds, Zenon
=============================================================================
