------------------------------ MODULE Surgery -------------------------------
(***************************************************************************)
(* The offline tools on a database file: the surgery commands copy-page,   *)
(* clear-page and revert-meta-page (surgeon.go, over ReadPage, WritePage   *)
(* and GetRootPage of guts_cli.go), the search for a key over all pages    *)
(* (xray.go), and Tx.Check on what they leave.  The file is what the       *)
(* transactions of Tree wrote.                                             *)
(***************************************************************************)
EXTENDS Tree, Check

CONSTANT MaxCuts    \* bound on the surgery commands

VARIABLES
  file,     \* page id -> page, as last written there
  flist,    \* the freelist regions 0 and 1, as the ids they list
  meta,     \* the meta pages 0 and 1, each with the map its tree should hold
  spoiled,  \* a commit has failed after it wrote, and none has succeeded since
  stage,    \* "open", then "closed" for surgery
  cuts,     \* the commands carried out
  result    \* what the last command returned

svars == <<plan, tree, phase, ops, txs, current, saved,
           file, flist, meta, spoiled, stage, cuts, result>>

(* Pages are written over what was there.                                   *)
Overwrite(f, pages) ==
  LET covered == UNION {Block(pages, id) : id \in DOMAIN pages}
  IN [id \in DOMAIN pages \union (DOMAIN f \ covered) |->
        IF id \in DOMAIN pages THEN pages[id] ELSE f[id]]

(* GetRootPage: the page with the larger transaction id, valid or not.      *)
GetRootPage(m) == IF m[0].txid < m[1].txid THEN 1 ELSE 0

(* DB.meta: the valid page with the larger transaction id.                  *)
activeMeta(m) == LET newer == GetRootPage(m) IN IF m[newer].ok THEN newer ELSE 1 - newer

Active == meta[activeMeta(meta)]

Database(m) ==
  [pages |-> file, root |-> m.root, pgid |-> m.pgid, free |-> flist[m.flid % 2]]

(* commitFreelist: everything below the high water mark that the tree does  *)
(* not use is free or pending (NoPageLost).                                 *)
commitFreelist(t, pgid) == (FirstPage..(pgid - 1)) \ UsedIds(t)

(* The meta of the transaction after m, with the tree t.                    *)
NextMeta(m, t, map) ==
  [ok |-> TRUE, txid |-> m.txid + 1, flid |-> m.flid + 1, root |-> t.root,
   pgid |-> Max(UsedIds(t) \union {m.pgid - 1}) + 1, map |-> map]

(* The meta pages of db.init, which differ in their transaction ids.        *)
InitMeta(txid) ==
  [ok |-> TRUE, txid |-> txid, flid |-> 0, root |-> FirstPage, pgid |-> FirstPage + 1,
   map |-> <<>>]

(* A file that db.init and one transaction wrote.                           *)
SurgeryInit ==
  /\ Init
  /\ LET first == NextMeta(InitMeta(1), tree, saved)
     IN /\ meta = (0 :> first) @@ (1 :> InitMeta(1))
        /\ flist = (0 :> {}) @@ (1 :> commitFreelist(tree, first.pgid))
  /\ file = Overwrite(EmptyTree.pages, tree.pages)
  /\ spoiled = FALSE
  /\ stage = "open"
  /\ cuts = <<>>
  /\ result = "ok"

Work ==
  /\ stage = "open"
  /\ txs < plan.txs
  /\ \/ \E k \in plan.keys : Delete(k) \/ \E v \in plan.values : Put(k, v)
     \/ Commit
     \/ \E id \in DOMAIN tree.nodes : Rebalance(id)
  /\ UNCHANGED <<file, flist, meta, spoiled, stage, cuts, result>>

(* The pages of t, the tree that spill makes, that are new.                 *)
Dirty(t) ==
  {id \in DOMAIN t.pages : id \notin DOMAIN tree.pages \/ t.pages[id] # tree.pages[id]}

(* A bug: the freelist is written to the region in force.                   *)
RegionInForce(flid) == (flid + 1) % 2

(* The region of a freelist.                                                *)
Region(flid) == flid % 2

(* tx.write up to the n-th page, the pages being sorted by their ids: first *)
(* the freelist of the transaction, then the pages of t.                    *)
WritePages(t, m, n) ==
  LET ids == SetToSortSeq(Dirty(t), <)
      written == {ids[i] : i \in 1..(n - 1)}
  IN /\ flist' = IF n = 0 THEN flist
                 ELSE [flist EXCEPT ![Region(m.flid)] = commitFreelist(t, m.pgid)]
     /\ file' = Overwrite(file, [id \in written |-> t.pages[id]])

(* meta.write: the meta page a transaction writes.                          *)
Slot(txid) == txid % 2

(* Commit writes the pages, the freelist and the meta page.  A failure of   *)
(* the last fdatasync leaves the same file, and the meta page is in force.  *)
Write ==
  /\ stage = "open"
  /\ Finish
  /\ LET m == NextMeta(Active, tree', saved')
     IN /\ WritePages(tree', m, 1 + Cardinality(Dirty(tree')))
        /\ meta' = [meta EXCEPT ![Slot(m.txid)] = m]
  /\ spoiled' = FALSE
  /\ UNCHANGED <<stage, cuts, result>>

(* What a writeAt of m over the meta page old may leave before the checksum *)
(* is written: the fields are written in the order root, flid, pgid, txid.  *)
Torn(old, m) ==
  {[m EXCEPT !.ok = FALSE, !.txid = old.txid, !.pgid = old.pgid],
   [m EXCEPT !.ok = FALSE, !.txid = old.txid],
   [m EXCEPT !.ok = FALSE]}

(* Commit fails after it has spilled and is rolled back: in grow, in        *)
(* tx.write before the page after the n-th or, when all are written, in its *)
(* fdatasync, or in the writeAt of the meta page.  A killed process leaves  *)
(* the same file.                                                           *)
WriteFails ==
  /\ stage = "open"
  /\ phase = "commit"
  /\ \A id \in DOMAIN tree.nodes : ~tree.nodes[id].unbalanced
  /\ Rollback
  /\ LET t == Spill(tree)
         m == NextMeta(Active, t, current)
         all == 1 + Cardinality(Dirty(t))
     IN \E n \in 0..all :
          /\ WritePages(t, m, n)
          /\ \/ UNCHANGED meta
             \/ n = all /\ \E torn \in Torn(meta[Slot(m.txid)], m) :
                             meta' = [meta EXCEPT ![Slot(m.txid)] = torn]
          /\ spoiled' = (spoiled \/ n > 0)
  /\ UNCHANGED <<stage, cuts, result>>

(* The tools work on a closed file; the tree in memory is gone.             *)
Close ==
  /\ stage = "open"
  /\ phase = "open"
  /\ stage' = "closed"
  /\ tree' = EmptyTree
  /\ current' = <<>>
  /\ saved' = <<>>
  /\ ops' = 0
  /\ txs' = plan.txs
  /\ UNCHANGED <<plan, phase, file, flist, meta, spoiled, cuts, result>>

(***************************************************************************)
(* The tools.                                                              *)
(***************************************************************************)

(* ReadPage returns a page: its header has its id, and its overflow is      *)
(* below the high water mark that ReadPageAndHWMSize takes from meta page 0.*)
Readable(id) == id \in DOMAIN file /\ file[id].overflow < meta[0].pgid - 3

Cut(name) ==
  /\ stage = "closed"
  /\ Len(cuts) < MaxCuts
  /\ cuts' = Append(cuts, name)
  /\ UNCHANGED <<plan, tree, phase, ops, txs, current, saved, flist, spoiled, stage>>

CopyPage(src, target) ==
  /\ Cut("copy")
  /\ IF Readable(src)
     THEN file' = Overwrite(file, target :> file[src]) /\ result' = "ok"
     ELSE UNCHANGED file /\ result' = "error"
  /\ UNCHANGED meta

(* The page is read with its overflow; once the header says that there is   *)
(* none, WritePage refuses the longer buffer.                               *)
ClearPage(id) ==
  /\ Cut("clear")
  /\ IF Readable(id) /\ file[id].overflow = 0
     THEN file' = [file EXCEPT ![id].inodes = <<>>] /\ result' = "ok"
     ELSE UNCHANGED file /\ result' = "error"
  /\ UNCHANGED meta

RevertMetaPage ==
  /\ Cut("revert")
  /\ meta' = [i \in {0, 1} |-> meta[1 - GetRootPage(meta)]]
  /\ result' = "ok"
  /\ UNCHANGED file

NoMoreCuts ==
  /\ stage = "closed"
  /\ Len(cuts) = MaxCuts
  /\ UNCHANGED svars

(* XRay.traverse and FindPathsToKey.                                        *)
RECURSIVE FindPathsToKey(_, _, _)
FindPathsToKey(pages, id, k) ==
  IF pages[id].leaf
  THEN {<<id>> : x \in {y \in ToSet(pages[id].inodes) : y.key = k}}
  ELSE UNION {{<<id>> \o path : path \in FindPathsToKey(pages, x.pgid, k)} :
                x \in ToSet(pages[id].inodes)}

SurgeryNext ==
  \/ Work
  \/ Write
  \/ WriteFails
  \/ Close
  \/ \E src, target \in DOMAIN file : src # target /\ CopyPage(src, target)
  \/ \E id \in DOMAIN file : ClearPage(id)
  \/ RevertMetaPage
  \/ NoMoreCuts

SurgerySpec == SurgeryInit /\ [][SurgeryNext]_svars

(***************************************************************************)
(* Properties.                                                             *)
(***************************************************************************)

(* The tree below a page has no cycle; the code does not end on others.     *)
RECURSIVE Acyclic(_, _, _)
Acyclic(pages, id, above) ==
  /\ id \in DOMAIN pages \ above
  /\ pages[id].leaf \/ \A x \in ToSet(pages[id].inodes) :
                         Acyclic(pages, x.pgid, above \union {id})

OnDisk(m) == [EmptyTree EXCEPT !.pages = file, !.root = m.root]

(* What a meta page describes: it is valid, its tree holds the map of its   *)
(* commit, and Check finds nothing.                                         *)
Whole(m) ==
  /\ m.ok
  /\ Matches(Items(OnDisk(m), m.root), m.map)
  /\ check(Database(m)) = {}

(* Wherever commits failed, the state in force is whole, so that the next   *)
(* Open finds the last commit and Commit in StrictMode never panics.  The   *)
(* state of the other meta page is whole too, and revert-meta-page brings   *)
(* it back ("the previous state is consistent", surgeon.go:38), unless a    *)
(* commit has failed since the last one that succeeded: it has written      *)
(* freelist and pages over those of the previous state.                     *)
BothStatesConsistent ==
  /\ cuts = <<>> => Whole(Active)
  /\ ToSet(cuts) \subseteq {"revert"} /\ ~spoiled => Whole(meta[0]) /\ Whole(meta[1])

(* After pages were copied and cleared: where Check reports nothing, a      *)
(* search from the root comes to every key that is found by looking at all  *)
(* pages, along the same path and along no other; provided that the tool    *)
(* can read the pages, and takes the meta page that DB.meta takes, which it *)
(* may not if one is torn.                                                  *)
AcceptedIsSearchable ==
  LET t == OnDisk(Active)
  IN /\ Active.ok /\ GetRootPage(meta) = activeMeta(meta)
     /\ Acyclic(file, Active.root, {}) /\ check(Database(Active)) = {}
     /\ \A id \in ToSet(forEachPage(file, Active.root)) : Readable(id)
     => \A k \in Key :
          LET path == Path(t, t.root, k)
          IN FindPathsToKey(file, t.root, k)
               = IF Found(file[Last(path)].inodes, k) THEN {path} ELSE {}
=============================================================================
