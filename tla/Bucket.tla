------------------------------- MODULE Bucket -------------------------------
(***************************************************************************)
(* Nested buckets through write transactions (bucket.go): how they are     *)
(* opened and cached, created, deleted with everything below them, given   *)
(* sequence numbers, and spilled inline or to a page of their own.         *)
(*                                                                         *)
(* Each bucket is a single leaf; Tree has the trees.  A leaf maps names to *)
(* entries: a value is known by its size, and a bucket entry holds the     *)
(* page id of its root, or 0 and the inline leaf.  In memory, a bucket has *)
(*   root, seq   its header                                                *)
(*   page        the inline leaf it was opened with, if any                *)
(*   node        rootNode: the leaf once it is read for changing           *)
(*   buckets     the children opened so far                                *)
(***************************************************************************)
EXTENDS Integers, SequencesExt

CONSTANTS
  Name,       \* names of keys and buckets, as numbers
  Value,      \* sizes of values
  MaxInline,  \* the size up to which a bucket may be inline
  MaxDepth,   \* bound on the depth of paths
  Plan,       \* where behaviours start, and their bounds: records with
              \*   calls  calls whose effect is in the file
              \*   ops    bound on the calls of a transaction
              \*   txs    bound on the transactions
              \*   sizes  values of txMaxSize (module Compact)
  None        \* no leaf

ASSUME BucketAssumption ==
  /\ Name \subseteq Nat
  /\ Value \subseteq Nat
  /\ MaxInline \in Nat
  /\ MaxDepth \in Nat
  /\ \A p \in Plan : p.ops \in Nat /\ p.txs \in Nat /\ p.sizes \subseteq Nat

VARIABLES
  plan,    \* the plan of the behaviour
  db,      \* the file: pages, and the root page in the meta
  tx,      \* the root bucket of the open transaction
  freed,   \* pages the transaction handed to the freelist
  skipped, \* pages of buckets that a DeleteBucket of the transaction passed over
  lost,    \* the same for committed transactions
  fault,   \* the code panicked
  ops,     \* calls of the transaction
  txs,     \* transactions ended
  map,     \* what the transaction should see: path -> value or bucket
  saved    \* the same for the last commit

vars == <<plan, db, tx, freed, skipped, lost, fault, ops, txs, map, saved>>

EmptyLeaf == [k \in {} |-> None]

ValueEntry(v) == [bucket |-> FALSE, size |-> v]

BucketEntry(root, seq, page) ==
  [bucket |-> TRUE, root |-> root, seq |-> seq, page |-> page]

openBucket(e) ==
  [root |-> e.root, seq |-> e.seq, page |-> e.page, node |-> None, buckets |-> EmptyLeaf]

(* Bucket.pageNode.                                                         *)
pageNode(b, pages) ==
  IF b.node # None THEN b.node ELSE IF b.root = 0 THEN b.page ELSE pages[b.root]

(* Cursor.node: the leaf is read into memory.                               *)
node(b, pages) == [b EXCEPT !.node = pageNode(b, pages)]

put(b, pages, k, e) == [b EXCEPT !.node = (k :> e) @@ pageNode(b, pages)]

del(b, pages, k) ==
  LET leaf == pageNode(b, pages)
  IN [b EXCEPT !.node = [x \in DOMAIN leaf \ {k} |-> leaf[x]]]

HasBucket(b, pages, k) ==
  k \in DOMAIN pageNode(b, pages) /\ pageNode(b, pages)[k].bucket

(* Bucket.Bucket: the child opened before, or a new one.                    *)
Child(b, pages, k) ==
  IF k \in DOMAIN b.buckets THEN b.buckets[k] ELSE openBucket(pageNode(b, pages)[k])

WithChild(b, k, child) == [b EXCEPT !.buckets = (k :> child) @@ @]

(* The outcome of a call: the bucket and the pages freed and passed over.   *)
Outcome(b) == [b |-> b, freed |-> {}, skipped |-> {}]

Put(b, pages, k, v) ==
  IF HasBucket(b, pages, k) THEN b ELSE put(b, pages, k, ValueEntry(v))

Delete(b, pages, k) ==
  IF k \notin DOMAIN pageNode(b, pages) \/ HasBucket(b, pages, k) THEN b
  ELSE del(b, pages, k)

CreateBucket(b, pages, k) ==
  LET u == [put(b, pages, k, BucketEntry(0, 0, EmptyLeaf)) EXCEPT !.page = None]
  IN IF k \in DOMAIN pageNode(b, pages) THEN b
     ELSE WithChild(u, k, Child(u, pages, k))

(* A bug: the bucket is not read into memory and so not saved.              *)
NextSequenceUnsaved(b, pages) == [b EXCEPT !.seq = @ + 1]

NextSequence(b, pages) == [node(b, pages) EXCEPT !.seq = @ + 1]

SetSequence(b, pages, n) == [node(b, pages) EXCEPT !.seq = n]

(* ForEachBucket with a function that deletes the bucket it is given: the   *)
(* names it is called with.  The cursor is over a page, which stays as it   *)
(* is, or over a node, where the rest moves up under the cursor.            *)
RECURSIVE Walk(_, _, _, _)
Walk(names, i, leaf, live) ==
  IF i > Len(names) THEN {}
  ELSE IF ~leaf[names[i]].bucket THEN Walk(names, i + 1, leaf, live)
  ELSE {names[i]} \union Walk(IF live THEN RemoveAt(names, i) ELSE names, i + 1, leaf, live)

ForEachBucket(b, pages) ==
  LET leaf == pageNode(b, pages)
  IN Walk(SetToSortSeq(DOMAIN leaf, <), 1, leaf, b.node # None)

(* Pages below a bucket, as the file has them.                              *)
RECURSIVE PagesOf(_, _)
PagesOf(b, pages) ==
  LET leaf == pageNode(b, pages)
      below == {k \in DOMAIN leaf : leaf[k].bucket}
  IN ({b.root} \ {0}) \union UNION {PagesOf(Child(b, pages, k), pages) : k \in below}

(* A bug: the cached copy of the bucket stays.                              *)
DeleteBucketKeepsCopy(b, pages, k) ==
  IF ~HasBucket(b, pages, k) THEN Outcome(b)
  ELSE [b |-> del(b, pages, k), freed |-> PagesOf(Child(b, pages, k), pages),
        skipped |-> {}]

(* What the deletion of one more bucket below adds to the outcome.          *)
Joined(r, s) ==
  [s EXCEPT !.freed = @ \union r.freed, !.skipped = @ \union r.skipped]

(* The bucket is deleted, once what ForEachBucket found below it is.        *)
Removed(b, pages, k, root, below) ==
  [b |-> [del(b, pages, k) EXCEPT !.buckets = [x \in DOMAIN @ \ {k} |-> @[x]]],
   freed |-> below.freed \union ({root} \ {0}),
   skipped |-> below.skipped \union (PagesOf(below.b, pages) \ {root})]

RECURSIVE DeleteBucket(_, _, _)
DeleteBucket(b, pages, k) ==
  LET child == Child(b, pages, k)
  IN IF ~HasBucket(b, pages, k) THEN Outcome(b)
     ELSE Removed(b, pages, k, child.root,
            FoldLeft(LAMBDA r, x : Joined(r, DeleteBucket(r.b, pages, x)), Outcome(child),
                     SetToSortSeq(ForEachBucket(child, pages), <)))

(* The call made on the bucket at a path; every bucket on the way is opened.*)
RECURSIVE Call(_, _, _, _)
Call(b, pages, path, c) ==
  IF path # <<>>
  THEN LET k == Head(path)
       IN [Call(Child(b, pages, k), pages, Tail(path), c) EXCEPT !.b = WithChild(b, k, @)]
  ELSE CASE c.name = "Put" -> Outcome(Put(b, pages, c.key, c.size))
         [] c.name = "Delete" -> Outcome(Delete(b, pages, c.key))
         [] c.name = "CreateBucket" -> Outcome(CreateBucket(b, pages, c.key))
         [] c.name = "DeleteBucket" -> DeleteBucket(b, pages, c.key)
         [] c.name = "NextSequence" -> Outcome(NextSequence(b, pages))
         [] c.name = "SetSequence" -> Outcome(SetSequence(b, pages, c.size))
         [] c.name = "Get" -> Outcome(b)

(***************************************************************************)
(* Spilling, on a record of the pages, the freed ids and a fault.          *)
(***************************************************************************)

inlineable(b) ==
  /\ b.node # None
  /\ \A k \in DOMAIN b.node : ~b.node[k].bucket
  /\ FoldSet(LAMBDA k, n : n + b.node[k].size, 0, DOMAIN b.node) <= MaxInline

(* Bucket.free, and node.free: the page of a leaf.                          *)
free(f, b) ==
  IF b.root = 0 THEN f
  ELSE [f EXCEPT !.fault = @ \/ b.root \in f.freed, !.freed = @ \union {b.root}]

NewPage(f) == Min((1..(Cardinality(DOMAIN f.pages) + 1)) \ DOMAIN f.pages)

(* A bucket that is small enough goes into the parent's leaf.               *)
inline(f, child) ==
  [f |-> free(f, child), b |-> [child EXCEPT !.root = 0],
   entry |-> BucketEntry(0, child.seq, child.node)]

(* Any other is written to a page, which its entry names.                   *)
paged(s) == [f |-> s.f, b |-> s.b, entry |-> BucketEntry(s.b.root, s.b.seq, None)]

(* The entry of a child that has changed is updated in the parent's leaf.   *)
update(b, k, out) ==
  LET u == WithChild(b, k, out.b)
  IN IF out.b.node = None THEN [f |-> out.f, b |-> u]
     ELSE IF ~HasBucket(u, out.f.pages, k)
     THEN [f |-> [out.f EXCEPT !.fault = TRUE], b |-> u]
     ELSE [f |-> out.f, b |-> put(u, out.f.pages, k, out.entry)]

(* node.spill of the leaf, if it is in memory.                              *)
spillRoot(s) ==
  LET g == free(s.f, s.b)
      id == NewPage(g)
  IN IF s.b.node = None THEN s
     ELSE [f |-> [g EXCEPT !.pages = (id :> s.b.node) @@ @],
           b |-> [s.b EXCEPT !.root = id]]

RECURSIVE spill(_, _)
spill(f, b) ==
  LET spillChild(g, child) ==
        IF inlineable(child) THEN inline(g, child) ELSE paged(spill(g, child))
  IN spillRoot(FoldLeft(LAMBDA s, k : update(s.b, k, spillChild(s.f, s.b.buckets[k])),
                        [f |-> f, b |-> b], SetToSortSeq(DOMAIN b.buckets, <)))

(***************************************************************************)
(* Transactions.                                                           *)
(***************************************************************************)

RootOf(d) == openBucket(BucketEntry(d.root, 0, None))

EmptyDB == [pages |-> (1 :> EmptyLeaf), root |-> 1]

(* What is freed can be used by the next transaction.                       *)
Released(s) ==
  [db |-> [pages |-> [id \in DOMAIN s.f.pages \ s.f.freed |-> s.f.pages[id]],
           root |-> s.b.root],
   fault |-> s.f.fault]

(* Tx.Commit.                                                               *)
Committed(d, b, ids) ==
  Released(spill([pages |-> d.pages, freed |-> ids, fault |-> FALSE], b))

(* The paths of the buckets.                                                *)
Buckets(m) == {<<>>} \union {p \in DOMAIN m : m[p].bucket}

(* What a call should do to the map from paths to values and buckets.       *)
After(m, c) ==
  LET p == Append(c.path, c.key)
      there == p \in DOMAIN m
  IN CASE c.name = "Put" /\ ~(there /\ m[p].bucket) ->
            (p :> [bucket |-> FALSE, n |-> c.size]) @@ m
       [] c.name = "Delete" /\ there /\ ~m[p].bucket ->
            [x \in DOMAIN m \ {p} |-> m[x]]
       [] c.name = "CreateBucket" /\ ~there ->
            (p :> [bucket |-> TRUE, n |-> 0]) @@ m
       [] c.name = "DeleteBucket" /\ there /\ m[p].bucket ->
            [x \in {y \in DOMAIN m : ~IsPrefix(p, y)} |-> m[x]]
       [] c.name = "NextSequence" -> [m EXCEPT ![c.path].n = @ + 1]
       [] c.name = "SetSequence" -> [m EXCEPT ![c.path].n = c.size]
       [] OTHER -> m

(* Prepared calls in one transaction on an empty file.                      *)
Load(calls) ==
  Committed(EmptyDB,
            FoldLeft(LAMBDA b, c : Call(b, EmptyDB.pages, c.path, c).b, RootOf(EmptyDB), calls),
            {}).db

Init ==
  /\ plan \in Plan
  /\ db = Load(plan.calls)
  /\ map = FoldLeft(After, EmptyLeaf, plan.calls)
  /\ saved = map
  /\ tx = RootOf(db)
  /\ freed = {}
  /\ skipped = {}
  /\ lost = {}
  /\ fault = FALSE
  /\ ops = 0
  /\ txs = 0

(* What a call leaves of the transaction.                                   *)
Leave(r) ==
  /\ tx' = r.b
  /\ fault' = (fault \/ r.freed \intersect freed # {})
  /\ freed' = freed \union r.freed
  /\ skipped' = skipped \union r.skipped

Do(name, path, key, size) ==
  LET c == [name |-> name, path |-> path, key |-> key, size |-> size]
  IN /\ ops < plan.ops
     /\ txs < plan.txs
     /\ Leave(Call(tx, db.pages, path, c))
     /\ map' = After(map, c)
     /\ ops' = ops + 1
     /\ UNCHANGED <<plan, db, lost, txs, saved>>

(* The file after a commit.                                                 *)
Written(r) ==
  /\ db' = r.db
  /\ fault' = (fault \/ r.fault)

Commit ==
  /\ txs < plan.txs
  /\ Written(Committed(db, tx, freed))
  /\ tx' = RootOf(db')
  /\ freed' = {}
  /\ skipped' = {}
  /\ lost' = lost \union skipped
  /\ ops' = 0
  /\ txs' = txs + 1
  /\ saved' = map
  /\ UNCHANGED <<plan, map>>

Rollback ==
  /\ txs < plan.txs
  /\ tx' = RootOf(db)
  /\ freed' = {}
  /\ skipped' = {}
  /\ ops' = 0
  /\ txs' = txs + 1
  /\ map' = saved
  /\ UNCHANGED <<plan, db, lost, fault, saved>>

Done ==
  /\ txs = plan.txs
  /\ UNCHANGED vars

(* The root holds buckets only: Tx has no Put and no Delete.                *)
Next ==
  \/ \E path \in Buckets(map) \ {<<>>} :
       \/ Do("NextSequence", path, 0, 0) \/ Do("Get", path, 0, 0)
       \/ Do("SetSequence", path, 0, 0)
  \/ \E path \in Buckets(map), k \in Name :
       /\ Len(path) < MaxDepth
       /\ \/ Do("CreateBucket", path, k, 0)
          \/ Do("DeleteBucket", path, k, 0)
          \/ path # <<>> /\ Do("Delete", path, k, 0)
          \/ path # <<>> /\ \E v \in Value : Do("Put", path, k, v)
  \/ Commit
  \/ Rollback
  \/ Done

Spec == Init /\ [][Next]_vars

(***************************************************************************)
(* Bucket.Stats, of the committed file.                                    *)
(***************************************************************************)

(* A bug: inline buckets are counted as leaf pages too.                     *)
RECURSIVE StatsCountsInline(_, _)
StatsCountsInline(b, pages) ==
  LET leaf == pageNode(b, pages)
      subs == {k \in DOMAIN leaf : leaf[k].bucket}
      Sub(k) == StatsCountsInline(openBucket(leaf[k]), pages)
      Total(field) == FoldSet(LAMBDA k, n : n + Sub(k)[field], 0, subs)
  IN [BucketN |-> 1 + Total("BucketN"),
      InlineBucketN |-> (IF b.root = 0 THEN 1 ELSE 0) + Total("InlineBucketN"),
      KeyN |-> Cardinality(DOMAIN leaf) + Total("KeyN"),
      LeafPageN |-> 1 + Total("LeafPageN"),
      Depth |-> 1 + Max({0} \union {Sub(k).Depth : k \in subs})]

RECURSIVE Stats(_, _)
Stats(b, pages) ==
  LET leaf == pageNode(b, pages)
      subs == IF b.root = 0 THEN {} ELSE {k \in DOMAIN leaf : leaf[k].bucket}
      Sub(k) == Stats(openBucket(leaf[k]), pages)
      Total(field) == FoldSet(LAMBDA k, n : n + Sub(k)[field], 0, subs)
  IN [BucketN |-> 1 + Total("BucketN"),
      InlineBucketN |-> (IF b.root = 0 THEN 1 ELSE 0) + Total("InlineBucketN"),
      KeyN |-> Cardinality(DOMAIN leaf) + Total("KeyN"),
      LeafPageN |-> (IF b.root = 0 THEN 0 ELSE 1) + Total("LeafPageN"),
      Depth |-> 1 + Max({0} \union {Sub(k).Depth : k \in subs})]

(***************************************************************************)
(* Properties.                                                             *)
(***************************************************************************)

(* What can be seen through a bucket, by path.                              *)
RECURSIVE View(_, _, _)
View(b, pages, path) ==
  LET leaf == pageNode(b, pages)
      Below(k) == View(Child(b, pages, k), pages, Append(path, k))
      Here(k) == IF leaf[k].bucket
                 THEN [bucket |-> TRUE, n |-> Child(b, pages, k).seq]
                 ELSE [bucket |-> FALSE, n |-> leaf[k].size]
  IN FoldSet(LAMBDA k, m : (Append(path, k) :> Here(k)) @@ m
                             @@ (IF leaf[k].bucket THEN Below(k) ELSE EmptyLeaf),
             EmptyLeaf, DOMAIN leaf)

(* The transaction sees what its calls should have done, in whatever order  *)
(* buckets were opened, changed, deleted and created again, and a commit    *)
(* writes the same, sequence numbers included, whether a bucket becomes     *)
(* inline, ceases to be, or is left alone; a rollback writes nothing.       *)
HoldsMap ==
  /\ View(tx, db.pages, <<>>) = map
  /\ View(RootOf(db), db.pages, <<>>) = saved

(* The references from the file's buckets to pages.                         *)
RECURSIVE References(_, _, _)
References(b, pages, path) ==
  LET leaf == pageNode(b, pages)
  IN ({<<path, b.root>>} \ {<<path, 0>>})
       \union UNION {References(Child(b, pages, k), pages, Append(path, k)) :
                       k \in {x \in DOMAIN leaf : leaf[x].bucket}}

Referenced == {r[2] : r \in References(RootOf(db), db.pages, <<>>)}

(* Each page of the file belongs to exactly one bucket or is free again     *)
(* after the commit, whatever is deleted, created again or moved inline, but *)
(* for the pages of buckets passed over by DeleteBucket.  None is freed      *)
(* twice ("page already freed") and no bucket is misplaced in spill.        *)
PagesUsedOnce ==
  /\ ~fault
  /\ DOMAIN db.pages = Referenced \union lost
  /\ Cardinality(References(RootOf(db), db.pages, <<>>)) = Cardinality(Referenced)

(* Bucket.Stats counts every bucket, key and page of the file once, and the *)
(* levels of nesting.                                                       *)
StatsMatch ==
  LET s == Stats(RootOf(db), db.pages)
      buckets == {p \in DOMAIN saved : saved[p].bucket}
  IN /\ s.BucketN = 1 + Cardinality(buckets)
     /\ s.KeyN = Cardinality(DOMAIN saved)
     /\ s.LeafPageN = Cardinality(Referenced)
     /\ s.BucketN = s.LeafPageN + s.InlineBucketN
     /\ s.Depth = 1 + Max({0} \union {Len(p) : p \in buckets})
=============================================================================
