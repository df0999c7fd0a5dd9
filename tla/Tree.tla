-------------------------------- MODULE Tree --------------------------------
(***************************************************************************)
(* One bucket's B+tree through write transactions: Put and Delete, then    *)
(* Commit, which rebalances the nodes in the order in which Go happens to  *)
(* walk its map and spills them to new pages, or Rollback (bucket.go,      *)
(* node.go, and Tx.Commit where it calls them).                            *)
(***************************************************************************)
EXTENDS Layout

CONSTANTS
  Key,      \* keys, as numbers
  Value,    \* sizes of values
  Plan      \* where behaviours start, and their bounds: records with
            \*   start   the keys in the tree, with the smallest value
            \*   keys    the keys to put and delete
            \*   values  the sizes of the values to put
            \*   ops     bound on the changes of one transaction
            \*   txs     bound on the transactions
            \*   cursor  whether a cursor is used (module Cursor)

ASSUME TreeAssumption ==
  /\ Key \subseteq Nat \ {0}
  /\ Value \subseteq Nat
  /\ Plan \subseteq [start : SUBSET Key, keys : SUBSET Key, values : SUBSET Value,
                     ops : Nat, txs : Nat, cursor : BOOLEAN]

VARIABLES
  plan,     \* the plan of the behaviour
  tree,     \* the bucket, as in Node
  phase,    \* "open", or "commit" once Commit is rebalancing
  ops,      \* changes made by the transaction
  txs,      \* transactions ended
  current,  \* the map the transaction should see
  saved     \* the map the last commit should have left

vars == <<plan, tree, phase, ops, txs, current, saved>>

(* What the bucket promises; its map takes the same steps.                  *)
KV == INSTANCE KeyValue

Item(k, v) == [key |-> k, pgid |-> 0, value |-> v]

(* A bug: a page that is not in memory is changed in place.                 *)
PutKeyInPlace(t, k, v) ==
  LET id == Last(Path(t, t.root, k))
  IN IF id \in DOMAIN t.nodes
     THEN [t EXCEPT !.nodes[id].inodes = put(@, k, Item(k, v))]
     ELSE [t EXCEPT !.pages[id].inodes = put(@, k, Item(k, v))]

(* Bucket.Put.                                                              *)
PutKey(t, k, v) ==
  LET path == Path(t, t.root, k)
      u == cursorNode(t, path)
  IN [u EXCEPT !.nodes[Last(path)].inodes = put(@, k, Item(k, v))]

(* Bucket.Delete: nothing is read into memory for a key that is not there.  *)
DeleteKey(t, k) ==
  LET path == Path(t, t.root, k)
      u == cursorNode(t, path)
  IN IF ~Found(pageNode(t, Last(path)).inodes, k) THEN t
     ELSE [u EXCEPT !.nodes[Last(path)] = del(@, k)]

(* The end of a transaction: what is in memory goes.                        *)
Forget(t) == [t EXCEPT !.nodes = <<>>, !.freed = {}]

(* Bucket.spill, for a bucket with a root node, and the end of Commit: the  *)
(* freed pages can be used by the next transaction.                         *)
Spill(t) ==
  LET u == IF t.root \in DOMAIN t.nodes THEN spill(t, t.root) ELSE t
  IN IF u.faults # {} THEN Forget([t EXCEPT !.faults = u.faults])
     ELSE Forget([u EXCEPT !.pages = [id \in DOMAIN @ \ u.freed |-> @[id]]])

EmptyTree ==
  [pages |-> (FirstPage :> [leaf |-> TRUE, inodes |-> <<>>, overflow |-> 0]),
   root |-> FirstPage, nodes |-> <<>>, freed |-> {}, faults |-> {}]

Smallest == Min(Value)

(* The tree one transaction makes of a set of keys: they are all in the     *)
(* root's node until it is spilled.                                         *)
Load(keys) ==
  LET items == FoldSet(LAMBDA k, s : put(s, k, Item(k, Smallest)), <<>>, keys)
      t == node(EmptyTree, FirstPage, 0)
  IN IF keys = {} THEN EmptyTree ELSE Spill([t EXCEPT !.nodes[FirstPage].inodes = items])

Init ==
  /\ plan \in Plan
  /\ tree = Load(plan.start)
  /\ saved = [k \in plan.start |-> Smallest]
  /\ current = saved
  /\ phase = "open"
  /\ ops = 0
  /\ txs = 0

Put(k, v) ==
  /\ phase = "open"
  /\ ops < plan.ops
  /\ txs < plan.txs
  /\ tree' = PutKey(tree, k, v)
  /\ KV!Put(k, v)
  /\ ops' = ops + 1
  /\ UNCHANGED <<plan, phase, txs>>

Delete(k) ==
  /\ phase = "open"
  /\ ops < plan.ops
  /\ txs < plan.txs
  /\ tree' = DeleteKey(tree, k)
  /\ KV!Delete(k)
  /\ ops' = ops + 1
  /\ UNCHANGED <<plan, phase, txs>>

Commit ==
  /\ phase = "open"
  /\ phase' = "commit"
  /\ UNCHANGED <<plan, tree, ops, txs, current, saved>>

(* Bucket.rebalance: the next node of the map.  Nodes that need no          *)
(* rebalancing are passed over.                                             *)
Rebalance(id) ==
  /\ phase = "commit"
  /\ tree.nodes[id].unbalanced
  /\ tree' = rebalance(tree, id)
  /\ UNCHANGED <<plan, phase, ops, txs, current, saved>>

(* A bug: the last node of the map is spilled as it is.                     *)
FinishEarly ==
  /\ phase = "commit"
  /\ txs < plan.txs
  /\ Cardinality({id \in DOMAIN tree.nodes : tree.nodes[id].unbalanced}) <= 1
  /\ tree' = Spill(tree)
  /\ KV!Commit
  /\ phase' = "open"
  /\ ops' = 0
  /\ txs' = txs + 1
  /\ UNCHANGED plan

Finish ==
  /\ phase = "commit"
  /\ txs < plan.txs
  /\ \A id \in DOMAIN tree.nodes : ~tree.nodes[id].unbalanced
  /\ tree' = Spill(tree)
  /\ KV!Commit
  /\ phase' = "open"
  /\ ops' = 0
  /\ txs' = txs + 1
  /\ UNCHANGED plan

(* Tx.Rollback, or Commit giving up after the rebalancing.                  *)
Rollback ==
  /\ txs < plan.txs
  /\ tree' = Forget(tree)
  /\ KV!Rollback
  /\ phase' = "open"
  /\ ops' = 0
  /\ txs' = txs + 1
  /\ UNCHANGED plan

(* The bound on transactions is reached.                                    *)
Done ==
  /\ txs = plan.txs
  /\ UNCHANGED vars

Next ==
  \/ \E k \in plan.keys : Delete(k) \/ \E v \in plan.values : Put(k, v)
  \/ Commit
  \/ \E id \in DOMAIN tree.nodes : Rebalance(id)
  \/ Finish
  \/ Rollback
  \/ Done

Spec == Init /\ [][Next]_vars

(***************************************************************************)
(* Properties.                                                             *)
(***************************************************************************)

(* The items of a tree from left to right.                                  *)
RECURSIVE Items(_, _)
Items(t, id) ==
  LET p == pageNode(t, id)
  IN IF p.leaf THEN p.inodes
     ELSE FoldLeft(LAMBDA items, x : items \o Items(t, x.pgid), <<>>, p.inodes)

Matches(items, map) ==
  /\ Len(items) = Cardinality(DOMAIN map)
  /\ \A x \in ToSet(items) : x.key \in DOMAIN map /\ map[x.key] = x.value

(* The tree holds the map of KeyValue: Put and Delete change one key,       *)
(* Commit writes out exactly what the transaction saw, whatever was merged, *)
(* split, collapsed and moved on the way and in whatever order, and         *)
(* Rollback leaves what the last commit wrote.  A walk over the leaves      *)
(* meets the keys in order and a search from the root (Cursor.seek) finds   *)
(* them and no others, also in the middle of a commit, when the keys in     *)
(* branch nodes may differ from the first keys below them.                  *)
HoldsMap ==
  LET items == Items(tree, tree.root)
      Leaf(k) == pageNode(tree, Last(Path(tree, tree.root, k))).inodes
  IN /\ Matches(items, current)
     /\ Matches(Items(Forget(tree), tree.root), saved)
     /\ \A i \in 1..(Len(items) - 1) : items[i].key < items[i + 1].key
     /\ \A k \in plan.keys : Found(Leaf(k), k) <=> k \in DOMAIN current

(* No assertion of node.rebalance fails ("parent must have at least 2       *)
(* children"), node.spill never meets an empty node, and no page is handed  *)
(* to the freelist twice in a transaction.                                  *)
NoFaults == tree.faults = {}

RECURSIVE Reachable(_, _)
Reachable(t, id) ==
  LET p == t.pages[id]
  IN (id..(id + p.overflow))
       \union (IF p.leaf THEN {}
               ELSE UNION {Reachable(t, x.pgid) : x \in ToSet(p.inodes)})

(* The pages in use are those of the tree: rebalance and spill free every   *)
(* page they replace, and none that is still part of the tree.              *)
NoPageLost == UsedIds(tree) = Reachable(tree, tree.root)

(* A transaction writes no page of the tree it started from, so that        *)
(* readers and a crash still find it.                                       *)
CopyOnWrite ==
  [][\A id \in DOMAIN tree.pages \intersect DOMAIN tree'.pages :
       tree'.pages[id] = tree.pages[id]]_vars

RECURSIVE Depths(_, _)
Depths(t, id) ==
  IF t.pages[id].leaf THEN {0}
  ELSE {d + 1 : d \in UNION {Depths(t, x.pgid) : x \in ToSet(t.pages[id].inodes)}}

(* The items of a leaf with the sizes they may really have: one that does    *)
(* not fit on a page stands for the largest there is, which node.split      *)
(* treats the same.                                                         *)
Stretched(inodes, flags) ==
  LET Large(x) == x.value > PageSize - pageHeaderSize - pageElementSize(TRUE) - KeySize
  IN [i \in DOMAIN inodes |->
        [flags |-> flags,
         ksize |-> IF Large(inodes[i]) THEN MaxKeySize ELSE KeySize,
         vsize |-> IF Large(inodes[i]) THEN MaxValueSize ELSE inodes[i].value]]

(* Every leaf that a commit wrote reads back: node.read finds each item's   *)
(* flag, key and value in the bits where leafPageElement.fill put them, one *)
(* item behind the other, since node.split leaves so few large items        *)
(* together that every position fits into its 26 bits.                      *)
ItemsReadBack ==
  phase = "open" /\ ops = 0 =>
    \A p \in {tree.pages[id] : id \in DOMAIN tree.pages}, flags \in 0..1 :
      p.leaf =>
        LET items == Stretched(p.inodes, flags)
            elems == writeElems(items)
        IN \A i \in DOMAIN items :
             LET at == dataAt(items, i)
             IN readElem(elems, i) =
                  [flags |-> flags, key |-> at, value |-> at + items[i].ksize,
                   end |-> dataAt(items, i + 1)]

(* The shape of committed trees: every leaf at the same depth, at least two *)
(* children under a branch, no empty leaf but the root, every branch key    *)
(* the first key of the page it points to (what childIndex and del rely     *)
(* on), and no page larger than PageSize unless it holds few inodes.        *)
Balanced ==
  /\ Cardinality(Depths(tree, tree.root)) = 1
  /\ \A id \in DOMAIN tree.pages :
       LET p == tree.pages[id]
       IN /\ p.leaf /\ id # tree.root => p.inodes # <<>>
          /\ ~p.leaf =>
               /\ Len(p.inodes) >= minKeysPerPage
               /\ \A x \in ToSet(p.inodes) : x.key = tree.pages[x.pgid].inodes[1].key
          /\ p.overflow > 0 => Len(p.inodes) <= 2 * minKeysPerPage
=============================================================================
