-------------------------------- MODULE Node --------------------------------
(***************************************************************************)
(* The nodes of one bucket's B+tree in a write transaction: how they are   *)
(* read from pages, searched, changed, rebalanced, split and spilled       *)
(* (node.go, with Bucket.node and Bucket.pageNode of bucket.go and the     *)
(* searches of cursor.go).                                                 *)
(*                                                                         *)
(* A tree is a record:                                                     *)
(*   pages   the pages of the bucket: page id -> [leaf, inodes, overflow]  *)
(*   root    the page id of the root                                       *)
(*   nodes   Bucket.nodes, the pages read into memory: page id -> node     *)
(*   freed   the pages handed to the freelist by this transaction          *)
(*   faults  the panics and failed assertions the code ran into            *)
(* A node keeps the page id it was read from as its identity; 0 stands for *)
(* no parent.  An inode holds a key and either the page id of a child or   *)
(* the size of a value, which also serves as the value itself.  The list   *)
(* node.children is a set: the code sorts it before it reads it.           *)
(***************************************************************************)
EXTENDS Integers, SequencesExt

CONSTANTS
  PageSize,    \* DB.pageSize
  KeySize,     \* the length of every key, 0 when it is counted in the values
  FillPercent, \* Bucket.FillPercent, in percent
  FirstPage    \* the first page behind meta pages and freelist regions

ASSUME NodeAssumption ==
  /\ PageSize \in Nat
  /\ KeySize \in Nat
  /\ FillPercent \in Int
  /\ FirstPage \in Nat \ {0}

pageHeaderSize == 16

minKeysPerPage == 2

pageElementSize(leaf) == IF leaf THEN 8 ELSE 16

(* The bytes of the first i inodes on a page.                               *)
RECURSIVE Bytes(_, _, _)
Bytes(leaf, inodes, i) ==
  IF i = 0 THEN pageHeaderSize
  ELSE Bytes(leaf, inodes, i - 1) + pageElementSize(leaf) + KeySize + inodes[i].value

size(n) == Bytes(n.leaf, n.inodes, Len(n.inodes))

(* A bug: the number of keys does not count.                                *)
minKeysNone(n) == 0

minKeys(n) == IF n.leaf THEN 1 ELSE 2

(* sort.Search over the keys: the first position whose key is not smaller.  *)
search(inodes, key) ==
  1 + Cardinality({i \in DOMAIN inodes : inodes[i].key < key})

Found(inodes, key) ==
  LET i == search(inodes, key) IN i <= Len(inodes) /\ inodes[i].key = key

(* searchNode and searchPage: the child under which a key belongs.          *)
searchNode(inodes, key) ==
  LET i == search(inodes, key)
  IN IF Found(inodes, key) \/ i = 1 THEN i ELSE i - 1

(* node.put, on the list of inodes.                                         *)
put(inodes, oldKey, inode) ==
  LET i == search(inodes, oldKey)
  IN IF Found(inodes, oldKey) THEN ReplaceAt(inodes, i, inode)
     ELSE InsertAt(inodes, i, inode)

(* node.del.                                                                *)
del(n, key) ==
  IF Found(n.inodes, key)
  THEN [n EXCEPT !.inodes = RemoveAt(@, search(@, key)), !.unbalanced = TRUE]
  ELSE n

(***************************************************************************)
(* Pages and nodes.                                                        *)
(***************************************************************************)

(* Bucket.pageNode: the node of a page if there is one, else the page.      *)
pageNode(t, id) == IF id \in DOMAIN t.nodes THEN t.nodes[id] ELSE t.pages[id]

(* node.read.                                                               *)
read(p, parent) ==
  [leaf |-> p.leaf, unbalanced |-> FALSE,
   key |-> IF p.inodes = <<>> THEN 0 ELSE p.inodes[1].key,
   parent |-> parent, children |-> {}, inodes |-> p.inodes]

(* Bucket.node: reads a page into memory, once.                             *)
node(t, id, parent) ==
  IF id \in DOMAIN t.nodes THEN t
  ELSE LET u == [t EXCEPT !.nodes = @ @@ (id :> read(t.pages[id], parent))]
       IN IF parent = 0 THEN u
          ELSE [u EXCEPT !.nodes[parent].children = @ \union {id}]

(* Cursor.search: the pages from id down to the leaf where a key belongs.   *)
RECURSIVE Path(_, _, _)
Path(t, id, key) ==
  LET p == pageNode(t, id)
  IN IF p.leaf THEN <<id>>
     ELSE <<id>> \o Path(t, p.inodes[searchNode(p.inodes, key)].pgid, key)

(* Cursor.node: the nodes along a path are read into memory.                *)
cursorNode(t, path) ==
  FoldLeftDomain(LAMBDA u, i : node(u, path[i], IF i = 1 THEN 0 ELSE path[i - 1]),
                 t, path)

Fault(t, f) == [t EXCEPT !.faults = @ \union {f}]

(* node.free, and freelist.free, which panics on a page that is free.       *)
free(t, id) ==
  LET ids == id..(id + t.pages[id].overflow)
  IN IF ids \intersect t.freed # {} THEN Fault(t, "page already freed")
     ELSE [t EXCEPT !.freed = @ \union ids]

UsedIds(t) == UNION {id..(id + t.pages[id].overflow) : id \in DOMAIN t.pages}

(* Tx.allocate without readers: the lowest run of pages in nobody's use.    *)
(* Pages freed by the transaction stay in use until it is over.             *)
allocate(t, count) ==
  Min({id \in FirstPage..(FirstPage + Cardinality(UsedIds(t)) * count) :
         id..(id + count - 1) \intersect UsedIds(t) = {}})

(***************************************************************************)
(* Rebalancing.                                                            *)
(***************************************************************************)

(* A bug: merged nodes keep their pages.                                    *)
dropWithoutFree(t, id) ==
  LET p == t.nodes[id].parent
      parent == [del(t.nodes[p], t.nodes[id].key) EXCEPT !.children = @ \ {id}]
  IN [t EXCEPT !.nodes = [x \in DOMAIN @ \ {id} |->
                            IF x = p THEN parent ELSE @[x]]]

(* A node leaves its parent, the cache and, with its page, the tree.        *)
drop(t, id) ==
  LET p == t.nodes[id].parent
      parent == [del(t.nodes[p], t.nodes[id].key) EXCEPT !.children = @ \ {id}]
  IN free([t EXCEPT !.nodes = [x \in DOMAIN @ \ {id} |->
                                 IF x = p THEN parent ELSE @[x]]], id)

(* The children of a node that are in memory.                               *)
Cached(t, n) == {x.pgid : x \in ToSet(n.inodes)} \intersect DOMAIN t.nodes

(* A bug: the merged node does not take over the children in memory.        *)
mergeWithoutChildren(t, into, from) ==
  LET moved == Cached(t, t.nodes[from])
      nodes == [x \in DOMAIN t.nodes |->
                  IF x \in moved THEN [t.nodes[x] EXCEPT !.parent = into]
                  ELSE IF x = into
                  THEN [t.nodes[x] EXCEPT !.inodes = @ \o t.nodes[from].inodes]
                  ELSE [t.nodes[x] EXCEPT !.children = @ \ moved]]
  IN drop([t EXCEPT !.nodes = nodes], from)

(* Node from is appended to its left sibling into; children in memory get a *)
(* new parent.                                                              *)
merge(t, into, from) ==
  LET moved == Cached(t, t.nodes[from])
      nodes == [x \in DOMAIN t.nodes |->
                  IF x \in moved THEN [t.nodes[x] EXCEPT !.parent = into]
                  ELSE IF x = into
                  THEN [t.nodes[x] EXCEPT !.inodes = @ \o t.nodes[from].inodes,
                                          !.children = @ \union moved]
                  ELSE [t.nodes[x] EXCEPT !.children = @ \ moved]]
  IN drop([t EXCEPT !.nodes = nodes], from)

(* A root with one child takes the child's place.                           *)
collapse(t, id) ==
  LET c == t.nodes[id].inodes[1].pgid
      u == node(t, c, id)
      child == u.nodes[c]
      moved == Cached(u, child)
      nodes == [x \in DOMAIN u.nodes \ {c} |->
                  IF x \in moved THEN [u.nodes[x] EXCEPT !.parent = id]
                  ELSE IF x = id
                  THEN [u.nodes[x] EXCEPT !.leaf = child.leaf,
                                          !.inodes = child.inodes,
                                          !.children = child.children]
                  ELSE u.nodes[x]]
  IN free([u EXCEPT !.nodes = nodes], c)

(* A node that is too small is merged with the sibling on its left, or with *)
(* the one on its right if it is the first.                                 *)
mergeSibling(t, id) ==
  LET p == t.nodes[id].parent
      inodes == t.nodes[p].inodes
      i == search(inodes, t.nodes[id].key)
      target == inodes[IF i = 1 THEN 2 ELSE i - 1].pgid
      u == node(t, target, p)
  IN IF Len(inodes) <= 1 THEN Fault(t, "parent must have at least 2 children")
     ELSE IF i = 1 THEN merge(u, id, target) ELSE merge(u, target, id)

(* node.rebalance.                                                          *)
RECURSIVE rebalance(_, _)
rebalance(t, id) ==
  LET n == t.nodes[id]
      u == [t EXCEPT !.nodes[id].unbalanced = FALSE]
  IN CASE ~n.unbalanced -> t
       [] n.unbalanced /\ size(n) > PageSize \div 4 /\ Len(n.inodes) > minKeys(n)
            -> u
       [] OTHER ->
            IF n.parent = 0
            THEN IF ~n.leaf /\ Len(n.inodes) = 1 THEN collapse(u, id) ELSE u
            ELSE rebalance(IF n.inodes = <<>> THEN drop(u, id)
                           ELSE mergeSibling(u, id), n.parent)

(***************************************************************************)
(* Splitting and spilling.                                                 *)
(***************************************************************************)

threshold == (PageSize * Max({10, Min({FillPercent, 100})})) \div 100

(* node.splitIndex: how many inodes stay on the first page.                 *)
splitIndex(leaf, inodes) ==
  LET last == Len(inodes) - minKeysPerPage - 1
  IN Min({last} \union {i \in minKeysPerPage..last :
                          Bytes(leaf, inodes, i + 1) > threshold})

(* node.split, by splitTwo: the inodes of each page.                        *)
RECURSIVE split(_, _)
split(leaf, inodes) ==
  IF Len(inodes) <= 2 * minKeysPerPage \/ Bytes(leaf, inodes, Len(inodes)) < PageSize
  THEN <<inodes>>
  ELSE LET i == splitIndex(leaf, inodes)
       IN <<SubSeq(inodes, 1, i)>> \o split(leaf, SubSeq(inodes, i + 1, Len(inodes)))

(* Writes a page for inodes; the tree and the page id.                      *)
WritePage(t, leaf, inodes) ==
  LET count == (Bytes(leaf, inodes, Len(inodes)) + PageSize - 1) \div PageSize
      id == allocate(t, count)
  IN [tree |-> [t EXCEPT !.pages = (id :> [leaf |-> leaf, inodes |-> inodes,
                                           overflow |-> count - 1]) @@ @],
      id |-> id]

Pointer(inodes, id) == [key |-> inodes[1].key, pgid |-> id, value |-> 0]

(* The pages of a node below the root are put into its parent, the first in *)
(* the place of the node.                                                   *)
spillParts(t, id, parts) ==
  LET n == t.nodes[id]
      Spill(u, i) ==
        LET w == WritePage(u, n.leaf, parts[i])
        IN [w.tree EXCEPT !.nodes[n.parent].inodes =
              put(@, IF i = 1 THEN n.key ELSE parts[i][1].key,
                  Pointer(parts[i], w.id))]
  IN FoldLeftDomain(Spill, free(t, id), parts)

(* The pages of a root; more than one become the children of a new root.    *)
RECURSIVE spillRoot(_, _, _)
spillRoot(t, leaf, inodes) ==
  LET parts == split(leaf, inodes)
      Spill(u, i) ==
        LET w == WritePage(u.tree, leaf, parts[i])
        IN [tree |-> w.tree, inodes |-> Append(u.inodes, Pointer(parts[i], w.id))]
      all == FoldLeftDomain(Spill, [tree |-> t, inodes |-> <<>>], parts)
      one == WritePage(t, leaf, inodes)
  IN IF Len(parts) = 1 THEN [one.tree EXCEPT !.root = one.id]
     ELSE spillRoot(all.tree, FALSE, all.inodes)

(* node.spill: the children in the order of their first keys, then the node *)
(* itself.  An empty child is an index out of range.                        *)
RECURSIVE spill(_, _)
spill(t, id) ==
  LET children == t.nodes[id].children
      First(c) == t.nodes[c].inodes[1].key
      Rank(c) == Cardinality({d \in children : First(d) <= First(c)})
      sorted == [i \in 1..Cardinality(children) |->
                   CHOOSE c \in children : Rank(c) = i]
      u == FoldLeft(LAMBDA v, c : spill(v, c), t, sorted)
      n == u.nodes[id]
  IN IF \E c \in children : t.nodes[c].inodes = <<>>
     THEN Fault(t, "empty child")
     ELSE IF n.parent = 0 THEN spillRoot(free(u, id), n.leaf, n.inodes)
     ELSE spillParts(u, id, split(n.leaf, n.inodes))
=============================================================================
