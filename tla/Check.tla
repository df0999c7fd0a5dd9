------------------------------- MODULE Check --------------------------------
(***************************************************************************)
(* Tx.Check (tx_check.go) of a database with one bucket, as the set of its *)
(* errors.  A database d has the pages of the file, and the root, the high *)
(* water mark pgid and the free page ids of the meta page in force.  The   *)
(* ids are a set: a freelist that lists an id twice is a matter of DB.     *)
(***************************************************************************)
EXTENDS Node

(* No key; keys are positive.                                               *)
NoKey == 0

(* The meta pages and the freelist regions.                                 *)
Reserved == 0..(FirstPage - 1)

Block(pages, id) == id..(id + pages[id].overflow)

(* Tx.forEachPage: the pages of a tree in the order of the visits.          *)
RECURSIVE forEachPage(_, _)
forEachPage(pages, id) ==
  IF pages[id].leaf THEN <<id>>
  ELSE FoldLeft(LAMBDA s, x : s \o forEachPage(pages, x.pgid), <<id>>, pages[id].inodes)

(* Tx.check and checkBucket.                                                *)
checkPages(d) ==
  LET visits == forEachPage(d.pages, d.root)
      References(id) ==
        Cardinality({i \in DOMAIN visits : id \in Block(d.pages, visits[i])})
          + Cardinality({id} \intersect Reserved)
      reachable == Reserved \union UNION {Block(d.pages, id) : id \in ToSet(visits)}
  IN {<<"out of bounds", id>> : id \in {x \in ToSet(visits) : x > d.pgid}}
       \union {<<"multiple references", id>> : id \in {x \in reachable : References(x) > 1}}
       \union {<<"reachable freed", id>> : id \in ToSet(visits) \intersect d.free}
       \union {<<"unreachable unfreed", id>> :
                 id \in (0..(d.pgid - 1)) \ (reachable \union d.free)}

(* A bug: the first key of a page is not compared with the parent's.        *)
verifyKeyOrderOnPage(i, key, previous, max) ==
  \/ i > 1 /\ previous >= key
  \/ max # NoKey /\ key >= max

(* Whether the i-th key of a page is reported.                              *)
verifyKeyOrder(i, key, previous, max) ==
  \/ i = 1 /\ previous > key
  \/ i > 1 /\ previous >= key
  \/ max # NoKey /\ key >= max

(* recursivelyCheckPagesInternal: the pages reported and the largest key.   *)
RECURSIVE recursivelyCheckPages(_, _, _, _)
recursivelyCheckPages(pages, id, min, max) ==
  LET inodes == pages[id].inodes
      n == Len(inodes)
      LeafKey(i) == verifyKeyOrder(i, inodes[i].key,
                                   IF i = 1 THEN min ELSE inodes[i - 1].key, max)
      Below(acc, i) ==
        LET x == inodes[i]
            r == recursivelyCheckPages(pages, x.pgid, x.key,
                                       IF i < n THEN inodes[i + 1].key ELSE max)
        IN [bad |-> acc.bad \union r.bad \union
                      {y \in {x.pgid} : verifyKeyOrder(i, x.key, acc.last, max)},
            last |-> r.last]
  IN IF n = 0 THEN [bad |-> {}, last |-> NoKey]
     ELSE IF pages[id].leaf
     THEN [bad |-> {y \in {id} : \E i \in 1..n : LeafKey(i)}, last |-> inodes[n].key]
     ELSE FoldLeftDomain(Below, [bad |-> {}, last |-> min], inodes)

check(d) ==
  checkPages(d) \union
    {<<"key order", id>> : id \in recursivelyCheckPages(d.pages, d.root, NoKey, NoKey).bad}
=============================================================================
