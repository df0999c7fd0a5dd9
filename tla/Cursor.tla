------------------------------- MODULE Cursor -------------------------------
(***************************************************************************)
(* A cursor over a bucket in an open transaction (cursor.go), while the    *)
(* transaction changes the bucket, through the cursor or not.              *)
(*                                                                         *)
(* The cursor is a stack of references, from the root down to a leaf.  A   *)
(* reference points to a node if the page was in memory when the cursor    *)
(* came by, and to the page otherwise, and it stays with what it points    *)
(* to: a page that is read into memory and changed later on is still the   *)
(* old page to the cursor.  Index 1 is the first inode; index 0, which is  *)
(* -1 in the code, is where Cursor.last leaves the cursor on an empty leaf.*)
(***************************************************************************)
EXTENDS Tree

CONSTANTS
  Nil,     \* no key
  Panic,   \* an index out of range
  MaxN     \* bound on the argument of PrevN

VARIABLES
  stack,   \* Cursor.stack
  key,     \* the key returned last
  fresh    \* the cursor was positioned after the last change of the bucket

cvars == <<plan, tree, phase, ops, txs, current, saved, stack, key, fresh>>

(***************************************************************************)
(* Moving a stack s over a tree t.                                         *)
(***************************************************************************)

elemRef(t, id, index) ==
  [id |-> id, node |-> id \in DOMAIN t.nodes, index |-> index]

Elem(t, ref) == IF ref.node THEN t.nodes[ref.id] ELSE t.pages[ref.id]

count(t, ref) == Len(Elem(t, ref).inodes)

Child(t, ref) == Elem(t, ref).inodes[ref.index].pgid

keyValue(t, s) ==
  LET ref == Last(s)
      n == count(t, ref)
  IN CASE n = 0 \/ ref.index > n -> Nil
       [] n > 0 /\ ref.index = 0 -> Panic
       [] OTHER -> Elem(t, ref).inodes[ref.index].key

RECURSIVE goToFirstElementOnTheStack(_, _)
goToFirstElementOnTheStack(t, s) ==
  IF Elem(t, Last(s)).leaf THEN s
  ELSE goToFirstElementOnTheStack(t, Append(s, elemRef(t, Child(t, Last(s)), 1)))

RECURSIVE goToLast(_, _)
goToLast(t, s) ==
  LET id == Child(t, Last(s))
  IN IF Elem(t, Last(s)).leaf THEN s
     ELSE goToLast(t, Append(s, elemRef(t, id, Len(pageNode(t, id).inodes))))

(* The stack cut off above level i and moved by d there.                    *)
Step(s, i, d) == Append(SubSeq(s, 1, i - 1), [s[i] EXCEPT !.index = @ + d])

(* A bug: Cursor.next stops at an empty page.                               *)
nextStopsAtEmpty(t, s) ==
  LET levels == {i \in DOMAIN s : s[i].index < count(t, s[i])}
      u == goToFirstElementOnTheStack(t, Step(s, Max(levels), 1))
  IN IF levels = {} THEN [stack |-> s, key |-> Nil]
     ELSE [stack |-> u, key |-> keyValue(t, u)]

RECURSIVE next(_, _)
next(t, s) ==
  LET levels == {i \in DOMAIN s : s[i].index < count(t, s[i])}
      u == goToFirstElementOnTheStack(t, Step(s, Max(levels), 1))
  IN IF levels = {} THEN [stack |-> s, key |-> Nil]
     ELSE IF count(t, Last(u)) = 0 THEN next(t, u)
     ELSE [stack |-> u, key |-> keyValue(t, u)]

prev(t, s) ==
  LET levels == {i \in DOMAIN s : s[i].index > 1}
      u == goToLast(t, Step(s, Max(levels), -1))
  IN IF levels = {} THEN [stack |-> <<>>, key |-> Nil]
     ELSE [stack |-> u, key |-> keyValue(t, u)]

(* The steps made once the cursor is at the first key of its leaf.          *)
Passed(leaf, c) == IF leaf.index > 1 THEN c + leaf.index - 1 ELSE c

(* Cursor.prevN, c steps having been made.                                  *)
RECURSIVE prevN(_, _, _, _)
prevN(t, s, n, c) ==
  LET leaf == Last(s)
      total == c + leaf.index
      passed == Passed(leaf, c)
      up == prev(t, Front(s))
  IN CASE s = <<>> -> [stack |-> <<>>, key |-> Nil, count |-> c]
       [] s # <<>> /\ leaf.index > 1 /\ total > n ->
            LET u == Append(Front(s), [leaf EXCEPT !.index = total - n])
            IN [stack |-> u, key |-> keyValue(t, u), count |-> n]
       [] OTHER ->
            IF up.stack = <<>> THEN [stack |-> <<>>, key |-> Nil, count |-> passed]
            ELSE IF passed + 1 < n THEN prevN(t, up.stack, n, passed + 1)
            ELSE [stack |-> up.stack, key |-> up.key, count |-> passed + 1]

prevSamePage(t, s) ==
  IF s = <<>> \/ Last(s).index <= 1 THEN [stack |-> s, key |-> Nil]
  ELSE LET u == Step(s, Len(s), -1) IN [stack |-> u, key |-> keyValue(t, u)]

first(t) ==
  LET s == goToFirstElementOnTheStack(t, <<elemRef(t, t.root, 1)>>)
      u == IF count(t, Last(s)) = 0 THEN next(t, s).stack ELSE s
  IN [stack |-> u, key |-> keyValue(t, u)]

RECURSIVE SkipEmpty(_, _)
SkipEmpty(t, s) ==
  IF s = <<>> \/ count(t, Last(s)) > 0 THEN s ELSE SkipEmpty(t, prev(t, s).stack)

lastItem(t) ==
  LET root == elemRef(t, t.root, Len(pageNode(t, t.root).inodes))
      s == SkipEmpty(t, goToLast(t, <<root>>))
  IN [stack |-> s, key |-> IF s = <<>> THEN Nil ELSE keyValue(t, s)]

(* Cursor.seek: the stack of a search.                                      *)
seek(t, k) ==
  LET path == Path(t, t.root, k)
      Index(id) == LET p == pageNode(t, id)
                   IN IF p.leaf THEN search(p.inodes, k) ELSE searchNode(p.inodes, k)
  IN [i \in DOMAIN path |-> elemRef(t, path[i], Index(path[i]))]

(* A bug: a search that ends behind the last key of a page stays there.     *)
seekItemOnPage(t, k) ==
  LET s == seek(t, k) IN [stack |-> s, key |-> keyValue(t, s)]

seekItem(t, k) ==
  LET s == seek(t, k)
  IN IF Last(s).index > count(t, Last(s)) THEN next(t, s)
     ELSE [stack |-> s, key |-> keyValue(t, s)]

(***************************************************************************)
(* The transaction.                                                        *)
(***************************************************************************)

CursorInit ==
  /\ Init
  /\ stack = <<>>
  /\ key = Nil
  /\ fresh = FALSE

(* A move returns a key; r is where it ends.                                *)
MoveTo(r) ==
  /\ stack' = r.stack
  /\ key' = r.key
  /\ UNCHANGED <<plan, tree, phase, ops, txs, current, saved>>

First == MoveTo(first(tree)) /\ fresh' = TRUE

LastKey == MoveTo(lastItem(tree)) /\ fresh' = TRUE

Seek(k) == MoveTo(seekItem(tree, k)) /\ fresh' = TRUE

NextKey == MoveTo(next(tree, stack)) /\ UNCHANGED fresh

Prev == MoveTo(prev(tree, stack)) /\ UNCHANGED fresh

PrevSamePage == MoveTo(prevSamePage(tree, stack)) /\ UNCHANGED fresh

(* With 0 the cursor stays and returns where it is.                         *)
PrevN(n) ==
  /\ MoveTo(IF n > 0 THEN prevN(tree, stack, n, 0)
            ELSE [stack |-> stack,
                  key |-> IF stack = <<>> THEN Nil ELSE keyValue(tree, stack)])
  /\ UNCHANGED fresh

(* Cursor.node, and node.del of the key under the cursor.                   *)
DeleteAt(t, s) ==
  LET u == cursorNode(t, [i \in DOMAIN s |-> s[i].id])
      k == keyValue(t, s)
  IN IF k = Nil THEN u ELSE [u EXCEPT !.nodes[Last(s).id] = del(@, k)]

(* Cursor.Delete, called off the bucket's ends, is an index out of range.   *)
(* On a fresh cursor it takes the key that was returned last out of the     *)
(* map; on a stale one the key that has moved to the cursor's position.     *)
DeleteCurrent ==
  /\ stack # <<>>
  /\ keyValue(tree, stack) # Panic
  /\ ops < plan.ops
  /\ tree' = DeleteAt(tree, stack)
  /\ KV!Delete(IF fresh /\ key # Nil THEN key ELSE keyValue(tree, stack))
  /\ ops' = ops + 1
  /\ fresh' = FALSE
  /\ UNCHANGED <<plan, phase, txs, stack, key>>

(* The transaction goes on past the cursor: Put, TestPut, Delete and        *)
(* TestDelete of the bucket leave the cursor where it is, and a cursor is   *)
(* not used again once its transaction is committing or over.               *)
Transaction ==
  /\ Next
  /\ fresh' = FALSE
  /\ IF phase' = "open" /\ txs' = txs THEN UNCHANGED <<stack, key>>
     ELSE stack' = <<>> /\ key' = Nil

Move ==
  \/ First
  \/ LastKey
  \/ NextKey
  \/ Prev
  \/ PrevSamePage
  \/ \E n \in 0..MaxN : PrevN(n)
  \/ \E k \in plan.keys : Seek(k)

CursorNext ==
  \/ plan.cursor /\ phase = "open" /\ txs < plan.txs /\ (Move \/ DeleteCurrent)
  \/ Transaction

CursorSpec == CursorInit /\ [][CursorNext]_cvars

(***************************************************************************)
(* Properties.                                                             *)
(***************************************************************************)

Keys(t, id) == {x.key : x \in ToSet(Items(t, id))}

(* The keys in front of a position.                                         *)
Before(t, s) ==
  UNION {LET inodes == SubSeq(Elem(t, s[i]).inodes, 1, s[i].index - 1)
         IN IF Elem(t, s[i]).leaf THEN {x.key : x \in ToSet(inodes)}
            ELSE UNION {Keys(t, x.pgid) : x \in ToSet(inodes)} : i \in DOMAIN s}

Least(keys) == IF keys = {} THEN Nil ELSE Min(keys)

Greatest(keys) == IF keys = {} THEN Nil ELSE Max(keys)

(* PrevN(n) as n calls of Prev: where they end, and how many were made      *)
(* before the keys ran out.                                                 *)
RECURSIVE Prevs(_, _, _, _)
Prevs(t, s, n, c) ==
  LET r == prev(t, s)
  IN IF n = 0 THEN [stack |-> s, key |-> keyValue(t, s), count |-> c]
     ELSE IF r.stack = <<>> THEN [stack |-> <<>>, key |-> Nil, count |-> c]
     ELSE Prevs(t, r.stack, n - 1, c + 1)

(* From every state of the bucket First, Last and Seek return the smallest  *)
(* key, the largest, and the smallest that is not below the one sought,     *)
(* over leaves that deletions have emptied; and PrevN, which goes over whole *)
(* pages at once, comes from every position to where n calls of Prev come.  *)
PositionsExactly ==
  LET keys == DOMAIN current
  IN /\ first(tree).key = Least(keys)
     /\ lastItem(tree).key = Greatest(keys)
     /\ \A k \in plan.keys : seekItem(tree, k).key = Least({x \in keys : x >= k})
     /\ \A n \in 1..MaxN : prevN(tree, stack, n, 0) = Prevs(tree, stack, n, 0)

(* On a cursor that was positioned since the last change, Next returns the  *)
(* least key behind the cursor, and nil only if there is none; Prev returns *)
(* the greatest key in front of it, except where it comes to a leaf that    *)
(* deletions have emptied.                                                  *)
StepsToNeighbour ==
  [][/\ fresh /\ stack # <<>> /\ NextKey =>
         key' = Least(DOMAIN current \ (Before(tree, stack) \union
                                          {keyValue(tree, stack)}))
     /\ fresh /\ Prev =>
         \/ key' = Greatest(Before(tree, stack))
         \/ stack' # <<>> /\ count(tree, Last(stack')) = 0]_cvars
=============================================================================
