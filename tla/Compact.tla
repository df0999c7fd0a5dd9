------------------------------ MODULE Compact -------------------------------
(***************************************************************************)
(* Compact (compact.go) of what the transactions of Bucket have left: the  *)
(* database is walked key by key and written into an empty one, in         *)
(* transactions of at most txMaxSize bytes.  From then on the variables of *)
(* Bucket are those of the destination; the source, which does not change  *)
(* while walk runs in one View, is known by what walk comes to.            *)
(***************************************************************************)
EXTENDS Bucket

VARIABLES
  todo,       \* what walk has still to come to
  size,       \* bytes put into the transaction
  txMaxSize,
  result,     \* "none", "running", or how Compact ended: "ok", "error" or "panic"
  source      \* ghost: all that walk comes to

cvars == <<todo, size, txMaxSize, result, source>>

(* The length of a name.                                                    *)
nameSize == 1

(* walk and walkBucket: a bucket, then what is in it, in the order of names.*)
RECURSIVE walkBucket(_, _, _)
walkBucket(b, pages, path) ==
  LET leaf == pageNode(b, pages)
      Item(k) ==
        IF leaf[k].bucket
        THEN <<[path |-> path, key |-> k, bucket |-> TRUE, n |-> Child(b, pages, k).seq]>>
               \o walkBucket(Child(b, pages, k), pages, Append(path, k))
        ELSE <<[path |-> path, key |-> k, bucket |-> FALSE, n |-> leaf[k].size]>>
  IN FoldLeft(LAMBDA items, k : items \o Item(k), <<>>, SetToSortSeq(DOMAIN leaf, <))

CompactInit ==
  /\ Init
  /\ todo = <<>>
  /\ size = 0
  /\ txMaxSize = 0
  /\ result = "none"
  /\ source = <<>>

(* The destination is empty, and its first transaction begun.               *)
Start(n) ==
  /\ result = "none"
  /\ txs = plan.txs
  /\ result' = "running"
  /\ source' = walkBucket(RootOf(db), db.pages, <<>>)
  /\ todo' = source'
  /\ size' = 0
  /\ txMaxSize' = n
  /\ db' = EmptyDB
  /\ tx' = RootOf(EmptyDB)
  /\ map' = EmptyLeaf /\ saved' = EmptyLeaf
  /\ lost' = {}
  /\ UNCHANGED <<plan, freed, skipped, fault, ops, txs>>

itemSize(w) == nameSize + IF w.bucket THEN 0 ELSE w.n

(* The transaction is committed before this item.                           *)
Exceeds(w) == txMaxSize # 0 /\ size + itemSize(w) > txMaxSize

(* The calls for an item.                                                   *)
calls(w) ==
  IF w.bucket
  THEN <<[name |-> "CreateBucket", path |-> w.path, key |-> w.key, size |-> 0],
         [name |-> "SetSequence", path |-> Append(w.path, w.key), key |-> 0, size |-> w.n]>>
  ELSE <<[name |-> "Put", path |-> w.path, key |-> w.key, size |-> w.n]>>

CallAll(b, pages, cs) == FoldLeft(LAMBDA x, c : Call(x, pages, c.path, c).b, b, cs)

(* The transaction is committed.                                            *)
CommitTx == Written(Committed(db, tx, {})) /\ saved' = map

(* Copy changes nothing else of Bucket.                                     *)
Rest == <<plan, freed, skipped, lost, ops, txs>>

(* A bug: the item that would make the transaction too large is left out.   *)
CopyLosesItem ==
  LET w == Head(todo)
  IN /\ result = "running"
     /\ todo # <<>>
     /\ IF Exceeds(w)
        THEN CommitTx /\ tx' = RootOf(db') /\ size' = 0 /\ UNCHANGED map
        ELSE /\ tx' = CallAll(tx, db.pages, calls(w))
             /\ size' = size + itemSize(w)
             /\ map' = FoldLeft(After, map, calls(w))
             /\ UNCHANGED <<db, fault, saved>>
     /\ todo' = Tail(todo)
     /\ UNCHANGED <<Rest, txMaxSize, result, source>>

(* The function Compact gives to walk, called with the next item.           *)
Copy ==
  LET w == Head(todo)
      full == Exceeds(w)
  IN /\ result = "running"
     /\ todo # <<>>
     /\ IF full THEN CommitTx ELSE UNCHANGED <<db, fault, saved>>
     /\ tx' = CallAll(IF full THEN RootOf(db') ELSE tx, db'.pages, calls(w))
     /\ size' = (IF full THEN 0 ELSE size) + itemSize(w)
     /\ map' = FoldLeft(After, map, calls(w))
     /\ todo' = Tail(todo)
     /\ UNCHANGED <<Rest, txMaxSize, result, source>>

(* tx.Commit fails and is rolled back: Compact returns its error.           *)
CommitFails ==
  /\ result = "running"
  /\ todo # <<>> => Exceeds(Head(todo))
  /\ tx' = RootOf(db)
  /\ map' = saved
  /\ result' = "error"
  /\ UNCHANGED <<Rest, db, fault, saved, todo, size, txMaxSize, source>>

(* dst.Begin fails after a commit: tx is nil when the deferred call rolls   *)
(* back.                                                                    *)
BeginFails ==
  /\ result = "running"
  /\ todo # <<>> /\ Exceeds(Head(todo))
  /\ CommitTx
  /\ tx' = RootOf(db')
  /\ result' = "panic"
  /\ UNCHANGED <<Rest, map, todo, size, txMaxSize, source>>

(* The last commit.  The deferred Rollback finds the transaction closed,    *)
(* and what it does to err comes too late for the caller.                   *)
Finish ==
  /\ result = "running"
  /\ todo = <<>>
  /\ CommitTx
  /\ tx' = RootOf(db')
  /\ result' = "ok"
  /\ UNCHANGED <<Rest, map, todo, size, txMaxSize, source>>

CompactNext ==
  \/ result # "running" /\ Next /\ UNCHANGED cvars
  \/ \E n \in plan.sizes : Start(n)
  \/ Copy
  \/ CommitFails
  \/ BeginFails
  \/ Finish

CompactSpec == CompactInit /\ [][CompactNext]_<<vars, cvars>>

(***************************************************************************)
(* Properties.                                                             *)
(***************************************************************************)

(* Once Compact has returned nil, walking the destination meets what        *)
(* walking the source met: every key, value, bucket and sequence number, in *)
(* however many transactions they were written.  Until then, and for good   *)
(* if it fails, the destination has committed a beginning of that walk: no  *)
(* bucket is ever half copied without the rest missing too.  A transaction  *)
(* holds at most txMaxSize bytes, or a single item that is larger.          *)
CopiesSource ==
  LET copied == walkBucket(RootOf(db), db.pages, <<>>)
      inTx   == Len(walkBucket(tx, db.pages, <<>>)) - Len(copied)
  IN result # "none" =>
       /\ IsPrefix(copied, source)
       /\ result = "ok" => copied = source
       /\ result = "running" => txMaxSize = 0 \/ size <= txMaxSize \/ inTx = 1
=============================================================================
