----------------------------- MODULE MCCompact ------------------------------
(***************************************************************************)
(* Bucket and Compact with two names in every bucket.                      *)
(***************************************************************************)
EXTENDS Compact

Create(path, k) == [name |-> "CreateBucket", path |-> path, key |-> k, size |-> 0]

PutLarge(path, k) == [name |-> "Put", path |-> path, key |-> k, size |-> Max(Value)]

(* A file with two large buckets inside a bucket.                           *)
Nested ==
  <<Create(<<>>, 1), Create(<<1>>, 1), Create(<<1>>, 2),
    PutLarge(<<1, 1>>, 1), PutLarge(<<1, 2>>, 1)>>

(* Two transactions on an empty file and on that file, and a longer one.    *)
(* The limits are none, and one that one to three items reach.              *)
Plans ==
  {[calls |-> <<>>, ops |-> 2, txs |-> 2, sizes |-> {0, 3}],
   [calls |-> Nested, ops |-> 2, txs |-> 2, sizes |-> {}],
   [calls |-> Nested, ops |-> 3, txs |-> 1, sizes |-> {0, 3}]}
=============================================================================
