---------------------------- MODULE FreelistHmap ----------------------------
(***************************************************************************)
(* The hashmap backend of the freelist (freelist_hmap.go): free ids are    *)
(* kept as spans, runs of consecutive ids, in three maps that every change *)
(* updates by hand.  The module Freelist only knows the set of free ids;   *)
(* this one shows that the maps are such a set.                            *)
(***************************************************************************)
EXTENDS Freelist

VARIABLES
  forwardMap,   \* start of a span -> its size
  backwardMap,  \* end of a span -> its size
  freemaps,     \* size -> the starts of the spans of that size
  todo          \* the ids hashmapMergeSpans has still to add

maps == <<forwardMap, backwardMap, freemaps>>
hvars == <<forwardMap, backwardMap, freemaps, todo>>

\* The three maps as one value, for the methods that update them.
Maps == [fwd |-> forwardMap, bwd |-> backwardMap, sizes |-> freemaps]

\* m[k] = v and delete(m, k) on a Go map.
Assign(m, k, v) == [x \in DOMAIN m \cup {k} |-> IF x = k THEN v ELSE m[x]]
Delete(m, k) == [x \in DOMAIN m \ {k} |-> m[x]]

addSpan(h, start, size) ==
  [fwd   |-> Assign(h.fwd, start, size),
   bwd   |-> Assign(h.bwd, start - 1 + size, size),
   sizes |-> Assign(h.sizes, size,
               {start} \cup IF size \in DOMAIN h.sizes THEN h.sizes[size] ELSE {})]

delSpan(h, start, size) ==
  LET rest == h.sizes[size] \ {start}
  IN  [fwd   |-> Delete(h.fwd, start),
       bwd   |-> Delete(h.bwd, start + size - 1),
       sizes |-> IF rest = {} THEN Delete(h.sizes, size)
                 ELSE Assign(h.sizes, size, rest)]

\* Mutant: the size of the span behind the page is not added.
mergeForgetsNext(h, pid) ==
  LET prev  == pid - 1
      next  == pid + 1
      back  == prev \in DOMAIN h.bwd
      pre   == IF back THEN h.bwd[prev] ELSE 0
      h1    == IF back THEN delSpan(h, prev + 1 - pre, pre) ELSE h
      h2    == IF next \in DOMAIN h.fwd THEN delSpan(h1, next, h.fwd[next]) ELSE h1
  IN  addSpan(h2, pid - pre, 1 + pre)

\* mergeWithExistingSpan: both neighbours are looked up before either is
\* removed.
mergeWithExistingSpan(h, pid) ==
  LET prev  == pid - 1
      next  == pid + 1
      back  == prev \in DOMAIN h.bwd
      forth == next \in DOMAIN h.fwd
      pre   == IF back THEN h.bwd[prev] ELSE 0
      post  == IF forth THEN h.fwd[next] ELSE 0
      h1    == IF back THEN delSpan(h, prev + 1 - pre, pre) ELSE h
      h2    == IF forth THEN delSpan(h1, next, post) ELSE h1
  IN  addSpan(h2, pid - pre, 1 + pre + post)

\* Where hashmapAllocate may take n pages: a span of that size if there is one,
\* else any larger one.
Spans(h, n) ==
  IF n \in DOMAIN h.sizes THEN {[start |-> s, size |-> n] : s \in h.sizes[n]}
  ELSE UNION {{[start |-> s, size |-> k] : s \in h.sizes[k]} :
                k \in {k \in DOMAIN h.sizes : n <= k}}

\* Mutant: what remains of a larger span is lost.
takeSpanWhole(h, span, n) == delSpan(h, span.start, span.size)

\* Taking n pages off the beginning of a span.
takeSpan(h, span, n) ==
  LET h1 == delSpan(h, span.start, span.size)
  IN  IF span.size = n THEN h1 ELSE addSpan(h1, span.start + n, span.size - n)

\* hashmapGetFreePageIDs, hashmapFreeCount.
FreeIDs(h) == UNION {Run(s, h.fwd[s]) : s \in DOMAIN h.fwd}

NoSpans == [fwd |-> <<>>, bwd |-> <<>>, sizes |-> <<>>]

\* init(pgids) for a list that is not empty: one pass over the ids in order, in
\* which the id p continues the current span or else adds it and begins the
\* next; the last span is added at the end.
initStep(acc, p) ==
  IF acc.size # 0 /\ p = acc.start + acc.size
  THEN [h |-> acc.h, start |-> acc.start, size |-> acc.size + 1]
  ELSE [h     |-> IF acc.size = 0 THEN acc.h ELSE addSpan(acc.h, acc.start, acc.size),
        start |-> p,
        size  |-> 1]

initPass(ids) ==
  LET pass[p \in 0 .. MaxPgid] ==
        IF p = 0 THEN [h |-> NoSpans, start |-> 0, size |-> 0]
        ELSE IF p \in ids THEN initStep(pass[p - 1], p)
        ELSE pass[p - 1]
  IN  pass

init(ids) ==
  LET last == initPass(ids)[MaxPgid]
  IN  addSpan(last.h, last.start, last.size)

Set(h) == /\ forwardMap' = h.fwd /\ backwardMap' = h.bwd /\ freemaps' = h.sizes

-----------------------------------------------------------------------------
InitMaps ==
  /\ forwardMap = <<>> /\ backwardMap = <<>> /\ freemaps = <<>>
  /\ todo = {}

\* hashmapAllocate(txid, n).  With no span that is large enough it returns 0 and
\* changes nothing.
Allocate(n) ==
  /\ todo = {}
  /\ \E span \in Spans(Maps, n) : Set(takeSpan(Maps, span, n))
  /\ UNCHANGED todo

\* hashmapMergeSpans(ids), called by release and releaseRange with ids that were
\* pending, in no particular order; one step per id.
MergeSpans(ids) ==
  /\ todo = {}
  /\ todo' = ids
  /\ UNCHANGED maps

MergeNext(id) ==
  /\ id \in todo
  /\ Set(mergeWithExistingSpan(Maps, id))
  /\ todo' = todo \ {id}

\* hashmapReadIDs(ids) of a new freelist, whose maps are empty.
ReadIDs(ids) ==
  /\ todo = {}
  /\ Set(IF ids = {} THEN NoSpans ELSE init(ids))
  /\ UNCHANGED todo

\* The backend on its own, with callers that release only ids that are not
\* free.
HmapNext ==
  \/ \E n \in 1 .. Cardinality(Pgid) : Allocate(n)
  \/ \E ids \in SUBSET (Pgid \ FreeIDs(Maps)) : MergeSpans(ids)
  \/ \E id \in todo : MergeNext(id)
  \/ \E ids \in SUBSET Pgid : ReadIDs(ids)

HmapSpec == InitMaps /\ [][HmapNext]_hvars

-----------------------------------------------------------------------------
(* Properties *)

\* hashmapAllocate fails only if there is no run of n free pages anywhere, the
\* pages it may return are those the definition by sets, Candidates of Freelist,
\* which the module DB uses, allows, and it takes these n pages and no other.
AllocatesLikeASet ==
  FreelistType = "hashmap" =>
    \A n \in 1 .. Cardinality(Pgid) :
      /\ {span.start : span \in Spans(Maps, n)} = Candidates(FreeIDs(Maps), n)
      /\ \A span \in Spans(Maps, n) :
           FreeIDs(takeSpan(Maps, span, n)) = FreeIDs(Maps) \ Run(span.start, n)
=============================================================================
