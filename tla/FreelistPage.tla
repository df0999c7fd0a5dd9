---------------------------- MODULE FreelistPage ----------------------------
(***************************************************************************)
(* How the freelist is kept in the file: freelist.size, copyall, write and *)
(* read (freelist.go), mergepgids (page.go), Tx.commitFreelist (tx.go) and *)
(* DB.freelistPage (db.go), with the free ids in the hashmap backend.      *)
(*                                                                         *)
(* The file from its third page on is a sequence of 8-byte words: the two  *)
(* freelist regions and behind them the first data page.  A page begins    *)
(* with a header of two words, the page id and, with flags and overflow    *)
(* left out, the count.  Ids fill one word each.                           *)
(***************************************************************************)
EXTENDS FreelistHmap, Sequences, Functions

CONSTANTS
  PageWords,   \* DB.pageSize, in words
  RegionPages, \* freelistRegionSize, in pages
  MaxCount     \* 0xFFFF, the count that says "see the first element"

ASSUME FreelistPageAssumption ==
  /\ PageWords \in Nat /\ 2 < PageWords
  /\ RegionPages \in Nat \ {0}
  /\ MaxCount \in Nat \ {0}

VARIABLES
  pending,  \* the ids freed but needed by readers
  file,     \* the words of both regions and of the page behind them
  flid,     \* meta.flid, modulo 2
  saved     \* what was free or pending when each region was written last

vars == <<hvars, pending, file, flid, saved>>

freeIds == FreeIDs(Maps)

headerWords == 2

RegionWords == RegionPages * PageWords

DataWord == -1

-----------------------------------------------------------------------------
(* Merging and serialising *)

\* The ids of a set in order.
Sorted(S) ==
  CHOOSE s \in [1 .. Cardinality(S) -> S] :
    /\ Range(s) = S
    /\ \A i, j \in 1 .. Cardinality(S) : i < j => s[i] < s[j]

\* sort.Search in mergepgids: how many ids of lead are not above id.
Ahead(lead, id) ==
  CHOOSE n \in 0 .. Len(lead) :
    /\ \A i \in 1 .. n : lead[i] <= id
    /\ n < Len(lead) => lead[n + 1] > id

\* One round of the loop of mergepgids: the largest prefix of lead that is not
\* above the first id of follow is merged, and the lists change places.
mergeRound(m) ==
  LET n == Ahead(m.lead, m.follow[1])
      merged == m.merged \o SubSeq(m.lead, 1, n)
  IN  IF n = Len(m.lead) THEN [merged |-> merged, lead |-> <<>>, follow |-> m.follow]
      ELSE [merged |-> merged, lead |-> m.follow,
            follow |-> SubSeq(m.lead, n + 1, Len(m.lead))]

\* The rounds; each merges at least one id.
mergeRounds(lead, follow) ==
  LET rounds[i \in 0 .. Len(lead) + Len(follow)] ==
        IF i = 0 THEN [merged |-> <<>>, lead |-> lead, follow |-> follow]
        ELSE IF rounds[i - 1].lead = <<>> THEN rounds[i - 1]
        ELSE mergeRound(rounds[i - 1])
  IN  rounds

mergeLists(lead, follow) ==
  LET last == mergeRounds(lead, follow)[Len(lead) + Len(follow)]
  IN  last.merged \o last.follow

mergepgids(a, b) ==
  IF a = <<>> THEN b
  ELSE IF b = <<>> THEN a
  ELSE IF b[1] < a[1] THEN mergeLists(b, a)
  ELSE mergeLists(a, b)

copyPgids(f, p) == mergepgids(Sorted(f), Sorted(p))

\* freelist.size for n ids.
size(n) == headerWords + n + (IF n >= MaxCount THEN 1 ELSE 0)

\* freelist.write: the words of the page with the given id.
writePage(id, ids) ==
  <<id>> \o IF Len(ids) < MaxCount THEN <<Len(ids)>> \o ids
            ELSE <<MaxCount, Len(ids)>> \o ids

\* p.id in commitFreelist and in freelistPage: the region flid selects.
regionPage(f) == 2 + (f % 2) * RegionPages

\* The words before a page, the file beginning with page 2.
Offset(id) == (id - 2) * PageWords

\* The count in the header of a page.
pageCount(words, id) == words[Offset(id) + 2]

\* freelist.read.
readPage(words, id) ==
  LET c     == pageCount(words, id)
      first == Offset(id) + headerWords + 1
  IN  IF c = MaxCount THEN SubSeq(words, first + 1, first + words[first])
      ELSE SubSeq(words, first, first + c - 1)

-----------------------------------------------------------------------------
(* db.init: two empty regions and the first data page. *)
Init ==
  /\ InitMaps
  /\ pending = {}
  /\ flid = 0
  /\ saved = [i \in 0..1 |-> {}]
  /\ file = [w \in 1 .. (2 * RegionWords + PageWords) |->
               IF w > 2 * RegionWords THEN DataWord
               ELSE IF w = Offset(regionPage(0)) + 1 THEN regionPage(0)
               ELSE IF w = Offset(regionPage(1)) + 1 THEN regionPage(1)
               ELSE 0]

\* freelist.free.
Free(id) ==
  /\ todo = {}
  /\ id \notin freeIds \cup pending
  /\ pending' = pending \cup {id}
  /\ UNCHANGED <<hvars, file, flid, saved>>

\* freelist.release and releaseRange of what no reader needs any more.
Release(ids) ==
  /\ MergeSpans(ids)
  /\ pending' = pending \ ids
  /\ UNCHANGED <<file, flid, saved>>

\* Mutant: the last page is missing when it is not full.
pageCountForFull(n) ==
  IF size(n) < PageWords THEN 1 ELSE size(n) \div PageWords

\* The pages commitFreelist takes for n ids.
pageCountFor(n) ==
  IF size(n) < PageWords THEN 1 ELSE size(n) \div PageWords + 1

\* commitFreelist, with its assertion, and tx.write of that page: the words of
\* the buffer behind the ids are 0.
CommitFreelist ==
  LET n     == Cardinality(freeIds) + Cardinality(pending)
      id    == regionPage(flid + 1)
      words == writePage(id, copyPgids(freeIds, pending))
      buf   == [w \in 1 .. pageCountFor(n) * PageWords |->
                  IF w <= Len(words) THEN words[w] ELSE 0]
  IN  /\ todo = {}
      /\ size(n) < RegionWords - PageWords
      /\ file' = [w \in DOMAIN file |->
                    IF w - Offset(id) \in DOMAIN buf THEN buf[w - Offset(id)]
                    ELSE file[w]]
      /\ flid' = (flid + 1) % 2
      /\ saved' = [saved EXCEPT ![flid'] = freeIds \cup pending]
      /\ UNCHANGED <<hvars, pending>>

\* Open: the freelist of the current meta is read back.
Open ==
  /\ ReadIDs(Range(readPage(file, regionPage(flid))))
  /\ pending' = {}
  /\ UNCHANGED <<file, flid, saved>>

Next ==
  \/ \E id \in Pgid : Free(id)
  \/ \E ids \in (SUBSET pending) \ {{}} : Release(ids)
  \/ \E id \in todo : MergeNext(id) /\ UNCHANGED <<pending, file, flid, saved>>
  \/ \E n \in 1 .. Cardinality(Pgid) :
       Allocate(n) /\ UNCHANGED <<pending, file, flid, saved>>
  \/ CommitFreelist
  \/ Open

Spec == Init /\ [][Next]_vars

-----------------------------------------------------------------------------
(* Properties *)

\* Each region reads back as what was free or pending when it was written,
\* whatever was there before, however many pages the list takes and on either
\* side of the count at which the encoding changes; and writing a region
\* changes neither the other one, which the previous meta page still selects,
\* nor the data page behind them.
RegionsReadBack ==
  /\ \A i \in 0..1 : readPage(file, regionPage(i)) = Sorted(saved[i])
  /\ \A w \in DOMAIN file : w > 2 * RegionWords => file[w] = DataWord

Abstract == INSTANCE FreeSet WITH
  avail <- freeIds,
  pend  <- pending \cup todo,
  list  <- Range(readPage(file, regionPage(flid)))

\* The three maps and the pages they are written to do together what Freelist
\* says of a set of free ids: allocating, releasing, committing and reopening
\* make no id appear, disappear or count twice, however the spans were merged
\* and however the list was encoded.
ImplementsFreeSet == Abstract!Spec
=============================================================================
