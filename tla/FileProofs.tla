----------------------------- MODULE FileProofs -----------------------------
(***************************************************************************)
(* The file and the mapping always reach to the committed high water mark, *)
(* and Open finds the page size, for every page size, allocation size,     *)
(* growth step and initial mapping, with and without NoGrowSync.           *)
(***************************************************************************)
EXTENDS File, WellFoundedInduction, TLAPS

-----------------------------------------------------------------------------
(* Minima, maxima and the size of the mapping. *)

\* A set of natural numbers that is not empty has a least element, Min.
LEMMA MinNat ==
  ASSUME NEW S \in SUBSET Nat, S # {}
  PROVE  Min(S) \in S /\ \A y \in S : Min(S) <= y
<1> DEFINE less == OpToRel(<, Nat)
<1>1. IsWellFoundedOn(less, Nat)
  BY NatLessThanWellFounded, Zenon
<1>2. \A y, x \in Nat : y < x => <<y, x>> \in less
  BY DEF OpToRel
<1> HIDE DEF less
<1>3. PICK x \in S : \A y \in S : ~(<<y, x>> \in less)
  BY <1>1, WFMin, Zenon
<1>4. \A y \in S : ~(y < x)
  BY <1>2, <1>3, Zenon
<1>5. \A y \in S : x <= y
  BY <1>4
<1> QED
  BY <1>5, Zenon DEF Min

\* The greater of two numbers.
LEMMA MaxOfTwo ==
  ASSUME NEW a \in Nat, NEW b \in Nat
  PROVE  Max({a, b}) \in {a, b} /\ a <= Max({a, b}) /\ b <= Max({a, b})
<1>1. \E x \in {a, b} : \A y \in {a, b} : x >= y
  OBVIOUS
<1> QED
  BY <1>1 DEF Max

\* mmapSize fails or returns at least the size it was asked for.
LEMMA MmapSizeCovers ==
  ASSUME NEW size \in Nat
  PROVE  mmapSize(size) = 0 \/ (mmapSize(size) \in Nat /\ size <= mmapSize(size))
<1> DEFINE steps == {s \in MinMmap .. MaxMmapStep : \E i \in 0..15 : s = MinMmap * 2^i}
           large == {s \in steps : size <= s}
           up    == ((size + MaxMmapStep - 1) \div MaxMmapStep) * MaxMmapStep
<1>1. CASE large # {}
  <2>1. large \in SUBSET Nat
    BY FileAssumption
  <2>2. Min(large) \in large
    BY <1>1, <2>1, MinNat
  <2> QED
    BY <1>1, <2>1, <2>2 DEF mmapSize
<1>2. CASE large = {} /\ size > MaxMapSize
  BY <1>2 DEF mmapSize
<1>3. CASE large = {} /\ ~(size > MaxMapSize)
  <2>1. up \in Nat /\ size <= up
    BY FileAssumption
  <2>2. Min({up, MaxMapSize}) \in {up, MaxMapSize}
    BY <2>1, MinNat, FileAssumption
  <2>3. mmapSize(size) = Min({up, MaxMapSize})
    BY <1>3 DEF mmapSize
  <2> QED
    BY <1>3, <2>1, <2>2, <2>3, FileAssumption
<1> QED
  BY <1>1, <1>2, <1>3

\* So do the mappings of Open and allocate, of whatever the file holds.
LEMMA MmapCovers ==
  ASSUME NEW minsz \in Nat, fsize \in Nat, mmap(minsz) # 0
  PROVE  mmap(minsz) \in Nat /\ fsize <= mmap(minsz) /\ minsz <= mmap(minsz)
<1>1. Max({fsize, minsz}) \in Nat /\ fsize <= Max({fsize, minsz})
                                 /\ minsz <= Max({fsize, minsz})
  BY MaxOfTwo
<1>2. mmap(minsz) = mmapSize(Max({fsize, minsz}))
  BY DEF mmap
<1> QED
  BY <1>1, <1>2, MmapSizeCovers

\* getPageSize returns the page size when a meta page validates.
LEMMA PageSizeFound ==
  ASSUME NEW option, fsize \in Nat, 3 <= fsize, slot \in 0..1, torn \subseteq {slot}
  PROVE  getPageSize(option) = PageKB
<1>1. CASE 0 \notin torn
  BY <1>1 DEF getPageSize
<1>2. CASE 1 \notin torn
  <2>1. PageKB \in scanPositions
    BY FileAssumption DEF scanPositions
  <2>2. 3 * PageKB <= fsize * PageKB
    BY FileAssumption
  <2>3. PageKB < fsize * PageKB - 1
    <3>1. fsize * PageKB \in Nat
      BY FileAssumption
    <3> QED
      BY <2>2, <3>1, FileAssumption
  <2> QED
    BY <1>2, <2>1, <2>3 DEF getPageSize
<1> QED
  BY <1>1, <1>2

-----------------------------------------------------------------------------
(* The invariant. *)

\* A file just created satisfies the invariant.
LEMMA InitInv == Init => IInv
<1> SUFFICES ASSUME Init PROVE IInv
  OBVIOUS
<1>1. PICK size \in InitialMmap : datasz = mmap(size) /\ datasz # 0
  BY DEF Init
<1>2. fsize = InitSize /\ synced = InitSize /\ pgid = InitSize /\ InitSize \in Nat
  BY FileAssumption DEF Init
<1>3. datasz \in Nat /\ fsize <= datasz
  BY <1>1, <1>2, MmapCovers, FileAssumption
<1> QED
  BY <1>2, <1>3 DEF Init, IInv, CommittedInFile, CommittedInMapping, PageSizeRecovered

\* grow never gives the file less than the committed pages.
LEMMA GrownSizeCovers ==
  ASSUME IInv, pc = "tx", wpgid > pgid
  PROVE  grownSize \in Nat /\ wpgid < grownSize
BY FileAssumption DEF IInv, grownSize

\* Every step of Open, Begin, Commit, Rollback, Close, every failure and every
\* crash preserves the invariant.
LEMMA NextInv == IInv /\ [Next]_vars => IInv'
<1> SUFFICES ASSUME IInv, [Next]_vars PROVE IInv'
  OBVIOUS
<1> USE DEF CommittedInFile, CommittedInMapping, PageSizeRecovered
<1>1. CASE Open
  <2>1. PICK option \in OptionKB, size \in InitialMmap :
          mmap(size) # 0 /\ pageSize' = getPageSize(option) /\ datasz' = mmap(size)
    BY <1>1 DEF Open
  <2>2. datasz' \in Nat /\ fsize <= datasz'
    BY <2>1, MmapCovers, FileAssumption DEF IInv
  <2>3. pageSize' = PageKB
    BY <2>1, PageSizeFound, FileAssumption DEF IInv
  <2> QED
    BY <1>1, <2>2, <2>3 DEF Open, IInv, disk
<1>2. CASE Close
  BY <1>2 DEF Close, IInv, disk
<1>3. CASE Crash
  <2>1. slot' \in 0..1 /\ torn' \subseteq {slot'}
    <3>1. CASE UNCHANGED <<torn, pgid, slot>>
      BY <3>1 DEF IInv
    <3>2. CASE torn' = torn \cup {slot} /\ slot' = slot
      BY <3>2 DEF IInv
    <3>3. CASE torn' = torn \ {slot} /\ slot' = 1 - slot
      <4>1. torn' = {}
        BY <3>3, Zenon DEF IInv
      <4> QED
        BY <3>3, <4>1 DEF IInv
    <3> QED
      BY <1>3, <3>1, <3>2, <3>3 DEF Crash
  <2>2. fsize' \in Nat /\ synced' \in Nat /\ pgid' \in Nat /\ InitSize <= pgid'
        /\ pgid' <= fsize' /\ pgid' <= synced'
    BY <1>3, FileAssumption DEF Crash, IInv
  <2> QED
    BY <1>3, <2>1, <2>2 DEF Crash, IInv
<1>4. CASE Begin
  BY <1>4 DEF Begin, IInv, disk
<1>5. CASE Rollback
  BY <1>5 DEF Rollback, close, IInv, disk
<1>6. ASSUME NEW n \in 1..MaxRun, allocate(n) PROVE IInv'
  <2>1. n \in Nat /\ n > 0 /\ wpgid + n + 1 \in Nat
    BY FileAssumption DEF IInv
  <2>2. datasz' \in Nat /\ datasz' # 0 /\ pgid <= datasz' /\ wpgid + n + 1 <= datasz'
    <3>1. CASE wpgid + n + 1 >= datasz
      BY <1>6, <2>1, <3>1, MmapCovers DEF allocate, IInv
    <3>2. CASE ~(wpgid + n + 1 >= datasz)
      BY <1>6, <2>1, <3>2 DEF allocate, IInv
    <3> QED
      BY <3>1, <3>2
  <2> QED
    BY <1>6, <2>1, <2>2 DEF allocate, IInv, disk
<1>7. ASSUME NEW n \in 1..MaxRun, AllocateFails(n) PROVE IInv'
  BY <1>7 DEF AllocateFails, close, IInv, disk
<1>8. CASE Grow
  <2>1. CASE fsize' = fsize /\ synced' = synced /\ filesz' = filesz
    BY <1>8, <2>1 DEF Grow, IInv
  <2>2. CASE wpgid > pgid /\ fsize' \in {fsize, grownSize} /\ synced' \in {synced, grownSize}
             /\ filesz' = grownSize
    <3>1. grownSize \in Nat /\ wpgid < grownSize
      BY <1>8, <2>2, GrownSizeCovers DEF Grow
    <3> QED
      BY <1>8, <2>2, <3>1 DEF Grow, IInv
  <2> QED
    BY <1>8, <2>1, <2>2, Zenon DEF Grow
<1>9. CASE GrowFails
  BY <1>9, GrownSizeCovers DEF GrowFails, close, IInv
<1>10. CASE Write
  <2>1. Max({fsize, wpgid}) \in Nat /\ fsize <= Max({fsize, wpgid})
                                   /\ wpgid <= Max({fsize, wpgid})
    BY MaxOfTwo DEF IInv
  <2> QED
    BY <1>10, <2>1 DEF Write, IInv
<1>11. CASE WriteFails
  <2>1. Max({fsize, wpgid}) \in Nat /\ fsize <= Max({fsize, wpgid})
    BY MaxOfTwo DEF IInv
  <2> QED
    BY <1>11, <2>1 DEF WriteFails, close, IInv
<1>12. CASE WriteMeta
  <2>1. torn' = {}
    BY <1>12, Zenon DEF WriteMeta, IInv
  <2>2. slot' \in 0..1 /\ torn' \subseteq {slot'}
    BY <1>12, <2>1 DEF WriteMeta, IInv
  <2> QED
    BY <1>12, <2>2, FileAssumption DEF WriteMeta, close, IInv
<1>13. CASE WriteMetaFails
  BY <1>13 DEF WriteMetaFails, close, IInv
<1>14. CASE UNCHANGED vars
  BY <1>14 DEF vars, IInv
<1> QED
  BY <1>1, <1>2, <1>3, <1>4, <1>5, <1>6, <1>7, <1>8, <1>9, <1>10, <1>11, <1>12,
     <1>13, <1>14 DEF Next

\* The invariant holds in every reachable state.
THEOREM FileInvariance == Spec => []IInv
BY InitInv, NextInv, PTL DEF Spec

\* No committed page is ever outside the file, or outside what a crash leaves
\* of it.
THEOREM FileCovers == Spec => []CommittedInFile
<1>1. IInv => CommittedInFile
  BY DEF IInv
<1> QED
  BY FileInvariance, <1>1, PTL

\* No committed page is ever outside the mapping.
THEOREM MappingCovers == Spec => []CommittedInMapping
<1>1. IInv => CommittedInMapping
  BY DEF IInv
<1> QED
  BY FileInvariance, <1>1, PTL

\* Open finds the page size of the file in whatever a crash leaves of the meta
\* pages.
THEOREM PageSizeKnown == Spec => []PageSizeRecovered
<1>1. IInv => PageSizeRecovered
  BY DEF IInv
<1> QED
  BY FileInvariance, <1>1, PTL
=============================================================================
