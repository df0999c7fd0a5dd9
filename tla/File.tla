-------------------------------- MODULE File --------------------------------
(***************************************************************************)
(* The sizes of the file and of its mapping: Open with getPageSize, mmap,  *)
(* mmapSize, allocate at the high water mark and grow (db.go), in the      *)
(* steps Tx.Commit (tx.go) takes them.  What the pages hold is the subject *)
(* of module DB; here they are only counted, in units of one page.         *)
(*                                                                         *)
(* The size of the file is metadata of its own: synced is the size that    *)
(* survives a crash of the machine.  A crash while a meta page is written  *)
(* leaves that page torn, and Open has to find the page size without it.   *)
(***************************************************************************)
EXTENDS Integers, FiniteSets, FiniteSetsExt

CONSTANTS
  InitSize,     \* pages of a file that db.init has written
  MinMmap,      \* the smallest mapping, 32 KB; it doubles up to
  MaxMmapStep,  \* 1 GB, and grows by that much from there
  MaxMapSize,   \* the largest mapping
  AllocSize,    \* DB.AllocSize
  InitialMmap,  \* the values of Options.InitialMmapSize
  NoGrowSync,   \* the values DB.NoGrowSync may have, which a user can change
  MaxRun,       \* bound on the pages of one allocation
  PageKB,       \* the page size the file was created with, in KB
  OptionKB,     \* the page sizes Open may be given
  MaxOpen       \* bound on the number of times the file is opened again

ASSUME FileAssumption ==
  /\ InitSize \in Nat /\ 3 <= InitSize
  /\ MinMmap \in Nat \ {0} /\ MaxMmapStep \in Nat \ {0}
  /\ MaxMapSize \in Nat /\ InitSize + 1 <= MaxMapSize
  /\ AllocSize \in Nat
  /\ InitialMmap \subseteq Nat
  /\ NoGrowSync \subseteq BOOLEAN
  /\ MaxRun \in Nat /\ MaxOpen \in Nat
  /\ PageKB \in Nat \ {0} /\ PageKB \in {2^i : i \in 0..14}

VARIABLES
  fsize,     \* the size of the file
  synced,    \* its size on stable storage
  torn,      \* the meta pages that do not validate
  pgid,      \* the high water mark of the current meta
  slot,      \* the meta page the next commit writes
  pc,        \* "closed", "idle", or where the write transaction is
  datasz,    \* DB.datasz, 0 without a mapping
  filesz,    \* DB.filesz
  pageSize,  \* DB.pageSize, in KB
  wpgid,     \* the high water mark of the write transaction
  opens      \* how often the file was opened again

vars == <<fsize, synced, torn, pgid, slot, pc, datasz, filesz, pageSize, wpgid, opens>>

-----------------------------------------------------------------------------
\* db.mmapSize; 0 stands for "mmap too large".
mmapSize(size) ==
  LET steps == {s \in MinMmap .. MaxMmapStep : \E i \in 0..15 : s = MinMmap * 2^i}
      large == {s \in steps : size <= s}
  IN  IF large # {} THEN Min(large)
      ELSE IF size > MaxMapSize THEN 0
      ELSE Min({((size + MaxMmapStep - 1) \div MaxMmapStep) * MaxMmapStep,
                MaxMapSize})

\* The size db.mmap(minsz) maps.
mmap(minsz) == mmapSize(Max({fsize, minsz}))

\* Mutant: the largest page size is not tried.
scanPositionsShort == {2^i : i \in 0..13}

\* Where getPageSizeFromSecondMeta looks for the second meta page, in KB.
scanPositions == {2^i : i \in 0..14}

\* getPageSize, for an Open with page size option; where no meta begins none
\* validates.
getPageSize(option) ==
  LET found == {pos \in scanPositions : /\ pos < fsize * PageKB - 1
                                        /\ pos = PageKB /\ 1 \notin torn}
  IN  IF 0 \notin torn \/ found # {} THEN PageKB ELSE option

\* A file that Open has just created.
Init ==
  /\ fsize = InitSize /\ synced = InitSize
  /\ torn = {}
  /\ pgid = InitSize
  /\ slot = 0
  /\ pc = "idle"
  /\ \E size \in InitialMmap : datasz = mmap(size) /\ datasz # 0
  /\ filesz = InitSize
  /\ pageSize = PageKB
  /\ wpgid = 0
  /\ opens = 0

disk == <<fsize, synced, torn, pgid, slot>>

-----------------------------------------------------------------------------
\* Open of an existing file; filesz stays 0 until the file grows.  The second
\* meta page is at pageSize: with the wrong one mmap finds no valid meta.
Open ==
  /\ pc = "closed"
  /\ opens < MaxOpen
  /\ \E option \in OptionKB, size \in InitialMmap :
       /\ mmap(size) # 0
       /\ pageSize' = getPageSize(option)
       /\ datasz' = mmap(size)
  /\ pc' = "idle"
  /\ filesz' = 0
  /\ opens' = opens + 1
  /\ UNCHANGED <<disk, wpgid>>

\* Close, and the end of the process.
Close ==
  /\ pc = "idle"
  /\ pc' = "closed"
  /\ datasz' = 0
  /\ UNCHANGED <<disk, filesz, pageSize, wpgid, opens>>

\* The machine stops: the size of the file may or may not have reached the
\* disk, a meta page that is being written is torn or not.
Crash ==
  /\ pc # "closed"
  /\ fsize' \in {fsize, synced}
  /\ synced' = fsize'
  /\ \/ UNCHANGED <<torn, pgid, slot>>
     \/ pc = "meta" /\ torn' = torn \cup {slot} /\ UNCHANGED <<pgid, slot>>
     \/ /\ pc = "meta"
        /\ torn' = torn \ {slot} /\ pgid' = wpgid /\ slot' = 1 - slot
  /\ pc' = "closed"
  /\ datasz' = 0 /\ wpgid' = 0
  /\ UNCHANGED <<filesz, pageSize, opens>>

\* beginRWTx, which refuses to go on without a mapping.
Begin ==
  /\ pc = "idle"
  /\ datasz # 0
  /\ pc' = "tx"
  /\ wpgid' = pgid
  /\ UNCHANGED <<disk, datasz, filesz, pageSize, opens>>

\* The transaction is over, committed or not.
close == pc' = "idle" /\ wpgid' = 0 /\ UNCHANGED <<pageSize, opens>>

Rollback ==
  /\ pc = "tx"
  /\ close
  /\ UNCHANGED <<disk, datasz, filesz>>

\* Mutant: the mapping is compared with the mark before the allocation.
allocateAtMark(n) ==
  LET minsz == wpgid + n + 1
  IN  /\ pc = "tx"
      /\ IF wpgid + 1 >= datasz THEN mmap(minsz) # 0 /\ datasz' = mmap(minsz)
         ELSE UNCHANGED datasz
      /\ wpgid' = wpgid + n
      /\ UNCHANGED <<disk, pc, filesz, pageSize, opens>>

\* db.allocate of n pages for which the freelist has no room.
allocate(n) ==
  LET minsz == wpgid + n + 1
  IN  /\ pc = "tx"
      /\ IF minsz >= datasz THEN mmap(minsz) # 0 /\ datasz' = mmap(minsz)
         ELSE UNCHANGED datasz
      /\ wpgid' = wpgid + n
      /\ UNCHANGED <<disk, pc, filesz, pageSize, opens>>

\* The mapping would be too large, or cannot be made before or after the old
\* one is gone: Commit rolls back.
AllocateFails(n) ==
  LET minsz == wpgid + n + 1
  IN  /\ pc = "tx"
      /\ minsz >= datasz
      /\ datasz' = datasz \/ (mmap(minsz) # 0 /\ datasz' = 0)
      /\ close
      /\ UNCHANGED <<disk, filesz>>

\* Mutant: in chunks, but not on top of what is needed.
grownSizeChunk == IF datasz <= AllocSize THEN datasz ELSE AllocSize

\* The size grow gives the file.
grownSize == IF datasz <= AllocSize THEN datasz ELSE wpgid + 1 + AllocSize

\* Commit has spilled and grows the file if the high water mark has moved.
Grow ==
  /\ pc = "tx"
  /\ pc' = "write"
  /\ IF wpgid > pgid /\ wpgid + 1 > filesz
     THEN /\ filesz' = grownSize
          /\ \/ TRUE \in NoGrowSync /\ UNCHANGED <<fsize, synced>>
             \/ FALSE \in NoGrowSync /\ fsize' = grownSize /\ synced' = grownSize
     ELSE UNCHANGED <<fsize, synced, filesz>>
  /\ UNCHANGED <<torn, pgid, slot, datasz, pageSize, wpgid, opens>>

\* Truncate fails, or the sync after it.
GrowFails ==
  /\ pc = "tx"
  /\ wpgid > pgid /\ wpgid + 1 > filesz
  /\ FALSE \in NoGrowSync
  /\ fsize' \in {fsize, grownSize}
  /\ close
  /\ UNCHANGED <<synced, torn, pgid, slot, datasz, filesz>>

\* tx.write: every page that was allocated, and fdatasync.
Write ==
  /\ pc = "write"
  /\ fsize' = Max({fsize, wpgid})
  /\ synced' = fsize'
  /\ pc' = "meta"
  /\ UNCHANGED <<torn, pgid, slot, datasz, filesz, pageSize, wpgid, opens>>

\* A writeAt or the fdatasync fails.
WriteFails ==
  /\ pc = "write"
  /\ fsize' \in {fsize, Max({fsize, wpgid})}
  /\ close
  /\ UNCHANGED <<synced, torn, pgid, slot, datasz, filesz>>

\* tx.writeMeta.
WriteMeta ==
  /\ pc = "meta"
  /\ torn' = torn \ {slot}
  /\ pgid' = wpgid
  /\ slot' = 1 - slot
  /\ close
  /\ UNCHANGED <<fsize, synced, datasz, filesz>>

\* Its writeAt fails, with the meta page as it was or torn.  When only the
\* fdatasync fails the meta page is whole, and the sizes are as after WriteMeta.
WriteMetaFails ==
  /\ pc = "meta"
  /\ torn' \in {torn, torn \cup {slot}}
  /\ close
  /\ UNCHANGED <<fsize, synced, pgid, slot, datasz, filesz>>

Next ==
  \/ Open \/ Close \/ Crash \/ Begin \/ Rollback
  \/ \E n \in 1..MaxRun : allocate(n) \/ AllocateFails(n)
  \/ Grow \/ GrowFails \/ Write \/ WriteFails \/ WriteMeta \/ WriteMetaFails

Spec == Init /\ [][Next]_vars

-----------------------------------------------------------------------------
(* Properties *)

\* Every committed page is inside the file, also in the file that is found
\* after a crash: grow and tx.write have made it large enough, and synced that,
\* before the meta page says so, with and without NoGrowSync; and a later grow,
\* which may not know how large the file is, does not cut it off.
CommittedInFile == pgid <= fsize /\ pgid <= synced

\* Every committed page is inside the mapping, so that db.page(id) never
\* reaches beyond it: Open, and allocate before the high water mark moves, have
\* mapped enough.
CommittedInMapping == datasz # 0 => pgid <= datasz

\* Open finds the page size the file was created with, whatever option it is
\* given, as long as one of the meta pages validates, and one always does.
PageSizeRecovered == pc # "closed" => pageSize = PageKB

\* A commit writes a meta page only after file, stable storage and mapping
\* reach to its high water mark; the meta page it does not write stays whole.
\* Inductive, and stronger than the three above.
IInv ==
  /\ fsize \in Nat /\ synced \in Nat /\ pgid \in Nat /\ datasz \in Nat
  /\ filesz \in Nat /\ wpgid \in Nat
  /\ slot \in 0..1 /\ torn \subseteq {slot}
  /\ pc \in {"closed", "idle", "tx", "write", "meta"}
  /\ InitSize <= pgid
  /\ CommittedInFile /\ CommittedInMapping /\ PageSizeRecovered
  /\ pc \in {"tx", "write", "meta"} =>
       /\ datasz # 0
       /\ wpgid = pgid \/ (pgid < wpgid /\ wpgid + 1 <= datasz)
  /\ pc = "meta" => wpgid <= fsize /\ wpgid <= synced
=============================================================================
