# TLA+ verification of bbolt

bbolt is an embedded key/value store: one file, a copy-on-write B+tree, one
write transaction at a time and any number of concurrent read transactions.
This directory holds TLA+ modules for the parts of it whose correctness depends
on the order of many steps, TLC configurations that check them on small
instances, and TLAPS proofs of the results that matter most. Line numbers refer
to the files in `src/`.

## 1. The system and its parts

| part | state | operations that change it | hard behaviours | modules |
|---|---|---|---|---|
| freelist, array (`freelist.go`) | free ids, pending ids by transaction, `allocs`, `cache`, `lastReleaseBegin` | allocate, free, release, releaseRange, rollback, read, reload, write | pages pending under readers of several ages; rollback and reload after a failure | `Freelist` |
| freelist, hashmap (`freelist_hmap.go`) | `freemaps`, `forwardMap`, `backwardMap` | hashmapAllocate, hashmapReadIDs, hashmapMergeSpans, init | three maps that must agree; Go's map order | `FreelistHmap` |
| freelist in the file (`freelist.go`, `page.go`, `tx.go`) | two regions of pages | write, read, commitFreelist | count above 0xFFFF, several pages | `FreelistPage`, `FreeSet` |
| transactions (`tx.go`, `db.go`) | `db.rwtx`, `db.txs`, copies of the meta, `db.stats` | Begin, Commit, Rollback, Update, View | failure of every system call of Commit, panics, readers beginning at any moment, the limit on pending pages | `DB`, `Snapshot` |
| file and recovery (`db.go`, `tx.go`) | two meta pages, freelist regions, data pages; page cache and disk | write, writeMeta, fdatasync, Open, Close | crash with lost, torn and reordered writes; killed process | `DB` |
| mapping and growth (`db.go`) | `datasz`, `filesz`, the size of the file | mmap, mmapSize, allocate, grow, getPageSize | size arithmetic, reopened files, torn meta pages | `File` |
| locks (`db.go`, `tx.go`) | rwlock, metalock, mmaplock, statlock | View, Update, WriteTo, Size, Close | deadlock, remapping under readers, statistics merged after the unlock | `Locks` |
| Batch (`db.go`) | `db.batch`, its calls and timer | Batch, trigger, run | timer against size trigger, retry without the failing call | `Batch` |
| B+tree (`node.go`) | nodes and pages | put, del, rebalance, split, spill | merges in any order, thresholds, overflow pages | `Node`, `Tree`, `KeyValue` |
| buckets (`bucket.go`) | cached children, inline buckets, sequences | CreateBucket, DeleteBucket, Put, Delete, NextSequence, SetSequence, spill | buckets that become inline, are deleted and made again | `Bucket` |
| cursor (`cursor.go`) | stack of element references | First, Last, Next, Prev, PrevN, PrevSamePage, Seek, Delete | empty pages left by deletions | `Cursor` |
| page layout (`page.go`, `node.go`) | packed leaf elements | fill, node.write, node.read | largest sizes in few bits | `Layout` |
| consistency check (`tx_check.go`) | - | Check | what it overlooks | `Check` |
| surgery tools (`internal/`, `cmd/bbolt`) | a closed file | CopyPage, ClearPage, RevertMetaPage | pages with overflow, the older meta | `Surgery` |
| backup (`db.go`) | a copy | WriteTo, CopyFile | copying while writers go on, a failing destination | `Backup` |
| compaction (`compact.go`) | source and destination | Compact | several transactions, a failing one | `Compact` |
| platform layer, rest of the command line | - | system calls, printing | - | not modelled, see section 8 |

How they interact: a transaction works on buckets, buckets on B+trees through
cursors, B+trees free and allocate pages through the freelist, a commit writes
pages, a freelist region and a meta page, and growing the file or the mapping
needs the locks that readers hold. The composition that isolation and recovery
depend on (transactions, freelist, file, crash) is `DB`. `Backup` is composed with
`DB`; `Tree` is built on `Layout` and `Node`, `Cursor` and `Surgery` on `Tree`,
`Surgery` on `Check` as well, `Compact` on `Bucket`. `FreelistPage` extends
`FreelistHmap`, and the two together implement `FreeSet`, the set of ids that
`Freelist`, and with it `DB`, takes a backend and its pages to be.

What correctness means for each:

- freelist: a page is in one place only; a page is released exactly when no open
  read transaction can reach it; rolling back restores what was there; each
  representation holds the same ids.
- transactions: a read transaction sees one committed state until it ends; a
  commit is atomic; a failed one leaves no trace.
- file: whatever survives a crash is the last acknowledged commit, or the one
  that was being committed, complete, inside the file and inside the mapping.
- locks and Batch: no deadlock, every call returns, each function of a batch
  takes effect exactly once.
- B+tree, buckets and cursor: what is stored is the sorted map of the calls made,
  every traversal visits it in order, every page is used once or free.
- tools: a copy is a database, a check finds damage, surgery does what it says.

## 2. Modules

| module | what it is |
|---|---|
| `Freelist` | the methods of `freelist` as operators from freelist to freelist |
| `DB` | the state machine: file, memory, transactions, faults, crash and Open |
| `Snapshot` | what a user relies on: versions, views, commits, crashes |
| `DBInv` | the inductive invariants of `DB`: `IInv`, and `BooksInv` with the freelist's books |
| `MCDB` | symmetry for TLC |
| `PageProofs` | types, and what the operations on freelists and trees of pages preserve |
| `DBProofs` | `IInv` is invariant; isolation and recovery; each step keeps the books: cache, releases, completeness |
| `StoreProofs` | what follows: nothing used twice or lost, the loop of `freePages`, the refinement of `Snapshot`, `Backup` |
| `FreelistHmap` | the three span maps of the hashmap backend |
| `FreelistPage` | the two freelist regions as words, over `FreelistHmap` |
| `FreelistProofs`, `RegionProofs` | proofs about the maps; about the regions, and that the two implement `FreeSet` |
| `FreeSet` | the set of ids the two implement |
| `File`, `FileProofs` | sizes of file and mapping, page size detection; proofs |
| `Locks`, `MCLocks`, `LocksProofs` | goroutines and locks; an instance; proofs |
| `Batch`, `BatchProofs` | calls, batches, timers; proofs |
| `Node` | operators of `node.go`: search, put, del, rebalance, split, spill on a tree |
| `Layout` | how a leaf is written to and read from its pages, bit by bit |
| `Tree`, `KeyValue` | transactions on one tree; the map it implements |
| `Cursor`, `MCCursor` | a cursor over `Tree`; the instances of both |
| `Check` | the consistency check, as the set of errors it reports |
| `Surgery`, `MCSurgery` | commits and surgery commands on a file; an instance |
| `Bucket` | nested buckets, over leaves that are not split |
| `Compact`, `MCCompact` | Compact over `Bucket`; the instances of both |
| `Backup` | WriteTo beside the transactions of `DB` |

A definition whose comment begins with "A bug" or "Mutant" is not part of the model. It is a
plausible mistake in the definition that follows it, and replacing the one by the
other makes a property fail: `PROJECT.json` lists which.

### State of DB

`page`, `meta` and `flist` are the data pages, the two meta pages and the two
freelist regions as the program sees them, through the page cache; `disk` holds
what fdatasync has made durable. `fl` is `db.freelist`, `stats` the
ids counted in `FreePageN` and `PendingPageN` of `db.stats`, `txs` the metas copied by open read
transactions, `pc` and `wmeta` the position and the meta of `db.rwtx`. `opened`
and `mapped` are `db.opened` and `db.data != nil`.

A B+tree is reduced to the pages reachable from its root: a function from page
id, overflow pages included, to the first page of the block and a tag. Every
write transaction has a tag of its own and stamps what it writes with it, so
that a page that is overwritten, torn or never written differs from what the
tree expects. Keys and values are left out: which pages are freed and allocated
is all that isolation and recovery depend on.

### Actions of DB and code

| action | code |
|---|---|
| `BeginRead`, `EndRead` | `beginTx`, `removeTx` |
| `BeginRW` | `beginRWTx`, with `freePages` and the test of `HardLimitPendingPages` |
| `DeleteBucket` | `Bucket.DeleteBucket`, `Bucket.free`, in the body of the transaction |
| `Commit`, `Rebalance`, `SpillNode` | `Tx.Commit` up to the end of spill: `node.rebalance`, `Bucket.spill`, `node.spill`, `db.allocate` |
| `SpillFails` | `db.mmap` fails before or after the old mapping is gone |
| `Grow`, `GrowFails` | `commitFreelist` and `db.grow` |
| `WritePages`, `WriteFails`, `SyncPages`, `SyncFails` | `Tx.write` |
| `BeginWriteMeta`, `WriteMeta`, `WriteMetaFails`, `SyncMeta`, `SyncMetaFails` | `Tx.writeMeta`; the writeAt takes two steps, so that readers may begin while the page is torn |
| `Rollback`, `UpdatePanics`, `CommitPanics` | `Tx.Rollback`, the deferred rollback of `Update`, a panic inside `Commit` |
| `Crash`, `Kill`, `Close`, `Open` | machine crash, killed process, `DB.Close`, `Open` with `loadFreelist` |

Operations that run under a lock from beginning to end are one action. What runs
without excluding readers is split: spilling a node, writing, syncing, the two
halves of the meta write. `Faults` says which failures an instance considers.

`freePages` is written with sets (`releaseBelow`, `Extents`, `releaseRanges`), which is
what the arguments about readers need; `freePagesLoop` is the loop of
`db.go:787-804` over the sorted txids, with its unsigned subtractions
(`txidBefore`). `FreePagesIsLoop`, checked in every state of `db_readers` and proved for
any number of readers, says that the two agree.

### The other modules

- `FreelistHmap`. `addSpan`, `delSpan` and `mergeWithExistingSpan` are the
  functions of those names on a record of three maps. `Allocate` takes any span
  that the iteration over a Go map may meet first. `hashmapMergeSpans` adds ids
  one at a time (`MergeSpans`, `MergeNext`), so that states between two merges are
  checked too.
- `FreelistPage`. The file from page 2 on is a sequence of words. A region is
  written over what it held before, so that a length or a count that is wrong
  reads old words. The constant 0xFFFF is `MaxCount`. `mergepgids` goes round by
  round, as the loop of `page.go:230-245` does (`mergeRound`).
- `File`. All sizes are in pages. `fsize` and `synced` are the sizes of the file
  before and after fdatasync, `datasz` and `filesz` the fields of `DB`. `NoGrowSync`
  may be changed between commits. A crash during the write of a meta page leaves
  it torn, and `getPageSize` has to find the other one; its positions are in KB.
- `Locks`. A goroutine is at a place of the code between two lock operations;
  `Calls` says which methods it may call. `sync.RWMutex` is modelled with its rule
  that a waiting writer stops new readers: `mmapW` is taken in one step
  (`LockMmap`) and obtained in another (`Remap`, `Close`), when no reader is left.
- `Batch`. A batch has calls, a timer, a flag for the goroutine that the filling
  call starts, and the `sync.Once` of `trigger`. The function of a call may fail or
  panic whenever it is run.
- `Node` and `Tree`. A tree is a record of pages, nodes in memory, the nodes still
  to be rebalanced, freed ids and faults. Sizes are bytes: page header, element
  headers, keys and values, compared with the thresholds of the source. Each step
  of a commit rebalances one node, any of those left, as the range over `b.nodes`
  may. `Finish` is spill, the new root and the release of what was freed. A `Plan`
  gives the keys to start with, the keys and values to use, and the number of
  changes and transactions.
- `Layout`. A word is the set of the positions of its one bits, so that a field that is
  too narrow loses bits as the shifts and masks of the code do. The largest
  key (8191 bytes), the largest value (2^24 - 1 bytes) and 26-bit positions are
  those of `page.go`.
- `Cursor`. The stack is a sequence of page ids or nodes with an index. Puts and
  deletes of the same transaction happen between its movements.
- `Bucket`. A bucket is a record with its root page or inline leaf, its leaf in
  memory and its cached children. `DeleteBucket` walks the child buckets with a
  cursor over a page or over a leaf that changes below it. A `Plan` gives the
  calls that made the file, and the number of calls and transactions.
- `Check` and `Surgery`. `check` returns the set of errors reported. `Surgery` puts the
  transactions of `Tree` on a file with two meta pages and two freelist regions.
  `Write` is a commit that succeeds; `WriteFails` is one that fails before any of its
  pages, after all of them, or in the writeAt of the meta page, which may leave that
  page torn (`Torn`), and is rolled back. Surgery commands run on the closed file, with
  whatever these have left. The database takes the valid meta page with the larger
  txid (`activeMeta`), the tools take the larger txid, valid or not (`GetRootPage`).
- `Backup`. The copy is made page by page. `Return` is what `CopyFile` makes of
  the result.
- `Compact`. `walkBucket` is the sequence of calls of the walk function; `Copy` is
  one of them, with the commit that may come first.

## 3. What is checked

Twelve runs; eleven hold and one shows a disagreement (section 5). In `DB`,
`Root = 4` is the first data page; meta pages and freelist regions are variables
of their own.

| run | instance | states |
|---|---|---|
| `db_faults` | 3 pages, 2 readers, 3 write transactions, 1 crash, every fault but the rare ones | 246 000 |
| `db_readers` | 3 pages, nodes of 1 or 2 pages, hashmap freelist, 2 readers, 5 write transactions, no faults | 1 700 000 |
| `db_rare_faults` | 3 pages, no readers; panic in Commit, failing sync of the meta, killed process | 21 000 |
| `hashmap_reload` | hashmap freelist, 1 reader, panicking function; violated | - |
| `backup` | `DB` with failing writes, the reader that copies and another one, a destination that fails anywhere | 2 100 000 |
| `freelist` | 3 ids, two regions of 4 pages of 3 words, count moved from 2 ids on | 18 000 |
| `file` | 2 openings, allocations of up to 3 pages, mappings from 2 to 16 pages, 2 page size options | 2 200 000 |
| `locks` | 3 goroutines: View and Update; Update and WriteTo; View, Size and Close | 122 000 |
| `batch` | 3 calls, batches of 2, up to 3 batches | 14 000 |
| `tree` | pages of 128 bytes; trees of 1 to 3 levels, up to 13 keys, overflow values; a cursor over 2, 3 and 5 leaves | 252 000 |
| `buckets` | 2 names per bucket, depth 3, 2 sizes of values; Compact with and without limit | 84 000 |
| `surgery` | 6 keys, 3 of them changed, 2 transactions that commit or fail at any write, 1 surgery command | 316 000 |

The properties:

- `db_faults`, `db_readers`, `db_rare_faults`
  - `SnapshotIntact`: nothing is written into a page of an open read transaction.
  - `NoDoubleUse`, `NoLeak`: what `Tx.Check` looks for (already freed, reachable
    freed, unreachable unfreed), in every state, and that `cache` is exact.
  - `Recoverable`: a file that is not open has a valid meta, its freelist can be
    read, its tree is intact and none of its pages is listed free.
  - `ReclaimsAll`: a write transaction begins with every page released that no
    reader needs, so the shortcut by `lastReleaseBegin` loses nothing.
  - `FreePagesIsLoop`: the set-based `freePages` equals the loop of the source.
  - `BooksInv`: the inductive invariant of the proofs (section 6), with `TypeOK` and
    `IInv`.
  - `ImplementsSnapshot`: the visible and the durable version, and the views of
    readers, behave as in `Snapshot`. A commit takes effect when its meta page is whole.
- `backup`
  - `CopyIsDatabase`: a copy whose writes all succeeded has a valid meta whose tree
    and freelist are those of one committed state, whatever was committed or
    rolled back while the pages were copied.
- `freelist`
  - `AllocatesLikeASet`: the span maps allocate a run exactly when the set of free
    ids has one, and take that run from all three maps.
  - `RegionsReadBack`: each region reads back as the ids that were free or pending
    when it was written, on both sides of the boundary of the count.
  - `ImplementsFreeSet`: maps and regions together are the set of `FreeSet`.
- `file`
  - `CommittedInFile`, `CommittedInMapping`: every committed page is inside the
    file that survives a crash and inside the mapping.
  - `PageSizeRecovered`: Open finds the page size with either meta page torn.
- `locks`
  - `ReadersMapped`: the mapping is never removed under a read transaction.
  - `NoWaitCycle`: no set of goroutines waits for each other.
  - `BackupPinned`: no write transaction is open between WriteTo's copy of the meta
    pages and its read transaction.
  - `EveryCallReturns`, under fairness: nobody waits for ever, unless a call
    panicked on what Close took away.
- `batch`
  - `ExactlyOnce`: a call that returns nil was committed once, one that returns an
    error not at all.
  - `NeverLost`: a waiting call is in a batch that will run, or has its answer.
  - `EveryCallReturns`, under fairness: once the batch is full or its timer fired.
- `tree`
  - `HoldsMap`: the tree holds the map of the calls made, in every state, in the
    middle of a commit too; a search finds every key of it and no other.
  - `NoFaults`: no assertion of rebalance or spill fails, no page is freed twice.
  - `NoPageLost`: the pages in use are those of the tree.
  - `Balanced`: the shape of committed trees.
  - `CopyOnWrite`: a transaction writes no page of the tree it started from.
  - `ItemsReadBack`: leaves read back, also with the largest keys and values.
  - `PositionsExactly`, `StepsToNeighbour`: First, Last, Seek and PrevN, and each
    Next and Prev, land where the sorted keys say, over leaves emptied by
    deletions. The exception stated in the property is Prev (section 5).
- `buckets`
  - `HoldsMap`: transactions see, and commits write, the map from paths to values.
  - `PagesUsedOnce`: each page belongs to one bucket or is free again, except for
    the buckets that DeleteBucket passes over (section 5).
  - `StatsMatch`: Bucket.Stats counts buckets, keys, pages and levels once.
  - `CopiesSource`: at every moment Compact has committed a beginning of the walk
    over the source, all of it when it returns nil, in transactions of the size
    limit.
- `surgery`
  - `BothStatesConsistent`: wherever commits have failed, the state in force holds the
    last commit and passes the check. So does the previous state, which
    revert-meta-page brings back, unless a commit has failed since the last one that
    succeeded (section 5).
  - `AcceptedIsSearchable`: where pages were copied or cleared and the check finds
    nothing, a search still comes to every key of the file, along one path, if the
    tool can read the pages and takes the meta page that the database takes.

### Why the bounds are enough to be interesting

`DB`: with three data pages and three transactions a page is allocated, freed, kept
pending under one reader, released and reused under another, in both meta slots
and both freelist regions. releaseRange needs a page that is allocated and freed
between two readers, which takes five transactions: `db_readers`, where nodes of
two pages are freed and released as blocks as well. One crash is enough for
`Recoverable`, which is about the state after it. `MaxPgid`, `MaxTxid`, `MaxTag`
and `MaxCrash` appear in the guards of `SpillNode`, `BeginRW`, `Crash`, `Kill` and
`Close`; reaching one of them ends a behaviour early, which is why deadlock is not
checked in these runs, in `backup` and, for `MaxOpen`, in `file`. `locks` may stop
when a call panics with a lock. Symmetry is used in `db_readers` only, whose
properties are about states and steps.

`freelist`: lists of no id to three ids lie on both sides of `MaxCount` and take one,
two and three pages; three ids are enough for a span that is merged on both sides
and for two spans of the same size. `file`: mappings double, then grow by steps, then reach the
limit. `locks`: three goroutines are a reader, a remapping writer and a Close, or a
backup between two writers. `batch`: three calls fill one batch and leave one for
a second, or are spread by timers. `tree`: twelve keys make three levels, and four
changes empty a leaf, merge its branch and collapse the root; five changes empty
both leaves under a cursor. `buckets`: a bucket with two large buckets inside is
what a deletion has to iterate over. `surgery`: two transactions fill both meta
pages with different trees, or one of them fails and writes over what the other
leaves in force or gives up; the larger value makes overflow pages.

## 4. Fairness

- `Batch`: weak fairness of each caller and of each run of a batch; goroutines that
  can run do. No fairness of timers or of calls: `MaxBatchDelay` may be long and
  nobody need call. So `EveryCallReturns` begins where the batch is full or its
  timer has fired.
- `Locks`: strong fairness of the steps of each goroutine, except for its first: a
  `sync.Mutex` hands itself over in starvation mode, and a `sync.RWMutex` lets a
  waiting writer in before later readers and the readers that wait before the next
  writer. It includes that users end their transactions, which Begin's
  documentation asks of them.

`DB` and the modules around it make no promise about the future; what they
promise holds without fairness.

## 5. Disagreements and exceptions

`hashmap_reload` is a run whose counterexample is a behaviour of the code. `reload`
promises to filter out pending pages (`freelist.go:341`). When all ids read are
pending, `init` of the hashmap backend gets an empty list and returns before it
resets its maps (`freelist_hmap.go:147`), so that the pending pages stay free, and
one that an open read transaction needs is allocated.

Other behaviours shape what the properties above claim. In `DB`, a set of `Faults`
or a bound is all that has to be changed to see them:

- The last fdatasync of a commit fails (`tx.go:426`): the commit is rolled back
  although the new meta is current, and the freelist is read back from the new
  region, where pages that readers need are plainly free. `SnapshotIntact` fails
  when `"metasync"` is added to the faults of `MCDB.cfg`.
- Open trusts a meta page that may be in the page cache only, after a process
  was killed before the fdatasync (`tx.go:422`). The next transaction overwrites
  what the durable meta needs, so that a machine crash then loses both:
  `Recoverable` fails with `"kill"` and `"crash"` and `MaxCrash = 2`. No run
  has both.
- After a panic in Commit the deferred Rollback does not give back pages taken
  from the freelist (`tx.go:264-273`): `NoLeak` fails with `"assert"`.
- `ErrHighLoadPendingPages` is called temporary (`db.go:755`). The numbers it
  depends on only change when a write transaction ends, and no write transaction
  begins any more. So nothing is claimed about a retry; `EveryCallReturns` of
  `Locks` has the call return with the error.

Elsewhere the property states the exception:

- Statistics are stored after rwlock is released (`tx.go:304`), so two write
  transactions may store theirs in the other order. No property is about values.
- Close between the unlock and the statistics of a commit, or before the meta is
  read in Size or WriteTo, makes that call panic: the exception of
  `EveryCallReturns`.
- WriteTo loses the error of its first copy (`db.go:1219-1222`), so
  `CopyIsDatabase` is about copies whose writes succeeded.
- Prev stops with a nil key on a leaf that deletions have emptied
  (`cursor.go:279-300`), where Next goes on: the exception of `StepsToNeighbour`.
- Cursor.Delete goes by position (`cursor.go:168-183`). After another change of the
  page it removes the key that has moved to the cursor's position, not the one the
  cursor returned. `HoldsMap` demands the key returned of a cursor that was positioned
  since the last change, and the key at the position of others.
- DeleteBucket deletes child buckets while it iterates (`bucket.go:232`), and when
  the leaf is already in memory the iteration passes over the next one. Its pages
  are lost: the set `lost` in `PagesUsedOnce`.
- The check looks at the first page of a block only where it compares with
  the freelist and with the high water mark (`tx_check.go:84-100`), and the tools cannot read a
  page whose overflow is near the high water mark (`guts_cli.go:288`): `Check`
  and `Surgery` do the same.
- "The previous state is consistent" (`surgeon.go:38`) holds until a commit fails: by
  then `tx.write` may have overwritten the freelist region and pages that belong to the
  older meta page, which is no longer in force. After it only the state in force
  is whole: the exception, `spoiled`, of `BothStatesConsistent`.
- `GetRootPage` does not validate (`guts_cli.go:350-367`). With a torn meta page of the
  larger txid XRay searches a tree that the database does not use; with a torn one of
  the smaller txid revert-meta-page copies it over the good one. The first is the
  premise `GetRootPage(meta) = activeMeta(meta)` of `AcceptedIsSearchable`, the second is
  excluded by `spoiled`.
- grow may truncate the file below its present size (`db.go:1145`), since `filesz`
  is 0 after Open; `CommittedInFile` shows that no committed page is cut off.

## 6. What is proved

For every value of the constants, with the named assumptions of each module.

**DB** (`FreelistAssumption`, `DBAssumption`: the bounds are natural numbers, there
is a data page, freelist type and faults are those the code knows).

- `TypeCorrect`: `Spec => []TypeOK`, for all faults and both freelists.
- `Invariance`: `Spec => []IInv` if `Sound`.
- `Isolation`, `ReadersProtected`, `Recovery`: `Spec => []SnapshotIntact`,
  `[]ReadersKeepPages` (no page of a reader can be allocated) and `[]Recoverable`
  if `Sound`.
- `Refinement`: `Spec => ImplementsSnapshot` if `Sound`. Every step is one of
  `Snapshot`, or changes neither the versions nor the views.
- `OnePlace`: `Spec => []NoDoubleUse` if `Sound`.
- `AllReclaimed`: `Spec => ReclaimsAll` if `Sound`, an action property.
- `FreePages`: `Spec => []FreePagesIsLoop` if `Sound`.
- `Books`, `NoPageLost`: `Spec => []BooksInv` and `Spec => []NoLeak` if `Sound` and
  `Commit` itself does not panic.
- `BackupWhole`: `BackupSpec => []CopyIsDatabase` under the same conditions.

`Sound` says that the fdatasync of a meta page does not fail and processes are not
killed, and that the freelist is the array, or else the hashmap and nothing but
machine crashes happens. Section 5 shows each to be necessary. Everything else
in `AllFaults` is allowed. A panic in `Commit` is too, except where pages must not
be lost: it leaks pages and breaks neither isolation nor recovery nor the
refinement.

`SnapshotIntact` is not inductive. That no page of a reader is overwritten
depends on the freelist not offering it, which depends on what is pending and
since when, which depends on what `allocs` remembers about its block, and on the
freelist region that a rollback or an Open reads back. `IInv` states all this
around the *durable meta*, the one on disk that a crash cannot lose:

- `SlotInv`: it is in the slot of its txid, on disk and in the file, and the
  other slot is older, broken, or holds the writer's meta.
- `DurableInv`: its tree and its freelist region are intact on disk and in the
  file, and no page of the tree is listed free.
- `WriterInv`: the writer's tree consists of blocks of the durable tree and of
  new blocks elsewhere, and once written and synced it is what the disk holds.
- `FreelistInv`: free pages are in neither tree; a pending entry is unique; a
  page of the durable tree is live, or pending with the writer's txid.
- `ReaderInv`: a reader's txid is at least 1 and not above the visible one, and
  every page of its tree is in the live tree as the same block, or pending with
  allocation <= reader < freeing. This is exactly what keeps `release` and
  `releaseRange` from taking it.

The proof has one lemma per action. `PageProofs` separates what an operation does
to a freelist and two trees from how the states are laid out, so that
the six failing actions share one argument (`RollbackPages`, `ReloadPages`).

`BooksInv` adds what `IInv` does not need to know:

- `CacheInv`: the cache by which `free` notices a page freed twice lists exactly
  the pages that are free or pending.
- `ReleaseInv`: where `lastReleaseBegin` of a transaction is set, all that this
  transaction still has pending was allocated before that txid, so that the range
  that releaseRange skips has nothing left to give; transactions to come have no
  such mark.
- `CompleteInv`: every page below the high water mark is in the tree or in the
  freelist, for the live tree and the freelist in memory, and for the durable tree
  and the region that Open, or a rollback, reads back. `NoLeak` alone is not
  inductive: a failing transaction replaces the list in memory by the one in
  the file.

The second half of `DBProofs` sorts the actions by what they do to the freelist (`Kinds`): nothing,
one of the operators, or a reload, and proves each part of `BooksInv` once per kind.
`AllReclaimed` needs one more fact, that a txid between two readers lies in one
of the ranges that freePages releases (`ExtentOf`), which rests on the least and the
greatest element of sets of numbers.

`FreePages` follows the loop reader by reader. `TurnsExist` and `LoopIs` show that it is
well defined. After reader i the freelist is the one that `releaseRanges` gives for the
ranges up to that reader (`NextExtent`, `ReleaseNext`): the next range begins behind all
of them, so that no page it releases, and no `lastReleaseBegin` it sets, is one an
earlier range has touched (`ExtentsApart`). Two readers of the same txid give an empty
range, which `releaseRange` returns from; txids of readers are at least 1, so that the
unsigned subtractions do not wrap. `LoopReleases` is the induction.

For `Refinement` the contents that transactions read are first shown to be what
their trees say (`StoreState`), so that a step of `DB` changes the versions only where
it changes a meta: the second half of the meta write, its fdatasync, and a crash.
For `BackupWhole`, `CopyInv` says where the copy stands: until the read transaction
begins nothing is written, so its meta pages and freelist are those of the file;
then the pages copied so far are those of the reader's tree, which `Isolation` keeps.

**Freelist, hashmap and file** (`FreelistAssumption`, `FreelistPageAssumption`: a page
has room for more than its header, a region has a page, the count has a largest
value).

- `HmapIsSet`: `HmapSpec => []AllocatesLikeASet`, for any number of pages: after any
  sequence of allocations, merges one id at a time and rebuilds from a list, the
  span maps allocate what the set of their ids would.
- `FreelistReadsBack`: `Spec => []RegionsReadBack`, for every page size, region size
  and limit of the count.
- `FreelistIsSet`: `Spec => ImplementsFreeSet` if `FreelistType = "hashmap"`. The
  condition is there because `FreeSet` takes the runs that may be allocated from
  `Freelist`, where they depend on the backend, and `FreelistPage` keeps its ids in
  span maps.

`SpansOK` is the invariant of the maps: `backwardMap` and `freemaps` are
determined by `forwardMap`, and spans neither overlap nor touch. That two spans do
not touch is what makes a run of free ids lie inside one span (`LongAre`). The
rebuild, `init`, is a recursive function over the ids; `PassExists` and `PassIs` show
by induction that it is well defined, and `InitOK` that its spans are maximal.

`PageInv` adds the file. `RegionsReadBack` is not inductive, since it says what a
reader of the words gets and not what the words are: `FileInv` states the layout
(`Holds`: count, moved count and ids word by word), and that the ids, free and pending,
are in one place only, without which the merged list would be longer than its
count. The steps of the argument are: a finite set of ids has one sorted list
(`SortedExists`); each round of mergepgids keeps what is merged sorted and below what
is left, and shortens what is left (`MergeRoundOK`), so that after as many rounds as
there are ids nothing is left to merge and the result is the sorted union (`MergeIs`);
commitFreelist takes enough pages for header, count and ids, and the assertion keeps
them inside the region (`PagesFit`), so that writing one region leaves the other and
the data page alone (`HoldsSame`); and what is laid out like this reads back (`ReadIs`).

**File** (`FileAssumption`: sizes are natural numbers, the mapping limit leaves room
for a new file, the page size is a power of two of up to 16 MB).
`FileInvariance`, `FileCovers`, `MappingCovers` and `PageSizeKnown`: `IInv`,
`CommittedInFile`, `CommittedInMapping` and `PageSizeRecovered` always hold. `IInv`
adds what a commit has reached: in a transaction the mapping reaches beyond the
new high water mark, and before the meta page is written so do the file and its
size on stable storage; and only the meta page written last may be torn.
`MmapSizeCovers` is the arithmetic of `mmapSize`.

**Batch** (`BatchAssumption`: finitely many calls, natural bounds). `AppliedOnce` and
`NoCallLost`: `ExactlyOnce` and `NeverLost` always hold, for any number of calls and
any batch size. The inductive invariant adds that only a batch that has not
started takes calls, that a batch is empty before it is made and after it is
done, and that only a waiting call has an answer in its channel.

**Locks** (`LocksAssumption`). `NoCircles`, `MappingKept` and `BackupsPinned`:
`NoWaitCycle`, `ReadersMapped` and `BackupPinned` always hold, for any finite or infinite set of
goroutines and any division of the calls. The inductive invariant `HoldersInv`
gives each place of the code the locks held there. `NoWaitCycle` then
follows from the order rwlock, metalock, mmaplock: a goroutine only waits for
one that waits for a later lock or for none.

## 7. What is only model-checked

- Liveness: `EveryCallReturns` of `Locks` and of `Batch`.
- All of `Tree`, `Cursor`, `Bucket`, `Compact`, `Check` and `Surgery`: `HoldsMap`, `NoFaults`,
  `NoPageLost`, `Balanced`, `CopyOnWrite`, `PositionsExactly`, `StepsToNeighbour`,
  `PagesUsedOnce`, `StatsMatch`, `CopiesSource`, `BothStatesConsistent` and
  `AcceptedIsSearchable`. Trees and walks are recursive operators, which the prover does
  not handle. Induction is available for recursive functions only, in the form of a
  lemma about sets of numbers (`Induction`).
- `ItemsReadBack`: the fields of a leaf element are sums of
  powers of two, and the provers have no theory of them.
- `ImplementsFreeSet` for the array backend has no separate model: there the ids
  are the sorted list itself.
- That isolation fails for the hashmap freelist when transactions fail
  (section 5); what the proofs say of it assumes that only machines crash.

## 8. What is not modelled

- `flock`, `mlock`, `madvise` and the platform files: system calls. `DB` and `File`
  model what the code relies on of writeAt, fdatasync, truncate and mmap.
- `NoSync` and read-only databases: `NoSync` gives up recovery by design,
  read-only ones have no writer.
- A crash inside `db.init`: there is nothing to lose yet.
- In `Surgery`: copy-page and clear-page of meta and freelist pages; more than one
  bucket and inline buckets in `FindPathsToKey` and `check`; pages that are written in
  part; and reordering by a power failure, which is the matter of `DB`.
- A txid that reaches 2^64: `MaxTxid` stands for the largest one.
- Plain items in the root bucket, which a cursor's `Bucket` method could put there:
  `Tx` offers no Put, and "all root bucket keys point to buckets" (`tx.go:84`).
- Trees of several levels inside `Bucket`, and nested buckets inside `Tree`: the two
  are checked apart, since a bucket sees its tree only as a map of keys.
- The command line except for the surgery commands: argument handling, printing
  and the bench command. `internal/btesting`: test support.
- Values of statistics other than the two that `beginRWTx` reads and those of
  `Bucket.Stats` that count buckets, keys, pages and levels.
