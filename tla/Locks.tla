------------------------------- MODULE Locks -------------------------------
(***************************************************************************)
(* The locks of a DB: rwlock, metalock, mmaplock and statlock, and the     *)
(* order in which goroutines take them in View, Update, Close, WriteTo and *)
(* Size (db.go, and Tx.close in tx.go).                                    *)
(*                                                                         *)
(* The critical sections of statlock, and those of metalock in which       *)
(* nothing else is locked, never wait: each is one step.  A goroutine runs *)
(* one call at a time; calls nested in a transaction of the same goroutine *)
(* are excluded by the documentation of Begin and are not modelled.  What  *)
(* transactions do to the file, failures of mmap included, is in DB.       *)
(***************************************************************************)
EXTENDS Integers, FiniteSets

CONSTANTS
  Goroutine,
  Calls,     \* the methods each goroutine calls
  MaxRemap,  \* bound on the remappings of one write transaction
  MaxFree,   \* bound on the free and pending pages
  HardLimit, \* DB.HardLimitPendingPages
  None       \* no goroutine

ASSUME LocksAssumption ==
  /\ None \notin Goroutine
  /\ Calls \in [Goroutine -> SUBSET {"View", "Update", "Close", "WriteTo", "Size"}]
  /\ MaxRemap \in Nat
  /\ MaxFree \in Nat
  /\ HardLimit \in Nat

(***************************************************************************)
(* go[g].n is a count read under one lock and published under another, and *)
(* in a write transaction the number of times it has remapped the file.    *)
(* lock.mmapR holds the readers of the RWMutex mmaplock, lock.mmapW the    *)
(* goroutine that holds it, or waits for it, for writing.  Without         *)
(* db.opened the freelist, the mapping and both meta pointers are nil.     *)
(* db.unmapped holds the open read transactions whose mapping is gone.     *)
(***************************************************************************)
VARIABLES go, lock, db

vars == <<go, lock, db>>

Idle == [pc |-> "idle", call |-> None, n |-> 0]

Init ==
  /\ go = [g \in Goroutine |-> Idle]
  /\ lock = [rw |-> None, meta |-> None, stat |-> None, mmapR |-> {},
             mmapW |-> None]
  /\ db = [opened |-> TRUE, txs |-> {}, rwtx |-> None, freeN |-> 0,
           OpenTxN |-> 0, FreePageN |-> 0, unmapped |-> {}]

Step(g, from, to) ==
  /\ go[g].pc = from
  /\ go' = [go EXCEPT ![g].pc = to]

(* The last step of a call.                                                 *)
Return(g, from) ==
  /\ go[g].pc = from
  /\ go' = [go EXCEPT ![g] = Idle]

(* A step that also reads a count for later.                                *)
StepWith(g, from, to, count) ==
  /\ go[g].pc = from
  /\ go' = [go EXCEPT ![g].pc = to, ![g].n = count]

(***************************************************************************)
(* A call starts.  WriteTo opens the file by DB.path first, which fails    *)
(* after Close has cleared it; View and Size start with metalock, the      *)
(* others with rwlock.                                                     *)
(***************************************************************************)
Call(g) ==
  /\ go[g].pc = "idle"
  /\ \E c \in Calls[g] :
       /\ c = "WriteTo" => db.opened
       /\ go' = [go EXCEPT ![g] =
                   [pc |-> IF c \in {"View", "Size"} THEN "metalock" ELSE "rwlock",
                    call |-> c, n |-> 0]]
  /\ UNCHANGED <<lock, db>>

LockMeta(g) ==
  /\ Step(g, "metalock", IF go[g].call = "Size" THEN "rlocksize" ELSE "rlock")
  /\ lock.meta = None
  /\ lock' = [lock EXCEPT !.meta = g]
  /\ UNCHANGED db

(* A bug: readers pass a writer that waits.                                 *)
RLockMmapBarging(g) ==
  /\ \/ Step(g, "rlock", "inittx")
     \/ Step(g, "rlocksize", "size")
  /\ lock' = [lock EXCEPT !.mmapR = @ \union {g}]
  /\ UNCHANGED db

(* A reader waits for the writer that holds the RWMutex and for one that is *)
(* waiting for it.                                                          *)
RLockMmap(g) ==
  /\ \/ Step(g, "rlock", "inittx")
     \/ Step(g, "rlocksize", "size")
  /\ lock.mmapW = None
  /\ lock' = [lock EXCEPT !.mmapR = @ \union {g}]
  /\ UNCHANGED db

(* The lock of g on rw is released, if it has it.                           *)
UnlockRW(g, l) == IF l.rw = g THEN [l EXCEPT !.rw = None] ELSE l

(* beginTx returns ErrDatabaseNotOpen; WriteTo then releases rwlock.        *)
InitTxFails(g) ==
  /\ Return(g, "inittx")
  /\ ~db.opened
  /\ lock' = UnlockRW(g, [lock EXCEPT !.mmapR = @ \ {g}, !.meta = None])
  /\ UNCHANGED db

InitTx(g) ==
  /\ StepWith(g, "inittx", "openstat", Cardinality(db.txs \union {g}))
  /\ db.opened
  /\ db' = [db EXCEPT !.txs = @ \union {g}]
  /\ lock' = [lock EXCEPT !.meta = None]

(* The statistics of beginTx; WriteTo releases rwlock next.                 *)
OpenStat(g) ==
  /\ Step(g, "openstat", "reading")
  /\ lock.stat = None
  /\ db' = [db EXCEPT !.OpenTxN = go[g].n]
  /\ lock' = UnlockRW(g, lock)

(* A bug: removeTx asks for metalock with the mapping still locked.         *)
RUnlockMmapMissing(g) ==
  /\ Step(g, "reading", "remove")
  /\ UNCHANGED <<lock, db>>

(* The read transaction ends: removeTx, up to its wait for metalock.        *)
RUnlockMmap(g) ==
  /\ Step(g, "reading", "remove")
  /\ lock' = [lock EXCEPT !.mmapR = @ \ {g}]
  /\ db' = [db EXCEPT !.unmapped = @ \ {g}]

RemoveTx(g) ==
  /\ StepWith(g, "remove", "closestat", Cardinality(db.txs \ {g}))
  /\ lock.meta = None
  /\ db' = [db EXCEPT !.txs = @ \ {g}]
  /\ UNCHANGED lock

CloseStat(g) ==
  /\ Return(g, "closestat")
  /\ lock.stat = None
  /\ db' = [db EXCEPT !.OpenTxN = go[g].n]
  /\ UNCHANGED lock

(* Size reads the meta page; its deferred unlocks also run in a panic.      *)
Size(g) ==
  /\ \/ db.opened /\ Return(g, "size")
     \/ ~db.opened /\ Step(g, "size", "panic")
  /\ lock' = [lock EXCEPT !.mmapR = @ \ {g}, !.meta = None]
  /\ UNCHANGED db

LockRW(g) ==
  /\ Step(g, "rwlock", [Update |-> "limit", Close |-> "closemeta",
                        WriteTo |-> "copymeta"][go[g].call])
  /\ lock.rw = None
  /\ lock' = [lock EXCEPT !.rw = g]
  /\ UNCHANGED db

(* A bug: WriteTo lets writers go on before it has its read transaction.    *)
CopyMetaUnlocked(g) ==
  /\ Step(g, "copymeta", IF db.opened THEN "metalock" ELSE "panic")
  /\ lock' = [lock EXCEPT !.rw = None]
  /\ UNCHANGED db

(* WriteTo copies the meta and freelist pages, reads DB.meta(), which       *)
(* panics, rwlock held, once Close has unmapped the file, and begins a read *)
(* transaction.                                                             *)
CopyMeta(g) ==
  /\ Step(g, "copymeta", IF db.opened THEN "metalock" ELSE "panic")
  /\ UNCHANGED <<lock, db>>

(* beginRWTx compares the published statistics with the limit.              *)
LimitReached(g) ==
  /\ Return(g, "limit")
  /\ lock.stat = None
  /\ db.FreePageN > HardLimit
  /\ lock' = [lock EXCEPT !.rw = None]
  /\ UNCHANGED db

BelowLimit(g) ==
  /\ Step(g, "limit", "beginrw")
  /\ lock.stat = None
  /\ db.FreePageN <= HardLimit
  /\ UNCHANGED <<lock, db>>

(* The rest of beginRWTx, under metalock.                                   *)
BeginRWFails(g) ==
  /\ Return(g, "beginrw")
  /\ lock.meta = None
  /\ ~db.opened
  /\ lock' = [lock EXCEPT !.rw = None]
  /\ UNCHANGED db

BeginRW(g) ==
  /\ Step(g, "beginrw", "writing")
  /\ lock.meta = None
  /\ db.opened
  /\ db' = [db EXCEPT !.rwtx = g]
  /\ UNCHANGED lock

(* mmaplock.Lock is called: by DB.mmap when allocate needs a larger         *)
(* mapping, and by Close.                                                   *)
LockMmap(g) ==
  /\ \/ go[g].n < MaxRemap /\ StepWith(g, "writing", "remap", go[g].n + 1)
     \/ Step(g, "closemmap", "close")
  /\ lock.mmapW = None
  /\ lock' = [lock EXCEPT !.mmapW = g]
  /\ UNCHANGED db

(* The readers that lose the file when it is unmapped.                      *)
Unmap == {g \in db.txs : go[g].pc \in {"openstat", "reading"}}

(* A bug: DB.mmap takes mmaplock as a reader would.                         *)
RemapShared(g) ==
  /\ Step(g, "remap", "writing")
  /\ lock' = [lock EXCEPT !.mmapW = None]
  /\ db' = [db EXCEPT !.unmapped = @ \union Unmap]

(* DB.mmap, once it has the lock.                                           *)
Remap(g) ==
  /\ Step(g, "remap", "writing")
  /\ lock.mmapR = {}
  /\ lock' = [lock EXCEPT !.mmapW = None]
  /\ db' = [db EXCEPT !.unmapped = @ \union Unmap]

(* Tx.close of a write transaction: the freelist is counted, then rwlock    *)
(* released.                                                                *)
CloseTx(g) ==
  \E free \in 0..MaxFree :
    /\ StepWith(g, "writing", "writestat", free)
    /\ db' = [db EXCEPT !.freeN = free, !.rwtx = None]
    /\ lock' = [lock EXCEPT !.rw = None]

(* Tx.close merges the statistics and reads the length of freelist.pending, *)
(* which panics, statlock held, if Close came in between.                   *)
WriteStat(g) ==
  /\ lock.stat = None
  /\ \/ /\ db.opened
        /\ Return(g, "writestat")
        /\ db' = [db EXCEPT !.FreePageN = go[g].n]
        /\ UNCHANGED lock
     \/ /\ ~db.opened
        /\ Step(g, "writestat", "panic")
        /\ lock' = [lock EXCEPT !.stat = g]
        /\ UNCHANGED db

CloseLockMeta(g) ==
  /\ Step(g, "closemeta", "closemmap")
  /\ lock.meta = None
  /\ lock' = [lock EXCEPT !.meta = g]
  /\ UNCHANGED db

(* close, and the deferred unlocks of Close.                                *)
Close(g) ==
  /\ Return(g, "close")
  /\ lock.mmapR = {}
  /\ lock' = [lock EXCEPT !.mmapW = None, !.meta = None, !.rw = None]
  /\ db' = [db EXCEPT !.opened = FALSE, !.unmapped = @ \union Unmap]

(* The rest of a call.                                                      *)
Continue(g) ==
  \/ LockMeta(g) \/ RLockMmap(g) \/ InitTxFails(g) \/ InitTx(g) \/ OpenStat(g)
  \/ RUnlockMmap(g) \/ RemoveTx(g) \/ CloseStat(g) \/ Size(g) \/ LockRW(g)
  \/ CopyMeta(g) \/ LimitReached(g) \/ BelowLimit(g) \/ BeginRWFails(g)
  \/ BeginRW(g) \/ Remap(g) \/ CloseTx(g) \/ WriteStat(g) \/ CloseLockMeta(g)
  \/ Close(g) \/ LockMmap(g)

Next == \E g \in Goroutine : Call(g) \/ Continue(g)

Spec == Init /\ [][Next]_vars

(***************************************************************************)
(* Goroutines go on, every lock is handed over fairly (the starvation mode *)
(* of sync.Mutex, the reader batches of sync.RWMutex), and transactions    *)
(* end.                                                                    *)
(***************************************************************************)
FairSpec == Spec /\ \A g \in Goroutine : SF_vars(Continue(g))

(***************************************************************************)
(* Properties.                                                             *)
(***************************************************************************)

(* No read transaction outlives the mapping it reads: neither the remapping *)
(* of a writer (DB.mmap) nor Close unmaps the file before removeTx has      *)
(* released mmaplock.                                                       *)
ReadersMapped == db.unmapped = {}

(* The goroutines g waits for.                                              *)
WaitsFor(g) ==
  CASE go[g].pc \in {"metalock", "remove", "beginrw", "closemeta"} -> {lock.meta}
    [] go[g].pc = "rwlock" -> {lock.rw}
    [] go[g].pc \in {"rlock", "rlocksize", "closemmap"} -> {lock.mmapW}
    [] go[g].pc \in {"remap", "close"} -> lock.mmapR
    [] OTHER -> {}

(* No goroutines wait for each other in a circle, over the four lock orders *)
(* of beginTx, removeTx, Close and a remapping writer: this rests on        *)
(* removeTx releasing mmaplock before it asks for metalock.                 *)
NoWaitCycle ==
  \A S \in (SUBSET Goroutine) \ {{}} : \E g \in S : WaitsFor(g) \intersect S = {}

(* Between WriteTo's copy of the meta pages and the start of its read       *)
(* transaction no write transaction is open, so that the pages of the       *)
(* copied meta cannot be freed in between.                                  *)
BackupPinned ==
  (\E g \in Goroutine : /\ go[g].call = "WriteTo"
                        /\ go[g].pc \in {"metalock", "rlock", "inittx", "openstat"})
     => db.rwtx = None

(* Every call returns: a remapping writer and Close get the mapping in      *)
(* spite of new readers, readers get it back, and nobody keeps a lock on an *)
(* early return.  The exception is a call that dies of what Close has taken *)
(* away, which may keep its lock: Size and WriteTo of a nil meta, and the   *)
(* statistics of a commit of a nil freelist.                                *)
EveryCallReturns ==
  \A g \in Goroutine :
    (go[g].pc # "idle") ~> (go[g].pc = "idle" \/ \E h \in Goroutine : go[h].pc = "panic")
=============================================================================
