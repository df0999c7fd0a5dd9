---------------------------- MODULE LocksProofs ----------------------------
(***************************************************************************)
(* For any number of goroutines: no circle of waiting, no reader without   *)
(* its mapping, and no write transaction between the two halves of a       *)
(* backup's beginning.                                                     *)
(***************************************************************************)
EXTENDS Locks, FiniteSetTheorems, TLAPS

\* Where a goroutine is when it has metalock, waits for or has mmaplock as a
\* writer, has it as a reader, and has rwlock.
HasMeta == {"rlock", "rlocksize", "inittx", "size", "closemmap", "close"}
HasMmapW == {"remap", "close"}
HasMmapR == {"inittx", "openstat", "reading", "size"}
Writing == {"writing", "remap"}
HasRW(g) ==
  \/ go[g].pc \in Writing \union {"limit", "beginrw", "closemeta", "closemmap", "close"}
  \/ /\ go[g].call = "WriteTo"
     /\ go[g].pc \in {"copymeta", "metalock", "rlock", "inittx", "openstat"}

PCs == HasMeta \union HasMmapW \union HasMmapR \union Writing \union
         {"idle", "metalock", "rwlock", "limit", "beginrw", "closemeta", "copymeta",
          "remove", "closestat", "writestat", "panic"}

GoType ==
  go \in [Goroutine -> [pc : PCs, call : {"View", "Update", "Close", "WriteTo", "Size", None},
                        n : Nat]]

LockType ==
  lock \in [rw : Goroutine \union {None}, meta : Goroutine \union {None},
            stat : Goroutine \union {None}, mmapR : SUBSET Goroutine,
            mmapW : Goroutine \union {None}]

DBType ==
  /\ db \in [opened : BOOLEAN, txs : SUBSET Goroutine, rwtx : Goroutine \union {None},
             freeN : Nat, OpenTxN : Nat, FreePageN : Nat, unmapped : SUBSET Goroutine]
  /\ IsFiniteSet(db.txs)

TypeInv == GoType /\ LockType /\ DBType

\* A goroutine has the locks its place in the code says, and only those; a
\* goroutine that has panicked may still have rwlock.
HoldersInv ==
  \A g \in Goroutine :
    /\ lock.meta = g <=> go[g].pc \in HasMeta
    /\ lock.mmapW = g <=> go[g].pc \in HasMmapW
    /\ g \in lock.mmapR <=> go[g].pc \in HasMmapR
    /\ HasRW(g) => lock.rw = g
    /\ lock.rw = g => HasRW(g) \/ go[g].pc = "panic"
    /\ db.rwtx = g <=> go[g].pc \in Writing
    /\ go[g].pc = "rwlock" => go[g].call \in {"Update", "Close", "WriteTo"}
    /\ go[g].pc \in Writing \union {"limit", "beginrw"} => go[g].call = "Update"

IInv == TypeInv /\ HoldersInv /\ ReadersMapped

\* At first nobody has a lock.
LEMMA InitInv == Init => IInv
<1> SUFFICES ASSUME Init PROVE IInv
  OBVIOUS
<1>1. TypeInv
  BY FS_EmptySet DEF Init, Idle, TypeInv, GoType, LockType, DBType, PCs
<1>2. HoldersInv
  BY LocksAssumption DEF Init, Idle, HoldersInv, HasRW, HasMeta, HasMmapW, HasMmapR, Writing
<1> QED
  BY <1>1, <1>2 DEF Init, IInv, ReadersMapped

\* A step that also keeps a count leaves every goroutine at a place of the code.
LEMMA StepWithType ==
  ASSUME GoType, NEW g \in Goroutine, NEW from, NEW to \in PCs, NEW count \in Nat,
         StepWith(g, from, to, count)
  PROVE  GoType'
<1> DEFINE new == [[go[g] EXCEPT !.pc = to] EXCEPT !.n = count]
<1>1. new \in [pc : PCs, call : {"View", "Update", "Close", "WriteTo", "Size", None},
              n : Nat]
  BY Zenon DEF GoType
<1>2. go' = [go EXCEPT ![g] = new]
  BY Zenon DEF StepWith, GoType
<1> HIDE DEF new
<1> QED
  BY <1>1, <1>2 DEF GoType

\* What the steps need of the constants.
LEMMA Constants == None \notin Goroutine /\ MaxRemap \in Nat /\ MaxFree \in Nat
BY LocksAssumption

\* Every step of every call preserves the invariant.
LEMMA StepInv == ASSUME IInv, NEW g \in Goroutine, Call(g) \/ Continue(g) PROVE IInv'
<1> USE Constants DEF IInv, HasMeta, HasMmapW, HasMmapR, Writing
<1>1. CASE Call(g)
  <2>0. PICK c \in {"View", "Update", "Close", "WriteTo", "Size"} :
          go' = [go EXCEPT ![g] =
                   [pc |-> IF c \in {"View", "Size"} THEN "metalock" ELSE "rwlock",
                    call |-> c, n |-> 0]]
    <3>1. Calls[g] \in SUBSET {"View", "Update", "Close", "WriteTo", "Size"}
      BY LocksAssumption
    <3> QED
      BY <1>1, <3>1, Zenon DEF Call
  <2>a. go[g].pc = "idle" /\ UNCHANGED <<lock, db>>
    BY <1>1 DEF Call
  <2>1. TypeInv'
    BY <2>0, <2>a DEF TypeInv, GoType, LockType, DBType, PCs
  <2>2. HoldersInv'
    BY <2>0, <2>a DEF TypeInv, GoType, LockType, DBType, HoldersInv, HasRW
  <2>3. ReadersMapped'
    BY <2>a DEF ReadersMapped
  <2> QED
    BY <2>1, <2>2, <2>3
<1>2. CASE LockMeta(g)
  <2>1. TypeInv'
    BY <1>2 DEF LockMeta, Step, TypeInv, GoType, LockType, DBType, PCs
  <2>2. HoldersInv'
    BY <1>2 DEF LockMeta, Step, TypeInv, GoType, LockType, DBType, HoldersInv, HasRW
  <2>3. ReadersMapped'
    BY <1>2 DEF LockMeta, Step, TypeInv, GoType, LockType, DBType, HoldersInv, ReadersMapped
  <2> QED
    BY <2>1, <2>2, <2>3
<1>3. CASE RLockMmap(g)
  <2>1. TypeInv'
    BY <1>3 DEF RLockMmap, Step, TypeInv, GoType, LockType, DBType, PCs
  <2>2. HoldersInv'
    BY <1>3 DEF RLockMmap, Step, TypeInv, GoType, LockType, DBType, HoldersInv, HasRW
  <2>3. ReadersMapped'
    BY <1>3 DEF RLockMmap, Step, TypeInv, GoType, LockType, DBType, HoldersInv, ReadersMapped
  <2> QED
    BY <2>1, <2>2, <2>3
<1>4. CASE InitTxFails(g)
  <2>1. TypeInv'
    BY <1>4, Zenon DEF InitTxFails, Return, Idle, UnlockRW, TypeInv, GoType, LockType, DBType, PCs
  <2>2. HoldersInv'
    BY <1>4 DEF InitTxFails, Return, Idle, UnlockRW, TypeInv, GoType, LockType, DBType, HoldersInv, HasRW
  <2>3. ReadersMapped'
    BY <1>4 DEF InitTxFails, Return, Idle, UnlockRW, TypeInv, GoType, LockType, DBType, HoldersInv, ReadersMapped
  <2> QED
    BY <2>1, <2>2, <2>3
<1>5. CASE InitTx(g)
  <2>1. TypeInv'
    <3>1. IsFiniteSet(db.txs \union {g}) /\ Cardinality(db.txs \union {g}) \in Nat
      BY FS_AddElement, FS_CardinalityType DEF TypeInv, DBType
    <3>5. "openstat" \in PCs
      BY DEF PCs
    <3>2. GoType'
      BY <1>5, <3>1, <3>5, StepWithType DEF InitTx, TypeInv
    <3>3. LockType'
      BY <1>5 DEF InitTx, TypeInv, LockType
    <3>4. DBType'
      BY <1>5, <3>1 DEF InitTx, TypeInv, DBType
    <3> QED
      BY <3>2, <3>3, <3>4 DEF TypeInv
  <2>2. HoldersInv'
    BY <1>5 DEF InitTx, StepWith, TypeInv, GoType, LockType, DBType, HoldersInv, HasRW
  <2>3. ReadersMapped'
    BY <1>5 DEF InitTx, StepWith, TypeInv, GoType, LockType, DBType, HoldersInv, ReadersMapped
  <2> QED
    BY <2>1, <2>2, <2>3
<1>6. CASE OpenStat(g)
  <2>1. TypeInv'
    <3>1. GoType'
      BY <1>6 DEF OpenStat, Step, TypeInv, GoType, PCs
    <3>2. LockType'
      BY <1>6 DEF OpenStat, UnlockRW, TypeInv, LockType
    <3>3. DBType'
      BY <1>6 DEF OpenStat, TypeInv, DBType, GoType
    <3> QED
      BY <3>1, <3>2, <3>3 DEF TypeInv
  <2>2. HoldersInv'
    <3>1. /\ go' = [go EXCEPT ![g].pc = "reading"] /\ go[g].pc = "openstat"
          /\ lock' = UnlockRW(g, lock) /\ db'.rwtx = db.rwtx
      BY <1>6 DEF OpenStat, Step, TypeInv, DBType
    <3>2. /\ lock'.meta = lock.meta /\ lock'.mmapW = lock.mmapW /\ lock'.mmapR = lock.mmapR
          /\ lock'.rw = IF lock.rw = g THEN None ELSE lock.rw
      BY <3>1 DEF UnlockRW, TypeInv, LockType
    <3> SUFFICES ASSUME NEW h \in Goroutine PROVE HoldersInv!(h)'
      BY DEF HoldersInv
    <3>3. CASE h = g
      BY <3>1, <3>2, <3>3 DEF TypeInv, GoType, HoldersInv, HasRW
    <3>4. CASE h # g
      BY <3>1, <3>2, <3>4 DEF TypeInv, GoType, HoldersInv, HasRW
    <3> QED
      BY <3>3, <3>4
  <2>3. ReadersMapped'
    BY <1>6 DEF OpenStat, Step, UnlockRW, TypeInv, GoType, LockType, DBType, HoldersInv, ReadersMapped
  <2> QED
    BY <2>1, <2>2, <2>3
<1>7. CASE RUnlockMmap(g)
  <2>1. TypeInv'
    <3>2. GoType'
      BY <1>7 DEF RUnlockMmap, Step, TypeInv, GoType, PCs
    <3>3. LockType'
      BY <1>7 DEF RUnlockMmap, TypeInv, LockType
    <3>4. DBType'
      BY <1>7 DEF RUnlockMmap, TypeInv, DBType
    <3> QED
      BY <3>2, <3>3, <3>4 DEF TypeInv
  <2>2. HoldersInv'
    BY <1>7 DEF RUnlockMmap, Step, TypeInv, GoType, LockType, DBType, HoldersInv, HasRW
  <2>3. ReadersMapped'
    BY <1>7 DEF RUnlockMmap, Step, TypeInv, GoType, LockType, DBType, HoldersInv, ReadersMapped
  <2> QED
    BY <2>1, <2>2, <2>3
<1>8. CASE RemoveTx(g)
  <2>1. TypeInv'
    <3>1. IsFiniteSet(db.txs \ {g}) /\ Cardinality(db.txs \ {g}) \in Nat
      BY FS_RemoveElement, FS_CardinalityType DEF TypeInv, DBType
    <3>5. "closestat" \in PCs
      BY DEF PCs
    <3>2. GoType'
      BY <1>8, <3>1, <3>5, StepWithType DEF RemoveTx, TypeInv
    <3>3. LockType'
      BY <1>8 DEF RemoveTx, TypeInv, LockType
    <3>4. DBType'
      BY <1>8, <3>1 DEF RemoveTx, TypeInv, DBType
    <3> QED
      BY <3>2, <3>3, <3>4 DEF TypeInv
  <2>2. HoldersInv'
    BY <1>8 DEF RemoveTx, StepWith, TypeInv, GoType, LockType, DBType, HoldersInv, HasRW
  <2>3. ReadersMapped'
    BY <1>8 DEF RemoveTx, StepWith, TypeInv, GoType, LockType, DBType, HoldersInv, ReadersMapped
  <2> QED
    BY <2>1, <2>2, <2>3
<1>9. CASE CloseStat(g)
  <2>1. TypeInv'
    BY <1>9 DEF CloseStat, Return, Idle, TypeInv, GoType, LockType, DBType, PCs
  <2>2. HoldersInv'
    BY <1>9 DEF CloseStat, Return, Idle, TypeInv, GoType, LockType, DBType, HoldersInv, HasRW
  <2>3. ReadersMapped'
    BY <1>9 DEF CloseStat, Return, Idle, TypeInv, GoType, LockType, DBType, HoldersInv, ReadersMapped
  <2> QED
    BY <2>1, <2>2, <2>3
<1>10. CASE Size(g)
  <2>1. TypeInv'
    <3>2. GoType'
      BY <1>10 DEF Size, Step, Return, Idle, TypeInv, GoType, PCs
    <3>3. LockType'
      BY <1>10, Zenon DEF Size, TypeInv, LockType
    <3>4. DBType'
      BY <1>10 DEF Size, TypeInv, DBType
    <3> QED
      BY <3>2, <3>3, <3>4 DEF TypeInv
  <2>2. HoldersInv'
    BY <1>10 DEF Size, Step, Return, Idle, TypeInv, GoType, LockType, DBType, HoldersInv, HasRW
  <2>3. ReadersMapped'
    BY <1>10 DEF Size, Step, Return, Idle, TypeInv, GoType, LockType, DBType, HoldersInv, ReadersMapped
  <2> QED
    BY <2>1, <2>2, <2>3
<1>11. CASE LockRW(g)
  <2>1. TypeInv'
    BY <1>11 DEF LockRW, Step, TypeInv, GoType, LockType, DBType, PCs, HoldersInv
  <2>2. HoldersInv'
    BY <1>11 DEF LockRW, Step, TypeInv, GoType, LockType, DBType, HoldersInv, HasRW
  <2>3. ReadersMapped'
    BY <1>11 DEF LockRW, Step, TypeInv, GoType, LockType, DBType, HoldersInv, ReadersMapped
  <2> QED
    BY <2>1, <2>2, <2>3
<1>12. CASE CopyMeta(g)
  <2>1. TypeInv'
    BY <1>12 DEF CopyMeta, Step, TypeInv, GoType, LockType, DBType, PCs
  <2>2. HoldersInv'
    BY <1>12 DEF CopyMeta, Step, TypeInv, GoType, LockType, DBType, HoldersInv, HasRW
  <2>3. ReadersMapped'
    BY <1>12 DEF CopyMeta, Step, TypeInv, GoType, LockType, DBType, HoldersInv, ReadersMapped
  <2> QED
    BY <2>1, <2>2, <2>3
<1>13. CASE LimitReached(g)
  <2>1. TypeInv'
    BY <1>13 DEF LimitReached, Return, Idle, TypeInv, GoType, LockType, DBType, PCs
  <2>2. HoldersInv'
    BY <1>13 DEF LimitReached, Return, Idle, TypeInv, GoType, LockType, DBType, HoldersInv, HasRW
  <2>3. ReadersMapped'
    BY <1>13 DEF LimitReached, Return, Idle, TypeInv, GoType, LockType, DBType, HoldersInv, ReadersMapped
  <2> QED
    BY <2>1, <2>2, <2>3
<1>14. CASE BelowLimit(g)
  <2>1. TypeInv'
    BY <1>14 DEF BelowLimit, Step, TypeInv, GoType, LockType, DBType, PCs
  <2>2. HoldersInv'
    BY <1>14 DEF BelowLimit, Step, TypeInv, GoType, LockType, DBType, HoldersInv, HasRW
  <2>3. ReadersMapped'
    BY <1>14 DEF BelowLimit, Step, TypeInv, GoType, LockType, DBType, HoldersInv, ReadersMapped
  <2> QED
    BY <2>1, <2>2, <2>3
<1>15. CASE BeginRWFails(g)
  <2>1. TypeInv'
    BY <1>15 DEF BeginRWFails, Return, Idle, TypeInv, GoType, LockType, DBType, PCs
  <2>2. HoldersInv'
    BY <1>15 DEF BeginRWFails, Return, Idle, TypeInv, GoType, LockType, DBType, HoldersInv, HasRW
  <2>3. ReadersMapped'
    BY <1>15 DEF BeginRWFails, Return, Idle, TypeInv, GoType, LockType, DBType, HoldersInv, ReadersMapped
  <2> QED
    BY <2>1, <2>2, <2>3
<1>16. CASE BeginRW(g)
  <2>1. TypeInv'
    BY <1>16 DEF BeginRW, Step, TypeInv, GoType, LockType, DBType, PCs
  <2>2. HoldersInv'
    <3>1. \A h \in Goroutine : go[h].pc \notin Writing
      BY <1>16 DEF BeginRW, Step, HoldersInv, HasRW
    <3>2. /\ go' = [go EXCEPT ![g].pc = "writing"] /\ lock' = lock /\ db'.rwtx = g
          /\ go[g].pc = "beginrw"
      BY <1>16 DEF BeginRW, Step, TypeInv, DBType
    <3> SUFFICES ASSUME NEW h \in Goroutine PROVE HoldersInv!(h)'
      BY DEF HoldersInv
    <3>3. CASE h = g
      BY <3>1, <3>2, <3>3 DEF TypeInv, GoType, HoldersInv, HasRW
    <3>4. CASE h # g
      BY <3>1, <3>2, <3>4 DEF TypeInv, GoType, HoldersInv, HasRW
    <3> QED
      BY <3>3, <3>4
  <2>3. ReadersMapped'
    BY <1>16 DEF BeginRW, Step, TypeInv, GoType, LockType, DBType, HoldersInv, ReadersMapped
  <2> QED
    BY <2>1, <2>2, <2>3
<1>17. CASE LockMmap(g)
  <2>1. TypeInv'
    BY <1>17 DEF LockMmap, Step, StepWith, TypeInv, GoType, LockType, DBType, PCs
  <2>2. HoldersInv'
    BY <1>17 DEF LockMmap, Step, StepWith, TypeInv, GoType, LockType, DBType, HoldersInv, HasRW
  <2>3. ReadersMapped'
    BY <1>17 DEF LockMmap, Step, StepWith, TypeInv, GoType, LockType, DBType, HoldersInv, ReadersMapped
  <2> QED
    BY <2>1, <2>2, <2>3
<1>18. CASE Remap(g)
  <2>1. TypeInv'
    <3>1. GoType'
      BY <1>18 DEF Remap, Step, TypeInv, GoType, PCs
    <3>2. LockType'
      BY <1>18 DEF Remap, TypeInv, LockType
    <3>3. DBType'
      BY <1>18 DEF Remap, Unmap, TypeInv, DBType
    <3> QED
      BY <3>1, <3>2, <3>3 DEF TypeInv
  <2>2. HoldersInv'
    BY <1>18 DEF Remap, Step, Unmap, TypeInv, GoType, LockType, DBType, HoldersInv, HasRW
  <2>3. ReadersMapped'
    BY <1>18 DEF Remap, Step, Unmap, TypeInv, GoType, LockType, DBType, HoldersInv, ReadersMapped
  <2> QED
    BY <2>1, <2>2, <2>3
<1>19. CASE CloseTx(g)
  <2>1. TypeInv'
    <3>1. PICK free \in 0..MaxFree :
            /\ StepWith(g, "writing", "writestat", free)
            /\ db' = [db EXCEPT !.freeN = free, !.rwtx = None]
            /\ lock' = [lock EXCEPT !.rw = None]
      BY <1>19, Zenon DEF CloseTx
    <3>2. free \in Nat /\ "writestat" \in PCs
      BY DEF PCs
    <3>3. GoType'
      BY <3>1, <3>2, StepWithType DEF TypeInv
    <3>4. LockType'
      BY <3>1 DEF TypeInv, LockType
    <3>5. DBType'
      BY <3>1, <3>2, Zenon DEF TypeInv, DBType
    <3> QED
      BY <3>3, <3>4, <3>5 DEF TypeInv
  <2>2. HoldersInv'
    BY <1>19 DEF CloseTx, StepWith, TypeInv, GoType, LockType, DBType, HoldersInv, HasRW
  <2>3. ReadersMapped'
    BY <1>19 DEF CloseTx, StepWith, TypeInv, GoType, LockType, DBType, HoldersInv, ReadersMapped
  <2> QED
    BY <2>1, <2>2, <2>3
<1>20. CASE WriteStat(g)
  <2>1. TypeInv'
    BY <1>20 DEF WriteStat, Step, Return, Idle, TypeInv, GoType, LockType, DBType, PCs
  <2>2. HoldersInv'
    BY <1>20 DEF WriteStat, Step, Return, Idle, TypeInv, GoType, LockType, DBType, HoldersInv, HasRW
  <2>3. ReadersMapped'
    BY <1>20 DEF WriteStat, Step, Return, Idle, TypeInv, GoType, LockType, DBType, HoldersInv, ReadersMapped
  <2> QED
    BY <2>1, <2>2, <2>3
<1>21. CASE CloseLockMeta(g)
  <2>1. TypeInv'
    BY <1>21 DEF CloseLockMeta, Step, TypeInv, GoType, LockType, DBType, PCs
  <2>2. HoldersInv'
    BY <1>21 DEF CloseLockMeta, Step, TypeInv, GoType, LockType, DBType, HoldersInv, HasRW
  <2>3. ReadersMapped'
    BY <1>21 DEF CloseLockMeta, Step, TypeInv, GoType, LockType, DBType, HoldersInv, ReadersMapped
  <2> QED
    BY <2>1, <2>2, <2>3
<1>22. CASE Close(g)
  <2>1. TypeInv'
    BY <1>22, Zenon DEF Close, Return, Idle, Unmap, TypeInv, GoType, LockType, DBType, PCs
  <2>2. HoldersInv'
    BY <1>22 DEF Close, Return, Idle, Unmap, TypeInv, GoType, LockType, DBType, HoldersInv, HasRW
  <2>3. ReadersMapped'
    BY <1>22 DEF Close, Return, Idle, Unmap, TypeInv, GoType, LockType, DBType, HoldersInv, ReadersMapped
  <2> QED
    BY <2>1, <2>2, <2>3
<1> QED
  BY <1>1, <1>2, <1>3, <1>4, <1>5, <1>6, <1>7, <1>8, <1>9, <1>10, <1>11,
     <1>12, <1>13, <1>14, <1>15, <1>16, <1>17, <1>18, <1>19, <1>20, <1>21, <1>22 DEF Continue

\* The same, for steps and stuttering.
LEMMA NextInv == IInv /\ [Next]_vars => IInv'
<1> SUFFICES ASSUME IInv, [Next]_vars PROVE IInv'
  OBVIOUS
<1>1. ASSUME NEW g \in Goroutine, Call(g) \/ Continue(g) PROVE IInv'
  BY <1>1, StepInv
<1>2. CASE UNCHANGED vars
  BY <1>2 DEF vars, IInv, TypeInv, GoType, LockType, DBType, HoldersInv, HasRW,
                 ReadersMapped
<1> QED
  BY <1>1, <1>2 DEF Next

\* Whoever waits for a lock waits for a goroutine that is further down the order
\* rwlock, metalock, mmaplock for writing, mmaplock for reading.  A reader of
\* mmaplock waits for nobody while it has it, because removeTx releases it before
\* it asks for metalock.
LEMMA LockOrder == IInv => NoWaitCycle
<1> SUFFICES ASSUME IInv, NEW S \in (SUBSET Goroutine) \ {{}},
                    \A g \in S : WaitsFor(g) \intersect S # {}
             PROVE  FALSE
  BY Zenon DEF NoWaitCycle
<1> USE DEF IInv, HasMeta, HasMmapW, HasMmapR
<1>1. \A g \in S : go[g].pc \notin HasMmapR
  BY DEF WaitsFor
<1>2. \A g \in S : go[g].pc \notin HasMmapW
  <2>1. \A g \in S : go[g].pc \in HasMmapW => WaitsFor(g) = lock.mmapR
    BY DEF WaitsFor
  <2> QED
    BY <1>1, <2>1 DEF HoldersInv
<1>3. \A g \in S : go[g].pc \notin {"rlock", "rlocksize", "closemmap"}
  <2>1. \A g \in S : go[g].pc \in {"rlock", "rlocksize", "closemmap"} =>
          WaitsFor(g) = {lock.mmapW}
    BY DEF WaitsFor
  <2> QED
    BY <1>2, <2>1 DEF HoldersInv
<1>4. \A g \in S : go[g].pc \notin {"metalock", "remove", "beginrw", "closemeta"}
  <2>1. \A g \in S : go[g].pc \in {"metalock", "remove", "beginrw", "closemeta"} =>
          WaitsFor(g) = {lock.meta}
    BY DEF WaitsFor
  <2> QED
    BY <1>1, <1>2, <1>3, <2>1 DEF HoldersInv
<1>5. \A g \in S : go[g].pc # "rwlock" => WaitsFor(g) = {}
  BY <1>2, <1>3, <1>4 DEF WaitsFor
<1>6. \A g \in S : go[g].pc = "rwlock" /\ WaitsFor(g) = {lock.rw}
  BY <1>5 DEF WaitsFor
<1> QED
  BY <1>6 DEF HoldersInv, HasRW, Writing

\* WriteTo has rwlock until its read transaction has begun.
LEMMA BackupHasRW == IInv => BackupPinned
BY LocksAssumption DEF IInv, TypeInv, DBType, HoldersInv, HasRW, Writing, BackupPinned

\* No goroutines ever wait for each other in a circle.
THEOREM NoCircles == Spec => []NoWaitCycle
BY InitInv, NextInv, LockOrder, PTL DEF Spec

\* No read transaction ever loses the mapping it reads.
THEOREM MappingKept == Spec => []ReadersMapped
<1>1. IInv => ReadersMapped
  BY DEF IInv
<1> QED
  BY InitInv, NextInv, <1>1, PTL DEF Spec

\* No write transaction is open between WriteTo's copy of the meta pages and the
\* start of its read transaction.
THEOREM BackupsPinned == Spec => []BackupPinned
BY InitInv, NextInv, BackupHasRW, PTL DEF Spec
=============================================================================
