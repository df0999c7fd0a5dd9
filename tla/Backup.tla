------------------------------- MODULE Backup -------------------------------
(***************************************************************************)
(* DB.WriteTo and DB.CopyFile (db.go): a copy of the file is made while    *)
(* write transactions go on.  The meta pages and the freelist regions are  *)
(* copied under rwlock; the data pages are copied afterwards, one by one,  *)
(* with only a read transaction to keep them.                              *)
(*                                                                         *)
(* The pages come from the file, not from the mapping, so the copy sees    *)
(* whatever the write transaction of module DB has put there by then.      *)
(***************************************************************************)
EXTENDS DB

CONSTANTS
  Copier,      \* the member of Reader that makes the backup
  WriterFails  \* where the io.Writer may fail: "meta", "data"

ASSUME BackupAssumption ==
  /\ Copier \in Reader
  /\ WriterFails \subseteq {"meta", "data"}

VARIABLES
  at,      \* where WriteTo is: "start", "metas", "begin", "pages" or "end"
  next,    \* the page it copies next
  rwlock,  \* WriteTo holds DB.rwlock
  copy,    \* what has been written so far
  size,    \* the high water mark that was read with the meta pages
  failed,  \* a write failed
  result   \* what WriteTo returned: "none", "ok" or "error"

bvars == <<at, next, rwlock, copy, size, failed, result>>

NoCopy == [page  |-> [p \in Pgid |-> 0],
           meta  |-> [i \in 0..1 |-> NoMeta],
           flist |-> [i \in 0..1 |-> NoRegion]]

BackupInit ==
  /\ Init
  /\ at = "start" /\ next = Root
  /\ rwlock = FALSE
  /\ copy = NoCopy
  /\ size = 0
  /\ failed = FALSE
  /\ result = "none"

-----------------------------------------------------------------------------
\* db.rwlock.Lock(): no write transaction is open.  A call on a database that
\* is closed, or has lost its mapping, is left to module Locks.
Lock ==
  /\ opened /\ mapped
  /\ at = "start"
  /\ pc = "idle"
  /\ rwlock' = TRUE
  /\ at' = "metas"
  /\ UNCHANGED <<vars, next, copy, size, failed, result>>

\* Mutant: other writes go on as soon as the meta pages are copied.
CopyMetasAndUnlock ==
  /\ at = "metas"
  /\ copy' = [copy EXCEPT !.meta = meta, !.flist = flist]
  /\ UNCHANGED failed
  /\ size' = Current.pgid
  /\ rwlock' = FALSE
  /\ at' = "begin"
  /\ UNCHANGED <<vars, next, result>>

\* The first io.CopyN, and the size of the rest.  When the writer fails what
\* it has is no database.
CopyMetas ==
  /\ at = "metas"
  /\ \/ /\ copy' = [copy EXCEPT !.meta = meta, !.flist = flist]
        /\ UNCHANGED failed
     \/ /\ "meta" \in WriterFails
        /\ failed' = TRUE
        /\ UNCHANGED copy
  /\ size' = Current.pgid
  /\ at' = "begin"
  /\ UNCHANGED <<vars, next, rwlock, result>>

\* db.Begin(false), whose error, nil here, replaces that of the copy; Unlock.
BeginCopy ==
  /\ at = "begin"
  /\ BeginRead(Copier)
  /\ rwlock' = FALSE
  /\ at' = "pages"
  /\ UNCHANGED <<next, copy, size, failed, result>>

\* The second io.CopyN moves on by one page.
CopyPage ==
  /\ at = "pages"
  /\ next < size
  /\ copy' = [copy EXCEPT !.page[next] = page[next]]
  /\ next' = next + 1
  /\ UNCHANGED <<vars, at, rwlock, size, failed, result>>

\* WriteTo returns, with its deferred Rollback; CopyFile closes the new file
\* and passes the result on.
Return(r) ==
  /\ EndRead(Copier)
  /\ result' = r
  /\ at' = "end"
  /\ UNCHANGED <<next, rwlock, copy, size>>

CopyFails ==
  /\ "data" \in WriterFails
  /\ at = "pages"
  /\ next < size
  /\ failed' = TRUE
  /\ Return("error")

CopyEnds ==
  /\ at = "pages"
  /\ next = size
  /\ UNCHANGED failed
  /\ Return("ok")

WriteTo == Lock \/ CopyMetas \/ BeginCopy \/ CopyPage \/ CopyFails \/ CopyEnds

\* The other transactions.  Those that write wait for rwlock, as does Close.
Others ==
  /\ \/ \E r \in Reader \ {Copier} : BeginRead(r) \/ EndRead(r)
     \/ ~rwlock /\ (Writer \/ Close)
     \/ Open
  /\ UNCHANGED bvars

BackupNext == WriteTo \/ Others

BackupSpec == BackupInit /\ [][BackupNext]_<<vars, bvars>>

-----------------------------------------------------------------------------
(* Properties *)

\* The copy that WriteTo reports as written, and whose writes succeeded, can be
\* opened and is a whole database: a valid meta page, its freelist, every page
\* of the tree it points to as it was, no page of the tree free and no page
\* lost.  Whatever was committed or rolled back between the first page and the
\* last.
CopyIsDatabase ==
  LET m   == CurrentOf(copy.meta)
      ids == copy.flist[m.flid % 2].ids
  IN  result = "ok" /\ ~failed =>
        /\ m.valid
        /\ copy.flist[m.flid % 2].ok
        /\ Intact(m.root, copy.page)
        /\ DOMAIN m.root \cap ids = {}
        /\ {p \in Pgid : p < m.pgid} \subseteq DOMAIN m.root \cup ids
=============================================================================
