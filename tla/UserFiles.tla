------------------------------ MODULE UserFiles ------------------------------
(***************************************************************************)
(* The user file system: a file is a row of user_file_system in PostgreSQL *)
(* and an object in S3 under the key of its path, kept in step by single   *)
(* statements on the one and single calls on the other. Opening a file     *)
(* (HybridFileObject) holds the Redis lock of its path from the open to    *)
(* the close; a move or a delete reads the row first, takes the lock of    *)
(* the SOURCE path, and then works with the row it read.                   *)
(*                                                                         *)
(* A version of a file is the writer that saved it; the row of a file is   *)
(* named by the writer that inserted it. The lock is abstract (a holder or *)
(* None); DistributedLock models it. Moves and deletes of a FOLDER end at  *)
(* their listing query (LIKE ... ESCAPE "\", which PostgreSQL refuses)     *)
(* before they change anything and are not modelled.                       *)
(***************************************************************************)
EXTENDS Naturals, Sequences

CONSTANTS
    Paths,       \* paths of files
    Folders,     \* paths of folders
    Root,        \* the user's base path, no row
    Parent,      \* the folder a path or folder lies in
    Writers,     \* one open(path, "w") ... close each
    Readers,     \* one open(path, "r") ... close each
    Movers,      \* one move of a file each
    Deleters,    \* one delete of a file each
    MaxFailures, \* bound: how many awaited calls fail or worker processes die
    None

Clients == Writers \cup Readers \cup Movers \cup Deleters

ASSUME UserFilesAssumption ==
    /\ Parent \in [Paths \cup Folders -> Folders \cup {Root}]
    /\ MaxFailures \in Nat
    /\ None \notin Clients \cup Paths
    /\ Writers \cap (Readers \cup Movers \cup Deleters) = {}
    /\ Readers \cap (Movers \cup Deleters) = {}
    /\ Movers \cap Deleters = {}

VARIABLES
    rows,      \* PostgreSQL: the path of the row a writer inserted, or None
    dirs,      \* PostgreSQL: the folders that have a row
    object,    \* S3: the version stored under a path, or None
    lock,      \* Redis: the holder of HybridFileObject:<path>
    pc, out,   \* per client: where it is, how it ended
    path,      \* per client: the path it locks
    target,    \* per mover: where to
    rec,       \* per client: the row it read
    base,      \* per writer or reader: the version it downloaded
    todo,      \* per writer: folders to create, the outermost first
    failures

fileTable == <<rows, dirs>>
local     == <<path, target, rec, base, todo>>
vars == <<fileTable, object, lock, pc, out, local, failures>>

\* query_file_system_items_by_path; the unique index allows one row
RowsAt(p) == {r \in Writers : rows[r] = p}
Reads(c, p) ==
    \/ \E r \in RowsAt(p) : rec' = [rec EXCEPT ![c] = r]
    \/ RowsAt(p) = {} /\ rec' = [rec EXCEPT ![c] = None]

Init ==
    /\ rows = [w \in Writers |-> None] /\ dirs = {}
    /\ object = [p \in Paths |-> None]
    /\ lock = [p \in Paths |-> None]
    /\ pc = [c \in Clients |-> "idle"]
    /\ out = [c \in Clients |-> "none"]
    /\ path = [c \in Clients |-> None]
    /\ target = [m \in Movers |-> None]
    /\ rec = [c \in Clients |-> None]
    /\ base = [c \in Writers \cup Readers |-> None]
    /\ todo = [w \in Writers |-> <<>>]
    /\ failures = 0

Goto(c, l) == pc' = [pc EXCEPT ![c] = l] /\ UNCHANGED out

\* leave the work under the lock; the lock is released on every way out
Leave(c, o) ==
    /\ pc' = [pc EXCEPT ![c] = "release"]
    /\ out' = [out EXCEPT ![c] = o]

Ends(c, o) ==
    /\ pc' = [pc EXCEPT ![c] = "done"]
    /\ out' = [out EXCEPT ![c] = o]

-----------------------------------------------------------------------------
(* The lock *)

\* mutant: the key is set whoever owns it
AlwaysFree(p) == TRUE

\* SET NX
Free(p) == lock[p] = None

\* HybridFileObject.__aenter__: lock first, look up after
Open(c, p) ==
    /\ pc[c] = "idle"
    /\ Free(p)
    /\ lock' = [lock EXCEPT ![p] = c]
    /\ path' = [path EXCEPT ![c] = p]
    /\ Goto(c, "query")
    /\ UNCHANGED <<fileTable, object, target, rec, base, todo, failures>>

\* move_file_or_folder, delete_file_or_folder: the row is read before the lock
LookUp(c, p) ==
    /\ pc[c] = "idle"
    /\ path' = [path EXCEPT ![c] = p]
    /\ Reads(c, p)
    /\ \/ RowsAt(p) # {} /\ Goto(c, "wait")
       \/ RowsAt(p) = {} /\ Ends(c, "missing")
    /\ UNCHANGED <<fileTable, object, lock, base, todo, failures>>

LookUpMove(m, p, q) ==
    /\ p # q
    /\ LookUp(m, p)
    /\ target' = [target EXCEPT ![m] = q]

LookUpDelete(d, p) == LookUp(d, p) /\ UNCHANGED target

\* mutant: the work starts without the lock
EnterUnlocked(c, l) ==
    /\ pc[c] = "wait"
    /\ Goto(c, l)
    /\ UNCHANGED <<fileTable, object, lock, local, failures>>

\* async with RedisDistributedLock
Enter(c, l) ==
    /\ pc[c] = "wait"
    /\ Free(path[c])
    /\ lock' = [lock EXCEPT ![path[c]] = c]
    /\ Goto(c, l)
    /\ UNCHANGED <<fileTable, object, local, failures>>

\* acquire raises; the key may have been stored all the same
AcquireFault(c, p) ==
    /\ failures < MaxFailures
    /\ \/ c \in Writers \cup Readers /\ pc[c] = "idle"
       \/ pc[c] = "wait" /\ p = path[c]
    /\ \/ UNCHANGED lock
       \/ Free(p) /\ lock' = [lock EXCEPT ![p] = c]
    /\ Ends(c, "raised")
    /\ failures' = failures + 1
    /\ UNCHANGED <<fileTable, object, local>>

Release(c) ==
    /\ pc[c] = "release"
    /\ lock' = [lock EXCEPT ![path[c]] = IF @ = c THEN None ELSE @]
    /\ Goto(c, "done")
    /\ UNCHANGED <<fileTable, object, local, failures>>

\* logged by HybridFileObject.__aexit__, raised by async with
ReleaseFault(c) ==
    /\ failures < MaxFailures
    /\ pc[c] = "release"
    /\ \/ c \in Writers \cup Readers /\ Goto(c, "done")
       \/ c \in Movers \cup Deleters /\ Ends(c, "raised")
    /\ failures' = failures + 1
    /\ UNCHANGED <<fileTable, object, lock, local>>

\* the TTL of a key whose holder is gone runs out
Lapse(p) ==
    /\ lock[p] # None
    /\ pc[lock[p]] \in {"done", "dead"}
    /\ lock' = [lock EXCEPT ![p] = None]
    /\ UNCHANGED <<fileTable, object, pc, out, local, failures>>

-----------------------------------------------------------------------------
(* HybridFileObject, mode "w" *)

WriterQuery(w) ==
    /\ pc[w] = "query"
    /\ Reads(w, path[w])
    /\ \/ RowsAt(path[w]) # {} /\ Goto(w, "download")
       \/ RowsAt(path[w]) = {} /\ Goto(w, "folders")
       \/ RowsAt(path[w]) = {} /\ Leave(w, "raised")   \* create_if_missing=False
    /\ UNCHANGED <<fileTable, object, lock, path, target, base, todo, failures>>

\* the existing content is fetched for editing
WriterDownload(w) ==
    /\ pc[w] = "download"
    /\ base' = [base EXCEPT ![w] = object[path[w]]]
    /\ Goto(w, "body")
    /\ UNCHANGED <<fileTable, object, lock, path, target, rec, todo, failures>>

\* download_object returns False, which is ignored: the edit starts empty
WriterDownloadFault(w) ==
    /\ failures < MaxFailures
    /\ pc[w] = "download"
    /\ base' = [base EXCEPT ![w] = None]
    /\ Goto(w, "body")
    /\ failures' = failures + 1
    /\ UNCHANGED <<fileTable, object, lock, path, target, rec, todo>>

\* _ensure_directory_structure, create_directory_recursive on the way up
NextFolder(w) ==
    Parent[IF todo[w] = <<>> THEN path[w] ELSE Head(todo[w])]

\* mutant: the user's base path is looked up like a folder
KnownRows == dirs

Known == dirs \cup {Root}
CheckFolder(w) ==
    /\ pc[w] = "folders"
    /\ \/ /\ NextFolder(w) \in Known
          /\ Goto(w, "make")
          /\ UNCHANGED todo
       \/ /\ NextFolder(w) \notin Known
          /\ todo' = [todo EXCEPT ![w] = <<NextFolder(w)>> \o @]
          /\ UNCHANGED <<pc, out>>
       \/ /\ todo[w] = <<>> /\ NextFolder(w) \notin Known   \* create_directories=False
          /\ Leave(w, "raised")
          /\ UNCHANGED todo
    /\ UNCHANGED <<fileTable, object, lock, path, target, rec, base, failures>>

\* and on the way down: one insert per missing folder, no lock on folders
MakeFolder(w) ==
    /\ pc[w] = "make"
    /\ \/ todo[w] = <<>> /\ Goto(w, "body") /\ UNCHANGED <<dirs, todo>>
       \/ /\ todo[w] # <<>>
          /\ Head(todo[w]) \notin dirs
          /\ dirs' = dirs \cup {Head(todo[w])}
          /\ todo' = [todo EXCEPT ![w] = Tail(@)]
          /\ UNCHANGED <<pc, out>>
       \/ /\ todo[w] # <<>>
          /\ Head(todo[w]) \in dirs                     \* unique violation
          /\ Leave(w, "raised")
          /\ UNCHANGED <<dirs, todo>>
    /\ UNCHANGED <<rows, object, lock, path, target, rec, base, failures>>

\* the caller's code; close() saves whatever was written, also after an exception
Body(w) ==
    /\ pc[w] = "body"
    /\ \/ Goto(w, "upload")
       \/ Leave(w, "closed")
    /\ UNCHANGED <<fileTable, object, lock, local, failures>>

Upload(w) ==
    /\ pc[w] = "upload"
    /\ object' = [object EXCEPT ![path[w]] = w]
    /\ Goto(w, "record")
    /\ UNCHANGED <<fileTable, lock, local, failures>>

PutRow(r, p) == rows' = [rows EXCEPT ![r] = p]

\* INSERT a row or UPDATE the one read at the open; an UPDATE that finds no row
\* is not noticed
Record(w) ==
    /\ pc[w] = "record"
    /\ \/ /\ rec[w] = None /\ RowsAt(path[w]) = {}
          /\ PutRow(w, path[w])
          /\ Leave(w, "saved")
       \/ /\ rec[w] # None /\ rows[rec[w]] # None /\ RowsAt(path[w]) \subseteq {rec[w]}
          /\ PutRow(rec[w], path[w])
          /\ Leave(w, "saved")
       \/ /\ rec[w] # None /\ rows[rec[w]] = None
          /\ Leave(w, "saved")
          /\ UNCHANGED rows
       \/ /\ ~ RowsAt(path[w]) \subseteq {rec[w]}        \* unique violation
          /\ rec[w] # None => rows[rec[w]] # None
          /\ Leave(w, "raised")
          /\ UNCHANGED rows
    /\ UNCHANGED <<dirs, object, lock, local, failures>>

(* HybridFileObject, mode "r" *)

ReaderQuery(r) ==
    /\ pc[r] = "query"
    /\ Reads(r, path[r])
    /\ \/ RowsAt(path[r]) # {} /\ Goto(r, "fetch")
       \/ RowsAt(path[r]) = {} /\ Leave(r, "missing")
    /\ UNCHANGED <<fileTable, object, lock, path, target, base, todo, failures>>

ReaderFetch(r) ==
    /\ pc[r] = "fetch"
    /\ base' = [base EXCEPT ![r] = object[path[r]]]
    /\ \/ object[path[r]] # None /\ Leave(r, "closed")
       \/ object[path[r]] = None /\ Leave(r, "raised")
    /\ UNCHANGED <<fileTable, object, lock, path, target, rec, todo, failures>>

-----------------------------------------------------------------------------
(* _move_single_file: rename_object copies and deletes, then the row follows *)

\* mutant: a failing copy goes unnoticed
CopyUnchecked(m) ==
    /\ failures < MaxFailures
    /\ pc[m] = "copy"
    /\ Goto(m, "remove")
    /\ failures' = failures + 1
    /\ UNCHANGED <<fileTable, object, lock, local>>

CopyFault(m) ==
    /\ failures < MaxFailures
    /\ pc[m] = "copy"
    /\ Leave(m, "raised")
    /\ failures' = failures + 1
    /\ UNCHANGED <<fileTable, object, lock, local>>

Copy(m) ==
    /\ pc[m] = "copy"
    /\ \/ /\ object[path[m]] # None
          /\ object' = [object EXCEPT ![target[m]] = object[path[m]]]
          /\ Goto(m, "remove")
       \/ /\ object[path[m]] = None
          /\ Leave(m, "raised")
          /\ UNCHANGED object
    /\ UNCHANGED <<fileTable, lock, local, failures>>

Remove(m) ==
    /\ pc[m] = "remove"
    /\ object' = [object EXCEPT ![path[m]] = None]
    /\ Goto(m, "update")
    /\ UNCHANGED <<fileTable, lock, local, failures>>

\* mutant: the row stays behind
UpdatePathForgotten(m) ==
    /\ pc[m] = "update"
    /\ Leave(m, "moved")
    /\ UNCHANGED <<fileTable, object, lock, local, failures>>

\* no row updated, or a unique violation: the move raises
UpdatePath(m) ==
    /\ pc[m] = "update"
    /\ \/ /\ rows[rec[m]] # None /\ RowsAt(target[m]) \subseteq {rec[m]}
          /\ PutRow(rec[m], target[m])
          /\ Leave(m, "moved")
       \/ /\ rows[rec[m]] = None \/ ~ RowsAt(target[m]) \subseteq {rec[m]}
          /\ Leave(m, "raised")
          /\ UNCHANGED rows
    /\ UNCHANGED <<dirs, object, lock, local, failures>>

(* _delete_single_file *)

DeleteObject(d) ==
    /\ pc[d] = "delete_object"
    /\ object' = [object EXCEPT ![path[d]] = None]
    /\ Goto(d, "delete_row")
    /\ UNCHANGED <<fileTable, lock, local, failures>>

\* logged, and the row goes all the same
DeleteObjectFault(d) ==
    /\ failures < MaxFailures
    /\ pc[d] = "delete_object"
    /\ Goto(d, "delete_row")
    /\ failures' = failures + 1
    /\ UNCHANGED <<fileTable, object, lock, local>>

DeleteRow(d) ==
    /\ pc[d] = "delete_row"
    /\ \/ rows[rec[d]] # None /\ PutRow(rec[d], None) /\ Leave(d, "deleted")
       \/ rows[rec[d]] = None /\ Leave(d, "raised") /\ UNCHANGED rows
    /\ UNCHANGED <<dirs, object, lock, local, failures>>

-----------------------------------------------------------------------------
\* any other awaited call raises: the lock is released on the way out
Fault(c) ==
    /\ failures < MaxFailures
    /\ pc[c] \in {"query", "folders", "make", "upload", "record", "fetch", "remove",
                  "update", "delete_row"}
    /\ Leave(c, "raised")
    /\ failures' = failures + 1
    /\ UNCHANGED <<fileTable, object, lock, local>>

\* the first query of a move or delete raises
LookUpFault(c) ==
    /\ failures < MaxFailures
    /\ c \in Movers \cup Deleters /\ pc[c] = "idle"
    /\ Ends(c, "raised")
    /\ failures' = failures + 1
    /\ UNCHANGED <<fileTable, object, lock, local>>

\* a worker dies with the clients it hosts
Crash(C) ==
    /\ failures < MaxFailures
    /\ C # {} /\ \A c \in C : pc[c] \notin {"idle", "done", "dead"}
    /\ pc' = [c \in Clients |-> IF c \in C THEN "dead" ELSE pc[c]]
    /\ failures' = failures + 1
    /\ UNCHANGED <<fileTable, object, lock, out, local>>

WriterStep(w) ==
    \/ WriterQuery(w) \/ WriterDownload(w) \/ CheckFolder(w) \/ MakeFolder(w)
    \/ Body(w) \/ Upload(w) \/ Record(w)
ReaderStep(r) == ReaderQuery(r) \/ ReaderFetch(r)
MoverStep(m)  == Enter(m, "copy") \/ Copy(m) \/ Remove(m) \/ UpdatePath(m)
DeleterStep(d) == Enter(d, "delete_object") \/ DeleteObject(d) \/ DeleteRow(d)

Work ==
    \/ \E w \in Writers : WriterStep(w)
    \/ \E r \in Readers : ReaderStep(r)
    \/ \E m \in Movers : MoverStep(m)
    \/ \E d \in Deleters : DeleterStep(d)
    \/ \E c \in Clients : Release(c)
    \/ \E p \in Paths : Lapse(p)

Calls ==
    \E p \in Paths :
        \/ \E c \in Writers \cup Readers : Open(c, p)
        \/ \E m \in Movers, q \in Paths : LookUpMove(m, p, q)
        \/ \E d \in Deleters : LookUpDelete(d, p)

Failures ==
    \/ \E c \in Clients : \/ Fault(c) \/ LookUpFault(c) \/ ReleaseFault(c)
                          \/ \E p \in Paths : AcquireFault(c, p)
    \/ \E w \in Writers : WriterDownloadFault(w)
    \/ \E m \in Movers : CopyFault(m)
    \/ \E d \in Deleters : DeleteObjectFault(d)
    \/ \E C \in SUBSET Clients : Crash(C)

Next == Calls \/ Work \/ Failures
Spec == Init /\ [][Next]_vars

-----------------------------------------------------------------------------
(* Properties *)

StateTyped ==
    /\ rows \in [Writers -> Paths \cup {None}] /\ dirs \subseteq Folders
    /\ object \in [Paths -> Writers \cup {None}]
    /\ lock \in [Paths -> Clients \cup {None}]
    /\ pc \in [Clients -> {"idle", "wait", "query", "download", "folders", "make", "body",
                           "upload", "record", "fetch", "copy", "remove", "update",
                           "delete_object", "delete_row", "release", "done", "dead"}]
    /\ path \in [Clients -> Paths \cup {None}]
    /\ target \in [Movers -> Paths \cup {None}]
    /\ rec \in [Clients -> Writers \cup {None}]
    /\ base \in [Writers \cup Readers -> Writers \cup {None}]
    /\ todo \in [Writers -> Seq(Folders)]
Outcomes == {"none", "raised", "missing", "closed", "saved", "moved", "deleted"}
TypeOK == StateTyped /\ out \in [Clients -> Outcomes]

AtWork == {"query", "download", "folders", "make", "body", "upload", "record", "fetch", "copy",
           "remove", "update", "delete_object", "delete_row", "release"}

MovedTo(p) == \E m \in Movers : target[m] = p

\* What a writer read when it opened the file stays true until it saves: the
\* row it found (or did not find) is the row of its path, and the content it
\* fetched is the content it will replace. The lock of the path is enough for
\* that against everybody but a move onto the path (move.py:110 locks the
\* source only), and a failed download starts from nothing (file_object.py:143).
SnapshotHolds ==
    \A w \in Writers :
        ~ MovedTo(path[w]) =>
            /\ pc[w] \in {"download", "folders", "make", "body", "upload", "record"} =>
                  RowsAt(path[w]) = {rec[w]} \ {None}
            /\ pc[w] \in {"body", "upload"} /\ rec[w] # None =>
                  base[w] = object[path[w]] \/ base[w] = None

\* A saved version leaves the store only under the lock of the path it is
\* stored at: replaced by a writer that edited it (or whose file it no longer
\* was, or whose download failed), or deleted. A move never loses it half way,
\* unless somebody is at work on the target, which the move does not lock.
OthersAt(m, p) == \E c \in Clients \ {m} : path[c] = p \/ (c \in Movers /\ target[c] = p)
Stored(v) == \E p \in Paths : object[p] = v
VersionsKept ==
    [][\A v \in Writers : Stored(v) /\ ~ Stored(v)' =>
          \E p \in Paths : object[p] = v /\
             \/ \E w \in Writers : object'[p] = w /\ lock[p] = w /\ base[w] \in {v, None}
             \/ \E d \in Deleters : pc[d] = "delete_object" /\ lock[p] = d
             \/ MovedTo(p)
             \/ \E m \in Movers : pc[m] = "remove" /\ path[m] = p
                                  /\ OthersAt(m, target[m])]_vars

\* A file that is listed and at rest can be read, unless a move or delete of
\* its path failed, died, or acted on the row of another file than this one,
\* having read it before it had the lock; or unless it came back to a path that
\* another move or delete was at work on (a move does not lock its target).
ListedIsReadable ==
    \A r \in Writers, p \in Paths :
        rows[r] = p /\ lock[p] = None /\ object[p] = None =>
            \E x \in Movers \cup Deleters :
                /\ path[x] = p
                /\ \/ out[x] = "raised" \/ pc[x] = "dead"
                   \/ rec[x] \notin {r, None}
                   \/ \E m \in Movers \ {x} : target[m] = p /\ rec[m] = r

\* Towards the lock of a path the clients behave as LeaseLock allows.
Holders(p) == {c \in Clients : path[c] = p /\ pc[c] \in AtWork}
Lease(p) == INSTANCE LeaseLock WITH owner <- lock[p], holding <- Holders(p)
FileLease ==
    /\ \A p \in Paths : Lease(p)!Init
    /\ [][\A p \in Paths : Lease(p)!Next \/ UNCHANGED <<lock[p], Holders(p)>>]_vars

\* Whoever is at work on a path is the holder of its lock: two clients of one
\* path never overlap, on whatever way each of them leaves.
HolderAtWork ==
    \A c \in Clients : pc[c] \in AtWork => lock[path[c]] = c
=============================================================================
