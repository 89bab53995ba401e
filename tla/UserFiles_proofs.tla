-------------------------- MODULE UserFiles_proofs --------------------------
(***************************************************************************)
(* What holds of UserFiles for every number of files, clients, failures    *)
(* and crashes, and for every tree of folders.                             *)
(***************************************************************************)
EXTENDS UserFiles, TLAPS

\* Whoever waits for a path or works on it knows which one.
Placed == \A c \in Clients : pc[c] \in AtWork \cup {"wait"} => path[c] \in Paths

\* Every step keeps the variables typed.
LEMMA StateStep == StateTyped /\ Placed /\ [Next]_vars => StateTyped'
<1> SUFFICES ASSUME StateTyped, Placed, [Next]_vars PROVE StateTyped'
  OBVIOUS
<1> USE UserFilesAssumption DEF StateTyped, Clients, fileTable, local
<1>1. ASSUME NEW c \in Writers \cup Readers, NEW p \in Paths, Open(c, p) PROVE StateTyped'
  BY <1>1 DEF Open, Goto
<1>2. ASSUME NEW c \in Movers \cup Deleters, NEW p \in Paths, LookUp(c, p),
             target' \in [Movers -> Paths \cup {None}]
      PROVE  StateTyped'
  <2>1. rec' \in [Clients -> Writers \cup {None}]
    BY <1>2 DEF LookUp, Reads, RowsAt
  <2>2. pc' = [pc EXCEPT ![c] = "wait"] \/ pc' = [pc EXCEPT ![c] = "done"]
    BY <1>2 DEF LookUp, Goto, Ends
  <2> QED
    BY <1>2, <2>1, <2>2 DEF LookUp
<1>3. ASSUME NEW m \in Movers, NEW p \in Paths, NEW q \in Paths, LookUpMove(m, p, q)
      PROVE  StateTyped'
  BY <1>2, <1>3 DEF LookUpMove
<1>4. ASSUME NEW d \in Deleters, NEW p \in Paths, LookUpDelete(d, p) PROVE StateTyped'
  BY <1>2, <1>4 DEF LookUpDelete
<1>5. ASSUME NEW w \in Writers, WriterQuery(w) PROVE StateTyped'
  <2>1. rec' \in [Clients -> Writers \cup {None}]
    BY <1>5 DEF WriterQuery, Reads, RowsAt
  <2> QED
    BY <1>5, <2>1 DEF WriterQuery, Goto, Leave
<1>6. ASSUME NEW w \in Writers, WriterDownload(w) \/ WriterDownloadFault(w) PROVE StateTyped'
  <2>1. path[w] \in Paths
    BY <1>6 DEF WriterDownload, WriterDownloadFault, Placed, AtWork
  <2> QED
    BY <1>6, <2>1 DEF WriterDownload, WriterDownloadFault, Goto
<1>7. ASSUME NEW w \in Writers, CheckFolder(w) PROVE StateTyped'
  <2>1. path[w] \in Paths
    BY <1>7 DEF CheckFolder, Placed, AtWork
  <2>2. NextFolder(w) \in Folders \cup {Root}
    BY <2>1 DEF NextFolder
  <2>3. pc' = pc \/ pc' = [pc EXCEPT ![w] = "make"] \/ pc' = [pc EXCEPT ![w] = "release"]
    BY <1>7 DEF CheckFolder, Goto, Leave
  <2>4. todo' = todo
        \/ (NextFolder(w) \in Folders /\ todo' = [todo EXCEPT ![w] = <<NextFolder(w)>> \o @])
    BY <1>7, <2>2 DEF CheckFolder, Known
  <2>5. todo' \in [Writers -> Seq(Folders)]
    <3>1. CASE todo' = todo
      BY <3>1
    <3>2. ASSUME NEW f \in Folders PROVE <<f>> \o todo[w] \in Seq(Folders)
      OBVIOUS
    <3>3. CASE NextFolder(w) \in Folders /\ todo' = [todo EXCEPT ![w] = <<NextFolder(w)>> \o @]
      BY <3>2, <3>3
    <3> QED
      BY <2>4, <3>1, <3>3
  <2>6. UNCHANGED <<fileTable, object, lock, path, target, rec, base>>
    BY <1>7 DEF CheckFolder
  <2> QED
    BY <2>3, <2>5, <2>6
<1>8. ASSUME NEW w \in Writers, MakeFolder(w) PROVE StateTyped'
  <2>1. CASE UNCHANGED <<dirs, todo>>
    <3>1. pc' = pc \/ pc' = [pc EXCEPT ![w] = "body"] \/ pc' = [pc EXCEPT ![w] = "release"]
      BY <1>8 DEF MakeFolder, Goto, Leave
    <3>2. UNCHANGED <<rows, object, lock, path, target, rec, base>>
      BY <1>8 DEF MakeFolder
    <3> QED
      BY <2>1, <3>1, <3>2
  <2>2. CASE /\ todo[w] # <<>>
             /\ dirs' = dirs \cup {Head(todo[w])}
             /\ todo' = [todo EXCEPT ![w] = Tail(@)]
    <3>1. Head(todo[w]) \in Folders /\ Tail(todo[w]) \in Seq(Folders)
      BY <2>2
    <3>2. pc' = pc \/ pc' = [pc EXCEPT ![w] = "body"] \/ pc' = [pc EXCEPT ![w] = "release"]
      BY <1>8 DEF MakeFolder, Goto, Leave
    <3>3. dirs' \subseteq Folders /\ todo' \in [Writers -> Seq(Folders)]
      BY <2>2, <3>1
    <3> QED
      BY <1>8, <3>2, <3>3 DEF MakeFolder
  <2> QED
    BY <1>8, <2>1, <2>2 DEF MakeFolder
<1>9. ASSUME NEW w \in Writers, Body(w) \/ Upload(w) PROVE StateTyped'
  <2>1. pc' = [pc EXCEPT ![w] = "upload"] \/ pc' = [pc EXCEPT ![w] = "release"]
        \/ pc' = [pc EXCEPT ![w] = "record"]
    BY <1>9 DEF Body, Upload, Goto, Leave
  <2>2. object' = object \/ object' = [object EXCEPT ![path[w]] = w]
    BY <1>9 DEF Body, Upload
  <2>3. object' \in [Paths -> Writers \cup {None}]
    BY <2>2
  <2>4. UNCHANGED <<fileTable, lock, local>>
    BY <1>9 DEF Body, Upload
  <2> QED
    BY <2>1, <2>3, <2>4
<1>10. ASSUME NEW r \in Writers \cup {None}, NEW p \in Paths \cup {None}, PutRow(r, p)
       PROVE  rows' \in [Writers -> Paths \cup {None}]
  BY <1>10 DEF PutRow
<1>11. ASSUME NEW w \in Writers, Record(w) PROVE StateTyped'
  <2>1. rows' \in [Writers -> Paths \cup {None}]
    BY <1>10, <1>11 DEF Record
  <2> QED
    BY <1>11, <2>1 DEF Record, Leave
<1>12. ASSUME NEW r \in Readers, ReaderQuery(r) PROVE StateTyped'
  <2>1. rec' \in [Clients -> Writers \cup {None}]
    BY <1>12 DEF ReaderQuery, Reads, RowsAt
  <2>2. pc' = [pc EXCEPT ![r] = "fetch"] \/ pc' = [pc EXCEPT ![r] = "release"]
    BY <1>12 DEF ReaderQuery, Goto, Leave
  <2>3. UNCHANGED <<fileTable, object, lock, path, target, base, todo>>
    BY <1>12 DEF ReaderQuery
  <2> QED
    BY <2>1, <2>2, <2>3
<1>13. ASSUME NEW r \in Readers, ReaderFetch(r) PROVE StateTyped'
  <2>1. path[r] \in Paths
    BY <1>13 DEF ReaderFetch, Placed, AtWork
  <2> QED
    BY <1>13, <2>1 DEF ReaderFetch, Leave
<1>14. ASSUME NEW c \in Clients, Enter(c, "copy") \/ Enter(c, "delete_object") PROVE StateTyped'
  <2>1. pc' = [pc EXCEPT ![c] = "copy"] \/ pc' = [pc EXCEPT ![c] = "delete_object"]
    BY <1>14 DEF Enter, Goto
  <2>2. lock' = [lock EXCEPT ![path[c]] = c]
    BY <1>14 DEF Enter
  <2>3. lock' \in [Paths -> Clients \cup {None}]
    BY <2>2
  <2>4. UNCHANGED <<fileTable, object, local>>
    BY <1>14 DEF Enter
  <2> QED
    BY <2>1, <2>3, <2>4
<1>15. ASSUME NEW m \in Movers, Copy(m) PROVE StateTyped'
  <2>1. path[m] \in Paths
    BY <1>15 DEF Copy, Placed, AtWork
  <2> QED
    BY <1>15, <2>1 DEF Copy, Goto, Leave
<1>16. ASSUME NEW c \in Clients, Remove(c) \/ DeleteObject(c) PROVE StateTyped'
  BY <1>16 DEF Remove, DeleteObject, Goto
<1>17. ASSUME NEW m \in Movers, UpdatePath(m) PROVE StateTyped'
  <2>1. rows' \in [Writers -> Paths \cup {None}]
    BY <1>10, <1>17 DEF UpdatePath
  <2>2. pc' = [pc EXCEPT ![m] = "release"]
    BY <1>17 DEF UpdatePath, Leave
  <2> QED
    BY <1>17, <2>1, <2>2 DEF UpdatePath
<1>18. ASSUME NEW d \in Deleters, DeleteRow(d) PROVE StateTyped'
  <2>1. rows' \in [Writers -> Paths \cup {None}]
    BY <1>10, <1>18 DEF DeleteRow
  <2> QED
    BY <1>18, <2>1 DEF DeleteRow, Leave
<1>19. ASSUME NEW c \in Clients, Release(c) PROVE StateTyped'
  BY <1>19 DEF Release, Goto
<1>20. ASSUME NEW p \in Paths, Lapse(p) PROVE StateTyped'
  BY <1>20 DEF Lapse
<1>21. ASSUME NEW c \in Clients, NEW p \in Paths, AcquireFault(c, p) PROVE StateTyped'
  <2>1. lock' = lock \/ lock' = [lock EXCEPT ![p] = c]
    BY <1>21 DEF AcquireFault
  <2>2. pc' = [pc EXCEPT ![c] = "done"]
    BY <1>21 DEF AcquireFault, Ends
  <2>3. UNCHANGED <<fileTable, object, local>>
    BY <1>21 DEF AcquireFault
  <2> QED
    BY <2>1, <2>2, <2>3
<1>22. ASSUME NEW c \in Clients,
              Fault(c) \/ LookUpFault(c) \/ ReleaseFault(c) \/ CopyFault(c) \/ DeleteObjectFault(c)
       PROVE  StateTyped'
  BY <1>22 DEF Fault, LookUpFault, ReleaseFault, CopyFault, DeleteObjectFault, Leave, Ends, Goto
<1>23. ASSUME NEW C \in SUBSET Clients, Crash(C) PROVE StateTyped'
  BY <1>23 DEF Crash
<1>24. CASE UNCHANGED vars
  BY <1>24 DEF vars
<1> QED
  BY <1>1, <1>3, <1>4, <1>5, <1>6, <1>7, <1>8, <1>9, <1>11, <1>12, <1>13, <1>14, <1>15, <1>16,
     <1>17, <1>18, <1>19, <1>20, <1>21, <1>22, <1>23, <1>24
  DEF Next, Calls, Work, Failures, WriterStep, ReaderStep, MoverStep, DeleterStep

\* Every client ends with an outcome of the list, given once.
LEMMA OutcomeStep == TypeOK /\ [Next]_vars => out' \in [Clients -> Outcomes]
<1> SUFFICES ASSUME TypeOK, [Next]_vars PROVE out' \in [Clients -> Outcomes]
  OBVIOUS
<1>1. CASE UNCHANGED out
  BY <1>1 DEF TypeOK
<1>2. CASE \E c \in Clients, o \in Outcomes : out' = [out EXCEPT ![c] = o]
  BY <1>2 DEF TypeOK
<1>3. ASSUME NEW c \in Clients, NEW o \in Outcomes, Leave(c, o) \/ Ends(c, o)
      PROVE  \E d \in Clients, e \in Outcomes : out' = [out EXCEPT ![d] = e]
  BY <1>3 DEF Leave, Ends
<1> USE DEF Clients, Outcomes
<1>4. CASE Calls
  BY <1>1, <1>2, <1>3, <1>4 DEF Calls, Open, LookUpMove, LookUpDelete, LookUp, Goto
<1>5. ASSUME NEW w \in Writers, WriterStep(w) PROVE out' \in [Clients -> Outcomes]
  BY <1>1, <1>2, <1>3, <1>5 DEF WriterStep, WriterQuery, WriterDownload, CheckFolder, MakeFolder,
     Body, Upload, Record, Goto
<1>6. ASSUME NEW r \in Readers, ReaderStep(r) PROVE out' \in [Clients -> Outcomes]
  BY <1>1, <1>2, <1>3, <1>6 DEF ReaderStep, ReaderQuery, ReaderFetch, Goto
<1>7. ASSUME NEW m \in Movers, MoverStep(m) PROVE out' \in [Clients -> Outcomes]
  BY <1>1, <1>2, <1>3, <1>7 DEF MoverStep, Enter, Copy, Remove, UpdatePath, Goto
<1>8. ASSUME NEW d \in Deleters, DeleterStep(d) PROVE out' \in [Clients -> Outcomes]
  BY <1>1, <1>2, <1>3, <1>8 DEF DeleterStep, Enter, DeleteObject, DeleteRow, Goto
<1>9. ASSUME NEW c \in Clients, Release(c) PROVE out' \in [Clients -> Outcomes]
  BY <1>1, <1>9 DEF Release, Goto
<1>10. CASE Failures
  BY <1>1, <1>2, <1>3, <1>10 DEF Failures, Fault, LookUpFault, ReleaseFault, AcquireFault,
     WriterDownloadFault, CopyFault, DeleteObjectFault, Crash, Goto
<1> QED
  BY <1>1, <1>4, <1>5, <1>6, <1>7, <1>8, <1>9, <1>10 DEF Next, Work, Lapse, vars

\* Both together.
LEMMA TypeStep == TypeOK /\ Placed /\ [Next]_vars => TypeOK'
BY StateStep, OutcomeStep DEF TypeOK

-----------------------------------------------------------------------------
(* What a step does to the locks and to those at work under them. *)

\* c gets the lock of p and works on p.
Takes(c, p) ==
    /\ pc[c] \in {"idle", "wait"} /\ lock[p] = None
    /\ lock' = [lock EXCEPT ![p] = c]
    /\ path' = [path EXCEPT ![c] = p]
    /\ \E l \in AtWork : pc' = [pc EXCEPT ![c] = l]

\* c gets the lock of p and does not know.
Leaks(c, p) ==
    /\ pc[c] \in {"idle", "wait"} /\ lock[p] = None
    /\ lock' = [lock EXCEPT ![p] = c]
    /\ UNCHANGED path
    /\ pc' = [pc EXCEPT ![c] = "done"]

\* c chooses p and is not at work yet.
Looks(c, p) ==
    /\ pc[c] = "idle"
    /\ path' = [path EXCEPT ![c] = p]
    /\ \E l \in {"wait", "done"} : pc' = [pc EXCEPT ![c] = l]
    /\ UNCHANGED lock

\* Those at work go on or stop; nobody starts.
GoesOn ==
    /\ UNCHANGED <<lock, path>>
    /\ \A c \in Clients : /\ pc'[c] \in AtWork => pc[c] \in AtWork
                          /\ pc'[c] = "wait" => pc[c] = "wait"

LockStep ==
    \/ \E c \in Clients, p \in Paths : Takes(c, p) \/ Leaks(c, p) \/ Looks(c, p)
    \/ \E c \in Clients : Release(c)
    \/ \E p \in Paths : Lapse(p)
    \/ GoesOn

\* Every step is one of these.
LEMMA LockSteps == TypeOK /\ Placed /\ [Next]_vars => LockStep
<1> SUFFICES ASSUME TypeOK, Placed, [Next]_vars PROVE LockStep
  OBVIOUS
<1> USE DEF TypeOK, StateTyped, Clients, local
<1>1. ASSUME NEW c \in Clients, NEW l, pc[c] \in AtWork \/ l \notin AtWork \cup {"wait"},
             l # "wait", pc' = [pc EXCEPT ![c] = l], UNCHANGED <<lock, path>>
      PROVE  LockStep
  BY <1>1 DEF LockStep, GoesOn
<1>2. ASSUME NEW c \in Writers \cup Readers, NEW p \in Paths, Open(c, p) PROVE LockStep
  <2>1. Takes(c, p)
    BY <1>2 DEF Open, Free, Goto, Takes, AtWork
  <2> QED
    BY <2>1 DEF LockStep
<1>3. ASSUME NEW c \in Movers \cup Deleters, NEW p \in Paths, LookUp(c, p) PROVE LockStep
  <2>1. Looks(c, p)
    BY <1>3 DEF LookUp, Goto, Ends, Looks
  <2> QED
    BY <2>1 DEF LockStep
<1>4. ASSUME NEW c \in Movers \cup Deleters, NEW l \in AtWork, Enter(c, l) PROVE LockStep
  <2>1. path[c] \in Paths
    BY <1>4 DEF Enter, Placed
  <2>2. path' = [path EXCEPT ![c] = path[c]]
    BY <1>4 DEF Enter
  <2>3. Takes(c, path[c])
    BY <1>4, <2>1, <2>2 DEF Enter, Free, Goto, Takes
  <2> QED
    BY <2>1, <2>3 DEF LockStep
<1>5. ASSUME NEW c \in Clients, NEW p \in Paths, AcquireFault(c, p) PROVE LockStep
  <2>1. pc' = [pc EXCEPT ![c] = "done"] /\ UNCHANGED path
    BY <1>5 DEF AcquireFault, Ends
  <2>2. CASE UNCHANGED lock
    BY <1>1, <2>1, <2>2 DEF AtWork
  <2>3. CASE lock[p] = None /\ lock' = [lock EXCEPT ![p] = c]
    <3>1. Leaks(c, p)
      BY <1>5, <2>1, <2>3 DEF AcquireFault, Leaks
    <3> QED
      BY <3>1 DEF LockStep
  <2> QED
    BY <1>5, <2>2, <2>3 DEF AcquireFault, Free
<1>6. ASSUME NEW c \in Clients, NEW w \in AtWork, pc[c] = w,
             \/ \E l \in AtWork : Goto(c, l)
             \/ \E o : Leave(c, o)
             \/ UNCHANGED pc,
             UNCHANGED <<lock, path>>
      PROVE  LockStep
  <2>1. (\E l \in AtWork : pc' = [pc EXCEPT ![c] = l]) \/ UNCHANGED pc
    BY <1>6 DEF Goto, Leave, AtWork
  <2>2. CASE UNCHANGED pc
    BY <1>6, <2>2 DEF LockStep, GoesOn
  <2>3. CASE \E l \in AtWork : pc' = [pc EXCEPT ![c] = l]
    BY <1>1, <1>6, <2>3 DEF AtWork
  <2> QED
    BY <2>1, <2>2, <2>3
<1>7. ASSUME NEW w \in Writers, WriterQuery(w) \/ WriterDownload(w) \/ WriterDownloadFault(w)
      PROVE  LockStep
  BY <1>6, <1>7 DEF WriterQuery, WriterDownload, WriterDownloadFault, AtWork
<1>8. ASSUME NEW w \in Writers, CheckFolder(w) \/ MakeFolder(w) PROVE LockStep
  BY <1>6, <1>8 DEF CheckFolder, MakeFolder, AtWork
<1>9. ASSUME NEW w \in Writers, Body(w) \/ Upload(w) \/ Record(w) PROVE LockStep
  BY <1>6, <1>9 DEF Body, Upload, Record, AtWork
<1>10. ASSUME NEW r \in Readers, ReaderQuery(r) \/ ReaderFetch(r) PROVE LockStep
  BY <1>6, <1>10 DEF ReaderQuery, ReaderFetch, AtWork
<1>11. ASSUME NEW m \in Movers, Copy(m) \/ CopyFault(m) \/ Remove(m) \/ UpdatePath(m)
       PROVE  LockStep
  BY <1>6, <1>11 DEF Copy, CopyFault, Remove, UpdatePath, AtWork
<1>12. ASSUME NEW d \in Deleters, DeleteObject(d) \/ DeleteObjectFault(d) \/ DeleteRow(d)
       PROVE  LockStep
  BY <1>6, <1>12 DEF DeleteObject, DeleteObjectFault, DeleteRow, AtWork
<1>13. ASSUME NEW c \in Clients, Fault(c) PROVE LockStep
  BY <1>6, <1>13 DEF Fault, AtWork
<1>14. ASSUME NEW c \in Clients, LookUpFault(c) \/ ReleaseFault(c) PROVE LockStep
  <2>1. pc' = [pc EXCEPT ![c] = "done"] /\ UNCHANGED <<lock, path>>
    BY <1>14 DEF LookUpFault, ReleaseFault, Goto, Ends
  <2> QED
    BY <1>1, <2>1 DEF AtWork
<1>15. ASSUME NEW C \in SUBSET Clients, Crash(C) PROVE LockStep
  <2>1. GoesOn
    BY <1>15 DEF Crash, GoesOn, AtWork
  <2> QED
    BY <2>1 DEF LockStep
<1>16. CASE UNCHANGED vars
  BY <1>16 DEF vars, LockStep, GoesOn
<1> QED
  BY <1>2, <1>3, <1>4, <1>5, <1>7, <1>8, <1>9, <1>10, <1>11, <1>12, <1>13, <1>14, <1>15, <1>16
  DEF Next, Calls, Work, Failures, WriterStep, ReaderStep, MoverStep, DeleterStep,
      LookUpMove, LookUpDelete, LockStep, AtWork

\* A client learns its path before it works on it.
LEMMA PlacedStep == TypeOK /\ Placed /\ LockStep => Placed'
<1> SUFFICES ASSUME TypeOK, Placed, LockStep PROVE Placed'
  OBVIOUS
<1> USE DEF TypeOK, StateTyped, Placed
<1>1. ASSUME NEW c \in Clients, NEW p \in Paths, Takes(c, p) \/ Looks(c, p) PROVE Placed'
  BY <1>1 DEF Takes, Looks
<1>2. ASSUME NEW c \in Clients, NEW p \in Paths, Leaks(c, p) PROVE Placed'
  BY <1>2 DEF Leaks, AtWork
<1>3. ASSUME NEW c \in Clients, Release(c) PROVE Placed'
  BY <1>3 DEF Release, Goto, local, AtWork
<1>4. ASSUME NEW p \in Paths, Lapse(p) PROVE Placed'
  BY <1>4 DEF Lapse, local
<1>5. CASE GoesOn
  BY <1>5 DEF GoesOn
<1> QED
  BY <1>1, <1>2, <1>3, <1>4, <1>5 DEF LockStep

\* The lock is taken before the work and left after it.
LEMMA HolderStep == TypeOK /\ Placed /\ HolderAtWork /\ LockStep => HolderAtWork'
<1> SUFFICES ASSUME TypeOK, Placed, HolderAtWork, LockStep PROVE HolderAtWork'
  OBVIOUS
<1> USE UserFilesAssumption DEF TypeOK, StateTyped, Placed, HolderAtWork
<1>1. ASSUME NEW c \in Clients, NEW p \in Paths, Takes(c, p) PROVE HolderAtWork'
  BY <1>1 DEF Takes
<1>2. ASSUME NEW c \in Clients, NEW p \in Paths, Leaks(c, p) \/ Looks(c, p) PROVE HolderAtWork'
  BY <1>2 DEF Leaks, Looks, AtWork
<1>3. ASSUME NEW c \in Clients, Release(c) PROVE HolderAtWork'
  BY <1>3 DEF Release, Goto, local, AtWork
<1>4. ASSUME NEW p \in Paths, Lapse(p) PROVE HolderAtWork'
  BY <1>4 DEF Lapse, local, AtWork
<1>5. CASE GoesOn
  BY <1>5 DEF GoesOn
<1> QED
  BY <1>1, <1>2, <1>3, <1>4, <1>5 DEF LockStep

LockInv == TypeOK /\ Placed /\ HolderAtWork

\* Types, places and holders together are inductive.
LEMMA LockInvAlways == Spec => []LockInv
<1>1. Init => LockInv
  BY UserFilesAssumption
  DEF Init, LockInv, TypeOK, StateTyped, Outcomes, Placed, HolderAtWork, Clients, AtWork
<1>2. LockInv /\ [Next]_vars => LockInv'
  BY TypeStep, LockSteps, PlacedStep, HolderStep DEF LockInv
<1> QED
  BY <1>1, <1>2, PTL DEF Spec

\* Rows, objects, locks and clients always hold values of their kind.
THEOREM TypeCorrect == Spec => []TypeOK
<1>1. LockInv => TypeOK
  BY DEF LockInv
<1> QED
  BY <1>1, LockInvAlways, PTL

\* However many files, clients, failures and crashes: a client at work on a path
\* holds its lock, so no two clients ever work on one path at once.
THEOREM HolderAtWorkAlways == Spec => []HolderAtWork
<1>1. LockInv => HolderAtWork
  BY DEF LockInv
<1> QED
  BY <1>1, LockInvAlways, PTL

\* Every step looks to the lock of a path like a step of LeaseLock.
LEMMA LeaseStep ==
    ASSUME LockInv, LockStep, NEW p \in Paths
    PROVE  Lease(p)!Next \/ UNCHANGED <<lock[p], Holders(p)>>
<1> DEFINE Same == UNCHANGED <<lock[p], Holders(p)>>
<1> USE UserFilesAssumption DEF LockInv, TypeOK, StateTyped, Placed, Holders
<1>1. ASSUME NEW c \in Clients, NEW q \in Paths, Takes(c, q) PROVE Lease(p)!Next \/ Same
  <2>1. CASE q = p
    <3>1. Lease(p)!Enter(c)
      BY <1>1, <2>1 DEF Takes, Lease!Enter, AtWork
    <3> QED
      BY <3>1 DEF Lease!Next
  <2>2. CASE q # p
    BY <1>1, <2>2 DEF Takes, AtWork
  <2> QED
    BY <2>1, <2>2
<1>2. ASSUME NEW c \in Clients, NEW q \in Paths, Leaks(c, q) PROVE Lease(p)!Next \/ Same
  <2>1. Holders(p)' = Holders(p)
    BY <1>2 DEF Leaks, AtWork
  <2>2. CASE q = p
    BY <1>2, <2>1, <2>2 DEF Leaks, Lease!Leak, Lease!Next
  <2>3. CASE q # p
    BY <1>2, <2>1, <2>3 DEF Leaks
  <2> QED
    BY <2>2, <2>3
<1>3. ASSUME NEW c \in Clients, NEW q \in Paths, Looks(c, q) PROVE Same
  BY <1>3 DEF Looks, AtWork
<1>4. ASSUME NEW c \in Clients, Release(c) PROVE Lease(p)!Next \/ Same
  <2>1. path[c] \in Paths /\ path' = path /\ pc[c] = "release"
        /\ pc' = [pc EXCEPT ![c] = "done"]
        /\ lock' = [lock EXCEPT ![path[c]] = IF @ = c THEN None ELSE @]
    BY <1>4 DEF Release, Goto, local, AtWork
  <2>2. CASE path[c] = p
    <3>1. Holders(p)' = Holders(p) \ {c}
      BY <2>1, <2>2 DEF AtWork
    <3>2. Lease(p)!Release(c)
      BY <2>1, <2>2, <3>1 DEF Lease!Release
    <3> QED
      BY <3>2 DEF Lease!Next
  <2>3. CASE path[c] # p
    BY <2>1, <2>3 DEF AtWork
  <2> QED
    BY <2>2, <2>3
<1>5. ASSUME NEW q \in Paths, Lapse(q) PROVE Lease(p)!Next \/ Same
  <2>1. Holders(p)' = Holders(p)
    BY <1>5 DEF Lapse, local
  <2>2. CASE q = p
    <3>1. Lease(p)!Free
      BY <1>5, <2>1, <2>2 DEF Lapse, Lease!Free, AtWork
    <3> QED
      BY <3>1 DEF Lease!Next
  <2>3. CASE q # p
    BY <1>5, <2>1, <2>3 DEF Lapse
  <2> QED
    BY <2>2, <2>3
<1>6. CASE GoesOn
  <2>1. PICK C \in SUBSET Clients : Holders(p)' = Holders(p) \ C
    <3>1. Holders(p)' = Holders(p) \ (Holders(p) \ Holders(p)')
      BY <1>6 DEF GoesOn
    <3> QED
      BY <3>1
  <2>2. Lease(p)!Leave(C)
    BY <1>6, <2>1 DEF GoesOn, Lease!Leave
  <2> QED
    BY <2>2 DEF Lease!Next
<1> QED
  BY <1>1, <1>2, <1>3, <1>4, <1>5, <1>6 DEF LockStep

\* The lock of every path is used within the contract that DistributedLock is
\* proved to keep.
THEOREM FilesAreLeases == Spec => FileLease
<1>1. Init => \A p \in Paths : Lease(p)!Init
  BY DEF Init, Holders, AtWork, Lease!Init
<1>2. LockInv /\ [Next]_vars =>
        [\A p \in Paths : Lease(p)!Next \/ UNCHANGED <<lock[p], Holders(p)>>]_vars
  BY LeaseStep, LockSteps DEF LockInv
<1> QED
  BY <1>1, <1>2, LockInvAlways, PTL DEF Spec, FileLease

-----------------------------------------------------------------------------
(* Rows, objects and what the clients read of them: an inductive invariant. *)

\* A path has one row (the unique index), and a writer inserts its row last.
Unsaved == {"idle", "query", "download", "folders", "make", "body", "upload", "record"}
RowsUnique == \A r, q \in Writers : rows[r] # None /\ rows[r] = rows[q] => r = q
RowsFresh ==
    \A w \in Writers : pc[w] \in Unsaved => rows[w] = None /\ \A c \in Clients : rec[c] # w

\* What the place of a client says of its notes.
Changing == {"wait", "copy", "remove", "update", "delete_object", "delete_row"}
ClientNotes(c) ==
    /\ pc[c] = "idle" => path[c] = None /\ rec[c] = None
    /\ pc[c] \notin {"release", "done", "dead"} => out[c] = "none"
    /\ pc[c] \in Changing => rec[c] # None
MoverNotes(m) ==
    /\ pc[m] = "idle" => target[m] = None
    /\ target[m] # None => target[m] # path[m]
    /\ pc[m] \in Changing => target[m] \in Paths
WriterNotes(w) ==
    /\ pc[w] \in {"idle", "query"} => base[w] = None
    /\ pc[w] \in {"folders", "make"} => rec[w] = None
    /\ pc[w] = "download" => rec[w] # None
    /\ pc[w] \in Unsaved /\ rec[w] = None => base[w] = None
NotesAt(c) ==
    ClientNotes(c) /\ (c \in Movers => MoverNotes(c)) /\ (c \in Writers => WriterNotes(c))
NotesKnown == \A c \in Clients : NotesAt(c)

\* The row a client read has gone nowhere but where a move put it.
TracedAt(c) == rec[c] # None => rows[rec[c]] \in {None, path[c]} \/ MovedTo(rows[rec[c]])
RowsTraced == \A c \in Clients : TracedAt(c)

\* What a move copied is there until somebody else works on the target.
MoversOrDeleters == Movers \cup Deleters
CopyHolds ==
    \A m \in Movers :
        /\ pc[m] = "remove" =>
              object[target[m]] = object[path[m]] \/ OthersAt(m, target[m]) \/ MovedTo(path[m])
        /\ pc[m] \in {"remove", "update"} =>
              \/ object[target[m]] # None
              \/ \E x \in MoversOrDeleters \ {m} : path[x] = target[m]

\* A listed file without content: somebody is at work on it, or what excuses it.
Excuse(x, r, p) ==
    /\ path[x] = p
    /\ \/ out[x] = "raised" \/ pc[x] = "dead"
       \/ rec[x] \notin {r, None}
       \/ \E m \in Movers \ {x} : target[m] = p /\ rec[m] = r
LossExplained ==
    /\ \A w \in Writers : pc[w] = "record" => object[path[w]] # None
    /\ \A r \in Writers, p \in Paths : rows[r] = p /\ object[p] = None =>
          \E x \in MoversOrDeleters :
              Excuse(x, r, p) \/ (path[x] = p /\ pc[x] \in {"update", "delete_row"})

FInv == /\ LockInv /\ RowsUnique /\ RowsFresh /\ NotesKnown /\ RowsTraced
        /\ SnapshotHolds /\ CopyHolds /\ LossExplained

\* A step that changes neither rows nor objects nor what a client noted.
Advances == {<<"wait", "copy">>, <<"wait", "delete_object">>, <<"folders", "make">>,
             <<"make", "body">>, <<"body", "upload">>}
QuietAt(c) ==
    \/ pc'[c] = pc[c] /\ out'[c] = out[c]
    \/ <<pc[c], pc'[c]>> \in Advances /\ out'[c] = out[c]
    \/ /\ pc[c] # "dead" /\ pc'[c] \in {"release", "done", "dead"}
       /\ pc[c] \in {"update", "delete_row"} => pc'[c] = "dead" \/ out'[c] = "raised"
       /\ out[c] = "raised" => out'[c] = "raised"
Quiet ==
    /\ UNCHANGED <<rows, object, path, target, rec, base>>
    /\ \A c \in Clients : QuietAt(c)

WriterWrites(w) ==
    WriterQuery(w) \/ WriterDownload(w) \/ WriterDownloadFault(w) \/ Upload(w) \/ Record(w)
MoverWrites(m)   == (Copy(m) /\ object[path[m]] # None) \/ Remove(m) \/ UpdatePath(m)
DeleterWrites(d) == DeleteObject(d) \/ DeleteObjectFault(d) \/ DeleteRow(d)

FileStep ==
    \/ \E p \in Paths : \/ \E c \in Writers \cup Readers : Open(c, p)
                        \/ \E m \in Movers, q \in Paths : LookUpMove(m, p, q)
                        \/ \E d \in Deleters : LookUpDelete(d, p)
    \/ \E w \in Writers : WriterWrites(w)
    \/ \E r \in Readers : ReaderStep(r)
    \/ \E m \in Movers : MoverWrites(m)
    \/ \E d \in Deleters : DeleterWrites(d)
    \/ Quiet

\* Every step of the specification is one of these.
LEMMA FileSteps == FInv /\ [Next]_vars => FileStep
<1> SUFFICES ASSUME FInv, [Next]_vars PROVE FileStep
  OBVIOUS
<1> USE DEF fileTable, local
<1>0. /\ pc = [c \in Clients |-> pc[c]] /\ out = [c \in Clients |-> out[c]]
      /\ \A c \in Clients : pc[c] \notin {"release", "done", "dead"} => out[c] = "none"
  BY DEF FInv, NotesKnown, NotesAt, ClientNotes, MoverNotes, LockInv, TypeOK, StateTyped
<1>1. ASSUME NEW c \in Clients, NEW l, UNCHANGED <<rows, object, path, target, rec, base, out>>,
             pc' = [pc EXCEPT ![c] = l], <<pc[c], l>> \in Advances
      PROVE  Quiet
  BY <1>0, <1>1 DEF Quiet, QuietAt
<1>2. ASSUME NEW c \in Clients, NEW l \in {"release", "done"}, NEW o,
             UNCHANGED <<rows, object, path, target, rec, base>>,
             pc' = [pc EXCEPT ![c] = l], out' = [out EXCEPT ![c] = o],
             pc[c] # "dead", pc[c] \in {"update", "delete_row"} => o = "raised",
             out[c] = "raised" => o = "raised"
      PROVE  Quiet
  BY <1>0, <1>2 DEF Quiet, QuietAt
<1>3. ASSUME UNCHANGED <<rows, object, path, target, rec, base, pc, out>> PROVE Quiet
  BY <1>3 DEF Quiet, QuietAt
<1>4. ASSUME NEW w \in Writers, CheckFolder(w) \/ MakeFolder(w) \/ Body(w) PROVE Quiet
  <2>1. w \in Clients
    BY DEF Clients
  <2>2. /\ UNCHANGED <<rows, object, path, target, rec, base>>
        /\ pc[w] \in {"folders", "make", "body"}
        /\ \/ UNCHANGED <<pc, out>>
           \/ \E l : Goto(w, l) /\ <<pc[w], l>> \in Advances
           \/ \E o : Leave(w, o)
    BY <1>4 DEF CheckFolder, MakeFolder, Body, Advances
  <2> QED
    BY <1>0, <1>1, <1>2, <1>3, <2>1, <2>2 DEF Goto, Leave
<1>5. ASSUME NEW c \in Clients, Enter(c, "copy") \/ Enter(c, "delete_object") PROVE Quiet
  BY <1>1, <1>5 DEF Enter, Goto, Advances
<1>6. ASSUME NEW m \in Movers, CopyFault(m) \/ (Copy(m) /\ object[path[m]] = None) PROVE Quiet
  <2>1. m \in Clients
    BY DEF Clients
  <2>2. pc[m] = "copy" /\ Leave(m, "raised") /\ UNCHANGED <<rows, object, local>>
    BY <1>6 DEF CopyFault, Copy
  <2> QED
    BY <1>0, <1>2, <2>1, <2>2 DEF Leave
<1>7. ASSUME NEW c \in Clients, Release(c) \/ ReleaseFault(c) PROVE Quiet
  <2>1. /\ UNCHANGED <<rows, object, path, target, rec, base>> /\ pc[c] = "release"
        /\ pc' = [pc EXCEPT ![c] = "done"]
        /\ out' = out \/ out' = [out EXCEPT ![c] = "raised"]
    BY <1>7 DEF Release, ReleaseFault, Goto, Ends
  <2>2. CASE out' = out
    BY <1>0, <2>1, <2>2 DEF Quiet, QuietAt
  <2>3. CASE out' = [out EXCEPT ![c] = "raised"]
    BY <1>2, <2>1, <2>3
  <2> QED
    BY <2>1, <2>2, <2>3
<1>8. ASSUME NEW c \in Clients, Fault(c) PROVE Quiet
  BY <1>0, <1>2, <1>8 DEF Fault, Leave
<1>9. ASSUME NEW c \in Clients, LookUpFault(c) \/ \E p \in Paths : AcquireFault(c, p) PROVE Quiet
  <2>1. /\ UNCHANGED <<rows, object, path, target, rec, base>> /\ pc[c] \in {"idle", "wait"}
        /\ Ends(c, "raised")
    BY <1>9 DEF LookUpFault, AcquireFault
  <2> QED
    BY <1>0, <1>2, <2>1 DEF Ends
<1>10. ASSUME NEW C \in SUBSET Clients, Crash(C) PROVE Quiet
  BY <1>0, <1>10 DEF Crash, Quiet, QuietAt
<1>11. ASSUME NEW p \in Paths, Lapse(p) PROVE Quiet
  BY <1>3, <1>11 DEF Lapse
<1>12. CASE UNCHANGED vars
  BY <1>3, <1>12 DEF vars, FileStep
<1> QED
  BY <1>4, <1>5, <1>6, <1>7, <1>8, <1>9, <1>10, <1>11, <1>12
  DEF Next, Calls, Work, Failures, WriterStep, MoverStep, DeleterStep, FileStep, WriterWrites,
      MoverWrites, DeleterWrites, Clients

\* The unique index: Record and UpdatePath put a row only where there is none.
LEMMA RowsUniqueStep == FInv /\ FileStep => RowsUnique'
<1> SUFFICES ASSUME FInv, FileStep PROVE RowsUnique'
  OBVIOUS
<1> USE UserFilesAssumption DEF FInv, LockInv, TypeOK, StateTyped, RowsUnique, fileTable
<1>1. ASSUME NEW r \in Writers, NEW p \in Paths, PutRow(r, p), RowsAt(p) \subseteq {r}
      PROVE  RowsUnique'
  BY <1>1 DEF PutRow, RowsAt
<1>2. ASSUME NEW w \in Writers, Record(w) PROVE RowsUnique'
  <2>1. path[w] \in Paths /\ rec[w] \in Writers \cup {None}
    BY <1>2 DEF Record, Placed, AtWork, Clients
  <2> QED
    BY <1>1, <1>2, <2>1 DEF Record
<1>3. ASSUME NEW m \in Movers, UpdatePath(m) PROVE RowsUnique'
  <2>1. target[m] \in Paths /\ rec[m] \in Writers
    BY <1>3 DEF UpdatePath, NotesKnown, NotesAt, ClientNotes, MoverNotes, Changing, Clients
  <2> QED
    BY <1>1, <1>3, <2>1 DEF UpdatePath
<1>4. ASSUME NEW d \in Deleters, DeleteRow(d) PROVE RowsUnique'
  BY <1>4 DEF DeleteRow, PutRow
<1>5. CASE UNCHANGED rows
  BY <1>5
<1> QED
  BY <1>2, <1>3, <1>4, <1>5 DEF FileStep, Open, LookUpMove, LookUpDelete, LookUp, WriterWrites,
     WriterQuery, WriterDownload, WriterDownloadFault, Upload, ReaderStep, ReaderQuery,
     ReaderFetch, MoverWrites, Copy, Remove, DeleterWrites, DeleteObject, DeleteObjectFault, Quiet

\* What a step does to the notes of a client: nothing, or what the code of one
\* of the queries and downloads says.
LEMMA RecordsRead ==
    ASSUME FInv, FileStep
    PROVE  \/ UNCHANGED rec
           \/ \E c \in Clients, v \in Writers \cup {None} :
                /\ pc[c] \in {"idle", "query"} /\ rec' = [rec EXCEPT ![c] = v]
                /\ v # None => rows[v] = path'[c] /\ path'[c] \in Paths
                /\ UNCHANGED <<rows, object>>
<1> USE UserFilesAssumption DEF FInv, LockInv, TypeOK, StateTyped, fileTable
<1>1. ASSUME NEW c \in Clients, NEW p \in Paths, Reads(c, p)
      PROVE  \E v \in Writers \cup {None} :
                 rec' = [rec EXCEPT ![c] = v] /\ (v # None => rows[v] = p)
  BY <1>1 DEF Reads, RowsAt
<1>2. ASSUME NEW c \in Movers \cup Deleters, NEW p \in Paths, LookUp(c, p)
      PROVE  /\ c \in Clients /\ pc[c] = "idle" /\ Reads(c, p) /\ path'[c] = p
             /\ UNCHANGED <<rows, object>>
  BY <1>2 DEF LookUp, Clients
<1>3. ASSUME NEW c \in Writers \cup Readers, WriterQuery(c) \/ ReaderQuery(c)
      PROVE  /\ c \in Clients /\ pc[c] = "query" /\ Reads(c, path[c]) /\ path'[c] = path[c]
             /\ path[c] \in Paths /\ UNCHANGED <<rows, object>>
  BY <1>3 DEF WriterQuery, ReaderQuery, Clients, Placed, AtWork
<1>4. ASSUME NEW c \in Movers \cup Deleters, NEW p \in Paths, LookUp(c, p)
      PROVE  \E d \in Clients, v \in Writers \cup {None} :
                /\ pc[d] \in {"idle", "query"} /\ rec' = [rec EXCEPT ![d] = v]
                /\ v # None => rows[v] = path'[d] /\ path'[d] \in Paths
                /\ UNCHANGED <<rows, object>>
  <2>1. PICK v \in Writers \cup {None} :
            rec' = [rec EXCEPT ![c] = v] /\ (v # None => rows[v] = p)
    BY <1>1, <1>2, <1>4
  <2>2. c \in Clients /\ pc[c] = "idle" /\ path'[c] = p /\ UNCHANGED <<rows, object>>
    BY <1>2, <1>4
  <2> QED
    BY <2>1, <2>2
<1>5. ASSUME NEW c \in Writers \cup Readers, WriterQuery(c) \/ ReaderQuery(c)
      PROVE  \E d \in Clients, v \in Writers \cup {None} :
                /\ pc[d] \in {"idle", "query"} /\ rec' = [rec EXCEPT ![d] = v]
                /\ v # None => rows[v] = path'[d] /\ path'[d] \in Paths
                /\ UNCHANGED <<rows, object>>
  <2>1. c \in Clients /\ pc[c] = "query" /\ Reads(c, path[c]) /\ path'[c] = path[c]
        /\ path[c] \in Paths /\ UNCHANGED <<rows, object>>
    BY <1>3, <1>5
  <2>2. PICK v \in Writers \cup {None} :
            rec' = [rec EXCEPT ![c] = v] /\ (v # None => rows[v] = path[c])
    BY <1>1, <2>1
  <2> QED
    BY <2>1, <2>2
<1> QED
  BY <1>4, <1>5 DEF FileStep, Open, LookUpMove, LookUpDelete, WriterWrites,
     WriterDownload, WriterDownloadFault, Upload, Record, ReaderStep,
     ReaderFetch, MoverWrites, Copy, Remove, UpdatePath, DeleterWrites, DeleteObject,
     DeleteObjectFault, DeleteRow, Quiet, local

\* The rows change in three places, each time the row its client read.
RowStep ==
    \/ UNCHANGED rows
    \/ \E w \in Writers : /\ pc[w] = "record" /\ pc' = [pc EXCEPT ![w] = "release"]
                          /\ rec[w] = None /\ PutRow(w, path[w])
    \/ \E w \in Writers : /\ pc[w] = "record" /\ pc' = [pc EXCEPT ![w] = "release"]
                          /\ rec[w] # None /\ rows[rec[w]] # None /\ PutRow(rec[w], path[w])
    \/ \E m \in Movers : pc[m] = "update" /\ rec[m] # None /\ PutRow(rec[m], target[m])
    \/ \E d \in Deleters : pc[d] = "delete_row" /\ rec[d] # None /\ PutRow(rec[d], None)

\* And no record, path, target or object changes with them.
LEMMA RowSteps == FInv /\ FileStep => RowStep /\ (UNCHANGED rows \/ UNCHANGED <<rec, path, target, object>>)
<1> SUFFICES ASSUME FInv, FileStep
             PROVE  RowStep /\ (UNCHANGED rows \/ UNCHANGED <<rec, path, target, object>>)
  OBVIOUS
<1> USE DEF fileTable, local
<1>1. ASSUME NEW w \in Writers, Record(w)
      PROVE  RowStep /\ UNCHANGED <<rec, path, target, object>>
  BY <1>1 DEF Record, Leave, RowStep
<1>2. ASSUME NEW m \in Movers, UpdatePath(m)
      PROVE  RowStep /\ UNCHANGED <<rec, path, target, object>>
  BY <1>2 DEF UpdatePath, RowStep, FInv, NotesKnown, NotesAt, ClientNotes, MoverNotes, Changing, Clients
<1>3. ASSUME NEW d \in Deleters, DeleteRow(d)
      PROVE  RowStep /\ UNCHANGED <<rec, path, target, object>>
  BY <1>3 DEF DeleteRow, RowStep, FInv, NotesKnown, NotesAt, ClientNotes, MoverNotes, Changing, Clients
<1>4. CASE UNCHANGED rows
  BY <1>4 DEF RowStep
<1> QED
  BY <1>1, <1>2, <1>3, <1>4 DEF FileStep, Open, LookUpMove, LookUpDelete, LookUp, WriterWrites,
     WriterQuery, WriterDownload, WriterDownloadFault, Upload, ReaderStep, ReaderQuery,
     ReaderFetch, MoverWrites, Copy, Remove, DeleterWrites, DeleteObject, DeleteObjectFault, Quiet

\* The notes of a client: everything it keeps.
SameNotes(c) ==
    /\ pc'[c] = pc[c] /\ out'[c] = out[c] /\ path'[c] = path[c] /\ rec'[c] = rec[c]
    /\ c \in Movers => target'[c] = target[c]
    /\ c \in Writers \cup Readers => base'[c] = base[c]

\* Where a client is and what it noted agree after every step.
LEMMA NotesStep == FInv /\ FileStep => NotesKnown'
<1> SUFFICES ASSUME FInv, FileStep PROVE NotesKnown'
  OBVIOUS
<1> USE UserFilesAssumption DEF NotesAt, ClientNotes, MoverNotes, WriterNotes, Unsaved, Changing
<1>0. /\ pc = [c \in Clients |-> pc[c]] /\ out = [c \in Clients |-> out[c]]
      /\ path = [c \in Clients |-> path[c]] /\ rec = [c \in Clients |-> rec[c]]
      /\ target = [m \in Movers |-> target[m]] /\ base = [c \in Writers \cup Readers |-> base[c]]
  BY DEF FInv, LockInv, TypeOK, StateTyped
<1>N. NotesKnown
  BY DEF FInv
<1>R. ASSUME NEW c, NEW p, Reads(c, p)
      PROVE  \E v : rec' = [rec EXCEPT ![c] = v] /\ (v = None <=> RowsAt(p) = {})
  BY <1>R DEF Reads, RowsAt, Clients
<1>A. ASSUME NEW d \in Clients, NotesAt(d)', \A c \in Clients \ {d} : SameNotes(c)
      PROVE  NotesKnown'
  <2> SUFFICES ASSUME NEW c \in Clients \ {d} PROVE NotesAt(c)'
    BY <1>A DEF NotesKnown
  <2> QED
    BY <1>N, <1>A DEF NotesKnown, SameNotes
<1>1. ASSUME NEW p \in Paths, NEW c \in Writers \cup Readers, Open(c, p) PROVE NotesKnown'
  <2>1. c \in Clients /\ NotesAt(c) /\ c \notin Movers
    BY <1>N DEF NotesKnown, Clients
  <2>2. \A x \in Clients \ {c} : SameNotes(x)
    BY <1>0, <1>1, <2>1 DEF Open, Goto, SameNotes
  <2>3. NotesAt(c)'
    BY <1>0, <1>1, <2>1 DEF Open, Goto
  <2> QED
    BY <1>A, <2>1, <2>2, <2>3
<1>2. ASSUME NEW p \in Paths, NEW c \in Movers \cup Deleters, LookUp(c, p),
             \/ UNCHANGED target
             \/ c \in Movers /\ \E q \in Paths \ {p} : target' = [target EXCEPT ![c] = q],
             c \in Movers => \E q \in Paths \ {p} : target' = [target EXCEPT ![c] = q]
      PROVE  NotesKnown'
  <2>1. c \in Clients /\ NotesAt(c) /\ c \notin Writers
    BY <1>N DEF NotesKnown, Clients
  <2>2. PICK v : rec' = [rec EXCEPT ![c] = v]
                 /\ ((v # None /\ Goto(c, "wait")) \/ Ends(c, "missing"))
    BY <1>R, <1>2 DEF LookUp
  <2>3. path' = [path EXCEPT ![c] = p] /\ UNCHANGED base
    BY <1>2 DEF LookUp
  <2>4. \A x \in Clients \ {c} : SameNotes(x)
    BY <1>0, <1>2, <2>1, <2>2, <2>3 DEF Goto, Ends, SameNotes
  <2>5. c \in Movers => target'[c] \in Paths \ {p}
    BY <1>0, <1>2
  <2>6. NotesAt(c)'
    <3>1. /\ path'[c] = p /\ rec'[c] = v
          /\ \/ v # None /\ pc'[c] = "wait" /\ out'[c] = out[c]
             \/ pc'[c] = "done"
      BY <1>0, <2>1, <2>2, <2>3 DEF Goto, Ends
    <3>2. pc[c] = "idle"
      BY <1>2 DEF LookUp
    <3> QED
      BY <2>1, <2>5, <3>1, <3>2
  <2> QED
    BY <1>A, <2>1, <2>4, <2>6
<1>3. ASSUME NEW p \in Paths, NEW d \in Deleters, LookUpDelete(d, p) PROVE NotesKnown'
  BY <1>2, <1>3 DEF LookUpDelete
<1>4. ASSUME NEW p \in Paths, NEW q \in Paths, NEW m \in Movers, LookUpMove(m, p, q)
      PROVE  NotesKnown'
  BY <1>2, <1>4 DEF LookUpMove
<1>5. ASSUME NEW w \in Writers, WriterQuery(w) PROVE NotesKnown'
  <2>1. w \in Clients /\ NotesAt(w) /\ w \notin Movers
    BY <1>N DEF NotesKnown, Clients
  <2>2. PICK v : /\ rec' = [rec EXCEPT ![w] = v]
                 /\ \/ v # None /\ Goto(w, "download")
                    \/ v = None /\ Goto(w, "folders")
                    \/ Leave(w, "raised")
    BY <1>R, <1>5 DEF WriterQuery
  <2>3. UNCHANGED <<path, target, base>> /\ pc[w] = "query"
    BY <1>5 DEF WriterQuery
  <2>4. \A x \in Clients \ {w} : SameNotes(x)
    BY <1>0, <2>1, <2>2, <2>3 DEF Goto, Leave, SameNotes
  <2>5. NotesAt(w)'
    BY <1>0, <2>1, <2>2, <2>3 DEF Goto, Leave
  <2> QED
    BY <1>A, <2>1, <2>4, <2>5
<1>6. ASSUME NEW w \in Writers, WriterDownload(w) \/ WriterDownloadFault(w) PROVE NotesKnown'
  <2>1. w \in Clients /\ NotesAt(w) /\ w \notin Movers
    BY <1>N DEF NotesKnown, Clients
  <2>2. \A x \in Clients \ {w} : SameNotes(x)
    BY <1>0, <1>6, <2>1 DEF WriterDownload, WriterDownloadFault, Goto, SameNotes
  <2>3. NotesAt(w)'
    BY <1>0, <1>6, <2>1 DEF WriterDownload, WriterDownloadFault, Goto
  <2> QED
    BY <1>A, <2>1, <2>2, <2>3
\* the other writes leave the notes alone and move on
<1>7. ASSUME NEW d \in Clients, UNCHANGED <<path, target, rec, base>>,
             \/ \E o : Leave(d, o)
             \/ \E l : /\ Goto(d, l)
                       /\ <<pc[d], l>> \in {<<"upload", "record">>, <<"copy", "remove">>,
                              <<"remove", "update">>, <<"delete_object", "delete_row">>}
      PROVE  NotesKnown'
  <2>1. NotesAt(d)
    BY <1>N DEF NotesKnown
  <2>2. \A x \in Clients \ {d} : SameNotes(x)
    BY <1>0, <1>7 DEF Goto, Leave, SameNotes
  <2>3. NotesAt(d)'
    BY <1>0, <1>7, <2>1 DEF Goto, Leave
  <2> QED
    BY <1>A, <2>2, <2>3
<1>8. ASSUME NEW w \in Writers, Upload(w) \/ Record(w) PROVE NotesKnown'
  BY <1>7, <1>8 DEF Upload, Record, Clients, local
<1>9. ASSUME NEW m \in Movers, MoverWrites(m) PROVE NotesKnown'
  BY <1>7, <1>9 DEF MoverWrites, Copy, Remove, UpdatePath, Clients, local
<1>10. ASSUME NEW d \in Deleters, DeleterWrites(d) PROVE NotesKnown'
  BY <1>7, <1>10 DEF DeleterWrites, DeleteObject, DeleteObjectFault, DeleteRow, Clients, local
<1>11. ASSUME NEW r \in Readers, ReaderQuery(r) \/ ReaderFetch(r) PROVE NotesKnown'
  <2>1. r \in Clients /\ NotesAt(r) /\ r \notin Movers /\ r \notin Writers
    BY <1>N DEF NotesKnown, Clients
  <2>2. /\ UNCHANGED <<path, target>>
        /\ Goto(r, "fetch") \/ \E o : Leave(r, o)
        /\ UNCHANGED rec \/ \E v : rec' = [rec EXCEPT ![r] = v]
        /\ UNCHANGED base \/ \E v : base' = [base EXCEPT ![r] = v]
        /\ pc[r] \in {"query", "fetch"}
    BY <1>11 DEF ReaderQuery, ReaderFetch, Reads
  <2>3. \A x \in Clients \ {r} : SameNotes(x)
    BY <1>0, <2>1, <2>2 DEF Goto, Leave, SameNotes
  <2>4. NotesAt(r)'
    BY <1>0, <2>1, <2>2 DEF Goto, Leave
  <2> QED
    BY <1>A, <2>1, <2>3, <2>4
<1>12. CASE Quiet
  <2> SUFFICES ASSUME NEW c \in Clients PROVE NotesAt(c)'
    BY DEF NotesKnown
  <2> QED
    BY <1>N, <1>12 DEF NotesKnown, Quiet, QuietAt, Advances
<1> QED
  BY <1>1, <1>3, <1>4, <1>5, <1>6, <1>8, <1>9, <1>10, <1>11, <1>12
  DEF FileStep, WriterWrites, ReaderStep

\* A writer that has not saved stays unknown to everybody.
LEMMA RowsFreshStep == FInv /\ FileStep => RowsFresh'
<1> SUFFICES ASSUME FInv, FileStep PROVE RowsFresh'
  OBVIOUS
<1> USE UserFilesAssumption DEF RowsFresh
<1>0. /\ RowsFresh /\ rows \in [Writers -> Paths \cup {None}]
      /\ rec \in [Clients -> Writers \cup {None}] /\ Writers \subseteq Clients
      /\ pc = [c \in Clients |-> pc[c]]
  BY DEF FInv, LockInv, TypeOK, StateTyped, Clients
<1>1. ASSUME NEW w \in Writers, pc'[w] \in Unsaved PROVE pc[w] \in Unsaved
  <2>1. ASSUME NEW d \in Clients, d # w, NEW l, Goto(d, l) \/ \E o : Leave(d, o) \/ Ends(d, o)
        PROVE  pc'[w] = pc[w]
    BY <1>0, <2>1 DEF Goto, Leave, Ends
  <2>2. ASSUME NEW d \in (Writers \ {w}) \cup Readers,
               (\E p \in Paths : Open(d, p)) \/ WriterWrites(d) \/ ReaderStep(d)
        PROVE  pc'[w] = pc[w]
    BY <2>1, <2>2 DEF Open, WriterWrites, WriterQuery, WriterDownload, WriterDownloadFault, Upload,
       Record, ReaderStep, ReaderQuery, ReaderFetch, Clients
  <2>3. ASSUME NEW d \in Movers \cup Deleters,
               (\E p \in Paths : LookUp(d, p)) \/ MoverWrites(d) \/ DeleterWrites(d)
        PROVE  pc'[w] = pc[w]
    BY <2>1, <2>3 DEF LookUp, MoverWrites, Copy, Remove, UpdatePath, DeleterWrites, DeleteObject,
       DeleteObjectFault, DeleteRow, Clients
  <2>4. ASSUME (\E p \in Paths : Open(w, p)) \/ WriterWrites(w) PROVE pc[w] \in Unsaved
    BY <2>4 DEF Open, WriterWrites, WriterQuery, WriterDownload, WriterDownloadFault, Upload,
       Record, Unsaved
  <2>5. CASE Quiet
    BY <1>0, <1>1, <2>5 DEF Quiet, QuietAt, Advances, Unsaved
  <2> QED
    BY <1>1, <2>2, <2>3, <2>4, <2>5 DEF FileStep, LookUpMove, LookUpDelete
<1>2. CASE UNCHANGED rows
  <2>1. CASE UNCHANGED rec
    BY <1>0, <1>1, <1>2, <2>1
  <2>2. CASE ~ UNCHANGED rec
    <3>1. PICK c \in Clients, v \in Writers \cup {None} :
              rec' = [rec EXCEPT ![c] = v] /\ (v # None => rows[v] # None)
      BY <2>2, RecordsRead
    <3> QED
      BY <1>0, <1>1, <1>2, <3>1
  <2> QED
    BY <2>1, <2>2
<1>3. CASE UNCHANGED rec /\ ~ UNCHANGED rows
  <2>1. RowStep
    BY RowSteps
  <2>2. ASSUME NEW w \in Writers, pc[w] = "record", pc' = [pc EXCEPT ![w] = "release"],
               PutRow(w, path[w])
        PROVE  RowsFresh'
    BY <1>0, <1>1, <1>3, <2>2 DEF PutRow, Unsaved
  <2>3. ASSUME NEW c \in Clients, NEW p, rec[c] # None, PutRow(rec[c], p) PROVE RowsFresh'
    BY <1>0, <1>1, <1>3, <2>3 DEF PutRow
  <2> QED
    BY <1>3, <2>1, <2>2, <2>3 DEF RowStep, Clients
<1> QED
  BY <1>2, <1>3, RowSteps

\* A path that a move has chosen as its target stays one.
LEMMA TargetsStay ==
    ASSUME FInv, FileStep
    PROVE  /\ \A p \in Paths : MovedTo(p) => MovedTo(p)'
           /\ \A m \in Movers : target[m] # None => target'[m] = target[m] /\ rec'[m] = rec[m]
           /\ \A c \in Clients : path[c] # None => path'[c] = path[c]
<1> USE UserFilesAssumption
<1>0. /\ target \in [Movers -> Paths \cup {None}] /\ rec = [c \in Clients |-> rec[c]]
      /\ path = [c \in Clients |-> path[c]] /\ NotesKnown /\ Movers \subseteq Clients
  BY DEF FInv, LockInv, TypeOK, StateTyped, Clients
<1>1. \A m \in Movers : target[m] # None => target'[m] = target[m]
  BY <1>0 DEF FileStep, Open, LookUpMove, LookUpDelete, LookUp, WriterWrites, WriterQuery,
     WriterDownload, WriterDownloadFault, Upload, Record, ReaderStep, ReaderQuery, ReaderFetch,
     MoverWrites, Copy, Remove, UpdatePath, DeleterWrites, DeleteObject, DeleteObjectFault,
     DeleteRow, Quiet, NotesKnown, NotesAt, MoverNotes, local
<1>2. \A c \in Clients : path[c] # None => path'[c] = path[c]
  BY <1>0 DEF FileStep, Open, LookUpMove, LookUpDelete, LookUp, WriterWrites, WriterQuery,
     WriterDownload, WriterDownloadFault, Upload, Record, ReaderStep, ReaderQuery, ReaderFetch,
     MoverWrites, Copy, Remove, UpdatePath, DeleterWrites, DeleteObject, DeleteObjectFault,
     DeleteRow, Quiet, NotesKnown, NotesAt, ClientNotes, MoverNotes, local, Clients
<1>3. \A m \in Movers : target[m] # None => rec'[m] = rec[m]
  <2>1. ASSUME NEW m \in Movers, NEW c \in Clients, pc[c] \in {"idle", "query"}, target[m] # None
        PROVE  c # m \/ pc[m] = "query"
    BY <1>0, <2>1 DEF NotesKnown, NotesAt, ClientNotes, MoverNotes
  <2>2. CASE UNCHANGED rec
    BY <2>2
  <2>3. CASE \E c \in Writers \cup Readers : \E v : rec' = [rec EXCEPT ![c] = v]
    BY <1>0, <2>3 DEF Clients
  <2>4. CASE \E c \in Clients : \E v : pc[c] = "idle" /\ rec' = [rec EXCEPT ![c] = v]
    BY <1>0, <2>4 DEF NotesKnown, NotesAt, ClientNotes, MoverNotes
  <2>5. ASSUME NEW c, NEW p, Reads(c, p) PROVE \E v : rec' = [rec EXCEPT ![c] = v]
    BY <2>5 DEF Reads
  <2> QED
    BY <2>2, <2>3, <2>4, <2>5 DEF FileStep, Open, LookUpMove, LookUpDelete, LookUp, WriterWrites,
       WriterQuery, WriterDownload, WriterDownloadFault, Upload, Record, ReaderStep, ReaderQuery,
       ReaderFetch, MoverWrites, Copy, Remove, UpdatePath, DeleterWrites, DeleteObject,
       DeleteObjectFault, DeleteRow, Quiet, local, Clients
<1>4. ASSUME NEW p \in Paths, MovedTo(p) PROVE MovedTo(p)'
  BY <1>1, <1>4 DEF MovedTo
<1> QED
  BY <1>1, <1>2, <1>3, <1>4

\* A row moves only to the target of a move: a writer puts its row back where it
\* read it, unless a move came to its path.
LEMMA RowsTracedStep == FInv /\ FileStep => RowsTraced'
<1> SUFFICES ASSUME FInv, FileStep PROVE RowsTraced'
  OBVIOUS
<1> USE UserFilesAssumption
<1>0. /\ rows = [w \in Writers |-> rows[w]] /\ rows \in [Writers -> Paths \cup {None}]
      /\ rec = [c \in Clients |-> rec[c]] /\ rec \in [Clients -> Writers \cup {None}]
      /\ Writers \subseteq Clients /\ RowsTraced /\ Movers \subseteq Clients
      /\ target \in [Movers -> Paths \cup {None}]
  BY DEF FInv, LockInv, TypeOK, StateTyped, Clients
<1>1. /\ \A p \in Paths : MovedTo(p) => MovedTo(p)'
      /\ \A m \in Movers : target[m] # None => target'[m] = target[m]
      /\ \A c \in Clients : path[c] # None => path'[c] = path[c]
  BY TargetsStay
<1>2. ASSUME NEW c \in Clients, rec'[c] = rec[c], UNCHANGED rows, rec[c] # None
      PROVE  TracedAt(c)'
  <2>1. rows[rec[c]] \in {None, path[c]} \/ MovedTo(rows[rec[c]])
    BY <1>0, <1>2 DEF RowsTraced, TracedAt
  <2>2. rows[rec[c]] \in Paths \cup {None}
    BY <1>0, <1>2
  <2>3. CASE rows[rec[c]] = None
    BY <1>2, <2>3 DEF TracedAt
  <2>4. CASE rows[rec[c]] \in Paths /\ rows[rec[c]] = path[c]
    BY <1>1, <1>2, <2>4 DEF TracedAt
  <2>5. CASE rows[rec[c]] \in Paths /\ MovedTo(rows[rec[c]])
    <3>1. PICK m \in Movers : target[m] = rows[rec[c]]
      BY <2>5 DEF MovedTo
    <3>2. target'[m] = rows[rec[c]]
      BY <1>1, <2>5, <3>1
    <3>3. \E x \in Movers : target'[x] = rows'[rec'[c]]
      BY <1>2, <3>2
    <3> QED
      BY <3>3 DEF TracedAt, MovedTo
  <2> QED
    BY <2>1, <2>2, <2>3, <2>4, <2>5
<1>3. CASE UNCHANGED rows /\ UNCHANGED rec
  BY <1>2, <1>3 DEF RowsTraced, TracedAt
<1>4. CASE UNCHANGED rows /\ ~ UNCHANGED rec
  <2>1. PICK d \in Clients, v \in Writers \cup {None} :
            rec' = [rec EXCEPT ![d] = v] /\ (v # None => rows[v] = path'[d])
    BY <1>4, RecordsRead
  <2> SUFFICES ASSUME NEW c \in Clients, rec'[c] # None PROVE TracedAt(c)'
    BY DEF RowsTraced, TracedAt
  <2>2. CASE c = d
    BY <1>0, <1>4, <2>1, <2>2 DEF TracedAt
  <2>3. CASE c # d
    BY <1>0, <1>2, <1>4, <2>1, <2>3
  <2> QED
    BY <2>2, <2>3
<1>5. CASE ~ UNCHANGED rows
  <2>1. RowStep /\ UNCHANGED <<rec, path, target>>
    BY <1>5, RowSteps
  <2>2. ASSUME NEW r \in Writers, NEW p \in Paths \cup {None}, PutRow(r, p),
               \/ p = None \/ MovedTo(p) \/ rows[r] = p
               \/ \A c \in Clients : rec[c] # r
        PROVE  RowsTraced'
    <3> SUFFICES ASSUME NEW c \in Clients, rec[c] # None
                 PROVE  rows'[rec[c]] \in {None, path[c]} \/ MovedTo(rows'[rec[c]])
      BY <2>1 DEF RowsTraced, TracedAt, MovedTo
    <3>1. rows[rec[c]] \in {None, path[c]} \/ MovedTo(rows[rec[c]])
      BY <1>0 DEF RowsTraced, TracedAt
    <3>2. rec[c] \in Writers /\ rows' = [rows EXCEPT ![r] = p]
      BY <1>0, <2>2 DEF PutRow
    <3>3. rows'[rec[c]] = rows[rec[c]] \/ (rec[c] = r /\ rows'[rec[c]] = p)
      BY <1>0, <3>2
    <3> QED
      BY <2>2, <3>1, <3>3
  <2>3. ASSUME NEW w \in Writers, pc[w] = "record", rec[w] = None, PutRow(w, path[w])
        PROVE  RowsTraced'
    <3>1. \A c \in Clients : rec[c] # w
      BY <2>3 DEF FInv, RowsFresh, Unsaved
    <3>2. path[w] \in Paths
      BY <1>0, <2>3 DEF FInv, LockInv, Placed, AtWork
    <3> QED
      BY <2>2, <2>3, <3>1, <3>2
  <2>4. ASSUME NEW w \in Writers, pc[w] = "record", rec[w] # None, PutRow(rec[w], path[w])
        PROVE  RowsTraced'
    <3>1. path[w] \in Paths /\ rec[w] \in Writers
      BY <1>0, <2>4 DEF FInv, LockInv, Placed, AtWork
    <3>2. MovedTo(path[w]) \/ RowsAt(path[w]) = {rec[w]} \ {None}
      BY <2>4 DEF FInv, SnapshotHolds
    <3>3. MovedTo(path[w]) \/ rows[rec[w]] = path[w]
      BY <2>4, <3>2 DEF RowsAt
    <3> QED
      BY <2>2, <2>4, <3>1, <3>3
  <2>5. ASSUME NEW m \in Movers, rec[m] # None, PutRow(rec[m], target[m]) PROVE RowsTraced'
    <3>1. rec[m] \in Writers /\ target[m] \in Paths \cup {None} /\ MovedTo(target[m])
      BY <1>0, <2>5 DEF MovedTo
    <3> QED
      BY <2>2, <2>5, <3>1
  <2>6. ASSUME NEW d \in Deleters, rec[d] # None, PutRow(rec[d], None) PROVE RowsTraced'
    <3>1. rec[d] \in Writers
      BY <1>0, <2>6 DEF Clients
    <3> QED
      BY <2>2, <2>6, <3>1
  <2> QED
    BY <1>5, <2>1, <2>3, <2>4, <2>5, <2>6 DEF RowStep
<1> QED
  BY <1>3, <1>4, <1>5

-----------------------------------------------------------------------------
(* One client acts, the others keep their notes. *)

OwnStep(c) ==
    \/ c \in Writers \cup Readers /\ \E p \in Paths : Open(c, p)
    \/ c \in Writers /\ WriterWrites(c)
    \/ c \in Readers /\ ReaderStep(c)
    \/ c \in Movers /\ (MoverWrites(c) \/ \E p \in Paths, q \in Paths : LookUpMove(c, p, q))
    \/ c \in Deleters /\ (DeleterWrites(c) \/ \E p \in Paths : LookUpDelete(c, p))
OneActs == \E d \in Clients : OwnStep(d) /\ \A c \in Clients \ {d} : SameNotes(c)
Keeps(c) ==
    /\ QuietAt(c) /\ path'[c] = path[c] /\ rec'[c] = rec[c]
    /\ c \in Movers => target'[c] = target[c]
    /\ c \in Writers \cup Readers => base'[c] = base[c]

\* A step of a client of one kind is one of its actions, and names no other client.
LEMMA OneActsOrQuiet == FInv /\ FileStep => OneActs \/ Quiet
<1> SUFFICES ASSUME FInv, FileStep, ~ Quiet PROVE OneActs
  OBVIOUS
<1> USE UserFilesAssumption
<1>0. /\ pc = [c \in Clients |-> pc[c]] /\ out = [c \in Clients |-> out[c]]
      /\ path = [c \in Clients |-> path[c]] /\ rec = [c \in Clients |-> rec[c]]
      /\ target = [m \in Movers |-> target[m]] /\ base = [c \in Writers \cup Readers |-> base[c]]
  BY DEF FInv, LockInv, TypeOK, StateTyped
<1>1. ASSUME NEW d \in Clients,
             pc' = pc \/ \E l : pc' = [pc EXCEPT ![d] = l],
             out' = out \/ \E o : out' = [out EXCEPT ![d] = o],
             path' = path \/ \E p : path' = [path EXCEPT ![d] = p],
             rec' = rec \/ \E r : rec' = [rec EXCEPT ![d] = r],
             target' = target \/ \E p : target' = [target EXCEPT ![d] = p],
             base' = base \/ \E v : base' = [base EXCEPT ![d] = v]
      PROVE  \A c \in Clients \ {d} : SameNotes(c)
  BY <1>0, <1>1 DEF SameNotes
<1>2. ASSUME NEW d, NEW l, Goto(d, l)
      PROVE  /\ \E k : pc' = [pc EXCEPT ![d] = k]
             /\ out' = out
  BY <1>2 DEF Goto
<1>3. ASSUME NEW d, NEW o, Leave(d, o) \/ Ends(d, o)
      PROVE  /\ \E k : pc' = [pc EXCEPT ![d] = k]
             /\ \E k : out' = [out EXCEPT ![d] = k]
  BY <1>3 DEF Leave, Ends
<1>4. ASSUME NEW d, NEW p, Reads(d, p) PROVE \E r : rec' = [rec EXCEPT ![d] = r]
  BY <1>4 DEF Reads
<1>5. ASSUME NEW d \in Writers \cup Readers, NEW p \in Paths, Open(d, p)
      PROVE  OneActs
  BY <1>1, <1>2, <1>5 DEF Open, OneActs, OwnStep, Clients
<1>6. ASSUME NEW d \in Movers \cup Deleters, NEW p \in Paths, LookUp(d, p),
             target' = target \/ \E q : target' = [target EXCEPT ![d] = q], OwnStep(d)
      PROVE  OneActs
  <2>1. d \in Clients
    BY DEF Clients
  <2>2. \A c \in Clients \ {d} : SameNotes(c)
    BY <1>1, <1>2, <1>3, <1>4, <1>6, <2>1 DEF LookUp
  <2> QED
    BY <1>6, <2>1, <2>2 DEF OneActs
<1>7. ASSUME NEW m \in Movers, NEW p \in Paths, NEW q \in Paths, LookUpMove(m, p, q)
      PROVE  OneActs
  BY <1>6, <1>7 DEF LookUpMove, OwnStep
<1>8. ASSUME NEW d \in Deleters, NEW p \in Paths, LookUpDelete(d, p) PROVE OneActs
  BY <1>6, <1>8 DEF LookUpDelete, OwnStep
<1>9. ASSUME NEW w \in Writers, WriterWrites(w) PROVE OneActs
  <2>1. w \in Clients
    BY DEF Clients
  <2>2. CASE WriterQuery(w)
    <3>1. \A c \in Clients \ {w} : SameNotes(c)
      BY <1>1, <1>2, <1>3, <1>4, <2>1, <2>2 DEF WriterQuery
    <3> QED
      BY <1>9, <2>1, <3>1 DEF OneActs, OwnStep
  <2>3. CASE WriterDownload(w) \/ WriterDownloadFault(w)
    <3>1. \A c \in Clients \ {w} : SameNotes(c)
      BY <1>1, <1>2, <2>1, <2>3 DEF WriterDownload, WriterDownloadFault
    <3> QED
      BY <1>9, <2>1, <3>1 DEF OneActs, OwnStep
  <2>4. CASE Upload(w) \/ Record(w)
    <3>1. \A c \in Clients \ {w} : SameNotes(c)
      BY <1>1, <1>2, <1>3, <2>1, <2>4 DEF Upload, Record, local
    <3> QED
      BY <1>9, <2>1, <3>1 DEF OneActs, OwnStep
  <2> QED
    BY <1>9, <2>2, <2>3, <2>4 DEF WriterWrites
<1>10. ASSUME NEW r \in Readers, ReaderStep(r) PROVE OneActs
  <2>1. r \in Clients
    BY DEF Clients
  <2>2. CASE ReaderQuery(r)
    <3>1. \A c \in Clients \ {r} : SameNotes(c)
      BY <1>1, <1>2, <1>3, <1>4, <2>1, <2>2 DEF ReaderQuery
    <3> QED
      BY <1>10, <2>1, <3>1 DEF OneActs, OwnStep
  <2>3. CASE ReaderFetch(r)
    <3>1. \A c \in Clients \ {r} : SameNotes(c)
      BY <1>1, <1>3, <2>1, <2>3 DEF ReaderFetch
    <3> QED
      BY <1>10, <2>1, <3>1 DEF OneActs, OwnStep
  <2> QED
    BY <1>10, <2>2, <2>3 DEF ReaderStep
<1>11. ASSUME NEW m \in Movers, MoverWrites(m) PROVE OneActs
  <2>1. m \in Clients
    BY DEF Clients
  <2>2. \A c \in Clients \ {m} : SameNotes(c)
    BY <1>1, <1>2, <1>3, <1>11, <2>1 DEF MoverWrites, Copy, Remove, UpdatePath, local
  <2> QED
    BY <1>11, <2>1, <2>2 DEF OneActs, OwnStep
<1>12. ASSUME NEW d \in Deleters, DeleterWrites(d) PROVE OneActs
  <2>1. d \in Clients
    BY DEF Clients
  <2>2. \A c \in Clients \ {d} : SameNotes(c)
    BY <1>1, <1>2, <1>3, <1>12, <2>1
    DEF DeleterWrites, DeleteObject, DeleteObjectFault, DeleteRow, local
  <2> QED
    BY <1>12, <2>1, <2>2 DEF OneActs, OwnStep
<1> QED
  BY <1>5, <1>7, <1>8, <1>9, <1>10, <1>11, <1>12 DEF FileStep

\* So a client acts itself or keeps what it knows.
LEMMA ActsOrKeeps ==
    ASSUME FInv, FileStep, NEW c \in Clients
    PROVE  OwnStep(c) \/ Keeps(c)
BY OneActsOrQuiet DEF OneActs, Quiet, SameNotes, QuietAt, Keeps

\* The objects change in four places.
ObjectStep ==
    \/ UNCHANGED object
    \/ \E w \in Writers : pc[w] = "upload" /\ Upload(w)
    \/ \E m \in Movers : pc[m] = "copy" /\ Copy(m) /\ object[path[m]] # None
    \/ \E m \in Movers : pc[m] = "remove" /\ Remove(m)
    \/ \E d \in Deleters : pc[d] = "delete_object" /\ DeleteObject(d)

\* An object changes by one of these, and then no row and no note does.
LEMMA ObjectSteps ==
    FileStep => ObjectStep /\ (UNCHANGED object \/ UNCHANGED <<rows, rec, path, target, base>>)
<1> SUFFICES ASSUME FileStep, ~ UNCHANGED object
             PROVE  ObjectStep /\ UNCHANGED <<rows, rec, path, target, base>>
  BY DEF ObjectStep
<1> USE DEF fileTable, local
<1>1. ASSUME NEW w \in Writers, Upload(w)
      PROVE  ObjectStep /\ UNCHANGED <<rows, rec, path, target, base>>
  BY <1>1 DEF Upload, ObjectStep
<1>2. ASSUME NEW m \in Movers, MoverWrites(m)
      PROVE  ObjectStep /\ UNCHANGED <<rows, rec, path, target, base>>
  BY <1>2 DEF MoverWrites, Copy, Remove, UpdatePath, ObjectStep
<1>3. ASSUME NEW d \in Deleters, DeleteObject(d)
      PROVE  ObjectStep /\ UNCHANGED <<rows, rec, path, target, base>>
  BY <1>3 DEF DeleteObject, ObjectStep
<1> QED
  BY <1>1, <1>2, <1>3 DEF FileStep, Open, LookUpMove, LookUpDelete, LookUp, WriterWrites,
     WriterQuery, WriterDownload, WriterDownloadFault, Record, ReaderStep, ReaderQuery,
     ReaderFetch, DeleterWrites, DeleteObjectFault, DeleteRow, Quiet

\* Two clients at work never work on one path: each holds the lock of its own.
LEMMA WorkApart ==
    ASSUME LockInv, NEW c \in Clients, NEW d \in Clients, pc[c] \in AtWork, pc[d] \in AtWork,
           path[c] = path[d]
    PROVE  c = d /\ path[c] \in Paths
BY DEF LockInv, HolderAtWork, Placed

-----------------------------------------------------------------------------
(* What a writer read stays true. *)

Editing == {"download", "folders", "make", "body", "upload", "record"}

\* The rows of a path stand while a writer works on it: the others that change
\* rows work on other paths, and their rows were not read here.
LEMMA RowsStand ==
    ASSUME FInv, RowStep, UNCHANGED rows \/ UNCHANGED <<rec, path, target>>,
           NEW w \in Writers, pc[w] \in Editing, pc'[w] \in Editing, ~ MovedTo(path[w])
    PROVE  \A r \in Writers : rows'[r] = path[w] <=> rows[r] = path[w]
<1> USE UserFilesAssumption DEF Clients
<1>0. /\ rows = [r \in Writers |-> rows[r]] /\ rows \in [Writers -> Paths \cup {None}]
      /\ rec \in [Clients -> Writers \cup {None}] /\ pc = [c \in Clients |-> pc[c]]
      /\ LockInv /\ RowsTraced /\ RowsFresh /\ w \in Clients /\ pc[w] \in AtWork
  BY DEF FInv, LockInv, TypeOK, StateTyped, Editing, AtWork
<1>1. path[w] \in Paths
  BY <1>0 DEF LockInv, Placed
<1>2. ASSUME NEW c \in Clients, c # w, pc[c] \in AtWork, rec[c] # None, NEW p, p # path[w],
             PutRow(rec[c], p)
      PROVE  \A r \in Writers : rows'[r] = path[w] <=> rows[r] = path[w]
  <2>1. path[c] # path[w]
    BY <1>0, <1>2, WorkApart
  <2>2. rec[c] \in Writers /\ rows' = [rows EXCEPT ![rec[c]] = p]
    BY <1>0, <1>2 DEF PutRow
  <2>3. rows[rec[c]] # path[w]
    BY <1>0, <1>1, <1>2, <2>1 DEF RowsTraced, TracedAt
  <2> QED
    BY <1>0, <1>2, <2>2, <2>3
<1>3. ASSUME NEW d \in Writers, pc[d] = "record", pc' = [pc EXCEPT ![d] = "release"]
      PROVE  d # w /\ pc[d] \in AtWork /\ path[d] # path[w]
  <2>1. d # w /\ pc[d] \in AtWork
    BY <1>0, <1>3 DEF Editing, AtWork
  <2> QED
    BY <1>0, <2>1, WorkApart
<1>4. ASSUME NEW d \in Writers, pc[d] = "record", pc' = [pc EXCEPT ![d] = "release"],
             rec[d] = None, PutRow(d, path[d])
      PROVE  \A r \in Writers : rows'[r] = path[w] <=> rows[r] = path[w]
  <2>1. path[d] # path[w]
    BY <1>3, <1>4
  <2>2. rows[d] = None
    BY <1>0, <1>4 DEF RowsFresh, Unsaved
  <2> QED
    BY <1>0, <1>1, <1>4, <2>1, <2>2 DEF PutRow
<1>5. ASSUME NEW d \in Writers, pc[d] = "record", pc' = [pc EXCEPT ![d] = "release"],
             rec[d] # None, PutRow(rec[d], path[d])
      PROVE  \A r \in Writers : rows'[r] = path[w] <=> rows[r] = path[w]
  BY <1>2, <1>3, <1>5
<1>6. ASSUME NEW m \in Movers, pc[m] = "update", rec[m] # None, PutRow(rec[m], target[m])
      PROVE  \A r \in Writers : rows'[r] = path[w] <=> rows[r] = path[w]
  <2>1. m # w /\ pc[m] \in AtWork /\ target[m] # path[w]
    BY <1>6 DEF AtWork, MovedTo
  <2> QED
    BY <1>2, <1>6, <2>1
<1>7. ASSUME NEW d \in Deleters, pc[d] = "delete_row", rec[d] # None, PutRow(rec[d], None)
      PROVE  \A r \in Writers : rows'[r] = path[w] <=> rows[r] = path[w]
  <2>1. d # w /\ pc[d] \in AtWork /\ None # path[w]
    BY <1>1, <1>7 DEF AtWork
  <2> QED
    BY <1>2, <1>7, <2>1
<1> QED
  BY <1>4, <1>5, <1>6, <1>7 DEF RowStep

\* So does its object.
LEMMA ObjectStands ==
    ASSUME FInv, ObjectStep, NEW w \in Writers, pc[w] \in {"body", "upload"},
           pc'[w] \in {"body", "upload"}, ~ MovedTo(path[w])
    PROVE  object'[path[w]] = object[path[w]]
<1> USE UserFilesAssumption DEF Clients
<1>0. /\ object = [p \in Paths |-> object[p]] /\ pc = [c \in Clients |-> pc[c]]
      /\ LockInv /\ w \in Clients /\ pc[w] \in AtWork
  BY DEF FInv, LockInv, TypeOK, StateTyped, AtWork
<1>1. ASSUME NEW c \in Clients, c # w, pc[c] \in AtWork, NEW v,
             object' = [object EXCEPT ![path[c]] = v]
      PROVE  object'[path[w]] = object[path[w]]
  <2>1. path[c] # path[w]
    BY <1>0, <1>1, WorkApart
  <2>2. path[w] \in Paths
    BY <1>0 DEF LockInv, Placed
  <2> QED
    BY <1>0, <1>1, <2>1, <2>2
<1>2. ASSUME NEW d \in Writers, pc[d] = "upload", Upload(d)
      PROVE  object'[path[w]] = object[path[w]]
  <2>1. d # w /\ pc[d] \in AtWork
    BY <1>0, <1>2 DEF Upload, Goto, AtWork
  <2> QED
    BY <1>1, <1>2, <2>1 DEF Upload
<1>3. ASSUME NEW m \in Movers, Copy(m), object[path[m]] # None
      PROVE  object'[path[w]] = object[path[w]]
  <2>1. target[m] # path[w] /\ path[w] \in Paths
    BY <1>0 DEF MovedTo, LockInv, Placed
  <2> QED
    BY <1>0, <1>3, <2>1 DEF Copy
<1>4. ASSUME NEW m \in Movers, Remove(m) PROVE object'[path[w]] = object[path[w]]
  <2>1. m # w /\ pc[m] \in AtWork
    BY <1>4 DEF Remove, AtWork
  <2> QED
    BY <1>1, <1>4, <2>1 DEF Remove
<1>5. ASSUME NEW d \in Deleters, DeleteObject(d) PROVE object'[path[w]] = object[path[w]]
  <2>1. d # w /\ pc[d] \in AtWork
    BY <1>5 DEF DeleteObject, AtWork
  <2> QED
    BY <1>1, <1>5, <2>1 DEF DeleteObject
<1> QED
  BY <1>2, <1>3, <1>4, <1>5 DEF ObjectStep

\* The row a writer read, or its absence, and the content it fetched, in points.
RowRead(w) == pc[w] \in Editing => \A r \in Writers : rows[r] = path[w] <=> r = rec[w]
ContentRead(w) ==
    pc[w] \in {"body", "upload"} /\ rec[w] # None => base[w] = object[path[w]] \/ base[w] = None

\* SnapshotHolds says the same in points.
LEMMA SnapshotInPoints ==
    ASSUME LockInv
    PROVE  SnapshotHolds <=> \A w \in Writers : ~ MovedTo(path[w]) => RowRead(w) /\ ContentRead(w)
BY UserFilesAssumption DEF LockInv, TypeOK, StateTyped, SnapshotHolds, RowRead, ContentRead,
   RowsAt, Editing, Clients

\* The query reads the truth, and from then on the lock keeps it.
LEMMA SnapshotStep == FInv /\ LockInv' /\ FileStep => SnapshotHolds'
<1> SUFFICES ASSUME FInv, LockInv', FileStep PROVE SnapshotHolds'
  OBVIOUS
<1> USE UserFilesAssumption
<1>1. /\ SnapshotHolds <=> \A w \in Writers : ~ MovedTo(path[w]) => RowRead(w) /\ ContentRead(w)
      /\ (SnapshotHolds <=>
            \A w \in Writers : ~ MovedTo(path[w]) => RowRead(w) /\ ContentRead(w))'
  BY SnapshotInPoints, PTL DEF FInv
<1> SUFFICES ASSUME NEW w \in Writers, ~ MovedTo(path[w])' PROVE (RowRead(w) /\ ContentRead(w))'
  BY <1>1
<1>0. /\ pc = [c \in Clients |-> pc[c]] /\ path = [c \in Clients |-> path[c]]
      /\ rec = [c \in Clients |-> rec[c]] /\ base = [c \in Writers \cup Readers |-> base[c]]
      /\ w \in Clients /\ LockInv /\ NotesAt(w)
  BY DEF FInv, LockInv, TypeOK, StateTyped, NotesKnown, Clients
<1>2. OwnStep(w) \/ Keeps(w)
  BY <1>0, ActsOrKeeps
<1>3. ASSUME pc'[w] \notin Editing PROVE (RowRead(w) /\ ContentRead(w))'
  BY <1>3 DEF RowRead, ContentRead, Editing
<1>4. CASE \E p \in Paths : Open(w, p)
  BY <1>0, <1>3, <1>4 DEF Open, Goto, Editing
<1>5. CASE Record(w)
  BY <1>0, <1>3, <1>5 DEF Record, Leave, Editing
\* the query reads the one row of the path, or that there is none
<1>6. CASE WriterQuery(w)
  <2>1. /\ UNCHANGED <<rows, object, path, base>>
        /\ \/ \E r \in RowsAt(path[w]) : rec' = [rec EXCEPT ![w] = r]
           \/ RowsAt(path[w]) = {} /\ rec' = [rec EXCEPT ![w] = None]
        /\ pc'[w] \in {"download", "folders", "release"}
    BY <1>0, <1>6 DEF WriterQuery, Reads, Goto, Leave, fileTable
  <2>2. path[w] \in Paths
    BY <1>0, <1>6 DEF WriterQuery, LockInv, Placed, AtWork
  <2>3. \A r \in Writers : rows'[r] = path'[w] <=> r = rec'[w]
    BY <1>0, <2>1, <2>2 DEF RowsAt, FInv, RowsUnique, Clients
  <2> QED
    BY <2>1, <2>3 DEF RowRead, ContentRead
\* from then on the lock keeps the others away
<1>7. ASSUME pc[w] \in Editing, pc'[w] \in Editing, path'[w] = path[w], rec'[w] = rec[w]
      PROVE  RowRead(w)'
  <2>1. path[w] \in Paths
    BY <1>0, <1>7 DEF LockInv, Placed, Editing, AtWork
  <2>2. ~ MovedTo(path[w])
    <3>1. \A m \in Movers : target[m] # None => target'[m] = target[m]
      BY TargetsStay
    <3>2. ~ \E m \in Movers : target'[m] = path'[w]
      BY DEF MovedTo
    <3> QED
      BY <1>7, <2>1, <3>1, <3>2 DEF MovedTo
  <2>3. RowRead(w)
    BY <1>1, <2>2 DEF FInv
  <2>4. \A r \in Writers : rows'[r] = path[w] <=> rows[r] = path[w]
    BY <1>7, <2>2, RowsStand, RowSteps
  <2> QED
    BY <1>7, <2>3, <2>4 DEF RowRead
<1>8. CASE WriterDownload(w) \/ WriterDownloadFault(w)
  <2>1. /\ UNCHANGED <<path, rec, object>> /\ pc[w] = "download" /\ pc'[w] = "body"
        /\ base'[w] = object[path[w]] \/ base'[w] = None
    BY <1>0, <1>8 DEF WriterDownload, WriterDownloadFault, Goto
  <2> QED
    BY <1>7, <2>1 DEF ContentRead, Editing
<1>9. CASE Upload(w)
  <2>1. UNCHANGED <<path, rec>> /\ pc[w] = "upload" /\ pc'[w] = "record"
    BY <1>0, <1>9 DEF Upload, Goto, local
  <2> QED
    BY <1>7, <2>1 DEF ContentRead, Editing
<1>10. CASE Keeps(w)
  <2>1. CASE pc'[w] \notin Editing
    BY <1>3, <2>1
  <2>2. CASE pc'[w] \in Editing
    <3>1. /\ pc[w] = pc'[w] \/ <<pc[w], pc'[w]>> \in Advances
          /\ path'[w] = path[w] /\ rec'[w] = rec[w] /\ base'[w] = base[w]
      BY <1>10, <2>2 DEF Keeps, QuietAt, Editing
    <3>2. pc[w] \in Editing
      BY <2>2, <3>1 DEF Advances, Editing
    <3>3. RowRead(w)'
      BY <1>7, <2>2, <3>1, <3>2
    <3>4. ASSUME pc'[w] \in {"body", "upload"}, rec'[w] # None
          PROVE  base'[w] = object'[path'[w]] \/ base'[w] = None
      <4>1. pc[w] \in {"body", "upload"}
        BY <1>0, <3>1, <3>4 DEF Advances, NotesAt, WriterNotes
      <4>2. path[w] \in Paths
        BY <1>0, <4>1 DEF LockInv, Placed, AtWork
      <4>3. ~ MovedTo(path[w])
        <5>1. \A m \in Movers : target[m] # None => target'[m] = target[m]
          BY TargetsStay
        <5>2. ~ \E m \in Movers : target'[m] = path'[w]
          BY DEF MovedTo
        <5> QED
          BY <3>1, <4>2, <5>1, <5>2 DEF MovedTo
      <4>4. ContentRead(w)
        BY <1>1, <4>3 DEF FInv
      <4>5. object'[path[w]] = object[path[w]]
        BY <3>4, <4>1, <4>3, ObjectStands, ObjectSteps
      <4> QED
        BY <3>1, <3>4, <4>1, <4>4, <4>5 DEF ContentRead
    <3> QED
      BY <3>3, <3>4 DEF ContentRead
  <2> QED
    BY <2>1, <2>2
<1> QED
  BY <1>2, <1>4, <1>5, <1>6, <1>8, <1>9, <1>10 DEF OwnStep, WriterWrites, Clients

-----------------------------------------------------------------------------
(* What a move copied, and what a listed file without content comes from. *)

CopyMade(m) ==
    pc[m] = "remove" =>
        object[target[m]] = object[path[m]] \/ OthersAt(m, target[m]) \/ MovedTo(path[m])
CopyThere(m) ==
    pc[m] \in {"remove", "update"} =>
        \/ object[target[m]] # None
        \/ \E x \in MoversOrDeleters \ {m} : path[x] = target[m]

\* Where content goes away: a move or delete at work on the path takes it.
LEMMA ContentGoes ==
    ASSUME FInv, FileStep, NEW p \in Paths, object[p] # None, object'[p] = None
    PROVE  \E x \in MoversOrDeleters :
              /\ path[x] = p /\ path'[x] = p /\ UNCHANGED <<rows, path, target>>
              /\ \/ x \in Movers /\ Remove(x) /\ pc[x] = "remove" /\ pc'[x] = "update"
                 \/ x \in Deleters /\ DeleteObject(x) /\ pc[x] = "delete_object"
                    /\ pc'[x] = "delete_row"
<1> USE UserFilesAssumption
<1>0. /\ object = [q \in Paths |-> object[q]] /\ pc = [c \in Clients |-> pc[c]]
  BY DEF FInv, LockInv, TypeOK, StateTyped
<1>1. ObjectStep /\ UNCHANGED <<rows, path, target>>
  BY ObjectSteps
<1>2. ASSUME NEW w \in Writers, Upload(w) PROVE FALSE
  BY <1>0, <1>2 DEF Upload, Clients
<1>3. ASSUME NEW m \in Movers, Copy(m), object[path[m]] # None PROVE FALSE
  BY <1>0, <1>3 DEF Copy
<1>4. ASSUME NEW m \in Movers, Remove(m)
      PROVE  path[m] = p /\ pc[m] = "remove" /\ pc'[m] = "update"
  BY <1>0, <1>4 DEF Remove, Goto, Clients
<1>5. ASSUME NEW d \in Deleters, DeleteObject(d)
      PROVE  path[d] = p /\ pc[d] = "delete_object" /\ pc'[d] = "delete_row"
  BY <1>0, <1>5 DEF DeleteObject, Goto, Clients
<1>6. CASE \E m \in Movers : Remove(m)
  BY <1>1, <1>4, <1>6 DEF MoversOrDeleters
<1>7. CASE \E d \in Deleters : DeleteObject(d)
  BY <1>1, <1>5, <1>7 DEF MoversOrDeleters
<1> QED
  BY <1>1, <1>2, <1>3, <1>6, <1>7 DEF ObjectStep

\* A copy is there until the move has removed the source, or somebody else is.
LEMMA CopyStep == FInv /\ LockInv' /\ FileStep => CopyHolds'
<1> SUFFICES ASSUME FInv, LockInv', FileStep, NEW m \in Movers
             PROVE  (CopyMade(m) /\ CopyThere(m))'
  BY DEF CopyHolds, CopyMade, CopyThere
<1> USE UserFilesAssumption
<1>0. /\ pc = [c \in Clients |-> pc[c]] /\ path = [c \in Clients |-> path[c]]
      /\ object = [p \in Paths |-> object[p]] /\ target \in [Movers -> Paths \cup {None}]
      /\ m \in Clients /\ LockInv /\ NotesAt(m) /\ CopyMade(m) /\ CopyThere(m)
      /\ object \in [Paths -> Writers \cup {None}]
  BY DEF FInv, LockInv, TypeOK, StateTyped, NotesKnown, Clients, CopyHolds, CopyMade, CopyThere
<1>1. /\ \A x \in Movers : target[x] # None => target'[x] = target[x]
      /\ \A x \in Clients : path[x] # None => path'[x] = path[x]
  BY TargetsStay
<1>2. OwnStep(m) \/ Keeps(m)
  BY <1>0, ActsOrKeeps
<1>3. ASSUME pc'[m] \notin {"remove", "update"} PROVE (CopyMade(m) /\ CopyThere(m))'
  BY <1>3 DEF CopyMade, CopyThere
<1>4. ASSUME NEW p \in Paths, NEW q \in Paths, LookUpMove(m, p, q)
      PROVE  (CopyMade(m) /\ CopyThere(m))'
  BY <1>0, <1>3, <1>4 DEF LookUpMove, LookUp, Goto, Ends
<1>5. CASE UpdatePath(m)
  BY <1>0, <1>3, <1>5 DEF UpdatePath, Leave
<1>6. CASE Copy(m) /\ object[path[m]] # None
  <2>1. /\ pc[m] = "copy" /\ pc'[m] = "remove" /\ UNCHANGED <<path, target>>
        /\ object' = [object EXCEPT ![target[m]] = object[path[m]]]
    BY <1>0, <1>6 DEF Copy, Goto, Leave, local
  <2>2. target[m] \in Paths /\ target[m] # path[m]
    BY <1>0, <2>1 DEF NotesAt, MoverNotes, Changing
  <2>3. object'[target[m]] = object[path[m]] /\ object'[path[m]] = object[path[m]]
    BY <1>0, <2>1, <2>2
  <2> QED
    BY <1>6, <2>1, <2>3 DEF CopyMade, CopyThere
<1>7. CASE Remove(m)
  <2>1. /\ pc[m] = "remove" /\ pc'[m] = "update" /\ UNCHANGED <<path, target>>
        /\ object' = [object EXCEPT ![path[m]] = None]
    BY <1>0, <1>7 DEF Remove, Goto, local
  <2>2. target[m] \in Paths /\ target[m] # path[m]
    BY <1>0, <2>1 DEF NotesAt, MoverNotes, Changing
  <2>3. object'[target[m]] = object[target[m]]
    BY <1>0, <2>1, <2>2
  <2> QED
    BY <1>0, <2>1, <2>3 DEF CopyMade, CopyThere
<1>8. CASE Keeps(m) /\ pc'[m] \in {"remove", "update"}
  <2>1. /\ pc[m] = pc'[m] /\ path'[m] = path[m] /\ target'[m] = target[m]
    BY <1>8 DEF Keeps, QuietAt, Advances
  <2>2. target[m] \in Paths /\ path[m] \in Paths /\ pc[m] \in AtWork
    BY <1>0, <1>8, <2>1 DEF NotesAt, MoverNotes, Changing, LockInv, Placed, AtWork
  <2>3. CopyThere(m)'
    <3>1. CASE \E x \in MoversOrDeleters \ {m} : path[x] = target[m]
      <4>1. PICK x \in MoversOrDeleters \ {m} : path[x] = target[m]
        BY <3>1
      <4>2. path'[x] = target[m]
        BY <1>1, <2>2, <4>1 DEF MoversOrDeleters, Clients
      <4> QED
        BY <2>1, <4>1, <4>2 DEF CopyThere
    <3>2. CASE object'[target[m]] # None
      BY <2>1, <3>2 DEF CopyThere
    <3>3. CASE object[target[m]] # None /\ object'[target[m]] = None
      <4>1. PICK x \in MoversOrDeleters :
                path[x] = target[m] /\ path'[x] = target[m] /\ pc'[x] # pc[x]
        BY <2>2, <3>3, ContentGoes
      <4> QED
        BY <2>1, <4>1 DEF CopyThere
    <3> QED
      BY <1>0, <1>8, <2>1, <3>1, <3>2, <3>3 DEF CopyThere
  <2>4. ASSUME pc[m] = "remove" PROVE CopyMade(m)'
    <3>1. ASSUME NEW c \in Clients \ {m},
                 path[c] = target[m] \/ (c \in Movers /\ target[c] = target[m])
          PROVE  CopyMade(m)'
      <4>1. path'[c] = target[m] \/ (c \in Movers /\ target'[c] = target[m])
        BY <1>1, <2>2, <3>1
      <4>2. \E x \in Clients \ {m} : path'[x] = target'[m]
                                     \/ (x \in Movers /\ target'[x] = target'[m])
        BY <2>1, <4>1
      <4> QED
        BY <4>2 DEF CopyMade, OthersAt
    <3>2. ASSUME NEW x \in Movers, target[x] = path[m] PROVE CopyMade(m)'
      <4>1. target'[x] = path'[m]
        BY <1>1, <2>1, <2>2, <3>2
      <4>2. \E y \in Movers : target'[y] = path'[m]
        BY <4>1
      <4> QED
        BY <4>2 DEF CopyMade, MovedTo
    <3>3. CASE OthersAt(m, target[m])
      BY <3>1, <3>3 DEF OthersAt
    <3>4. CASE MovedTo(path[m])
      BY <3>2, <3>4 DEF MovedTo
    <3>5. CASE object[target[m]] = object[path[m]]
      <4>1. ASSUME UNCHANGED object PROVE CopyMade(m)'
        BY <2>1, <3>5, <4>1 DEF CopyMade
      <4>2. ASSUME NEW c \in Clients, c # m, pc[c] \in AtWork, NEW v,
                   object' = [object EXCEPT ![path[c]] = v]
            PROVE  CopyMade(m)'
        <5>1. path[c] # path[m]
          BY <1>0, <2>2, <4>2, WorkApart
        <5>2. CASE path[c] = target[m]
          BY <3>1, <4>2, <5>2
        <5>3. CASE path[c] # target[m]
          BY <1>0, <2>1, <2>2, <3>5, <4>2, <5>1, <5>3 DEF CopyMade
        <5> QED
          BY <5>2, <5>3
      <4>3. ASSUME NEW w \in Writers, Upload(w) PROVE CopyMade(m)'
        <5>1. w # m /\ w \in Clients /\ pc[w] \in AtWork
          BY <4>3 DEF Upload, AtWork, Clients
        <5> QED
          BY <4>2, <4>3, <5>1 DEF Upload
      <4>4. ASSUME NEW x \in Movers, Copy(x), object[path[x]] # None PROVE CopyMade(m)'
        <5>1. x # m /\ x \in Clients /\ object' = [object EXCEPT ![target[x]] = object[path[x]]]
          BY <2>4, <4>4 DEF Copy, Clients
        <5>2. CASE target[x] = target[m]
          BY <3>1, <5>1, <5>2
        <5>3. CASE target[x] = path[m]
          BY <3>2, <5>3
        <5>4. CASE target[x] # target[m] /\ target[x] # path[m]
          BY <1>0, <2>1, <2>2, <3>5, <5>1, <5>4 DEF CopyMade
        <5> QED
          BY <5>2, <5>3, <5>4
      <4>5. ASSUME NEW x \in Movers, Remove(x) PROVE CopyMade(m)'
        <5>1. x # m /\ x \in Clients /\ pc[x] \in AtWork
          BY <1>0, <2>1, <2>4, <4>5 DEF Remove, Goto, AtWork, Clients
        <5> QED
          BY <4>2, <4>5, <5>1 DEF Remove
      <4>6. ASSUME NEW d \in Deleters, DeleteObject(d) PROVE CopyMade(m)'
        <5>1. d # m /\ d \in Clients /\ pc[d] \in AtWork
          BY <4>6 DEF DeleteObject, AtWork, Clients
        <5> QED
          BY <4>2, <4>6, <5>1 DEF DeleteObject
      <4> QED
        BY <4>1, <4>3, <4>4, <4>5, <4>6, ObjectSteps DEF ObjectStep
    <3> QED
      BY <1>0, <2>4, <3>3, <3>4, <3>5 DEF CopyMade
  <2>5. CopyMade(m)'
    BY <2>1, <2>4 DEF CopyMade
  <2> QED
    BY <2>3, <2>5
<1> QED
  BY <1>2, <1>3, <1>4, <1>5, <1>6, <1>7, <1>8 DEF OwnStep, MoverWrites

\* A move or delete that explains a loss goes on explaining it.
Explains(x, r, p) == Excuse(x, r, p) \/ (path[x] = p /\ pc[x] \in {"update", "delete_row"})

\* As long as the file is listed there.
LEMMA ExplainsOn ==
    ASSUME FInv, FileStep, NEW x \in MoversOrDeleters, NEW r \in Writers, NEW p \in Paths,
           Explains(x, r, p), rows[r] = p, rows'[r] = p
    PROVE  Explains(x, r, p)'
<1> USE UserFilesAssumption
<1>0. /\ pc = [c \in Clients |-> pc[c]] /\ out = [c \in Clients |-> out[c]]
      /\ x \in Clients /\ NotesAt(x) /\ NotesKnown /\ Movers \subseteq Clients
      /\ rows = [w \in Writers |-> rows[w]] /\ x \notin Writers /\ x \notin Readers
  BY DEF FInv, LockInv, TypeOK, StateTyped, NotesKnown, Clients, MoversOrDeleters
<1>1. /\ \A m \in Movers : target[m] # None => target'[m] = target[m] /\ rec'[m] = rec[m]
      /\ \A c \in Clients : path[c] # None => path'[c] = path[c]
  BY TargetsStay
<1>2. path[x] = p /\ path'[x] = p
  BY <1>0, <1>1 DEF Explains, Excuse
<1>3. ASSUME NEW m \in Movers \ {x}, target[m] = p, rec[m] = r PROVE Explains(x, r, p)'
  <2>1. target'[m] = p /\ rec'[m] = r
    BY <1>1, <1>3
  <2>2. \E y \in Movers \ {x} : target'[y] = p /\ rec'[y] = r
    BY <2>1
  <2> QED
    BY <1>2, <2>2 DEF Explains, Excuse
<1>4. OwnStep(x) \/ Keeps(x)
  BY <1>0, ActsOrKeeps
<1>5. CASE Keeps(x)
  <2>1. rec'[x] = rec[x] /\ QuietAt(x)
    BY <1>5 DEF Keeps
  <2>2. CASE out[x] = "raised"
    <3>1. pc[x] \in {"release", "done", "dead"}
      BY <1>0, <2>2 DEF NotesAt, ClientNotes
    <3>2. out'[x] = "raised"
      BY <2>1, <2>2, <3>1 DEF QuietAt, Advances
    <3> QED
      BY <1>2, <3>2 DEF Explains, Excuse
  <2>3. CASE pc[x] = "dead"
    BY <1>2, <2>1, <2>3 DEF QuietAt, Advances, Explains, Excuse
  <2>4. CASE rec[x] \notin {r, None}
    BY <1>2, <2>1, <2>4 DEF Explains, Excuse
  <2>5. CASE pc[x] \in {"update", "delete_row"}
    BY <1>2, <2>1, <2>5 DEF QuietAt, Advances, Explains, Excuse
  <2> QED
    BY <1>3, <2>2, <2>3, <2>4, <2>5 DEF Explains, Excuse
<1>6. CASE OwnStep(x)
  <2>1. \/ x \in Movers /\ MoverWrites(x)
        \/ x \in Deleters /\ DeleterWrites(x)
        \/ pc[x] = "idle"
    BY <1>0, <1>6 DEF OwnStep, LookUpMove, LookUpDelete, LookUp
  <2>2. pc[x] # "idle"
    BY <1>0, <1>2 DEF NotesAt, ClientNotes
  <2>3. /\ pc[x] \in {"copy", "remove", "update", "delete_object", "delete_row"}
        /\ rec'[x] = rec[x]
    BY <2>1, <2>2 DEF MoverWrites, Copy, Remove, UpdatePath, DeleterWrites, DeleteObject,
       DeleteObjectFault, DeleteRow, local
  <2>4. out[x] # "raised" /\ pc[x] # "dead" /\ rec[x] # None
    BY <1>0, <2>3 DEF NotesAt, ClientNotes, Changing
  <2>5. CASE rec[x] # r
    BY <1>2, <2>3, <2>4, <2>5 DEF Explains, Excuse
  <2>6. CASE rec[x] = r /\ pc[x] = "update"
    <3>1. x \in Movers /\ UpdatePath(x)
      BY <1>0, <2>1, <2>6 DEF MoverWrites, Copy, Remove, DeleterWrites, DeleteObject,
         DeleteObjectFault, DeleteRow
    <3>2. target[x] # p
      BY <1>0, <1>2, <2>6, <3>1 DEF NotesAt, MoverNotes, Changing
    <3>3. ~ PutRow(r, target[x])
      BY <1>0, <3>2 DEF PutRow
    <3>4. out'[x] = "raised"
      BY <1>0, <2>6, <3>1, <3>3 DEF UpdatePath, Leave
    <3> QED
      BY <1>2, <3>4 DEF Explains, Excuse
  <2>7. CASE rec[x] = r /\ pc[x] = "delete_row"
    <3>1. DeleteRow(x)
      BY <1>0, <2>1, <2>7 DEF MoverWrites, Copy, Remove, UpdatePath, DeleterWrites, DeleteObject,
         DeleteObjectFault
    <3>2. ~ PutRow(r, None)
      BY <1>0 DEF PutRow
    <3>3. out'[x] = "raised"
      BY <1>0, <2>7, <3>1, <3>2 DEF DeleteRow, Leave
    <3> QED
      BY <1>2, <3>3 DEF Explains, Excuse
  <2> QED
    BY <1>3, <2>3, <2>4, <2>5, <2>6, <2>7 DEF Explains, Excuse
<1> QED
  BY <1>4, <1>5, <1>6

\* A writer records what it uploaded: nobody took the content in between.
LEMMA RecordedThere ==
    FInv /\ LockInv' /\ FileStep =>
        \A w \in Writers : pc'[w] = "record" => object'[path'[w]] # None
<1> SUFFICES ASSUME FInv, LockInv', FileStep, NEW w \in Writers, pc'[w] = "record"
             PROVE  object'[path'[w]] # None
  OBVIOUS
<1> USE UserFilesAssumption
<1>0. /\ pc = [c \in Clients |-> pc[c]] /\ w \in Clients /\ LockInv
      /\ object \in [Paths -> Writers \cup {None}] /\ w \notin MoversOrDeleters
      /\ pc[w] = "record" => object[path[w]] # None
  BY DEF FInv, LockInv, TypeOK, StateTyped, Clients, MoversOrDeleters, LossExplained
<1>1. OwnStep(w) \/ Keeps(w)
  BY <1>0, ActsOrKeeps
<1>2. CASE Upload(w)
  <2>1. path[w] \in Paths /\ path' = path /\ object' = [object EXCEPT ![path[w]] = w]
    BY <1>0, <1>2 DEF Upload, local, LockInv, Placed, AtWork
  <2> QED
    BY <1>0, <2>1, UserFilesAssumption
<1>3. CASE Keeps(w)
  <2>1. pc[w] = "record" /\ path'[w] = path[w]
    BY <1>3 DEF Keeps, QuietAt, Advances
  <2>2. path[w] \in Paths /\ pc[w] \in AtWork /\ object[path[w]] # None
    BY <1>0, <2>1 DEF LockInv, Placed, AtWork
  <2>3. ASSUME object'[path[w]] = None PROVE FALSE
    <3>1. PICK x \in MoversOrDeleters :
              path[x] = path[w] /\ pc[x] \in {"remove", "delete_object"}
      BY <2>2, <2>3, ContentGoes
    <3>2. x \in Clients /\ pc[x] \in AtWork /\ x # w
      BY <1>0, <3>1 DEF MoversOrDeleters, Clients, AtWork
    <3> QED
      BY <1>0, <2>2, <3>1, <3>2, WorkApart
  <2> QED
    BY <2>1, <2>3
<1>4. ASSUME OwnStep(w), ~ Upload(w) PROVE FALSE
  <2>1. \/ \E p \in Paths : Open(w, p)
        \/ WriterQuery(w) \/ WriterDownload(w) \/ WriterDownloadFault(w) \/ Record(w)
    BY <1>4 DEF OwnStep, WriterWrites, Clients
  <2>2. pc'[w] \in {"query", "download", "folders", "release", "body"}
    BY <1>0, <2>1 DEF Open, WriterQuery, WriterDownload, WriterDownloadFault, Record, Goto, Leave
  <2> QED
    BY <2>2
<1> QED
  BY <1>1, <1>2, <1>3, <1>4

\* Every listed file without content has its explanation.
LEMMA LossStep == FInv /\ LockInv' /\ FileStep => LossExplained'
<1> SUFFICES ASSUME FInv, LockInv', FileStep, NEW r \in Writers, NEW p \in Paths,
                    rows'[r] = p, object'[p] = None
             PROVE  \E x \in MoversOrDeleters : Explains(x, r, p)'
  BY RecordedThere DEF LossExplained, Explains
<1> USE UserFilesAssumption
<1>0. /\ rows = [w \in Writers |-> rows[w]] /\ Movers \subseteq MoversOrDeleters
      /\ rec \in [Clients -> Writers \cup {None}] /\ Movers \subseteq Clients
      /\ Writers \subseteq Clients
  BY DEF FInv, LockInv, TypeOK, StateTyped, MoversOrDeleters, Clients
<1>1. CASE rows[r] = p /\ object[p] = None
  <2>1. PICK x \in MoversOrDeleters : Explains(x, r, p)
    BY <1>1 DEF FInv, LossExplained, Explains
  <2> QED
    BY <1>1, <2>1, ExplainsOn
<1>2. CASE object[p] # None
  <2>1. PICK x \in MoversOrDeleters : path'[x] = p /\ pc'[x] \in {"update", "delete_row"}
    BY <1>2, ContentGoes
  <2> QED
    BY <2>1 DEF Explains
<1>3. CASE rows[r] # p /\ object[p] = None
  <2>1. RowStep /\ UNCHANGED <<rec, path, target, object>>
    BY <1>3, RowSteps
  <2>2. ASSUME NEW w \in Writers, pc[w] = "record", NEW v \in Writers, PutRow(v, path[w])
        PROVE  FALSE
    <3>1. object[path[w]] # None
      BY <2>2 DEF FInv, LossExplained
    <3> QED
      BY <1>0, <1>3, <2>2, <3>1 DEF PutRow
  <2>3. ASSUME NEW m \in Movers, pc[m] = "update", rec[m] # None, PutRow(rec[m], target[m])
        PROVE  \E x \in MoversOrDeleters : Explains(x, r, p)'
    <3>1. rec[m] = r /\ target[m] = p
      BY <1>0, <1>3, <2>3 DEF PutRow
    <3>2. PICK x \in MoversOrDeleters \ {m} : path[x] = p
      BY <1>3, <2>3, <3>1 DEF FInv, CopyHolds
    <3>3. path'[x] = p /\ \E y \in Movers \ {x} : target'[y] = p /\ rec'[y] = r
      BY <2>1, <3>1, <3>2
    <3> QED
      BY <3>2, <3>3 DEF Explains, Excuse
  <2>4. ASSUME NEW d \in Deleters, rec[d] # None, PutRow(rec[d], None) PROVE FALSE
    BY <1>0, <1>3, <2>4 DEF PutRow
  <2> QED
    BY <1>0, <1>3, <2>1, <2>2, <2>3, <2>4 DEF RowStep
<1> QED
  BY <1>1, <1>2, <1>3

-----------------------------------------------------------------------------
(* The theorems. *)

\* The invariant is inductive.
LEMMA FInvStep == FInv /\ [Next]_vars => FInv'
<1> SUFFICES ASSUME FInv, [Next]_vars PROVE FInv'
  OBVIOUS
<1>1. LockInv'
  BY TypeStep, LockSteps, PlacedStep, HolderStep DEF LockInv, FInv
<1>2. FileStep
  BY FileSteps
<1>3. RowsUnique' /\ RowsFresh' /\ NotesKnown'
  BY <1>2, RowsUniqueStep, RowsFreshStep, NotesStep
<1>4. RowsTraced' /\ SnapshotHolds'
  BY <1>1, <1>2, RowsTracedStep, SnapshotStep
<1>5. CopyHolds' /\ LossExplained'
  BY <1>1, <1>2, CopyStep, LossStep
<1> QED
  BY <1>1, <1>3, <1>4, <1>5 DEF FInv

\* And holds from the start.
LEMMA FInvAlways == Spec => []FInv
<1>1. Init => FInv
  <2> SUFFICES ASSUME Init PROVE FInv
    OBVIOUS
  <2> USE UserFilesAssumption DEF Init
  <2>1. LockInv
    BY DEF LockInv, TypeOK, StateTyped, Outcomes, Placed, HolderAtWork, Clients, AtWork
  <2>2. RowsUnique /\ RowsFresh
    BY DEF RowsUnique, RowsFresh, Clients
  <2>3. NotesKnown /\ RowsTraced
    BY DEF NotesKnown, NotesAt, ClientNotes, MoverNotes, WriterNotes, Changing, Unsaved, Clients,
       RowsTraced, TracedAt
  <2>4. SnapshotHolds /\ CopyHolds /\ LossExplained
    BY DEF SnapshotHolds, CopyHolds, LossExplained, Clients
  <2> QED
    BY <2>1, <2>2, <2>3, <2>4 DEF FInv
<1> QED
  BY <1>1, FInvStep, PTL DEF Spec

\* Whatever fails or crashes, and however many clients there are: what a writer
\* read when it opened a file stays true until it saves, unless a move has the
\* path as its target.
THEOREM SnapshotAlways == Spec => []SnapshotHolds
<1>1. FInv => SnapshotHolds
  BY DEF FInv
<1> QED
  BY <1>1, FInvAlways, PTL

\* A listed file at rest can be read, unless a move or delete of its path failed,
\* died or was misled by what it read before it had the lock.
THEOREM ListedAlways == Spec => []ListedIsReadable
<1>1. FInv => ListedIsReadable
  <2> SUFFICES ASSUME FInv, NEW r \in Writers, NEW p \in Paths,
                      rows[r] = p, lock[p] = None, object[p] = None
               PROVE  \E x \in MoversOrDeleters : Excuse(x, r, p)
    BY DEF ListedIsReadable, Excuse, MoversOrDeleters
  <2>1. PICK x \in MoversOrDeleters :
            Excuse(x, r, p) \/ (path[x] = p /\ pc[x] \in {"update", "delete_row"})
    BY DEF FInv, LossExplained
  <2>2. x \in Clients /\ x # None
    BY UserFilesAssumption DEF MoversOrDeleters, Clients
  <2>3. ~ (path[x] = p /\ pc[x] \in {"update", "delete_row"})
    BY <2>2 DEF FInv, LockInv, HolderAtWork, AtWork
  <2> QED
    BY <2>1, <2>3
<1> QED
  BY <1>1, FInvAlways, PTL

\* The ways in which a version may leave the store.
Parts(v) ==
    \E p \in Paths : object[p] = v /\
       \/ \E w \in Writers : object'[p] = w /\ lock[p] = w /\ base[w] \in {v, None}
       \/ \E d \in Deleters : pc[d] = "delete_object" /\ lock[p] = d
       \/ MovedTo(p)
       \/ \E m \in Movers : pc[m] = "remove" /\ path[m] = p /\ OthersAt(m, target[m])

\* A version that leaves does so in one of the ways of Parts.
LEMMA PartsKnown ==
    ASSUME FInv, FileStep, NEW v \in Writers, Stored(v), ~ Stored(v)'
    PROVE  Parts(v)
<1> USE UserFilesAssumption
<1>0. /\ object = [p \in Paths |-> object[p]] /\ LockInv /\ NotesKnown
      /\ rec \in [Clients -> Writers \cup {None}]
  BY DEF FInv, LockInv, TypeOK, StateTyped
<1>1. PICK p \in Paths : object[p] = v
  BY DEF Stored
<1>2. \A q \in Paths : object'[q] # v
  BY DEF Stored
<1>3. ASSUME NEW c \in Clients, pc[c] \in AtWork PROVE path[c] \in Paths /\ lock[path[c]] = c
  BY <1>0, <1>3 DEF LockInv, Placed, HolderAtWork
<1>4. ASSUME NEW w \in Writers, pc[w] = "upload", Upload(w) PROVE Parts(v)
  <2>1. w \in Clients /\ pc[w] \in AtWork /\ pc[w] \in Unsaved
    BY <1>4 DEF Clients, AtWork, Unsaved
  <2>2. path[w] = p /\ object'[p] = w /\ lock[p] = w
    BY <1>0, <1>1, <1>2, <1>3, <1>4, <2>1 DEF Upload
  <2>3. MovedTo(p) \/ base[w] = v \/ base[w] = None
    <3>1. rec[w] = None => base[w] = None
      BY <1>0, <2>1 DEF NotesKnown, NotesAt, WriterNotes
    <3>2. MovedTo(path[w]) \/ (rec[w] # None => base[w] = object[path[w]] \/ base[w] = None)
      BY <1>4 DEF FInv, SnapshotHolds
    <3> QED
      BY <1>1, <2>2, <3>1, <3>2
  <2> QED
    BY <1>1, <2>2, <2>3 DEF Parts
<1>5. ASSUME NEW m \in Movers, Copy(m), object[path[m]] # None PROVE Parts(v)
  <2>1. target[m] = p
    BY <1>0, <1>1, <1>2, <1>5 DEF Copy
  <2> QED
    BY <1>1, <2>1 DEF Parts, MovedTo
<1>6. ASSUME NEW m \in Movers, pc[m] = "remove", Remove(m) PROVE Parts(v)
  <2>1. m \in Clients /\ object' = [object EXCEPT ![path[m]] = None]
    BY <1>6 DEF Clients, Remove
  <2>2. path[m] = p
    BY <1>0, <1>1, <1>2, <2>1
  <2>3. target[m] \in Paths /\ target[m] # path[m]
    BY <1>0, <1>6, <2>1 DEF NotesKnown, NotesAt, MoverNotes, Changing
  <2>4. object[target[m]] # v
    BY <1>0, <1>2, <2>1, <2>3
  <2>5. OthersAt(m, target[m]) \/ MovedTo(p)
    BY <1>1, <1>6, <2>2, <2>4 DEF FInv, CopyHolds
  <2> QED
    BY <1>1, <1>6, <2>2, <2>5 DEF Parts
<1>7. ASSUME NEW d \in Deleters, pc[d] = "delete_object", DeleteObject(d) PROVE Parts(v)
  <2>1. d \in Clients /\ object' = [object EXCEPT ![path[d]] = None]
    BY <1>7 DEF Clients, DeleteObject
  <2>2. path[d] = p
    BY <1>0, <1>1, <1>2, <2>1
  <2>3. lock[p] = d
    BY <1>3, <1>7, <2>1, <2>2 DEF AtWork
  <2> QED
    BY <1>1, <1>7, <2>3 DEF Parts
<1>8. CASE UNCHANGED object
  BY <1>1, <1>2, <1>8
<1> QED
  BY <1>4, <1>5, <1>6, <1>7, <1>8, ObjectSteps DEF ObjectStep

\* No step takes the last copy of a version away behind its owner's back: only a
\* writer or deleter that holds the lock of its path does, or a move that met
\* somebody on its target.
THEOREM VersionsAlways == Spec => VersionsKept
<1>1. FInv /\ [Next]_vars =>
        [\A v \in Writers : Stored(v) /\ ~ Stored(v)' => Parts(v)]_vars
  BY FileSteps, PartsKnown
<1>2. (\A v \in Writers : Stored(v) /\ ~ Stored(v)' => Parts(v)) <=>
      (\A v \in Writers : Stored(v) /\ ~ Stored(v)' =>
          \E p \in Paths : object[p] = v /\
             \/ \E w \in Writers : object'[p] = w /\ lock[p] = w /\ base[w] \in {v, None}
             \/ \E d \in Deleters : pc[d] = "delete_object" /\ lock[p] = d
             \/ MovedTo(p)
             \/ \E m \in Movers : pc[m] = "remove" /\ path[m] = p
                                  /\ OthersAt(m, target[m]))
  BY DEF Parts
<1> QED
  BY <1>1, <1>2, FInvAlways, PTL DEF Spec, VersionsKept
=============================================================================
