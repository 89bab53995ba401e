------------------------- MODULE AccountStore_proofs -------------------------
(* What is proved of AccountStore for all values of its constants: the types *)
(* and keys of its tables, that a user name and a path belong to one row,    *)
(* that an account has one password, and that a deleted account stays        *)
(* deleted, and no request is answered for it.                               *)
EXTENDS AccountStore, Relations_proofs, FiniteSetTheorems

\* Two rows that a UNIQUE constraint keeps apart.
Same(t, r, q) ==
    \/ t = "users" /\ r.user_name = q.user_name
    \/ t = "files" /\ r.user = q.user /\ r.file_path = q.file_path

\* A row has the columns of its dataclass; an account has a hash of its own salt.
RowOK(t, r) ==
    /\ r \in Rows[t]
    /\ t = "users" => \E p \in Passwords : r.hashed_password = <<p, r.salt>>

\* The tables of the accounts and what refers to them.
AccountsSound(d) ==
    /\ IsDb(d) /\ Keyed(d)
    /\ \A t \in DOMAIN Rows :
          /\ \A i \in DOMAIN d[t] : RowOK(t, d[t][i])
          /\ \A i, j \in DOMAIN d[t] : Same(t, d[t][i], d[t][j]) => i = j

\* From d to e no account comes back, and the tables stay as they should.
Follows(d, e) ==
    /\ AccountsSound(e)
    /\ DOMAIN d.users \subseteq DOMAIN e.users
    /\ \A u \in DOMAIN d.users : ~Live(d, u) => ~Live(e, u)

\* A row that may take the place of row id of t: fit for the table, clashing with no
\* other row, and deleted when the row is.
Fits(d, t, id, r) ==
    /\ RowOK(t, r)
    /\ \A j \in DOMAIN d[t] \ {id} : ~Same(t, r, d[t][j])
    /\ t = "users" /\ d.users[id].is_deleted => r.is_deleted

\* The fields of an update that leaves such a row.
FitChange(d, t, id, fields) ==
    /\ DOMAIN fields \cap DOMAIN Refers \subseteq Keys[t]
    /\ id \in DOMAIN d[t] => Fits(d, t, id, Over(fields, d[t][id]))

-----------------------------------------------------------------------------
(* Statements *)

\* The tables whose rows are described, and the keys of those rows.
LEMMA TablesWithRows ==
    /\ DOMAIN Rows = {"users", "files", "a2aSessions", "a2aTasks"}
    /\ DOMAIN Rows \subseteq Tables
    /\ \A t \in DOMAIN Rows : \A r \in Rows[t] : DOMAIN r \cap DOMAIN Refers = Keys[t]
<1>1. DOMAIN Rows = {"users", "files", "a2aSessions", "a2aTasks"}
  BY DEF Rows
<1>2. ASSUME NEW r \in Rows.users PROVE DOMAIN r \cap DOMAIN Refers = Keys.users
  <2>1. DOMAIN r = {"user_name", "is_deleted", "hashed_password", "salt"}
    BY DEF Rows, SimpleUser
  <2> QED
    BY <2>1, ReferredTo DEF Keys
<1>3. ASSUME NEW r \in Rows.files PROVE DOMAIN r \cap DOMAIN Refers = Keys.files
  <2>1. DOMAIN r = {"user", "file_path", "item_type", "is_encrypted"}
    BY DEF Rows, FileSystemItem
  <2> QED
    BY <2>1, ReferredTo DEF Keys
<1>4. ASSUME NEW r \in Rows.a2aSessions PROVE DOMAIN r \cap DOMAIN Refers = Keys.a2aSessions
  <2>1. DOMAIN r = {"userA", "userB"}
    BY DEF Rows, A2ASession
  <2> QED
    BY <2>1, ReferredTo DEF Keys
<1>5. ASSUME NEW r \in Rows.a2aTasks PROVE DOMAIN r \cap DOMAIN Refers = Keys.a2aTasks
  <2>1. DOMAIN r = {"a2aSession", "status"}
    BY DEF Rows, A2ASessionTask
  <2> QED
    BY <2>1, ReferredTo DEF Keys
<1>6. DOMAIN Rows \subseteq Tables
  BY <1>1 DEF Tables
<1> QED
  BY <1>1, <1>2, <1>3, <1>4, <1>5, <1>6

\* The database that is installed has no rows.
LEMMA SoundInit == AccountsSound(EmptyDb) /\ EmptyDb.next = 1
<1> DEFINE T == Tables \cup {"next"}
<1>1. EmptyDb = [t \in T |-> IF t = "next" THEN 1 ELSE NoRows]
  BY DEF EmptyDb
<1>2. "next" \notin Tables
  BY DEF Tables
<1>3. EmptyDb.next = 1 /\ DOMAIN EmptyDb = T /\ \A t \in Tables : EmptyDb[t] = NoRows
  BY <1>1, <1>2
<1>4. DOMAIN NoRows = {}
  BY DEF NoRows
<1>5. EmptyDb = [t \in T |-> EmptyDb[t]]
  BY <1>1
<1>6. \A t \in Tables : DOMAIN EmptyDb[t] = {}
  BY <1>3, <1>4
<1>7. IsDb(EmptyDb)
  BY <1>3, <1>5, <1>6 DEF IsDb, Id
<1>8. Keyed(EmptyDb)
  BY <1>6 DEF Keyed
<1> QED
  BY <1>3, <1>6, <1>7, <1>8, TablesWithRows DEF AccountsSound

\* Nothing happens.
LEMMA SameFollows == ASSUME NEW d, AccountsSound(d) PROVE Follows(d, d)
BY DEF Follows

\* A row that is fit for its table and clashes with none of its rows is inserted under
\* a new id, or not at all.
LEMMA InsertFollows ==
    ASSUME NEW d, AccountsSound(d), NEW t \in DOMAIN Rows, NEW row, RowOK(t, row),
           \A i \in DOMAIN d[t] : ~Same(t, row, d[t][i]),
           NEW e, e = Insert(d, t, row).db
    PROVE  Follows(d, e) /\ e.next \in {d.next, d.next + 1}
<1>1. t \in Tables /\ "users" \in Tables /\ DOMAIN row \cap DOMAIN Refers = Keys[t]
  BY TablesWithRows DEF RowOK, Tables
<1>2. IsDb(d) /\ Keyed(d)
  BY DEF AccountsSound
<1>3. IsDb(e) /\ (e = d \/ Inserted(d, e, t, row))
  BY <1>1, <1>2, InsertEffect
<1>4. CASE e = d
  BY <1>4, SameFollows
<1>5. CASE Inserted(d, e, t, row)
  <2>1. Keyed(e)
    BY <1>1, <1>2, <1>5, InsertKeys
  <2>2. ASSUME NEW s \in DOMAIN Rows
        PROVE  /\ \A i \in DOMAIN e[s] : RowOK(s, e[s][i])
               /\ \A i, j \in DOMAIN e[s] : Same(s, e[s][i], e[s][j]) => i = j
    <3>1. /\ \A i \in DOMAIN d[s] : RowOK(s, d[s][i])
          /\ \A i, j \in DOMAIN d[s] : Same(s, d[s][i], d[s][j]) => i = j
      BY DEF AccountsSound
    <3>2. CASE s # t
      <4>1. e[s] = d[s]
        BY <1>5, <3>2, TablesWithRows DEF Inserted
      <4> QED
        BY <3>1, <4>1
    <3>3. CASE s = t
      <4>1. \A i \in DOMAIN d[t] : ~Same(t, d[t][i], row)
        BY DEF Same
      <4> QED
        BY <1>5, <3>1, <3>3, <4>1 DEF Inserted
    <3> QED
      BY <3>2, <3>3
  <2>3. AccountsSound(e)
    BY <1>3, <2>1, <2>2 DEF AccountsSound
  <2>4. \A u \in DOMAIN d.users : u \in DOMAIN e.users /\ e.users[u] = d.users[u]
    BY <1>1, <1>5 DEF Inserted
  <2> QED
    BY <1>5, <2>3, <2>4 DEF Follows, Live, Inserted
<1> QED
  BY <1>3, <1>4, <1>5

\* An update that leaves a row fit for its table and clashing with no other, and that
\* deletes no deletion, keeps the tables sound.
LEMMA ChangeFollows ==
    ASSUME NEW d, AccountsSound(d), NEW t \in DOMAIN Rows, NEW id, NEW fields,
           FitChange(d, t, id, fields),
           NEW e, e = Change(d, t, {id}, fields).db
    PROVE  Follows(d, e) /\ e.next = d.next
<1>1. t \in Tables /\ "users" \in Tables
  BY TablesWithRows DEF Tables
<1>2. IsDb(d) /\ Keyed(d)
  BY DEF AccountsSound
<1>3. IsDb(e) /\ (e = d \/ Changed(d, e, t, {id}, fields))
  BY <1>1, <1>2, ChangeEffect
<1>4. CASE e = d
  BY <1>4, SameFollows
<1>5. CASE Changed(d, e, t, {id}, fields)
  <2> DEFINE r == Over(fields, d[t][id])
  <2>1. Keyed(e)
    BY <1>1, <1>2, <1>5, ChangeKeys DEF FitChange
  <2>2. /\ DOMAIN e[t] = DOMAIN d[t]
        /\ id \in DOMAIN d[t] => e[t][id] = r
        /\ \A i \in DOMAIN d[t] \ {id} : e[t][i] = d[t][i]
        /\ \A s \in Tables \ {t} : e[s] = d[s]
    BY <1>5 DEF Changed
  <2>3. id \in DOMAIN d[t] =>
            /\ RowOK(t, r)
            /\ \A j \in DOMAIN d[t] \ {id} : ~Same(t, r, d[t][j]) /\ ~Same(t, d[t][j], r)
            /\ t = "users" /\ d.users[id].is_deleted => r.is_deleted
    BY DEF Same, Fits, FitChange
  <2> HIDE DEF r
  <2>4. ASSUME NEW s \in DOMAIN Rows
        PROVE  /\ \A i \in DOMAIN e[s] : RowOK(s, e[s][i])
               /\ \A i, j \in DOMAIN e[s] : Same(s, e[s][i], e[s][j]) => i = j
    <3>1. /\ \A i \in DOMAIN d[s] : RowOK(s, d[s][i])
          /\ \A i, j \in DOMAIN d[s] : Same(s, d[s][i], d[s][j]) => i = j
      BY DEF AccountsSound
    <3>2. CASE s # t
      <4>1. e[s] = d[s]
        BY <2>2, <3>2, TablesWithRows
      <4> QED
        BY <3>1, <4>1
    <3>3. CASE s = t
      BY <2>2, <2>3, <3>1, <3>3
    <3> QED
      BY <3>2, <3>3
  <2>5. AccountsSound(e)
    BY <1>3, <2>1, <2>4 DEF AccountsSound
  <2>6. DOMAIN e.users = DOMAIN d.users
    BY <1>1, <2>2
  <2>7. \A u \in DOMAIN d.users : d.users[u].is_deleted => e.users[u].is_deleted
    <3>1. CASE t # "users"
      BY <1>1, <2>2, <3>1
    <3>2. CASE t = "users"
      BY <2>2, <2>3, <3>2
    <3> QED
      BY <3>1, <3>2
  <2> QED
    BY <1>5, <2>5, <2>6, <2>7 DEF Follows, Live, Changed
<1> QED
  BY <1>3, <1>4, <1>5

\* Rows of the tables that refer to accounts are deleted, with what refers to them.
LEMMA DeleteFollows ==
    ASSUME NEW d, AccountsSound(d), NEW t \in {"files", "a2aSessions", "a2aTasks"}, NEW S,
           NEW e, e = Delete(d, t, S).db
    PROVE  Follows(d, e) /\ e.next = d.next
<1>1. IsDb(e) /\ Removed(d, e) /\ Keyed(e)
  BY DeleteEffect DEF AccountsSound
<1>2. e.users = d.users
  <2>1. e = Drop(d, t, S \cap DOMAIN d[t])
    BY DEF Delete, Returns
  <2>2. DOMAIN d = Tables \cup {"next"}
    BY DEF AccountsSound, IsDb
  <2> QED
    BY <2>1, <2>2 DEF Drop, DropA2ASessions, Tables
<1>3. AccountsSound(e)
  BY <1>1, TablesWithRows DEF AccountsSound, Removed
<1> QED
  BY <1>1, <1>2, <1>3 DEF Follows, Live, Removed

-----------------------------------------------------------------------------
(* Calls on accounts *)

\* Every call is for a row that there is room for, or gives out no id.
Called == /\ Follows(db, db')
          /\ \/ db'.next = db.next
             \/ Room /\ db'.next = db.next + 1

\* Accounts that the fields of an update change keep their columns.
LEMMA OverAccount ==
    ASSUME NEW f, DOMAIN f \subseteq {"user_name", "is_deleted", "hashed_password", "salt"},
           NEW q \in Rows.users
    PROVE  Over(f, q) = [user_name |-> IF "user_name" \in DOMAIN f THEN f.user_name
                                       ELSE q.user_name,
                         is_deleted |-> IF "is_deleted" \in DOMAIN f THEN f.is_deleted
                                        ELSE q.is_deleted,
                         hashed_password |-> IF "hashed_password" \in DOMAIN f
                                             THEN f.hashed_password ELSE q.hashed_password,
                         salt |-> IF "salt" \in DOMAIN f THEN f.salt ELSE q.salt]
<1>1. DOMAIN q = {"user_name", "is_deleted", "hashed_password", "salt"}
  BY DEF Rows, SimpleUser
<1> QED
  BY <1>1 DEF Over

\* An account is made under a name no account has or had.
LEMMA SignUpFollows ==
    ASSUME AccountsSound(db), now \in Nat, sign_up
    PROVE  Called
<1>1. PICK name \in Names, password \in Passwords :
          Room /\ Do(insert_user(db, name, hash_password_with_salt(password, now), now))
  BY DEF sign_up
<1> DEFINE row == [user_name |-> name, is_deleted |-> FALSE,
                   hashed_password |-> hash_password_with_salt(password, now),
                   salt |-> now]
<1>2. CASE NameTaken(db, name, None)
  <2>1. db' = db
    BY <1>1, <1>2 DEF Do, insert_user, Raises, Returns
  <2> QED
    BY <2>1, SameFollows DEF Called
<1>3. CASE ~NameTaken(db, name, None)
  <2>1. db' = Insert(db, "users", row).db
    BY <1>1, <1>3 DEF Do, insert_user
  <2>2. RowOK("users", row)
    BY DEF RowOK, Rows, SimpleUser, hash_password_with_salt
  <2>3. None \notin DOMAIN db.users
    BY NoneAndFailure DEF AccountsSound, IsDb, Tables, Id
  <2>4. \A i \in DOMAIN db.users : ~Same("users", row, db.users[i])
    BY <1>3, <2>3 DEF NameTaken, Same
  <2>5. Follows(db, db') /\ db'.next \in {db.next, db.next + 1}
    BY <2>1, <2>2, <2>4, TablesWithRows, InsertFollows
  <2> QED
    BY <1>1, <2>5 DEF Called
<1> QED
  BY <1>2, <1>3

\* The fields of an update that are given: a name, or a hash with its salt, or both.
LEMMA UpdateUserFields ==
    ASSUME now \in Nat, NEW u, NEW name \in Names \cup {None},
           NEW password \in Passwords \cup {None}
    PROVE  \E f :
              /\ update_user(u, name, password) = update_user_fields(db, u, f)
              /\ DOMAIN f \subseteq {"user_name", "hashed_password", "salt"}
              /\ "user_name" \in DOMAIN f => f.user_name \in Names
              /\ "salt" \in DOMAIN f <=> "hashed_password" \in DOMAIN f
              /\ "salt" \in DOMAIN f =>
                    /\ f.salt \in Nat
                    /\ \E p \in Passwords : f.hashed_password = <<p, f.salt>>
<1> DEFINE hash == IF password = None THEN NoRows
                   ELSE [hashed_password |-> hash_password_with_salt(password, now),
                         salt |-> now]
           rename == IF name = None THEN NoRows ELSE [user_name |-> name]
           f == Over(rename, hash)
<1>1. update_user(u, name, password) = update_user_fields(db, u, f)
  BY DEF update_user
<1>2. DOMAIN rename = IF name = None THEN {} ELSE {"user_name"}
  BY DEF NoRows
<1>3. DOMAIN hash = IF password = None THEN {} ELSE {"hashed_password", "salt"}
  BY DEF NoRows
<1>4. /\ DOMAIN f = DOMAIN rename \cup DOMAIN hash
      /\ "user_name" \in DOMAIN f => name # None /\ f.user_name = name
      /\ "salt" \in DOMAIN f => password # None /\ f.salt = now
      /\ "hashed_password" \in DOMAIN f => f.hashed_password = <<password, now>>
  BY <1>2, <1>3 DEF Over, hash_password_with_salt
<1> HIDE DEF f
<1>5. \A p \in Passwords \cup {None} : p # None => p \in Passwords
  OBVIOUS
<1>6. \A n \in Names \cup {None} : n # None => n \in Names
  OBVIOUS
<1> QED
  BY <1>1, <1>2, <1>3, <1>4, <1>5, <1>6

\* An account that is renamed takes no name that another has or had, and a password is
\* set with its salt.
LEMMA UpdateUserFollows ==
    ASSUME AccountsSound(db), now \in Nat, UpdateUser
    PROVE  Called
<1>1. PICK u \in Ids, name \in Names \cup {None}, password \in Passwords \cup {None} :
          Do(update_user(u, name, password))
  BY DEF UpdateUser
<1>2. PICK f : /\ update_user(u, name, password) = update_user_fields(db, u, f)
               /\ DOMAIN f \subseteq {"user_name", "hashed_password", "salt"}
               /\ "user_name" \in DOMAIN f => f.user_name \in Names
               /\ "salt" \in DOMAIN f <=> "hashed_password" \in DOMAIN f
               /\ "salt" \in DOMAIN f =>
                     /\ f.salt \in Nat
                     /\ \E p \in Passwords : f.hashed_password = <<p, f.salt>>
  BY UpdateUserFields
<1>3. UpdateFields(db, "users", u, f, 4).db \in {db, Change(db, "users", {u}, f).db}
  BY UpdateFieldsIsChange
<1>4. CASE db' = db
  BY <1>4, SameFollows DEF Called
<1>5. CASE /\ db' = Change(db, "users", {u}, f).db
           /\ u \in DOMAIN db.users /\ "user_name" \in DOMAIN f
                 => ~NameTaken(db, f.user_name, u)
  <2>1. DOMAIN f \cap DOMAIN Refers \subseteq Keys.users
    BY <1>2, ReferredTo
  <2>2. ASSUME u \in DOMAIN db.users
        PROVE  Fits(db, "users", u, Over(f, db.users[u]))
    <3> DEFINE q == db.users[u]
               r == Over(f, q)
    <3>1. RowOK("users", q) /\ q \in Rows.users
      BY <2>2, TablesWithRows DEF AccountsSound, RowOK
    <3>2. r = [user_name |-> IF "user_name" \in DOMAIN f THEN f.user_name ELSE q.user_name,
               is_deleted |-> q.is_deleted,
               hashed_password |-> IF "hashed_password" \in DOMAIN f
                                   THEN f.hashed_password ELSE q.hashed_password,
               salt |-> IF "salt" \in DOMAIN f THEN f.salt ELSE q.salt]
      BY <1>2, <3>1, OverAccount
    <3>3. /\ q.user_name \in Names /\ q.is_deleted \in BOOLEAN /\ q.salt \in Nat
          /\ q.hashed_password \in Passwords \X Nat
          /\ \E p \in Passwords : q.hashed_password = <<p, q.salt>>
      BY <3>1 DEF RowOK, Rows, SimpleUser
    <3> HIDE DEF q, r
    <3>4. \E p \in Passwords : r.hashed_password = <<p, r.salt>>
      BY <1>2, <3>2, <3>3
    <3>5. r.salt \in Nat /\ r.user_name \in Names
      BY <1>2, <3>2, <3>3
    <3>6. RowOK("users", r)
      BY <3>2, <3>3, <3>4, <3>5 DEF RowOK, Rows, SimpleUser
    <3>7. ASSUME NEW j \in DOMAIN db.users \ {u} PROVE ~Same("users", r, db.users[j])
      <4>1. CASE "user_name" \in DOMAIN f
        BY <1>5, <2>2, <3>2, <3>7, <4>1 DEF NameTaken, Same
      <4>2. CASE "user_name" \notin DOMAIN f
        <5>1. Same("users", q, db.users[j]) => u = j
          BY <2>2, TablesWithRows DEF AccountsSound, q
        <5> QED
          BY <3>2, <4>2, <5>1 DEF Same
      <4> QED
        BY <4>1, <4>2
    <3> QED
      BY <3>2, <3>6, <3>7 DEF q, r, Fits
  <2>3. Follows(db, db') /\ db'.next = db.next
    <3>1. "users" \in DOMAIN Rows /\ FitChange(db, "users", u, f)
      BY <2>1, <2>2, TablesWithRows DEF FitChange
    <3> QED
      BY <1>5, <3>1, ChangeFollows
  <2> QED
    BY <2>3 DEF Called
<1> QED
  BY <1>1, <1>2, <1>3, <1>4, <1>5 DEF Do, update_user_fields, Raises, Returns

\* An account is marked as deleted.
LEMMA DeleteUserFollows ==
    ASSUME AccountsSound(db), DeleteUser
    PROVE  Called
<1>1. PICK u \in Ids : Do(delete_user(db, u))
  BY DEF DeleteUser
<1> DEFINE f == [is_deleted |-> TRUE]
           change == Change(db, "users", {u}, f)
<1>2. DOMAIN f = {"is_deleted"}
  OBVIOUS
<1>3. DOMAIN f \cap DOMAIN Refers \subseteq Keys.users
  BY <1>2, ReferredTo
<1>4. ASSUME u \in DOMAIN db.users
      PROVE  Fits(db, "users", u, Over(f, db.users[u]))
  <2> DEFINE q == db.users[u]
             r == Over(f, q)
  <2>1. RowOK("users", q) /\ q \in Rows.users
    BY <1>4, TablesWithRows DEF AccountsSound, RowOK
  <2>2. r = [user_name |-> q.user_name, is_deleted |-> TRUE,
             hashed_password |-> q.hashed_password, salt |-> q.salt]
    BY <1>2, <2>1, OverAccount
  <2>3. \A j \in DOMAIN db.users : Same("users", q, db.users[j]) => u = j
    BY <1>4, TablesWithRows DEF AccountsSound
  <2> HIDE DEF q, r
  <2>4. RowOK("users", r)
    BY <2>1, <2>2 DEF RowOK, Rows, SimpleUser
  <2>5. \A j \in DOMAIN db.users \ {u} : ~Same("users", r, db.users[j])
    BY <2>2, <2>3 DEF Same
  <2> QED
    BY <2>2, <2>4, <2>5 DEF q, r, Fits
<1>5. Follows(db, change.db) /\ change.db.next = db.next
  <2> HIDE DEF f
  <2>1. "users" \in DOMAIN Rows /\ FitChange(db, "users", u, f)
    BY <1>3, <1>4, TablesWithRows DEF FitChange
  <2> QED
    BY <2>1, ChangeFollows
<1>6. AnyRow(change).db = change.db
  BY AnyRowKeeps
<1> HIDE DEF change
<1>7. db' \in {db, AnyRow(change).db}
  BY <1>1 DEF Do, delete_user, Returns, change
<1> QED
  BY <1>5, <1>6, <1>7, SameFollows DEF Called

-----------------------------------------------------------------------------
(* Calls on the tables that refer to accounts *)

\* An item of a file space, whichever of its fields an update gives.
LEMMA OverItem ==
    ASSUME NEW f, DOMAIN f \subseteq {"file_path", "item_type", "is_encrypted"},
           NEW q \in Rows.files
    PROVE  Over(f, q) = [user |-> q.user,
                         file_path |-> IF "file_path" \in DOMAIN f THEN f.file_path
                                       ELSE q.file_path,
                         item_type |-> IF "item_type" \in DOMAIN f THEN f.item_type
                                       ELSE q.item_type,
                         is_encrypted |-> IF "is_encrypted" \in DOMAIN f
                                          THEN f.is_encrypted ELSE q.is_encrypted]
<1>1. DOMAIN q = {"user", "file_path", "item_type", "is_encrypted"}
  BY DEF Rows, FileSystemItem
<1> QED
  BY <1>1 DEF Over

\* An update of an item is fit when its fields are and its path, if it gets one, is not
\* taken by another item of its account.
LEMMA ItemFits ==
    ASSUME AccountsSound(db), NEW i, NEW f,
           DOMAIN f \subseteq {"file_path", "item_type", "is_encrypted"},
           "file_path" \in DOMAIN f =>
              /\ f.file_path \in Paths
              /\ i \in DOMAIN db.files => ~PathTaken(db, db.files[i].user, f.file_path, i),
           "item_type" \in DOMAIN f => f.item_type \in FileSystemItemType,
           "is_encrypted" \in DOMAIN f => f.is_encrypted \in BOOLEAN
    PROVE  FitChange(db, "files", i, f)
<1>1. DOMAIN f \cap DOMAIN Refers \subseteq Keys.files
  BY ReferredTo
<1>2. ASSUME i \in DOMAIN db.files
      PROVE  Fits(db, "files", i, Over(f, db.files[i]))
  <2> DEFINE q == db.files[i]
             r == Over(f, q)
  <2>1. RowOK("files", q) /\ q \in Rows.files
    BY <1>2, TablesWithRows DEF AccountsSound, RowOK
  <2>2. r = [user |-> q.user,
             file_path |-> IF "file_path" \in DOMAIN f THEN f.file_path ELSE q.file_path,
             item_type |-> IF "item_type" \in DOMAIN f THEN f.item_type ELSE q.item_type,
             is_encrypted |-> IF "is_encrypted" \in DOMAIN f THEN f.is_encrypted
                              ELSE q.is_encrypted]
    BY <2>1, OverItem
  <2>3. \A j \in DOMAIN db.files : Same("files", q, db.files[j]) => i = j
    BY <1>2, TablesWithRows DEF AccountsSound
  <2>4. /\ q.user \in Id /\ q.file_path \in Paths /\ q.item_type \in FileSystemItemType
        /\ q.is_encrypted \in BOOLEAN
    BY <2>1 DEF Rows, FileSystemItem
  <2>5. "file_path" \in DOMAIN f => ~PathTaken(db, q.user, f.file_path, i)
    BY <1>2
  <2> HIDE DEF q, r
  <2>6. RowOK("files", r)
    BY <2>2, <2>4 DEF RowOK, Rows, FileSystemItem
  <2>7. ASSUME NEW j \in DOMAIN db.files \ {i} PROVE ~Same("files", r, db.files[j])
    <3>1. CASE "file_path" \in DOMAIN f
      BY <2>2, <2>5, <2>7, <3>1 DEF PathTaken, Same
    <3>2. CASE "file_path" \notin DOMAIN f
      BY <2>2, <2>3, <2>7, <3>2 DEF Same
    <3> QED
      BY <3>1, <3>2
  <2> QED
    BY <2>6, <2>7 DEF q, r, Fits
<1> QED
  BY <1>1, <1>2 DEF FitChange

\* Items come and go, one at each path of an account.
LEMMA FileCallFollows ==
    ASSUME AccountsSound(db), FileCall
    PROVE  Called
<1>1. "files" \in DOMAIN Rows
  BY TablesWithRows
<1>2. ASSUME NEW u \in Users, NEW p \in Paths, NEW type \in {"file", "folder"}, Room,
             Do(insert_file_system_item(db, u, p, type))
      PROVE  Called
  <2> DEFINE row == [user |-> u, file_path |-> p, item_type |-> type, is_encrypted |-> FALSE]
  <2>1. CASE PathTaken(db, u, p, None)
    <3>1. db' = db
      BY <1>2, <2>1 DEF Do, insert_file_system_item, Raises, Returns
    <3> QED
      BY <3>1, SameFollows DEF Called
  <2>2. CASE ~PathTaken(db, u, p, None)
    <3>1. db' = Insert(db, "files", row).db
      BY <1>2, <2>2 DEF Do, insert_file_system_item
    <3>2. u \in Id
      BY DEF AccountsSound, IsDb, Tables, Id, Users
    <3>3. RowOK("files", row)
      BY <3>2 DEF RowOK, Rows, FileSystemItem, FileSystemItemType
    <3>4. None \notin DOMAIN db.files
      BY NoneAndFailure DEF AccountsSound, IsDb, Tables, Id
    <3>5. \A i \in DOMAIN db.files : ~Same("files", row, db.files[i])
      BY <2>2, <3>4 DEF PathTaken, Same
    <3>6. Follows(db, db') /\ db'.next \in {db.next, db.next + 1}
      BY <1>1, <3>1, <3>3, <3>5, InsertFollows
    <3> QED
      BY <1>2, <3>6 DEF Called
  <2> QED
    BY <2>1, <2>2
<1>3. ASSUME NEW i, NEW f, FitChange(db, "files", i, f),
             db' = AnyRow(Change(db, "files", {i}, f)).db
      PROVE  Called
  <2>1. db' = Change(db, "files", {i}, f).db
    BY <1>3, AnyRowKeeps
  <2>2. Follows(db, db') /\ db'.next = db.next
    BY <1>1, <1>3, <2>1, ChangeFollows
  <2> QED
    BY <2>2 DEF Called
<1>4. ASSUME NEW i \in Ids, NEW p \in Paths, Do(update_file_system_item_path(db, i, p))
      PROVE  Called
  <2> DEFINE f == [file_path |-> p]
  <2>1. CASE i \in DOMAIN db.files /\ PathTaken(db, db.files[i].user, p, i)
    <3>1. db' = db
      BY <1>4, <2>1 DEF Do, update_file_system_item_path, Raises, Returns
    <3> QED
      BY <3>1, SameFollows DEF Called
  <2>2. CASE ~(i \in DOMAIN db.files /\ PathTaken(db, db.files[i].user, p, i))
    <3>1. db' = AnyRow(Change(db, "files", {i}, f)).db
      BY <1>4, <2>2 DEF Do, update_file_system_item_path
    <3>2. DOMAIN f = {"file_path"} /\ f.file_path = p
      OBVIOUS
    <3> HIDE DEF f
    <3>3. FitChange(db, "files", i, f)
      BY <2>2, <3>2, ItemFits
    <3> QED
      BY <1>3, <3>1, <3>3
  <2> QED
    BY <2>1, <2>2
<1>5. ASSUME NEW i \in Ids, NEW p \in Paths,
             Do(update_file_system_item(db, i, p, "file", FALSE))
      PROVE  Called
  <2> DEFINE f == [file_path |-> p, item_type |-> "file", is_encrypted |-> FALSE]
  <2>1. \/ db' = db
        \/ /\ ~(i \in DOMAIN db.files /\ PathTaken(db, db.files[i].user, p, i))
           /\ db' = AnyRow(Change(db, "files", {i}, f)).db
    BY <1>5 DEF Do, update_file_system_item, Raises, Returns
  <2>2. CASE db' = db
    BY <2>2, SameFollows DEF Called
  <2>3. CASE /\ ~(i \in DOMAIN db.files /\ PathTaken(db, db.files[i].user, p, i))
             /\ db' = AnyRow(Change(db, "files", {i}, f)).db
    <3>1. /\ DOMAIN f = {"file_path", "item_type", "is_encrypted"}
          /\ f.file_path = p /\ f.item_type \in FileSystemItemType
          /\ f.is_encrypted \in BOOLEAN
      BY DEF FileSystemItemType
    <3> HIDE DEF f
    <3>2. FitChange(db, "files", i, f)
      BY <2>3, <3>1, ItemFits
    <3> QED
      BY <1>3, <2>3, <3>2
  <2> QED
    BY <2>1, <2>2, <2>3
<1>6. ASSUME NEW i \in Ids, Do(update_file_system_item_encryption(db, i, TRUE))
      PROVE  Called
  <2> DEFINE f == [is_encrypted |-> TRUE]
  <2>1. db' = AnyRow(Change(db, "files", {i}, f)).db
    BY <1>6 DEF Do, update_file_system_item_encryption
  <2>2. DOMAIN f = {"is_encrypted"} /\ f.is_encrypted \in BOOLEAN
    OBVIOUS
  <2> HIDE DEF f
  <2>3. FitChange(db, "files", i, f)
    BY <2>2, ItemFits
  <2> QED
    BY <1>3, <2>1, <2>3
<1>7. ASSUME NEW S, db' \in {AnyRow(Delete(db, "files", S)).db, Delete(db, "files", S).db}
      PROVE  Called
  <2>1. db' = Delete(db, "files", S).db
    BY <1>7, AnyRowKeeps
  <2>2. Follows(db, db') /\ db'.next = db.next
    BY <2>1, DeleteFollows
  <2> QED
    BY <2>2 DEF Called
<1>8. ASSUME NEW i, NEW p, \/ Do(delete_file_system_item_by_id(db, i))
                           \/ Do(delete_file_system_items_by_user(db, i))
                           \/ Do(delete_file_system_items_by_path(db, i, p))
      PROVE  Called
  <2>1. PICK S : db' \in {AnyRow(Delete(db, "files", S)).db, Delete(db, "files", S).db}
    BY <1>8 DEF Do, delete_file_system_item_by_id, delete_file_system_items_by_user,
                delete_file_system_items_by_path
  <2> QED
    BY <1>7, <2>1
<1> QED
  BY <1>2, <1>4, <1>5, <1>6, <1>8 DEF FileCall

\* Agents' sessions and tasks come, change and go.
LEMMA A2ACallFollows ==
    ASSUME AccountsSound(db), A2ACall
    PROVE  Called
<1> DEFINE S == "a2aSessions"
           T == "a2aTasks"
<1>1. S \in DOMAIN Rows /\ T \in DOMAIN Rows
  BY TablesWithRows
<1>2. ASSUME NEW t \in {S, T}, NEW r, NEW q PROVE ~Same(t, r, q)
  BY DEF Same
<1>3. ASSUME NEW t \in {S, T}, NEW row \in Rows[t], Room, db' = Insert(db, t, row).db
      PROVE  Called
  <2>1. t \in DOMAIN Rows /\ RowOK(t, row)
    BY <1>1 DEF RowOK
  <2>2. Follows(db, db') /\ db'.next \in {db.next, db.next + 1}
    BY <1>2, <1>3, <2>1, InsertFollows
  <2> QED
    BY <1>3, <2>2 DEF Called
<1>4. ASSUME NEW a \in Users, NEW b \in Users, Room, Do(insert_a2a_session(db, a, b))
      PROVE  Called
  <2>1. a \in Id /\ b \in Id
    BY DEF AccountsSound, IsDb, Tables, Id, Users
  <2>2. [userA |-> a, userB |-> b] \in Rows.a2aSessions
    BY <2>1 DEF Rows, A2ASession
  <2> QED
    BY <1>3, <1>4, <2>2 DEF Do, insert_a2a_session
<1>5. ASSUME NEW s \in Ids, Room, Do(insert_a2a_task(db, s, None))
      PROVE  Called
  <2>1. s \in Id
    BY DEF Ids, Id
  <2>2. [a2aSession |-> s, status |-> "pending"] \in Rows.a2aTasks
    BY <2>1 DEF Rows, A2ASessionTask
  <2> QED
    BY <1>3, <1>5, <2>2 DEF Do, insert_a2a_task
<1>6. ASSUME NEW t \in {S, T}, NEW i, NEW f, DOMAIN f \cap DOMAIN Refers \subseteq Keys[t],
             i \in DOMAIN db[t] => Over(f, db[t][i]) \in Rows[t],
             db' \in {db, Change(db, t, {i}, f).db}
      PROVE  Called
  <2>1. FitChange(db, t, i, f)
    BY <1>2, <1>6 DEF FitChange, Fits, RowOK
  <2>2. CASE db' = db
    BY <2>2, SameFollows DEF Called
  <2>3. CASE db' = Change(db, t, {i}, f).db
    <3>1. Follows(db, db') /\ db'.next = db.next
      BY <1>1, <2>1, <2>3, ChangeFollows
    <3> QED
      BY <3>1 DEF Called
  <2> QED
    BY <1>6, <2>2, <2>3
<1>7. ASSUME NEW i \in Ids, NEW u \in Ids, Do(update_a2a_session_fields(db, i, [userB |-> u]))
      PROVE  Called
  <2> DEFINE f == [userB |-> u]
  <2>1. db' \in {db, Change(db, S, {i}, f).db}
    BY <1>7, UpdateFieldsIsChange DEF Do, update_a2a_session_fields
  <2>2. DOMAIN f \cap DOMAIN Refers \subseteq Keys.a2aSessions
    BY DEF Keys
  <2>3. ASSUME i \in DOMAIN db.a2aSessions PROVE Over(f, db.a2aSessions[i]) \in Rows.a2aSessions
    <3>1. db.a2aSessions[i] \in [userA : Id, userB : Id]
      BY <1>1, <2>3 DEF AccountsSound, RowOK, Rows, A2ASession
    <3>2. Over(f, db.a2aSessions[i]) = [userA |-> db.a2aSessions[i].userA, userB |-> u]
      BY <3>1 DEF Over
    <3>3. u \in Id
      BY DEF Ids, Id
    <3> QED
      BY <3>1, <3>2, <3>3 DEF Rows, A2ASession
  <2> HIDE DEF f
  <2> QED
    BY <1>6, <2>1, <2>2, <2>3
<1>8. ASSUME NEW i \in Ids, NEW st \in {"processing", "completed"},
             db' \in {db, Change(db, T, {i}, [status |-> st]).db}
      PROVE  Called
  <2> DEFINE f == [status |-> st]
  <2>1. DOMAIN f \cap DOMAIN Refers \subseteq Keys.a2aTasks
    BY ReferredTo
  <2>2. ASSUME i \in DOMAIN db.a2aTasks PROVE Over(f, db.a2aTasks[i]) \in Rows.a2aTasks
    <3>1. db.a2aTasks[i] \in A2ASessionTask
      BY <1>1, <2>2 DEF AccountsSound, RowOK, Rows
    <3>2. Over(f, db.a2aTasks[i])
            = [a2aSession |-> db.a2aTasks[i].a2aSession, status |-> st]
      BY <3>1 DEF Over, A2ASessionTask
    <3> QED
      BY <3>1, <3>2 DEF Rows, A2ASessionTask
  <2>3. db' \in {db, Change(db, T, {i}, f).db}
    BY <1>8
  <2> HIDE DEF f
  <2> QED
    BY <1>6, <2>1, <2>2, <2>3
<1>9. ASSUME NEW i \in Ids, \/ Do(update_a2a_task_fields(db, i, [status |-> "processing"]))
                            \/ Do(update_a2a_task_status(db, i, "completed"))
      PROVE  Called
  <2>1. PICK st \in {"processing", "completed"} :
            db' \in {db, Change(db, T, {i}, [status |-> st]).db}
    BY <1>9, UpdateFieldsIsChange, AnyRowKeeps
       DEF Do, update_a2a_task_fields, update_a2a_task_status
  <2> QED
    BY <1>8, <2>1
<1>10. ASSUME NEW t \in {S, T}, NEW R, db' = AnyRow(Delete(db, t, R)).db
       PROVE  Called
  <2>1. db' = Delete(db, t, R).db
    BY <1>10, AnyRowKeeps
  <2>2. Follows(db, db') /\ db'.next = db.next
    BY <2>1, DeleteFollows
  <2> QED
    BY <2>2 DEF Called
<1>11. ASSUME NEW i \in Ids, \/ Do(delete_a2a_session(db, i)) \/ Do(delete_a2a_task(db, i))
                             \/ Do(delete_a2a_tasks_by_session(db, i))
       PROVE  Called
  <2>1. PICK R : \/ db' = AnyRow(Delete(db, S, R)).db
                 \/ db' = AnyRow(Delete(db, T, R)).db
    BY <1>11 DEF Do, delete_a2a_session, delete_a2a_task, delete_a2a_tasks_by_session
  <2> QED
    BY <1>10, <2>1
<1> QED
  BY <1>4, <1>5, <1>7, <1>9, <1>11 DEF A2ACall

-----------------------------------------------------------------------------
(* Signing in *)

\* A token was given to an account, for at most the long life.
TokenOK(token) ==
    token # None => token.sub \in Users /\ token.exp \in Nat /\ token.exp <= now + Long

\* The tables are sound, the bounds are kept, and tokens and answers are of accounts.
AInv ==
    /\ AccountsSound(db) /\ db.next <= MaxId + 1 /\ now \in 0..MaxNow
    /\ TokenOK(cookie) /\ TokenOK(header)
    /\ answered \in Users \cup {Refused}

\* A request is answered for an account that is live, or refused.
LEMMA AnsweredIsLive ==
    get_current_active_user = Refused \/ Live(db, get_current_active_user)
<1>1. ASSUME NEW token PROVE LET u == get_current_user_from_token(token)
                             IN  u = None \/ Live(db, u)
  BY DEF get_current_user_from_token, get_user
<1>2. get_current_user = None \/ Live(db, get_current_user)
  BY <1>1 DEF get_current_user
<1> QED
  BY <1>2 DEF get_current_active_user

\* A sign-in gives a token to an account that is live.
LEMMA AuthenticatedIsLive ==
    ASSUME NEW name, NEW password, authenticate_user(name, password) # None
    PROVE  Live(db, authenticate_user(name, password))
<1>1. authenticate_user(name, password) = get_user_id_by_name(db, name)
  BY DEF authenticate_user
<1>2. Named(db, name) # {}
  BY <1>1 DEF get_user_id_by_name
<1>3. get_user_id_by_name(db, name) \in Named(db, name)
  BY <1>2 DEF get_user_id_by_name
<1> QED
  BY <1>1, <1>3 DEF Named

\* A new token ends within the long life.
LEMMA NewTokenOK ==
    ASSUME now \in Nat, NEW u \in Users, NEW life \in {Short, Long}
    PROVE  TokenOK(create_access_token(u, life))
BY LifetimesOrdered DEF TokenOK, create_access_token

\* A sign-in, a request or the clock leaves the tables alone, and answers requests for
\* live accounts.
LEMMA SignInStep ==
    ASSUME AInv, login \/ Request \/ refresh_token \/ logout \/ KeepToken \/ Tick
    PROVE  /\ UNCHANGED db
           /\ AInv'
           /\ answered' \in {answered, Refused} \/ Live(db, answered')
<1>1. now \in Nat /\ MaxNow \in Nat /\ Long \in Nat
  BY BoundsAreNat, LifetimesOrdered DEF AInv
<1>2. \A u : Live(db, u) => u \in Users
  BY DEF Live, Users
<1>3. UNCHANGED db
  BY DEF login, Request, refresh_token, logout, KeepToken, Tick
<1>4. answered' \in {answered, Refused} \/ Live(db, answered')
  BY AnsweredIsLive DEF login, Request, refresh_token, logout, KeepToken, Tick
<1>5. UNCHANGED Users
  BY <1>3 DEF Users
<1>6. answered' \in Users' \cup {Refused}
  BY <1>2, <1>4, <1>5 DEF AInv
<1>7. AccountsSound(db)' /\ db'.next <= MaxId + 1
  BY <1>3 DEF AInv, AccountsSound
<1>8. now' \in 0..MaxNow /\ now <= now'
  BY <1>1 DEF AInv, login, Request, refresh_token, logout, KeepToken, Tick
<1>9. ASSUME NEW token, TokenOK(token)
      PROVE  token # None =>
                token.sub \in Users' /\ token.exp \in Nat /\ token.exp <= now' + Long
  BY <1>1, <1>5, <1>8, <1>9 DEF TokenOK
<1>10. CASE login
  <2>1. PICK name \in Names, password \in Passwords, rememberMe \in BOOLEAN :
            /\ authenticate_user(name, password) # None
            /\ cookie' = create_access_token(authenticate_user(name, password),
                                             IF rememberMe THEN Long ELSE Short)
            /\ UNCHANGED <<db, now, header, answered>>
    BY <1>10 DEF login
  <2>2. authenticate_user(name, password) \in Users
    BY <1>2, <2>1, AuthenticatedIsLive
  <2>3. TokenOK(cookie')
    BY <1>1, <2>1, <2>2, NewTokenOK
  <2>4. TokenOK(cookie)'
    BY <1>9, <2>3 DEF TokenOK
  <2>5. TokenOK(header)'
    BY <1>9, <2>1 DEF AInv, TokenOK
  <2> QED
    BY <1>3, <1>4, <1>6, <1>7, <1>8, <2>4, <2>5 DEF AInv
<1>11. CASE refresh_token
  <2>1. /\ answered' = get_current_active_user
        /\ cookie' = IF answered' = Refused THEN cookie
                     ELSE create_access_token(answered', Short)
        /\ UNCHANGED <<db, now, header>>
    BY <1>11 DEF refresh_token
  <2>2. TokenOK(cookie')
    <3>1. CASE answered' = Refused
      BY <2>1, <3>1 DEF AInv
    <3>2. CASE answered' # Refused
      <4>1. answered' \in Users
        BY <1>2, <2>1, <3>2, AnsweredIsLive
      <4> QED
        BY <1>1, <2>1, <3>2, <4>1, NewTokenOK
    <3> QED
      BY <3>1, <3>2
  <2>3. TokenOK(cookie)'
    BY <1>9, <2>2 DEF TokenOK
  <2>4. TokenOK(header)'
    BY <1>9, <2>1 DEF AInv, TokenOK
  <2> QED
    BY <1>3, <1>4, <1>6, <1>7, <1>8, <2>3, <2>4 DEF AInv
<1>12. CASE Request \/ logout \/ KeepToken \/ Tick
  <2>1. cookie' \in {cookie, None} /\ header' \in {header, cookie}
    BY <1>12 DEF Request, logout, KeepToken, Tick
  <2>2. TokenOK(cookie)'
    BY <1>9, <2>1 DEF AInv, TokenOK
  <2>3. TokenOK(header)'
    BY <1>9, <2>1 DEF AInv, TokenOK
  <2> QED
    BY <1>3, <1>4, <1>6, <1>7, <1>8, <2>2, <2>3 DEF AInv
<1> QED
  BY <1>3, <1>4, <1>10, <1>11, <1>12

\* A call on the tables keeps the accounts that tokens and answers are of.
LEMMA CallStep ==
    ASSUME AInv, sign_up \/ UpdateUser \/ DeleteUser \/ FileCall \/ A2ACall
    PROVE  Follows(db, db') /\ AInv' /\ UNCHANGED answered
<1>1. now \in Nat /\ AccountsSound(db)
  BY BoundsAreNat DEF AInv
<1>2. Called
  BY <1>1, SignUpFollows, UpdateUserFollows, DeleteUserFollows, FileCallFollows,
     A2ACallFollows
<1>3. UNCHANGED <<now, cookie, header, answered>>
  BY DEF sign_up, UpdateUser, DeleteUser, FileCall, A2ACall, Do
<1>4. Users \subseteq Users'
  BY <1>2 DEF Called, Follows, Users
<1>5. db'.next <= MaxId + 1
  <2>1. db.next \in Nat /\ MaxId \in Nat
    BY <1>1, BoundsAreNat DEF AccountsSound, IsDb, Id
  <2> QED
    BY <1>2, <2>1 DEF Called, Room, AInv
<1>6. TokenOK(cookie)' /\ TokenOK(header)'
  BY <1>3, <1>4 DEF AInv, TokenOK
<1> QED
  BY <1>2, <1>3, <1>4, <1>5, <1>6 DEF AInv, Called, Follows

-----------------------------------------------------------------------------
(* The specification *)

Out(u) ==
    ~Live(db, u) => ~Live(db, u)' /\ (answered' # answered => answered' # u)

LEMMA InitHolds == Init => AInv
<1> SUFFICES ASSUME Init PROVE AInv
  OBVIOUS
<1>1. AccountsSound(db) /\ db.next = 1
  BY SoundInit DEF Init
<1> QED
  BY <1>1, BoundsAreNat DEF Init, AInv, TokenOK

\* Every step keeps the tables sound and the deleted accounts out.
LEMMA Step ==
    ASSUME AInv, [Next]_vars
    PROVE  AInv' /\ \A u \in Users : Out(u)
<1>1. CASE sign_up \/ UpdateUser \/ DeleteUser \/ FileCall \/ A2ACall
  BY <1>1, CallStep DEF Follows, Users, Out, Live
<1>2. CASE login \/ Request \/ refresh_token \/ logout \/ KeepToken \/ Tick
  <2>1. Refused \notin Users
    BY NoneAndFailure DEF AInv, AccountsSound, IsDb, Tables, Users, Refused
  <2> QED
    BY <1>2, <2>1, SignInStep DEF Out, Live
<1>3. CASE UNCHANGED vars
  <2>1. AInv'
    BY <1>3 DEF AInv, TokenOK, Users, vars
  <2> QED
    BY <1>3, <2>1 DEF Out, Live, vars
<1> QED
  BY <1>1, <1>2, <1>3 DEF Next

LEMMA AInvAlways == Spec => []AInv
<1>1. AInv /\ [Next]_vars => AInv'
  BY Step
<1> QED
  BY <1>1, InitHolds, PTL DEF Spec

\* Ids are given out once, the foreign keys hold, a name and a path are of one row, and
\* every account has a hash of its own salt, whatever calls are made in whatever order.
THEOREM SoundAlways == Spec => []AccountsSound(db)
<1>1. AInv => AccountsSound(db)
  BY DEF AInv
<1> QED
  BY <1>1, AInvAlways, PTL

\* A user name belongs to one account for ever, a path of an account to one item, no row
\* refers to one that is gone, and the tables and tokens keep their types, with any number
\* of accounts, names, items and sessions between agents.
THEOREM KeysAlwaysKept == Spec => []KeysKept
<1>1. ASSUME AInv PROVE TypeOK
  <2>1. db.next \in 1..MaxId + 1
    BY <1>1, BoundsAreNat DEF AInv, AccountsSound, IsDb, Id
  <2>2. \A t \in Tables : DOMAIN db[t] \subseteq 1..db.next - 1
    BY <1>1 DEF AInv, AccountsSound, IsDb
  <2>3. \A t \in DOMAIN Rows : \A i \in DOMAIN db[t] : db[t][i] \in Rows[t]
    BY <1>1 DEF AInv, AccountsSound, RowOK
  <2> QED
    BY <1>1, <2>1, <2>2, <2>3 DEF TypeOK, AInv, TokenOK
<1>2. ASSUME AInv PROVE KeysKept
  <2>1. \A u, v \in Users : db.users[u].user_name = db.users[v].user_name => u = v
    BY <1>2, TablesWithRows DEF AInv, AccountsSound, Same, Users
  <2>2. \A i, j \in DOMAIN db.files :
            /\ db.files[i].user = db.files[j].user
            /\ db.files[i].file_path = db.files[j].file_path
            => i = j
    BY <1>2, TablesWithRows DEF AInv, AccountsSound, Same
  <2>3. \A t \in Tables : \A i \in DOMAIN db[t] : KeysHold(db, db[t][i])
    BY <1>2 DEF AInv, AccountsSound, Keyed
  <2> QED
    BY <1>1, <1>2, <2>1, <2>2, <2>3 DEF KeysKept
<1> QED
  BY <1>2, AInvAlways, PTL

\* The owner of a live account can sign in to it with one password, and only one, after
\* any number of renamings and new passwords of any accounts.
THEOREM OnePasswordAlways == Spec => []OnePassword
<1>1. ASSUME AInv, NEW u \in Users, Live(db, u)
      PROVE  Cardinality({p \in Passwords :
                 authenticate_user(db.users[u].user_name, p) = u}) = 1
  <2> DEFINE q == db.users[u]
             in == {p \in Passwords : authenticate_user(q.user_name, p) = u}
  <2>1. q \in SimpleUser(Names, Passwords \X Nat)
    BY <1>1, TablesWithRows DEF AInv, AccountsSound, RowOK, Rows, Users
  <2>2. PICK k \in Passwords : q.hashed_password = <<k, q.salt>>
    BY <1>1, TablesWithRows DEF AInv, AccountsSound, RowOK, Users
  <2>3. u # None
    BY <1>1, NoneAndFailure DEF AInv, AccountsSound, IsDb, Tables, Users
  <2>4. Named(db, q.user_name) = {u}
    <3>1. \A v \in Users : db.users[v].user_name = q.user_name => v = u
      BY <1>1, TablesWithRows DEF AInv, AccountsSound, Same, Users
    <3> QED
      BY <1>1, <3>1 DEF Named, Live, Users
  <2>5. get_user_id_by_name(db, q.user_name) = u
    BY <2>4 DEF get_user_id_by_name
  <2>6. get_user_by_username(db, q.user_name) = q
    BY <2>4 DEF get_user_by_username
  <2>7. q # None
    BY <2>1, NullIsNoRow
  <2> HIDE DEF q
  <2>8. \A p : authenticate_user(q.user_name, p) = u
                  <=> verify_password_with_salt(p, q.salt, q.hashed_password)
    BY <2>3, <2>5, <2>6, <2>7 DEF authenticate_user
  <2>9. in = {k}
    BY <2>2, <2>8 DEF verify_password_with_salt
  <2>10. Cardinality({k}) = 1
    BY FS_Singleton
  <2> QED
    BY <2>9, <2>10 DEF q
<1>2. AInv => OnePassword
  BY <1>1 DEF OnePassword
<1> QED
  BY <1>2, AInvAlways, PTL

\* A deleted account stays deleted and no request is answered for it, with any number
\* of accounts, tokens, renamings and calls of the other tables.
THEOREM DeletedStaysOut == Spec => DeletedIsOut
<1>1. AInv /\ [Next]_vars
        => [\A u \in Users : ~Live(db, u) =>
               /\ ~Live(db, u)'
               /\ answered' # answered => answered' # u]_vars
  BY Step DEF Out
<1> QED
  BY <1>1, AInvAlways, PTL DEF Spec, DeletedIsOut
=============================================================================
