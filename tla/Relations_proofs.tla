--------------------------- MODULE Relations_proofs ---------------------------
(* What the statements of Relations do to a database, for every database and *)
(* row: which rows are there afterwards, and that the foreign keys hold. The *)
(* proofs of the modules that keep their tables in it rest on these lemmas.  *)
EXTENDS Relations, TLAPS, WellFoundedInduction, FiniteSetTheorems, SequenceTheorems

\* The foreign key columns that the rows of each table have.
ChatKeys == {"user", "session", "task"}
Keys == [users |-> {}, sessions |-> {"user"}, tasks |-> {"user", "session"},
         userMsgs |-> ChatKeys, agentMsgs |-> ChatKeys,
         userMems |-> ChatKeys, agentMems |-> ChatKeys, configs |-> {"session"},
         files |-> {"user"}, a2aSessions |-> {"userA", "userB"},
         a2aTasks |-> {"a2aSession"}]

\* A database: its tables hold rows under ids that have been given out.
IsDb(d) ==
    /\ DOMAIN d = Tables \cup {"next"}
    /\ d = [x \in Tables \cup {"next"} |-> d[x]]
    /\ d.next \in Id
    /\ \A t \in Tables : DOMAIN d[t] \subseteq 1 .. d.next - 1

\* The rows of each table have its foreign key columns, and the keys hold.
Keyed(d) ==
    \A t \in Tables : \A i \in DOMAIN d[t] :
        DOMAIN d[t][i] \cap DOMAIN Refers = Keys[t] /\ KeysHold(d, d[t][i])

\* From d to e a row is added to t, and nothing else happens.
Inserted(d, e, t, row) ==
    /\ KeysHold(d, row)
    /\ e.next = d.next + 1
    /\ d.next \notin DOMAIN d[t]
    /\ DOMAIN e[t] = DOMAIN d[t] \cup {d.next}
    /\ e[t][d.next] = row
    /\ \A i \in DOMAIN d[t] : e[t][i] = d[t][i]
    /\ \A s \in Tables \ {t} : e[s] = d[s]

\* From d to e the rows of t with these ids take the values of the fields.
Changed(d, e, t, ids, fields) ==
    /\ ids \cap DOMAIN d[t] # {} => KeysHold(d, fields)
    /\ e.next = d.next
    /\ DOMAIN e[t] = DOMAIN d[t]
    /\ \A i \in DOMAIN d[t] \cap ids : e[t][i] = Over(fields, d[t][i])
    /\ \A i \in DOMAIN d[t] \ ids : e[t][i] = d[t][i]
    /\ \A s \in Tables \ {t} : e[s] = d[s]

\* From d to e rows go, and the rows that stay keep their values.
Removed(d, e) ==
    /\ e.next = d.next
    /\ \A t \in Tables : /\ DOMAIN e[t] \subseteq DOMAIN d[t]
                         /\ \A i \in DOMAIN e[t] : e[t][i] = d[t][i]

\* From d to e rows of a list are added to t, and nothing else happens.
Added(d, e, t, rows) ==
    /\ DOMAIN d[t] \subseteq DOMAIN e[t]
    /\ \A i \in DOMAIN d[t] : e[t][i] = d[t][i]
    /\ \A i \in DOMAIN e[t] \ DOMAIN d[t] :
          /\ i >= d.next
          /\ \E k \in DOMAIN rows : e[t][i] = rows[k] /\ KeysHold(d, rows[k])
    /\ \A s \in Tables \ {t} : e[s] = d[s]

-----------------------------------------------------------------------------
(* Keys *)

\* The tables that are referred to, and the columns that refer to them.
LEMMA ReferredTo ==
    /\ DOMAIN Refers = {"user", "userA", "userB", "session", "task", "a2aSession"}
    /\ Refers.user = "users" /\ Refers.userA = "users" /\ Refers.userB = "users"
    /\ Refers.session = "sessions" /\ Refers.task = "tasks"
    /\ Refers.a2aSession = "a2aSessions"
    /\ \A c \in DOMAIN Refers : Refers[c] \in Tables
BY DEF Refers, Tables

\* Keys go on holding when no row goes.
LEMMA KeysStay ==
    ASSUME NEW d, NEW e, NEW row, KeysHold(d, row),
           \A t \in Tables : DOMAIN d[t] \subseteq DOMAIN e[t]
    PROVE  KeysHold(e, row)
BY ReferredTo DEF KeysHold

\* A row that is changed has the keys it had, or those it is given.
LEMMA OverKeys ==
    ASSUME NEW d, NEW f, NEW g, KeysHold(d, f), KeysHold(d, g)
    PROVE  KeysHold(d, Over(f, g))
BY DEF KeysHold, Over

-----------------------------------------------------------------------------
(* Statements *)

\* An insert adds the row under a new id, or leaves the database as it was.
LEMMA InsertEffect ==
    ASSUME NEW d, IsDb(d), NEW t \in Tables, NEW row, NEW e, e = Insert(d, t, row).db
    PROVE  IsDb(e) /\ (e = d \/ Inserted(d, e, t, row))
<1> DEFINE new == [i \in d.next .. d.next |-> row]
           rows == Over([i \in d.next .. d.next + Len(<<row>>) - 1
                            |-> <<row>>[i - d.next + 1]], d[t])
           f == [d EXCEPT ![t] = rows, !.next = @ + Len(<<row>>)]
<1>1. e = d \/ (e = f /\ KeysHold(d, row))
  <2>1. Insert(d, t, row).db = InsertAll(d, t, <<row>>).db
    BY DEF Insert, Returns
  <2>2. DOMAIN <<row>> = {1} /\ <<row>>[1] = row
    OBVIOUS
  <2>3. (\A k \in DOMAIN <<row>> : KeysHold(d, <<row>>[k])) <=> KeysHold(d, row)
    BY <2>2
  <2>4. InsertAll(d, t, <<row>>).db = IF KeysHold(d, row) THEN f ELSE d
    BY <2>3 DEF InsertAll, Returns, Raises
  <2> HIDE DEF f
  <2> QED
    BY <2>1, <2>4
<1>2. /\ d.next \in Nat /\ d.next > 0 /\ t # "next" /\ DOMAIN d = Tables \cup {"next"}
      /\ DOMAIN d[t] \subseteq 1 .. d.next - 1
  BY DEF IsDb, Id, Tables
<1>3. [i \in d.next .. d.next + Len(<<row>>) - 1 |-> <<row>>[i - d.next + 1]] = new
  <2>1. d.next + Len(<<row>>) - 1 = d.next
    BY <1>2
  <2>2. \A i \in d.next .. d.next : <<row>>[i - d.next + 1] = row
    BY <1>2
  <2> QED
    BY <2>1, <2>2
<1>4. rows = Over(new, d[t])
  BY <1>3
<1>5. /\ DOMAIN rows = {d.next} \cup DOMAIN d[t]
      /\ rows[d.next] = row
      /\ d.next \notin DOMAIN d[t]
      /\ \A i \in DOMAIN d[t] : rows[i] = d[t][i]
  BY <1>2, <1>4 DEF Over
<1> HIDE DEF rows
<1>6. /\ f = [s \in Tables \cup {"next"} |-> f[s]]
      /\ DOMAIN f = Tables \cup {"next"}
      /\ f.next = d.next + 1
      /\ f[t] = rows
      /\ \A s \in Tables \ {t} : f[s] = d[s]
  BY <1>2 DEF IsDb, Tables
<1> HIDE DEF f
<1>7. IsDb(f)
  <2>1. f.next \in Id
    BY <1>2, <1>6 DEF Id
  <2>2. ASSUME NEW s \in Tables PROVE DOMAIN f[s] \subseteq 1 .. f.next - 1
    <3>1. DOMAIN d[s] \subseteq 1 .. d.next - 1
      BY DEF IsDb
    <3>2. DOMAIN f[s] \subseteq DOMAIN d[s] \cup {d.next}
      BY <1>5, <1>6
    <3> QED
      BY <1>2, <1>6, <3>1, <3>2
  <2> QED
    BY <1>6, <2>1, <2>2 DEF IsDb
<1>8. KeysHold(d, row) => Inserted(d, f, t, row)
  BY <1>5, <1>6 DEF Inserted
<1> QED
  BY <1>1, <1>7, <1>8

\* An update writes the fields of the rows it names, or raises.
LEMMA ChangeEffect ==
    ASSUME NEW d, IsDb(d), NEW t \in Tables, NEW ids, NEW fields,
           NEW e, e = Change(d, t, ids, fields).db
    PROVE  /\ IsDb(e) /\ (e = d \/ Changed(d, e, t, ids, fields))
           /\ KeysHold(d, fields) => Changed(d, e, t, ids, fields)
<1> DEFINE hit == ids \cap DOMAIN d[t]
           rows == Over([i \in hit |-> Over(fields, d[t][i])], d[t])
           f == [d EXCEPT ![t] = rows]
<1>1. /\ e = d \/ (e = f /\ (hit # {} => KeysHold(d, fields)))
      /\ KeysHold(d, fields) => e = f
  BY DEF Change, Returns, Raises
<1>2. /\ d.next \in Nat /\ t # "next" /\ DOMAIN d = Tables \cup {"next"}
  BY DEF IsDb, Id, Tables
<1>3. /\ DOMAIN rows = DOMAIN d[t]
      /\ \A i \in hit : rows[i] = Over(fields, d[t][i])
      /\ \A i \in DOMAIN d[t] : i \notin hit => rows[i] = d[t][i]
  BY DEF Over
<1> HIDE DEF rows
<1>4. /\ f = [s \in Tables \cup {"next"} |-> f[s]]
      /\ DOMAIN f = Tables \cup {"next"}
      /\ f.next = d.next
      /\ f[t] = rows
      /\ \A s \in Tables \ {t} : f[s] = d[s]
  BY <1>2 DEF IsDb, Tables
<1> HIDE DEF f
<1>5. IsDb(f)
  <2>1. ASSUME NEW s \in Tables PROVE DOMAIN f[s] = DOMAIN d[s]
    BY <1>3, <1>4
  <2> QED
    BY <1>4, <2>1 DEF IsDb
<1>6. (hit # {} => KeysHold(d, fields)) => Changed(d, f, t, ids, fields)
  BY <1>3, <1>4 DEF Changed
<1> QED
  BY <1>1, <1>5, <1>6

\* Whether there was a row to write, the database is what the statement left.
LEMMA AnyRowKeeps == ASSUME NEW r PROVE AnyRow(r).db = r.db
BY DEF AnyRow, Returns

\* The functions that update up to some columns run one update, or none.
LEMMA UpdateFieldsIsChange ==
    ASSUME NEW d, NEW t, NEW id, NEW fields, NEW most
    PROVE  UpdateFields(d, t, id, fields, most).db \in {d, Change(d, t, {id}, fields).db}
<1> DEFINE change == Change(d, t, {id}, fields)
<1>1. AnyRow(change).db = change.db
  BY AnyRowKeeps
<1> HIDE DEF change
<1>2. UpdateFields(d, t, id, fields, most).db \in {d, AnyRow(change).db}
  BY DEF UpdateFields, Returns, Raises, change
<1> QED
  BY <1>1, <1>2 DEF change

\* Keys hold after an insert of a row of the table's columns ...
LEMMA InsertKeys ==
    ASSUME NEW d, NEW e, Keyed(d), NEW t \in Tables, NEW row, Inserted(d, e, t, row),
           DOMAIN row \cap DOMAIN Refers = Keys[t]
    PROVE  Keyed(e)
<1>1. \A s \in Tables : DOMAIN d[s] \subseteq DOMAIN e[s]
  BY DEF Inserted
<1> SUFFICES ASSUME NEW s \in Tables, NEW i \in DOMAIN e[s]
             PROVE  DOMAIN e[s][i] \cap DOMAIN Refers = Keys[s] /\ KeysHold(e, e[s][i])
  BY DEF Keyed
<1>2. CASE i \in DOMAIN d[s]
  <2>1. e[s][i] = d[s][i]
    BY <1>2 DEF Inserted
  <2>2. DOMAIN d[s][i] \cap DOMAIN Refers = Keys[s] /\ KeysHold(d, d[s][i])
    BY <1>2 DEF Keyed
  <2> QED
    BY <1>1, <2>1, <2>2, KeysStay
<1>3. CASE i \notin DOMAIN d[s]
  <2>1. s = t /\ e[s][i] = row /\ KeysHold(d, row)
    BY <1>3 DEF Inserted
  <2> QED
    BY <1>1, <2>1, KeysStay
<1> QED
  BY <1>2, <1>3

\* ... and after an update.
LEMMA ChangeKeys ==
    ASSUME NEW d, NEW e, Keyed(d), NEW t \in Tables, NEW ids, NEW fields,
           Changed(d, e, t, ids, fields),
           DOMAIN fields \cap DOMAIN Refers \subseteq Keys[t]
    PROVE  Keyed(e)
<1>1. \A s \in Tables : DOMAIN d[s] = DOMAIN e[s]
  BY DEF Changed
<1> SUFFICES ASSUME NEW s \in Tables, NEW i \in DOMAIN e[s]
             PROVE  DOMAIN e[s][i] \cap DOMAIN Refers = Keys[s] /\ KeysHold(e, e[s][i])
  BY DEF Keyed
<1>2. DOMAIN d[s][i] \cap DOMAIN Refers = Keys[s] /\ KeysHold(d, d[s][i])
  BY <1>1 DEF Keyed
<1>3. CASE s = t /\ i \in ids
  <2>1. e[s][i] = Over(fields, d[s][i]) /\ KeysHold(d, fields)
    BY <1>1, <1>3 DEF Changed
  <2>2. KeysHold(d, Over(fields, d[s][i]))
    BY <1>2, <2>1, OverKeys
  <2>3. DOMAIN Over(fields, d[s][i]) = DOMAIN fields \cup DOMAIN d[s][i]
    BY DEF Over
  <2>4. KeysHold(e, e[s][i])
    BY <1>1, <2>1, <2>2, KeysStay
  <2> QED
    BY <1>2, <1>3, <2>1, <2>3, <2>4
<1>4. CASE ~(s = t /\ i \in ids)
  <2>1. e[s][i] = d[s][i]
    BY <1>1, <1>4 DEF Changed
  <2> QED
    BY <1>1, <1>2, <2>1, KeysStay
<1> QED
  BY <1>3, <1>4

\* Rows that go take the rows that refer to them along, or keys no longer hold: the
\* rows that stay refer to rows that stay.
LEMMA RemoveKeys ==
    ASSUME NEW d, NEW e, Keyed(d), Removed(d, e),
           \A t \in Tables : \A i \in DOMAIN e[t] : \A c \in Keys[t] :
               d[t][i][c] \in DOMAIN d[Refers[c]] => d[t][i][c] \in DOMAIN e[Refers[c]]
    PROVE  Keyed(e)
<1> SUFFICES ASSUME NEW t \in Tables, NEW i \in DOMAIN e[t]
             PROVE  DOMAIN e[t][i] \cap DOMAIN Refers = Keys[t] /\ KeysHold(e, e[t][i])
  BY DEF Keyed
<1>1. i \in DOMAIN d[t] /\ e[t][i] = d[t][i]
  BY DEF Removed
<1>2. DOMAIN d[t][i] \cap DOMAIN Refers = Keys[t] /\ KeysHold(d, d[t][i])
  BY <1>1 DEF Keyed
<1>3. ASSUME NEW c \in Keys[t]
      PROVE  d[t][i][c] = None \/ d[t][i][c] \in DOMAIN e[Refers[c]]
  BY <1>2 DEF KeysHold
<1> QED
  BY <1>1, <1>2, <1>3 DEF KeysHold

\* A delete from a table that nothing refers to, and of an agents' session with its
\* tasks, leaves every key that stays with its row.
LEMMA DeleteEffect ==
    ASSUME NEW d, IsDb(d), NEW t \in {"files", "a2aSessions", "a2aTasks"}, NEW S,
           NEW e, e = Delete(d, t, S).db
    PROVE  IsDb(e) /\ Removed(d, e) /\ (Keyed(d) => Keyed(e))
<1> DEFINE D == S \cap DOMAIN d[t]
           gone == {i \in DOMAIN d.a2aTasks : d.a2aTasks[i].a2aSession \in D}
<1>1. e = Drop(d, t, D)
  BY DEF Delete, Returns
<1>2. DOMAIN d = Tables \cup {"next"} /\ d = [s \in Tables \cup {"next"} |-> d[s]]
  BY DEF IsDb
<1>3. ASSUME NEW rows, NEW R
      PROVE  /\ DOMAIN Without(rows, R) = DOMAIN rows \ R
             /\ \A i \in DOMAIN rows \ R : Without(rows, R)[i] = rows[i]
  BY DEF Without
<1>4. ASSUME NEW f, f = [d EXCEPT ![t] = Without(@, D)]
      PROVE  /\ f = [s \in Tables \cup {"next"} |-> f[s]] /\ DOMAIN f = Tables \cup {"next"}
             /\ f.next = d.next
             /\ f[t] = Without(d[t], D)
             /\ \A s \in Tables \ {t} : f[s] = d[s]
  BY <1>2, <1>4 DEF Tables
<1>5. CASE t # "a2aSessions"
  <2>1. e = [d EXCEPT ![t] = Without(@, D)]
    BY <1>1, <1>5 DEF Drop
  <2>2. /\ e = [s \in Tables \cup {"next"} |-> e[s]] /\ DOMAIN e = Tables \cup {"next"}
        /\ e.next = d.next
        /\ e[t] = Without(d[t], D)
        /\ \A s \in Tables \ {t} : e[s] = d[s]
    BY <1>4, <2>1
  <2>3. DOMAIN e[t] = DOMAIN d[t] \ D /\ \A i \in DOMAIN d[t] \ D : e[t][i] = d[t][i]
    <3>1. /\ DOMAIN Without(d[t], D) = DOMAIN d[t] \ D
          /\ \A i \in DOMAIN d[t] \ D : Without(d[t], D)[i] = d[t][i]
      BY <1>3
    <3> QED
      BY <2>2, <3>1
  <2>4. Removed(d, e)
    BY <2>2, <2>3 DEF Removed
  <2>5. IsDb(e)
    BY <2>2, <2>4 DEF IsDb, Removed
  <2>6. \A c \in DOMAIN Refers : e[Refers[c]] = d[Refers[c]]
    BY <1>5, <2>2, ReferredTo DEF Tables
  <2>7. \A s \in Tables : Keys[s] \subseteq DOMAIN Refers
    BY ReferredTo DEF Keys, ChatKeys, Tables
  <2> QED
    BY <2>4, <2>5, <2>6, <2>7, RemoveKeys
<1>6. CASE t = "a2aSessions"
  <2>1. e = [d EXCEPT !.a2aSessions = Without(@, D), !.a2aTasks = Without(@, gone)]
    BY <1>1, <1>6 DEF Drop, DropA2ASessions
  <2> HIDE DEF gone
  <2>2. /\ e = [s \in Tables \cup {"next"} |-> e[s]] /\ DOMAIN e = Tables \cup {"next"}
        /\ e.next = d.next
        /\ e.a2aSessions = Without(d.a2aSessions, D)
        /\ e.a2aTasks = Without(d.a2aTasks, gone)
        /\ \A s \in Tables \ {"a2aSessions", "a2aTasks"} : e[s] = d[s]
    BY <1>2, <2>1 DEF Tables
  <2>3. /\ DOMAIN e.a2aSessions = DOMAIN d.a2aSessions \ D
        /\ \A i \in DOMAIN d.a2aSessions \ D : e.a2aSessions[i] = d.a2aSessions[i]
        /\ DOMAIN e.a2aTasks = DOMAIN d.a2aTasks \ gone
        /\ \A i \in DOMAIN d.a2aTasks \ gone : e.a2aTasks[i] = d.a2aTasks[i]
    <3>1. /\ DOMAIN Without(d.a2aSessions, D) = DOMAIN d.a2aSessions \ D
          /\ \A i \in DOMAIN d.a2aSessions \ D :
                Without(d.a2aSessions, D)[i] = d.a2aSessions[i]
      BY <1>3
    <3>2. /\ DOMAIN Without(d.a2aTasks, gone) = DOMAIN d.a2aTasks \ gone
          /\ \A i \in DOMAIN d.a2aTasks \ gone : Without(d.a2aTasks, gone)[i] = d.a2aTasks[i]
      BY <1>3
    <3> QED
      BY <2>2, <3>1, <3>2
  <2>4. Removed(d, e)
    BY <2>2, <2>3 DEF Removed
  <2>5. IsDb(e)
    BY <2>2, <2>4 DEF IsDb, Removed
  <2>6. ASSUME Keyed(d), NEW s \in Tables, NEW i \in DOMAIN e[s], NEW c \in Keys[s],
               d[s][i][c] \in DOMAIN d[Refers[c]]
        PROVE  d[s][i][c] \in DOMAIN e[Refers[c]]
    <3>1. CASE c # "a2aSession"
      <4>1. Refers[c] \in Tables \ {"a2aSessions", "a2aTasks"}
        BY <3>1, ReferredTo DEF Keys, ChatKeys, Tables
      <4> QED
        BY <2>2, <2>6, <4>1
    <3>2. CASE c = "a2aSession"
      <4>1. s = "a2aTasks"
        BY <2>6, <3>2 DEF Keys, ChatKeys, Tables
      <4>2. i \notin gone /\ i \in DOMAIN d.a2aTasks
        BY <2>3, <2>6, <4>1
      <4>3. d.a2aTasks[i].a2aSession \notin D
        BY <4>2 DEF gone
      <4> QED
        <5>1. d[s][i][c] \in DOMAIN d.a2aSessions \ D
          BY <1>6, <2>6, <3>2, <4>1, <4>3, ReferredTo
        <5> QED
          BY <2>3, <3>2, <5>1, ReferredTo
    <3> QED
      BY <3>1, <3>2
  <2> QED
    BY <2>4, <2>5, <2>6, RemoveKeys
<1> QED
  BY <1>5, <1>6

-----------------------------------------------------------------------------
(* Lists of rows *)

\* An insert of a list adds its rows under new ids, all or none.
LEMMA InsertAllEffect ==
    ASSUME NEW d, IsDb(d), NEW t \in Tables, NEW R, NEW rows \in Seq(R),
           NEW e, e = InsertAll(d, t, rows).db
    PROVE  /\ IsDb(e) /\ e.next \in {d.next, d.next + Len(rows)}
           /\ e = d \/ Added(d, e, t, rows)
<1> DEFINE n == Len(rows)
           new == [i \in d.next .. d.next + n - 1 |-> rows[i - d.next + 1]]
           all == Over(new, d[t])
           f == [d EXCEPT ![t] = all, !.next = @ + n]
<1>1. e = d \/ (e = f /\ \A k \in DOMAIN rows : KeysHold(d, rows[k]))
  BY DEF InsertAll, Returns, Raises
<1>2. /\ d.next \in Nat /\ d.next > 0 /\ t # "next" /\ DOMAIN d = Tables \cup {"next"}
      /\ DOMAIN d[t] \subseteq 1 .. d.next - 1
      /\ n \in Nat /\ DOMAIN rows = 1 .. n
  BY DEF IsDb, Id, Tables
<1> HIDE DEF n
<1>3. /\ DOMAIN new = d.next .. d.next + n - 1
      /\ \A i \in d.next .. d.next + n - 1 : i - d.next + 1 \in 1 .. n /\ new[i] = rows[i - d.next + 1]
  BY <1>2
<1> HIDE DEF new
<1>4. /\ DOMAIN all = DOMAIN new \cup DOMAIN d[t]
      /\ \A i \in DOMAIN new : all[i] = new[i]
      /\ \A i \in DOMAIN d[t] : i \notin DOMAIN new => all[i] = d[t][i]
  BY DEF Over
<1>5. \A i \in DOMAIN new : i >= d.next /\ i \in Nat /\ i < d.next + n /\ i \notin DOMAIN d[t]
  BY <1>2, <1>3
<1> HIDE DEF all
<1>6. /\ f = [s \in Tables \cup {"next"} |-> f[s]]
      /\ DOMAIN f = Tables \cup {"next"}
      /\ f.next = d.next + n
      /\ f[t] = all
      /\ \A s \in Tables \ {t} : f[s] = d[s]
  BY <1>2 DEF IsDb, Tables
<1> HIDE DEF f
<1>7. IsDb(f)
  <2>1. f.next \in Id
    BY <1>2, <1>6 DEF Id
  <2>2. ASSUME NEW s \in Tables PROVE DOMAIN f[s] \subseteq 1 .. f.next - 1
    <3>1. DOMAIN d[s] \subseteq 1 .. d.next - 1
      BY DEF IsDb
    <3>2. DOMAIN f[s] \subseteq DOMAIN d[s] \cup DOMAIN new
      BY <1>4, <1>6
    <3>3. DOMAIN d[s] \subseteq 1 .. f.next - 1
      BY <1>2, <1>6, <3>1
    <3>4. DOMAIN new \subseteq 1 .. f.next - 1
      BY <1>2, <1>5, <1>6
    <3> QED
      BY <3>2, <3>3, <3>4
  <2> QED
    BY <1>6, <2>1, <2>2 DEF IsDb
<1>8. ASSUME \A k \in DOMAIN rows : KeysHold(d, rows[k]) PROVE Added(d, f, t, rows)
  <2>1. ASSUME NEW i \in DOMAIN new
        PROVE  \E k \in DOMAIN rows : f[t][i] = rows[k] /\ KeysHold(d, rows[k])
    <3>1. i - d.next + 1 \in DOMAIN rows /\ f[t][i] = rows[i - d.next + 1]
      BY <1>2, <1>3, <1>4, <1>6
    <3> QED
      BY <1>8, <3>1
  <2>2. /\ DOMAIN f[t] = DOMAIN new \cup DOMAIN d[t]
        /\ \A i \in DOMAIN d[t] : f[t][i] = d[t][i]
    BY <1>4, <1>5, <1>6
  <2>3. \A i \in DOMAIN f[t] \ DOMAIN d[t] : i \in DOMAIN new
    BY <2>2
  <2> QED
    BY <1>5, <1>6, <2>1, <2>2, <2>3 DEF Added
<1> QED
  BY <1>1, <1>6, <1>7, <1>8, <1>2 DEF n

\* An insert of a row is one of a list of one.
LEMMA InsertIsList ==
    ASSUME NEW d, NEW t, NEW row
    PROVE  Insert(d, t, row).db = InsertAll(d, t, <<row>>).db
BY DEF Insert, Returns

\* The lists of the columns of some rows insert these rows.
LEMMA ColumnsAreRows ==
    ASSUME NEW d, NEW t, NEW C, "session" \in C, NEW R, NEW rows \in Seq(R), rows # <<>>,
           \A r \in R : r = [c \in C |-> r[c]]
    PROVE  InsertColumns(d, t, Columns(rows)) = InsertAll(d, t, rows)
<1> DEFINE n == Len(rows)
           cols == Columns(rows)
           V == {rows[k][c] : k \in 1 .. n, c \in C}
<1>1. n \in Nat /\ n > 0 /\ DOMAIN rows = 1 .. n /\ \A k \in 1 .. n : rows[k] \in R
  BY LenProperties, ElementOfSeq, EmptySeq
<1>2. \A k \in 1 .. n : rows[k] = [c \in C |-> rows[k][c]]
  BY <1>1
<1>3. DOMAIN rows[1] = C
  BY <1>1, <1>2
<1>4. cols = [c \in C |-> [k \in 1 .. n |-> rows[k][c]]]
  BY <1>1, <1>3 DEF Columns
<1> HIDE DEF cols
<1>5. ASSUME NEW c \in C PROVE Len(cols[c]) = n
  <2>1. cols[c] = [k \in 1 .. n |-> rows[k][c]]
    BY <1>4
  <2> HIDE DEF n
  <2>2. [k \in 1 .. n |-> rows[k][c]] \in [1 .. n -> V]
    BY DEF V
  <2> HIDE DEF V
  <2>3. cols[c] \in Seq(V) /\ DOMAIN cols[c] = 1 .. n
    BY <1>1, <2>1, <2>2, IsASeq
  <2>4. Len(cols[c]) \in Nat /\ DOMAIN cols[c] = 1 .. Len(cols[c])
    BY <2>3, LenProperties
  <2> QED
    BY <1>1, <2>3, <2>4
<1>6. DOMAIN cols = C
  BY <1>4
<1>7. [k \in 1 .. n |-> [c \in C |-> cols[c][k]]] = rows
  <2>1. \A k \in 1 .. n : [c \in C |-> cols[c][k]] = rows[k]
    <3>1. \A k \in 1 .. n : \A c \in C : cols[c][k] = rows[k][c]
      BY <1>4
    <3> QED
      BY <1>2, <3>1
  <2>2. rows = [k \in 1 .. n |-> rows[k]]
    BY <1>1
  <2> QED
    BY <2>1, <2>2
<1>8. cols.session = cols["session"] /\ Len(cols.session) = n
  BY <1>5
<1> HIDE DEF n
<1>9. InsertColumns(d, t, cols) = InsertAll(d, t, [k \in 1 .. n |-> [c \in C |-> cols[c][k]]])
  BY <1>5, <1>6, <1>8 DEF InsertColumns
<1> QED
  BY <1>7, <1>9 DEF cols

\* Some member of a finite set has the greatest number of a key.
LEMMA SomeGreatest ==
    ASSUME NEW S, IsFiniteSet(S), S # {}, NEW key, \A x \in S : key[x] \in Nat
    PROVE  \E n \in S : \A k \in S : key[k] <= key[n]
<1> DEFINE Above(n) == {k \in S : key[k] > key[n]}
           T == {Above(n) : n \in S}
<1>1. IsWellFoundedOn(StrictSubsetOrdering(S), FiniteSubsetsOf(S))
  BY FS_StrictSubsetOrderingWellFounded
<1>2. T \subseteq FiniteSubsetsOf(S) /\ T # {}
  <2>1. \A n \in S : Above(n) \in SUBSET S
    OBVIOUS
  <2>2. \A n \in S : IsFiniteSet(Above(n))
    BY <2>1, FS_Subset
  <2> QED
    BY <2>1, <2>2 DEF FiniteSubsetsOf
<1>3. PICK x \in T : \A y \in T : ~ (<<y, x>> \in StrictSubsetOrdering(S))
  <2> HIDE DEF T
  <2> QED
    BY <1>1, <1>2, WFMin
<1>4. PICK n \in S : x = Above(n)
  BY <1>3
<1>5. SUFFICES ASSUME NEW k \in S, key[k] > key[n] PROVE FALSE
  OBVIOUS
<1>6. Above(k) \in T /\ Above(k) \subseteq x /\ Above(k) # x
  <2>1. k \in Above(n) /\ k \notin Above(k) /\ Above(k) \in T
    BY <1>5
  <2>2. ASSUME NEW j \in Above(k) PROVE j \in Above(n)
    <3>1. key[j] \in Nat /\ key[k] \in Nat /\ key[n] \in Nat /\ key[j] > key[k]
      BY <2>2
    <3> QED
      BY <2>2, <3>1, <1>5
  <2> QED
    BY <2>1, <2>2, <1>4
<1>7. <<Above(k), x>> \in StrictSubsetOrdering(S)
  BY <1>6, <1>4 DEF StrictSubsetOrdering
<1> QED
  BY <1>3, <1>6, <1>7

\* A table has finitely many rows.
LEMMA FewRows ==
    ASSUME NEW d, IsDb(d), NEW t \in Tables, NEW S \in SUBSET DOMAIN d[t]
    PROVE  IsFiniteSet(S)
<1>1. DOMAIN d[t] \subseteq 1 .. d.next - 1 /\ d.next - 1 \in Int
  BY DEF IsDb, Id
<1>2. IsFiniteSet(1 .. d.next - 1)
  BY <1>1, FS_Interval
<1>3. S \in SUBSET (1 .. d.next - 1)
  BY <1>1
<1> QED
  BY <1>2, <1>3, FS_Subset

\* COALESCE(MAX(c), -1) + 1 is a number above all it counts.
LEMMA NextIndexAbove ==
    ASSUME NEW d, IsDb(d), NEW t \in Tables, NEW c, NEW S \in SUBSET DOMAIN d[t],
           \A i \in S : d[t][i][c] \in Nat
    PROVE  /\ NextIndex(d, t, c, S) \in Nat
           /\ \A i \in S : d[t][i][c] < NextIndex(d, t, c, S)
<1>1. CASE S = {}
  BY <1>1 DEF NextIndex
<1>2. CASE S # {}
  <2> DEFINE key == [i \in S |-> d[t][i][c]]
             above == {d[t][i][c] + 1 : i \in S}
             m == CHOOSE m \in above : \A i \in S : d[t][i][c] < m
  <2>1. \E n \in S : \A k \in S : key[k] <= key[n]
    <3>1. IsFiniteSet(S) /\ \A i \in S : key[i] \in Nat
      BY FewRows
    <3> HIDE DEF key
    <3> QED
      BY <1>2, <3>1, SomeGreatest
  <2>2. PICK n \in S : \A k \in S : d[t][k][c] <= d[t][n][c]
    BY <2>1
  <2>3. d[t][n][c] + 1 \in above /\ \A i \in S : d[t][i][c] < d[t][n][c] + 1
    BY <2>2
  <2>4. m \in above /\ \A i \in S : d[t][i][c] < m
    BY <2>3
  <2>5. NextIndex(d, t, c, S) = m
    BY <1>2 DEF NextIndex
  <2> HIDE DEF m
  <2>6. m \in Nat
    BY <2>4
  <2> QED
    BY <2>4, <2>5, <2>6
<1> QED
  BY <1>1, <1>2

-----------------------------------------------------------------------------
(* Sorted lists *)

\* l lists the members of S, each once.
Lists(l, S, n) ==
    /\ n \in Nat /\ DOMAIN l = 1 .. n /\ Len(l) = n
    /\ \A k \in 1 .. n : l[k] \in S
    /\ \A x \in S : \E k \in 1 .. n : l[k] = x
    /\ \A i, j \in 1 .. n : i # j => l[i] # l[j]

\* SetToSeqs answers the lists of a set.
LEMMA SeqsAreLists ==
    ASSUME NEW S, IsFiniteSet(S), NEW l \in SetToSeqs(S)
    PROVE  Lists(l, S, Cardinality(S))
<1> DEFINE n == Cardinality(S)
<1>1. n \in Nat
  BY FS_CardinalityType
<1>2. l \in [1 .. n -> S] /\ \A i, j \in 1 .. n : i # j => l[i] # l[j]
  BY DEF SetToSeqs
<1>3. IsFiniteSet(1 .. n) /\ Cardinality(1 .. n) = n
  BY <1>1, FS_Interval
<1>4. l \in Injection(1 .. n, S)
  BY <1>2 DEF Injection, IsInjective
<1>5. l \in Surjection(1 .. n, S)
  BY <1>3, <1>4, FS_Injection
<1>6. \A x \in S : \E k \in 1 .. n : l[k] = x
  BY <1>5 DEF Surjection
<1>7. l \in Seq(S)
  BY <1>1, <1>2, IsASeq
<1>8. Len(l) = n
  <2> HIDE DEF n
  <2>1. DOMAIN l = 1 .. n /\ DOMAIN l = 1 .. Len(l) /\ Len(l) \in Nat
    BY <1>2, <1>7, LenProperties
  <2> QED
    BY <1>1, <2>1
<1> HIDE DEF n
<1>9. Lists(l, S, n)
  BY <1>1, <1>2, <1>6, <1>8 DEF Lists
<1> QED
  BY <1>9 DEF n

\* The first rows of a list are as many as they are.
First(l, m) == {l[k] : k \in 1 .. m}
LEMMA FirstOfList ==
    ASSUME NEW S, NEW l, NEW n \in Nat, Lists(l, S, n), NEW m \in 0 .. n
    PROVE  IsFiniteSet(First(l, m)) /\ Cardinality(First(l, m)) = m
<1> DEFINE T == {l[k] : k \in 1 .. m}
           f == [k \in 1 .. m |-> l[k]]
<1>1. f \in Bijection(1 .. m, T)
  <2>1. f \in [1 .. m -> T] /\ \A x \in T : \E k \in 1 .. m : f[k] = x
    OBVIOUS
  <2>2. \A i, j \in 1 .. m : f[i] = f[j] => i = j
    BY DEF Lists
  <2> HIDE DEF f, T
  <2> QED
    BY <2>1, <2>2 DEF Bijection, Injection, Surjection, IsInjective
<1>2. ExistsBijection(1 .. m, T)
  BY <1>1 DEF ExistsBijection
<1>3. IsFiniteSet(1 .. m) /\ Cardinality(1 .. m) = m
  BY FS_Interval
<1> HIDE DEF T
<1>4. IsFiniteSet(T) /\ Cardinality(T) = m
  BY <1>2, <1>3, FS_Bijection
<1> QED
  BY <1>4 DEF T, First

\* In a list, no row comes after one with a lower key.
Falls(l, n, key) == \A i, j \in 1 .. n : i < j => key[l[j]] <= key[l[i]]

\* The first rows of a falling list are a page ...
LEMMA FirstPage ==
    ASSUME NEW S, NEW l, NEW n, Lists(l, S, n), NEW key, Falls(l, n, key), NEW m \in Nat
    PROVE  {l[k] : k \in DOMAIN l \cap 1 .. m} \in Pages(S, key, m)
<1> DEFINE P == {l[k] : k \in DOMAIN l \cap 1 .. m}
           r == IF m <= n THEN m ELSE n
<1>1. /\ n \in Nat /\ DOMAIN l = 1 .. n
      /\ \A k \in 1 .. n : l[k] \in S
      /\ \A x \in S : \E k \in 1 .. n : l[k] = x
  BY DEF Lists
<1>2. DOMAIN l \cap 1 .. m = 1 .. r /\ r \in 0 .. n /\ r <= m /\ (r < m => r = n)
  BY <1>1
<1> HIDE DEF r
<1>3. P = {l[k] : k \in 1 .. r}
  BY <1>2
<1>4. Cardinality(P) = r
  <2>1. Cardinality(First(l, r)) = r
    BY <1>1, <1>2, FirstOfList
  <2> QED
    BY <1>3, <2>1 DEF First
<1> HIDE DEF P
<1>5. P \in SUBSET S
  BY <1>1, <1>2, <1>3
<1>6. r = n => P = S
  BY <1>1, <1>3, <1>5
<1>7. ASSUME NEW i \in P, NEW j \in S \ P PROVE key[j] <= key[i]
  <2>1. PICK a \in 1 .. r : l[a] = i
    BY <1>3
  <2>2. PICK b \in 1 .. n : l[b] = j
    BY <1>1
  <2>3. ~ (b \in 1 .. r)
    BY <1>3, <2>2
  <2>4. a \in 1 .. n /\ a < b
    BY <1>1, <1>2, <2>1, <2>2, <2>3
  <2> QED
    BY <2>1, <2>2, <2>4 DEF Falls
<1>8. Cardinality(P) <= m /\ (Cardinality(P) < m => P = S)
  BY <1>2, <1>4, <1>6
<1> QED
  BY <1>5, <1>7, <1>8 DEF Pages, P

\* ... and a page of rows with lower keys than a row's comes after that row.
LEMMA OlderPage ==
    ASSUME NEW S, NEW l, NEW n, Lists(l, S, n), NEW key, Falls(l, n, key),
           \A x \in S : key[x] \in Nat, NEW k \in 1 .. n, NEW m,
           NEW P \in Pages({i \in S : key[i] < key[l[k]]}, key, m)
    PROVE  P \subseteq {l[j] : j \in k + 1 .. n}
<1> SUFFICES ASSUME NEW i \in P PROVE i \in {l[j] : j \in k + 1 .. n}
  OBVIOUS
<1>1. i \in S /\ key[i] < key[l[k]]
  BY DEF Pages
<1>2. n \in Nat /\ l[k] \in S
  BY DEF Lists
<1>3. PICK b \in 1 .. n : l[b] = i
  BY <1>1 DEF Lists
<1>4. ~ (b < k) /\ b # k
  <2>1. key[i] \in Nat /\ key[l[k]] \in Nat
    BY <1>1, <1>2
  <2>2. b < k => key[l[k]] <= key[l[b]]
    BY DEF Falls
  <2> QED
    BY <1>1, <1>3, <2>1, <2>2
<1>5. b \in k + 1 .. n
  BY <1>2, <1>4
<1> QED
  BY <1>3, <1>5

\* A list of all but the greatest row is ordered, and so is the list with that row at its end.
LEMMA OrderedToo ==
    ASSUME NEW S, IsFiniteSet(S), NEW key, NEW g \in S, \A x \in S : key[x] <= key[g],
           NEW l \in Sorted(S \ {g}, key)
    PROVE  Sorted(S, key) # {}
<1>1. PICK R : R = S \ {g}
  OBVIOUS
<1>2. PICK n : n = Cardinality(R)
  OBVIOUS
<1>3. IsFiniteSet(R) /\ n \in Nat /\ Cardinality(S) = n + 1
  <2>1. IsFiniteSet(R) /\ Cardinality(R) = Cardinality(S) - 1
    BY <1>1, FS_RemoveElement
  <2>2. Cardinality(S) \in Nat /\ Cardinality(R) \in Nat
    BY <2>1, FS_CardinalityType
  <2> QED
    BY <1>2, <2>1, <2>2
<1>4. /\ DOMAIN l = 1 .. n
      /\ \A k \in 1 .. n : l[k] \in R
      /\ \A i, j \in 1 .. n : i # j => l[i] # l[j]
      /\ \A i, j \in 1 .. n : i < j => key[l[i]] <= key[l[j]]
  <2>1. Lists(l, R, n)
    BY <1>1, <1>2, <1>3, SeqsAreLists DEF Sorted
  <2>2. DOMAIN l = 1 .. n
    BY <2>1 DEF Lists
  <2>3. \A i, j \in DOMAIN l : i < j => key[l[i]] <= key[l[j]]
    BY DEF Sorted
  <2> QED
    BY <2>1, <2>2, <2>3 DEF Lists
<1>5. PICK m : m = [k \in 1 .. n + 1 |-> IF k = n + 1 THEN g ELSE l[k]]
  OBVIOUS
<1>6. \A k \in 1 .. n + 1 : k = n + 1 \/ k \in 1 .. n
  BY <1>3
<1>7. /\ DOMAIN m = 1 .. n + 1 /\ m[n + 1] = g
      /\ \A k \in 1 .. n : m[k] = l[k] /\ m[k] \in S /\ m[k] # g
  <2>1. n + 1 \in 1 .. n + 1 /\ \A k \in 1 .. n : k \in 1 .. n + 1 /\ k # n + 1
    BY <1>3
  <2>2. \A k \in 1 .. n : m[k] = l[k]
    BY <1>5, <2>1
  <2> QED
    BY <1>1, <1>4, <1>5, <2>1, <2>2
<1>8. m \in [1 .. n + 1 -> S]
  BY <1>5, <1>6, <1>7
<1>9. \A i, j \in 1 .. n + 1 : i # j => m[i] # m[j]
  BY <1>4, <1>6, <1>7
<1>10. \A i, j \in 1 .. n + 1 : i < j => key[m[i]] <= key[m[j]]
  <2> SUFFICES ASSUME NEW i \in 1 .. n + 1, NEW j \in 1 .. n + 1, i < j
               PROVE  key[m[i]] <= key[m[j]]
    OBVIOUS
  <2>1. i \in 1 .. n
    BY <1>3
  <2>2. CASE j = n + 1
    BY <1>7, <2>1, <2>2
  <2>3. CASE j \in 1 .. n
    BY <1>4, <1>7, <2>1, <2>3
  <2> QED
    BY <1>6, <2>2, <2>3
<1>11. m \in SetToSeqs(S)
  BY <1>3, <1>8, <1>9 DEF SetToSeqs
<1>12. m \in Sorted(S, key)
  BY <1>7, <1>10, <1>11 DEF Sorted
<1> QED
  BY <1>12

\* Rows can be put in order, ...
LEMMA SomeOrder ==
    ASSUME NEW S, IsFiniteSet(S), NEW key, \A x \in S : key[x] \in Nat
    PROVE  Sorted(S, key) # {}
<1> DEFINE T == {R \in SUBSET S : Sorted(R, key) = {}}
<1> SUFFICES ASSUME T # {} PROVE FALSE
  OBVIOUS
<1>1. IsWellFoundedOn(StrictSubsetOrdering(S), FiniteSubsetsOf(S))
  BY FS_StrictSubsetOrderingWellFounded
<1>2. T \subseteq FiniteSubsetsOf(S)
  BY FS_Subset DEF FiniteSubsetsOf
<1>3. PICK R \in T : \A Q \in T : ~ (<<Q, R>> \in StrictSubsetOrdering(S))
  <2> HIDE DEF T
  <2> QED
    BY <1>1, <1>2, WFMin
<1>4. R \subseteq S /\ Sorted(R, key) = {} /\ IsFiniteSet(R)
  BY <1>3, FS_Subset
<1>5. \A Q \in SUBSET R : Q # R => Sorted(Q, key) # {}
  <2> SUFFICES ASSUME NEW Q \in SUBSET R, Q # R, Q \in T PROVE FALSE
    BY <1>4
  <2>1. Q \in SUBSET S /\ Q \subseteq R /\ R \in SUBSET S
    BY <1>4
  <2> QED
    BY <1>3, <2>1 DEF StrictSubsetOrdering
<1>6. CASE R = {}
  <2>1. Cardinality(R) = 0
    BY <1>6, FS_EmptySet
  <2>2. PICK m : m = [k \in 1 .. 0 |-> k]
    OBVIOUS
  <2>3. 1 .. 0 = {}
    OBVIOUS
  <2>4. m \in [1 .. Cardinality(R) -> R] /\ DOMAIN m = {}
    BY <2>1, <2>2, <2>3
  <2>5. m \in SetToSeqs(R)
    BY <2>1, <2>3, <2>4 DEF SetToSeqs
  <2>6. m \in Sorted(R, key)
    BY <2>4, <2>5 DEF Sorted
  <2> QED
    BY <1>4, <2>6
<1>7. CASE R # {}
  <2>1. PICK g \in R : \A x \in R : key[x] <= key[g]
    BY <1>4, <1>7, SomeGreatest
  <2>2. Sorted(R \ {g}, key) # {}
    BY <1>5
  <2>3. PICK l : l \in Sorted(R \ {g}, key)
    BY <2>2
  <2>4. Sorted(R, key) # {}
    BY <1>4, <2>1, <2>3, OrderedToo
  <2> QED
    BY <1>4, <2>4
<1> QED
  BY <1>6, <1>7
=============================================================================
