--------------------------- MODULE Chat_proofs -----------------------------
(* What is proved of the users of the chat tables, for every number of rows: *)
(* of ChatStore, that its rows keep their types and parents, that a call      *)
(* stays within one session and that its queries agree; of ChatHistory, that  *)
(* a reader among the writers is shown the messages in order, page by page    *)
(* without a gap, and with the answers of the tasks that were told settled.   *)
EXTENDS ChatStore, ChatHistory, Relations_proofs

\* A row and its task are of one session.
Linked(d, row) == row.task # None => d.tasks[row.task].session = row.session

\* The tables of the chat as they should be.
ChatSound(d) ==
    /\ IsDb(d) /\ Keyed(d)
    /\ \A t \in DOMAIN Rows : \A i \in DOMAIN d[t] : d[t][i] \in Rows[t]
    /\ \A t \in TaskTables : \A i \in DOMAIN d[t] : Linked(d, d[t][i])

\* From d to e only rows of session s are written.
Only(d, e, s) == \A r \in DOMAIN d.sessions \ {s} : RowsOf(e, r) = RowsOf(d, r)

\* From d to e a task keeps its session, and a task that is new has a new id.
TasksStay(d, e) ==
    \A i \in DOMAIN e.tasks :
        \/ i \in DOMAIN d.tasks /\ e.tasks[i].session = d.tasks[i].session
        \/ i >= d.next

\* What a call for session s does: it gives out n ids or none.
Call(d, e, n, s) ==
    /\ ChatSound(e)
    /\ e.next \in {d.next, d.next + n}
    /\ Only(d, e, s)
    /\ TasksStay(d, e)

\* A row that may be inserted into t.
Fit(d, t, row) ==
    /\ row \in Rows[t]
    /\ t \in TaskTables => Linked(d, row)

-----------------------------------------------------------------------------
(* Tables and rows *)

\* The tables with rows, and the columns of their rows.
Columned(t, C) == \A r \in Rows[t] : DOMAIN r = C /\ r = [c \in C |-> r[c]]
LEMMA TablesOfChat ==
    /\ DOMAIN Rows = SessionTables \cup {"sessions"}
    /\ DOMAIN Rows \subseteq Tables
    /\ TaskTables \subseteq SessionTables
    /\ Columned("sessions", {"user", "context_lock"})
    /\ Columned("tasks", {"session", "user", "status"})
    /\ Columned("userMsgs", {"user", "session", "seq_index", "status", "task"})
    /\ Columned("agentMsgs", {"user", "session", "sub_seq_index", "status", "task"})
    /\ Columned("userMems", {"user", "session", "seq_index", "task"})
    /\ Columned("agentMems", {"user", "session", "sub_seq_index", "task"})
    /\ Columned("configs", {"session", "config"})
<1>1. DOMAIN Rows = SessionTables \cup {"sessions"}
  BY DEF Rows, SessionTables
<1>2. DOMAIN Rows \subseteq Tables /\ TaskTables \subseteq SessionTables
  BY <1>1 DEF Tables, SessionTables, TaskTables
<1>3. Columned("sessions", {"user", "context_lock"})
  BY DEF Columned, Rows, U2ASession
<1>4. Columned("tasks", {"session", "user", "status"})
  BY DEF Columned, Rows, U2ASessionTask
<1>5. Columned("userMsgs", {"user", "session", "seq_index", "status", "task"})
  BY DEF Columned, Rows, U2AUserMessage
<1>6. Columned("agentMsgs", {"user", "session", "sub_seq_index", "status", "task"})
  BY DEF Columned, Rows, U2AAgentMessage
<1>7. Columned("userMems", {"user", "session", "seq_index", "task"})
  BY DEF Columned, Rows, UserShortTermMemory
<1>8. Columned("agentMems", {"user", "session", "sub_seq_index", "task"})
  BY DEF Columned, Rows, AgentShortTermMemory
<1>9. Columned("configs", {"session", "config"})
  BY DEF Columned, Rows, U2ASessionAgentConfig
<1> QED
  BY <1>1, <1>2, <1>3, <1>4, <1>5, <1>6, <1>7, <1>8, <1>9

\* The keys of a row, its session and its task.
LEMMA RowKeys ==
    ASSUME NEW t \in DOMAIN Rows, NEW r \in Rows[t]
    PROVE  /\ DOMAIN r \cap DOMAIN Refers = Keys[t]
           /\ t \in SessionTables => "session" \in DOMAIN r /\ r.session \in Id
           /\ t \in TaskTables => "task" \in DOMAIN r /\ r.task \in Id \cup {None}
<1>1. CASE t = "sessions"
  <2>1. DOMAIN r = {"user", "context_lock"}
    BY <1>1, TablesOfChat DEF Columned
  <2> QED
    BY <1>1, <2>1, ReferredTo DEF Keys, SessionTables, TaskTables
<1>2. CASE t = "tasks"
  <2>1. DOMAIN r = {"session", "user", "status"} /\ r.session \in Id
    BY <1>2, TablesOfChat DEF Columned, Rows, U2ASessionTask
  <2> QED
    BY <1>2, <2>1, ReferredTo DEF Keys, TaskTables
<1>3. CASE t = "userMsgs"
  <2>1. /\ DOMAIN r = {"user", "session", "seq_index", "status", "task"}
        /\ r.session \in Id /\ r.task \in Id \cup {None}
    BY <1>3, TablesOfChat DEF Columned, Rows, U2AUserMessage
  <2> QED
    BY <1>3, <2>1, ReferredTo DEF Keys, ChatKeys
<1>4. CASE t = "agentMsgs"
  <2>1. /\ DOMAIN r = {"user", "session", "sub_seq_index", "status", "task"}
        /\ r.session \in Id /\ r.task \in Id \cup {None}
    BY <1>4, TablesOfChat DEF Columned, Rows, U2AAgentMessage
  <2> QED
    BY <1>4, <2>1, ReferredTo DEF Keys, ChatKeys
<1>5. CASE t = "userMems"
  <2>1. /\ DOMAIN r = {"user", "session", "seq_index", "task"}
        /\ r.session \in Id /\ r.task \in Id \cup {None}
    BY <1>5, TablesOfChat DEF Columned, Rows, UserShortTermMemory
  <2> QED
    BY <1>5, <2>1, ReferredTo DEF Keys, ChatKeys
<1>6. CASE t = "agentMems"
  <2>1. /\ DOMAIN r = {"user", "session", "sub_seq_index", "task"}
        /\ r.session \in Id /\ r.task \in Id \cup {None}
    BY <1>6, TablesOfChat DEF Columned, Rows, AgentShortTermMemory
  <2> QED
    BY <1>6, <2>1, ReferredTo DEF Keys, ChatKeys
<1>7. CASE t = "configs"
  <2>1. DOMAIN r = {"session", "config"} /\ r.session \in Id
    BY <1>7, TablesOfChat DEF Columned, Rows, U2ASessionAgentConfig
  <2> QED
    BY <1>7, <2>1, ReferredTo DEF Keys, TaskTables
<1> QED
  BY <1>1, <1>2, <1>3, <1>4, <1>5, <1>6, <1>7, TablesOfChat DEF SessionTables

\* Two databases with the same rows of a session.
SameOf(d, e, t, r) ==
    \A i : \/ i \in DOMAIN d[t] /\ i \in DOMAIN e[t] /\ e[t][i] = d[t][i]
           \/ /\ i \in DOMAIN d[t] => d[t][i].session # r
              /\ i \in DOMAIN e[t] => e[t][i].session # r
LEMMA SameRows ==
    ASSUME NEW d, NEW e, NEW r, \A t \in SessionTables : SameOf(d, e, t, r)
    PROVE  RowsOf(e, r) = RowsOf(d, r)
<1>1. ASSUME NEW t \in SessionTables
      PROVE  {<<i, e[t][i]>> : i \in Where(e, t, "session", r)}
                = {<<i, d[t][i]>> : i \in Where(d, t, "session", r)}
  <2>1. ASSUME NEW i
        PROVE  /\ i \in Where(e, t, "session", r) <=> i \in Where(d, t, "session", r)
               /\ i \in Where(d, t, "session", r) => e[t][i] = d[t][i]
    BY DEF SameOf, Where
  <2> HIDE DEF Where
  <2> QED
    BY <2>1
<1> QED
  BY <1>1 DEF RowsOf

\* The database stands still.
LEMMA SameIsCall ==
    ASSUME NEW d, ChatSound(d), NEW n \in Nat, NEW s PROVE Call(d, d, n, s)
BY DEF Call, Only, TasksStay

-----------------------------------------------------------------------------
(* Rows that are added *)

\* Rows that may be inserted into t, all of session s.
AllFit(d, t, rows, s) ==
    \A k \in DOMAIN rows : KeysHold(d, rows[k]) =>
        Fit(d, t, rows[k]) /\ (t \in SessionTables => rows[k].session = s)

\* Rows that fit and are of one session are added.
LEMMA AddedIsCall ==
    ASSUME NEW d, ChatSound(d), NEW e, IsDb(e), NEW t \in DOMAIN Rows, NEW rows,
           Added(d, e, t, rows), NEW n \in Nat, e.next \in {d.next, d.next + n}, NEW s,
           AllFit(d, t, rows, s)
    PROVE  Call(d, e, n, s)
<1>1. /\ t \in Tables /\ IsDb(d) /\ Keyed(d)
      /\ \A q \in DOMAIN Rows : \A i \in DOMAIN d[q] : d[q][i] \in Rows[q]
      /\ \A q \in TaskTables : \A i \in DOMAIN d[q] : Linked(d, d[q][i])
  BY TablesOfChat DEF ChatSound
<1>2. /\ \A q \in Tables : DOMAIN d[q] \subseteq DOMAIN e[q]
      /\ \A q \in Tables : \A i \in DOMAIN d[q] : e[q][i] = d[q][i]
      /\ \A q \in Tables \ {t} : e[q] = d[q]
  BY DEF Added
<1>3. ASSUME NEW i \in DOMAIN e[t] \ DOMAIN d[t]
      PROVE  /\ i >= d.next /\ KeysHold(d, e[t][i]) /\ Fit(d, t, e[t][i])
             /\ t \in SessionTables => e[t][i].session = s
  BY DEF Added, AllFit
<1>4. Keyed(e)
  <2> SUFFICES ASSUME NEW q \in Tables, NEW i \in DOMAIN e[q]
               PROVE  DOMAIN e[q][i] \cap DOMAIN Refers = Keys[q] /\ KeysHold(e, e[q][i])
    BY DEF Keyed
  <2>1. DOMAIN e[q][i] \cap DOMAIN Refers = Keys[q] /\ KeysHold(d, e[q][i])
    <3>1. CASE i \in DOMAIN d[q]
      BY <1>1, <1>2, <3>1 DEF Keyed
    <3>2. CASE i \notin DOMAIN d[q]
      <4>1. q = t
        BY <1>2, <3>2
      <4> QED
        BY <1>3, <3>2, <4>1, RowKeys DEF Fit
    <3> QED
      BY <3>1, <3>2
  <2> QED
    BY <1>2, <2>1, KeysStay
<1>5. ASSUME NEW q \in DOMAIN Rows, NEW i \in DOMAIN e[q]
      PROVE  /\ e[q][i] \in Rows[q]
             /\ q \in TaskTables => Linked(e, e[q][i])
  <2>1. q \in Tables
    BY TablesOfChat
  <2>2. /\ e[q][i] \in Rows[q]
        /\ q \in TaskTables => Linked(d, e[q][i])
        /\ KeysHold(d, e[q][i])
    <3>1. CASE i \in DOMAIN d[q]
      BY <1>1, <1>2, <2>1, <3>1 DEF Keyed
    <3>2. CASE i \notin DOMAIN d[q]
      <4>1. q = t
        BY <1>2, <2>1, <3>2
      <4> QED
        BY <1>3, <3>2, <4>1 DEF Fit
    <3> QED
      BY <3>1, <3>2
  <2>3. ASSUME q \in TaskTables PROVE Linked(e, e[q][i])
    <3>1. "task" \in DOMAIN e[q][i] /\ "task" \in DOMAIN Refers /\ Refers["task"] = "tasks"
      BY <2>2, <2>3, RowKeys, ReferredTo
    <3>2. e[q][i].task = None \/ e[q][i].task \in DOMAIN d.tasks
      BY <2>2, <3>1 DEF KeysHold
    <3>3. \A k \in DOMAIN d.tasks : e.tasks[k] = d.tasks[k]
      BY <1>2 DEF Tables
    <3> QED
      BY <2>2, <2>3, <3>2, <3>3 DEF Linked
  <2> QED
    BY <2>2, <2>3
<1>6. ChatSound(e)
  BY <1>4, <1>5, TablesOfChat DEF ChatSound
<1>7. Only(d, e, s)
  <2> SUFFICES ASSUME NEW r \in DOMAIN d.sessions \ {s}, NEW q \in SessionTables
               PROVE  SameOf(d, e, q, r)
    BY SameRows DEF Only
  <2>1. q \in Tables /\ q \in DOMAIN Rows
    BY TablesOfChat
  <2>2. ASSUME NEW i \in DOMAIN e[q], i \notin DOMAIN d[q] PROVE e[q][i].session # r
    <3>1. q = t
      BY <1>2, <2>1, <2>2
    <3> QED
      BY <1>3, <2>2, <3>1
  <2> QED
    BY <1>2, <2>1, <2>2 DEF SameOf
<1>8. TasksStay(d, e)
  <2> SUFFICES ASSUME NEW i \in DOMAIN e.tasks, i \notin DOMAIN d.tasks PROVE i >= d.next
    BY <1>2 DEF TasksStay, Tables
  <2>1. t = "tasks"
    BY <1>2 DEF Tables
  <2> QED
    BY <1>3, <2>1
<1> QED
  BY <1>6, <1>7, <1>8 DEF Call

\* A list of rows of one session is inserted.
LEMMA InsertAllIsCall ==
    ASSUME NEW d, ChatSound(d), NEW t \in DOMAIN Rows, NEW R, NEW rows \in Seq(R), NEW s,
           AllFit(d, t, rows, s),
           NEW e, e = InsertAll(d, t, rows).db
    PROVE  Call(d, e, Len(rows), s)
<1>1. IsDb(d) /\ t \in Tables /\ Len(rows) \in Nat
  BY TablesOfChat DEF ChatSound
<1>2. /\ IsDb(e) /\ e.next \in {d.next, d.next + Len(rows)}
      /\ e = d \/ Added(d, e, t, rows)
  BY <1>1, InsertAllEffect
<1> DEFINE n == Len(rows)
<1>3. CASE e = d
  <2>1. Call(d, d, n, s)
    BY <1>1, SameIsCall
  <2> QED
    BY <1>3, <2>1
<1>4. CASE Added(d, e, t, rows)
  <2>1. n \in Nat /\ e.next \in {d.next, d.next + n}
    BY <1>1, <1>2
  <2> HIDE DEF n
  <2>2. Call(d, e, n, s)
    BY <1>2, <1>4, <2>1, AddedIsCall
  <2> QED
    BY <2>2 DEF n
<1> QED
  BY <1>2, <1>3, <1>4

\* A row is inserted.
LEMMA InsertIsCall ==
    ASSUME NEW d, ChatSound(d), NEW t \in DOMAIN Rows, NEW row,
           KeysHold(d, row) => Fit(d, t, row),
           NEW e, e = Insert(d, t, row).db
    PROVE  Call(d, e, 1, row.session)
<1> DEFINE rows == <<row>>
<1>1. rows \in Seq({row}) /\ Len(rows) = 1 /\ DOMAIN rows = {1} /\ rows[1] = row
  OBVIOUS
<1>2. e = InsertAll(d, t, rows).db
  BY InsertIsList
<1>3. AllFit(d, t, rows, row.session)
  BY <1>1 DEF AllFit
<1> HIDE DEF rows
<1>4. Call(d, e, Len(rows), row.session)
  BY <1>1, <1>2, <1>3, InsertAllIsCall
<1> QED
  BY <1>1, <1>4

-----------------------------------------------------------------------------
(* Rows that change *)

\* The fields of an update of a row of session s that leave it fit for its table.
FitFields(d, t, i, s, fields) ==
    LET r == Over(fields, d[t][i])
    IN  /\ Fit(d, t, r)
        /\ t \in SessionTables => d[t][i].session = s /\ r.session = s

\* An update of rows of one session that leaves them fit.
LEMMA ChangeIsCall ==
    ASSUME NEW d, ChatSound(d), NEW t \in DOMAIN Rows, NEW ids, NEW fields, NEW s,
           DOMAIN fields \cap DOMAIN Refers \subseteq Keys[t],
           \A i \in ids \cap DOMAIN d[t] : KeysHold(d, fields) => FitFields(d, t, i, s, fields),
           NEW e, e = Change(d, t, ids, fields).db
    PROVE  Call(d, e, 0, s)
<1>1. /\ t \in Tables /\ IsDb(d) /\ Keyed(d)
      /\ \A q \in DOMAIN Rows : \A i \in DOMAIN d[q] : d[q][i] \in Rows[q]
      /\ \A q \in TaskTables : \A i \in DOMAIN d[q] : Linked(d, d[q][i])
  BY TablesOfChat DEF ChatSound
<1>2. IsDb(e) /\ (e = d \/ Changed(d, e, t, ids, fields))
  BY <1>1, ChangeEffect
<1>3. CASE e = d
  BY <1>3, SameIsCall
<1>4. CASE Changed(d, e, t, ids, fields)
  <2>1. Keyed(e)
    BY <1>1, <1>4, ChangeKeys
  <2>2. /\ \A q \in Tables : DOMAIN e[q] = DOMAIN d[q]
        /\ \A q \in Tables : \A i \in DOMAIN d[q] :
              \/ e[q][i] = d[q][i]
              \/ /\ q = t /\ i \in ids /\ e[q][i] = Over(fields, d[q][i])
                 /\ FitFields(d, q, i, s, fields)
    <3>1. ids \cap DOMAIN d[t] # {} => KeysHold(d, fields)
      BY <1>4 DEF Changed
    <3>2. /\ DOMAIN e[t] = DOMAIN d[t]
          /\ \A i \in DOMAIN d[t] \cap ids : e[t][i] = Over(fields, d[t][i])
          /\ \A i \in DOMAIN d[t] \ ids : e[t][i] = d[t][i]
          /\ \A q \in Tables \ {t} : e[q] = d[q]
      BY <1>4 DEF Changed
    <3> QED
      BY <3>1, <3>2
  <2>3. ASSUME NEW q \in DOMAIN Rows, NEW i \in DOMAIN e[q]
        PROVE  /\ Fit(d, q, e[q][i])
               /\ q \in SessionTables => e[q][i].session = d[q][i].session
               /\ e[q][i] = d[q][i] \/ (q \in SessionTables => d[q][i].session = s)
    <3>1. q \in Tables /\ i \in DOMAIN d[q]
      BY <2>2, TablesOfChat
    <3>2. Fit(d, q, d[q][i])
      BY <1>1, <3>1 DEF Fit
    <3> QED
      BY <2>2, <3>1, <3>2 DEF FitFields
  <2>4. \A k \in DOMAIN d.tasks : k \in DOMAIN e.tasks /\ e.tasks[k].session = d.tasks[k].session
    <3>1. "tasks" \in DOMAIN Rows /\ "tasks" \in SessionTables /\ "tasks" \in Tables
      BY TablesOfChat DEF SessionTables
    <3> QED
      BY <2>2, <2>3, <3>1
  <2>5. ASSUME NEW q \in TaskTables, NEW i \in DOMAIN e[q] PROVE Linked(e, e[q][i])
    <3>1. q \in DOMAIN Rows /\ q \in Tables
      BY TablesOfChat
    <3>2. Linked(d, e[q][i]) /\ e[q][i] \in Rows[q]
      BY <2>3, <3>1 DEF Fit
    <3>3. KeysHold(e, e[q][i]) /\ "task" \in DOMAIN e[q][i]
      BY <2>1, <3>1, <3>2, RowKeys DEF Keyed
    <3>4. e[q][i].task = None \/ e[q][i].task \in DOMAIN e.tasks
      BY <3>3, ReferredTo DEF KeysHold
    <3>5. DOMAIN e.tasks = DOMAIN d.tasks
      BY <2>2 DEF Tables
    <3> QED
      BY <2>4, <3>2, <3>4, <3>5 DEF Linked
  <2>6. ChatSound(e)
    BY <1>2, <2>1, <2>3, <2>5 DEF ChatSound, Fit
  <2>7. Only(d, e, s)
    <3> SUFFICES ASSUME NEW r \in DOMAIN d.sessions \ {s}, NEW q \in SessionTables
                 PROVE  SameOf(d, e, q, r)
      BY SameRows DEF Only
    <3>1. q \in Tables /\ q \in DOMAIN Rows
      BY TablesOfChat
    <3> QED
      BY <2>2, <2>3, <3>1 DEF SameOf
  <2>8. TasksStay(d, e)
    BY <2>2, <2>4 DEF TasksStay, Tables
  <2>9. e.next = d.next
    BY <1>4 DEF Changed
  <2> QED
    BY <2>6, <2>7, <2>8, <2>9 DEF Call
<1> QED
  BY <1>2, <1>3, <1>4

-----------------------------------------------------------------------------
(* Rows that go *)

\* A user message that has lost its task.
Freed(r) == [r EXCEPT !.task = None]

\* From d to e rows of session s go, and user messages of it lose their tasks.
Gone(d, e, s) ==
    /\ e.next = d.next
    /\ \A t \in Tables : DOMAIN e[t] \subseteq DOMAIN d[t]
    /\ \A t \in Tables : \A i \in DOMAIN e[t] :
          e[t][i] = d[t][i] \/ (t = "userMsgs" /\ e[t][i] = Freed(d[t][i]))
    /\ \A t \in SessionTables : \A i \in DOMAIN d[t] :
          d[t][i].session # s => i \in DOMAIN e[t] /\ e[t][i] = d[t][i]

\* Rows of one session go, with those that refer to them.
LEMMA GoneIsCall ==
    ASSUME NEW d, ChatSound(d), NEW e, IsDb(e), NEW s, Gone(d, e, s),
           \A t \in Tables : \A i \in DOMAIN e[t] : KeysHold(e, e[t][i])
    PROVE  Call(d, e, 0, s)
<1>1. /\ IsDb(d) /\ Keyed(d)
      /\ \A q \in DOMAIN Rows : \A i \in DOMAIN d[q] : d[q][i] \in Rows[q]
      /\ \A q \in TaskTables : \A i \in DOMAIN d[q] : Linked(d, d[q][i])
  BY DEF ChatSound
<1>2. ASSUME NEW r \in Rows.userMsgs
      PROVE  /\ Freed(r) \in Rows.userMsgs /\ DOMAIN Freed(r) = DOMAIN r
             /\ Freed(r).session = r.session /\ Freed(r).task = None
  BY DEF Freed, Rows, U2AUserMessage
<1>3. ASSUME NEW t \in Tables, NEW i \in DOMAIN e[t]
      PROVE  /\ i \in DOMAIN d[t]
             /\ DOMAIN e[t][i] = DOMAIN d[t][i]
             /\ t \in DOMAIN Rows => e[t][i] \in Rows[t]
             /\ t \in SessionTables => e[t][i].session = d[t][i].session
             /\ t \in TaskTables => e[t][i].task = None \/ e[t][i] = d[t][i]
             /\ t # "userMsgs" => e[t][i] = d[t][i]
  <2>1. i \in DOMAIN d[t] /\ (t \in DOMAIN Rows => d[t][i] \in Rows[t])
    BY <1>1 DEF Gone
  <2>2. CASE e[t][i] = d[t][i]
    BY <2>1, <2>2
  <2>3. CASE t = "userMsgs" /\ e[t][i] = Freed(d[t][i])
    <3>1. d[t][i] \in Rows.userMsgs
      BY <2>1, <2>3, TablesOfChat DEF SessionTables
    <3> QED
      BY <1>2, <2>1, <2>3, <3>1
  <2> QED
    BY <2>2, <2>3 DEF Gone
<1>4. Keyed(e)
  BY <1>1, <1>3 DEF Keyed
<1>5. ASSUME NEW q \in TaskTables, NEW i \in DOMAIN e[q] PROVE Linked(e, e[q][i])
  <2>1. q \in DOMAIN Rows /\ q \in Tables
    BY TablesOfChat
  <2>2. CASE e[q][i].task = None
    BY <2>2 DEF Linked
  <2>3. CASE e[q][i].task # None
    <3>1. e[q][i] = d[q][i] /\ i \in DOMAIN d[q]
      BY <1>3, <2>1, <2>3
    <3>2. Linked(d, e[q][i])
      BY <1>1, <3>1
    <3>3. "task" \in DOMAIN e[q][i] /\ KeysHold(e, e[q][i])
      BY <1>3, <2>1, RowKeys
    <3>4. e[q][i].task \in DOMAIN e.tasks
      BY <2>3, <3>3, ReferredTo DEF KeysHold
    <3>5. e.tasks[e[q][i].task] = d.tasks[e[q][i].task]
      BY <1>3, <3>4 DEF Tables
    <3> QED
      BY <3>2, <3>5, <2>3 DEF Linked
  <2> QED
    BY <2>2, <2>3
<1>6. ChatSound(e)
  BY <1>3, <1>4, <1>5, TablesOfChat DEF ChatSound
<1>7. Only(d, e, s)
  <2> SUFFICES ASSUME NEW r \in DOMAIN d.sessions \ {s}, NEW q \in SessionTables
               PROVE  SameOf(d, e, q, r)
    BY SameRows DEF Only
  <2>1. q \in Tables
    BY TablesOfChat
  <2>2. \A i \in DOMAIN e[q] : i \in DOMAIN d[q] /\ e[q][i].session = d[q][i].session
    BY <1>3, <2>1
  <2>3. \A i \in DOMAIN d[q] : d[q][i].session # s => i \in DOMAIN e[q] /\ e[q][i] = d[q][i]
    BY DEF Gone
  <2> QED
    BY <2>2, <2>3 DEF SameOf
<1>8. TasksStay(d, e)
  BY <1>3 DEF TasksStay, Tables
<1>9. e.next = d.next
  BY DEF Gone
<1> QED
  BY <1>6, <1>7, <1>8, <1>9 DEF Call

\* What DELETE leaves of a table.
LEMMA WithoutIs ==
    ASSUME NEW rows, NEW S
    PROVE  /\ DOMAIN Without(rows, S) = DOMAIN rows \ S
           /\ \A i \in DOMAIN rows \ S : Without(rows, S)[i] = rows[i]
BY DEF Without

\* A row keeps its parents while it is there and they are.
KeysLast(d, e) ==
    \A t \in Tables : \A i \in DOMAIN e[t] : \A c \in Keys[t] :
        e[t][i][c] = None \/ e[t][i][c] \in DOMAIN e[Refers[c]]
LEMMA KeysLasting ==
    ASSUME NEW d, ChatSound(d), NEW e, NEW s, Gone(d, e, s), KeysLast(d, e)
    PROVE  \A t \in Tables : \A i \in DOMAIN e[t] : KeysHold(e, e[t][i])
<1> SUFFICES ASSUME NEW t \in Tables, NEW i \in DOMAIN e[t] PROVE KeysHold(e, e[t][i])
  OBVIOUS
<1>1. i \in DOMAIN d[t] /\ DOMAIN d[t][i] \cap DOMAIN Refers = Keys[t]
  BY DEF Gone, ChatSound, Keyed
<1>2. DOMAIN e[t][i] = DOMAIN d[t][i]
  <2>1. \A r : DOMAIN Freed(r) = DOMAIN r
    BY DEF Freed
  <2> QED
    BY <2>1 DEF Gone
<1> QED
  BY <1>1, <1>2 DEF KeysLast, KeysHold

\* DELETE from a table that no key refers to.
LEMMA DropLeaf ==
    ASSUME NEW d, ChatSound(d), NEW t \in SessionTables \ {"tasks"}, NEW D, NEW s,
           \A i \in D \cap DOMAIN d[t] : d[t][i].session = s,
           NEW e, e = [d EXCEPT ![t] = Without(@, D)]
    PROVE  Call(d, e, 0, s)
<1>1. /\ IsDb(d) /\ Keyed(d) /\ t \in Tables /\ t # "next"
      /\ t \notin {"users", "sessions", "tasks", "a2aSessions"}
  BY TablesOfChat DEF ChatSound, Tables, SessionTables
<1>2. d = [x \in Tables \cup {"next"} |-> d[x]] /\ DOMAIN d = Tables \cup {"next"}
  BY <1>1 DEF IsDb
<1> DEFINE rest == Without(d[t], D)
<1>3. DOMAIN rest = DOMAIN d[t] \ D /\ \A i \in DOMAIN d[t] \ D : rest[i] = d[t][i]
  BY WithoutIs
<1> HIDE DEF rest
<1>4. /\ e = [x \in Tables \cup {"next"} |-> e[x]] /\ DOMAIN e = Tables \cup {"next"}
      /\ e[t] = rest /\ e.next = d.next
      /\ \A x \in Tables \ {t} : e[x] = d[x]
  <2>1. e = [d EXCEPT ![t] = rest]
    BY DEF rest
  <2> QED
    BY <1>1, <1>2, <2>1 DEF Tables
<1>5. /\ \A x \in Tables : DOMAIN e[x] \subseteq DOMAIN d[x]
      /\ \A x \in Tables : \A i \in DOMAIN e[x] : e[x][i] = d[x][i]
  BY <1>3, <1>4
<1>6. IsDb(e)
  BY <1>1, <1>4, <1>5 DEF IsDb
<1>7. Gone(d, e, s)
  <2>1. ASSUME NEW x \in SessionTables, NEW i \in DOMAIN d[x], d[x][i].session # s
        PROVE  i \in DOMAIN e[x] /\ e[x][i] = d[x][i]
    <3>1. x \in Tables
      BY TablesOfChat
    <3>2. CASE x = t
      <4>1. i \notin D
        BY <2>1, <3>2
      <4> QED
        BY <1>3, <1>4, <3>2, <4>1
    <3>3. CASE x # t
      BY <1>4, <3>1, <3>3
    <3> QED
      BY <3>2, <3>3
  <2> QED
    BY <1>4, <1>5, <2>1 DEF Gone
<1>8. KeysLast(d, e)
  <2> SUFFICES ASSUME NEW x \in Tables, NEW i \in DOMAIN e[x], NEW c \in Keys[x]
               PROVE  e[x][i][c] = None \/ e[x][i][c] \in DOMAIN e[Refers[c]]
    BY DEF KeysLast
  <2>1. c \in DOMAIN Refers /\ c \in DOMAIN d[x][i] /\ KeysHold(d, d[x][i]) /\ e[x][i] = d[x][i]
    BY <1>1, <1>5 DEF Keyed
  <2>2. Refers[c] \in Tables \ {t}
    BY <1>1, <2>1, ReferredTo DEF Tables
  <2> QED
    BY <1>4, <2>1, <2>2 DEF KeysHold
<1> QED
  BY <1>6, <1>7, <1>8, KeysLasting, GoneIsCall

\* The tables whose rows go with their task.
WithTask == {"agentMsgs", "userMems", "agentMems"}
\* The tables that a deletion of tasks leaves alone.
NoTask == {"users", "sessions", "configs", "files", "a2aSessions", "a2aTasks"}

\* From d to e the tasks of S go, and what ON DELETE says of the rows that name them.
TasksDropped(d, e, S) ==
    /\ DOMAIN e.tasks = DOMAIN d.tasks \ S
    /\ \A i \in DOMAIN e.tasks : e.tasks[i] = d.tasks[i]
    /\ DOMAIN e.userMsgs = DOMAIN d.userMsgs
    /\ \A i \in DOMAIN d.userMsgs :
          e.userMsgs[i] = IF d.userMsgs[i].task \in S THEN Freed(d.userMsgs[i]) ELSE d.userMsgs[i]
    /\ \A t \in WithTask : /\ DOMAIN e[t] = {i \in DOMAIN d[t] : d[t][i].task \notin S}
                           /\ \A i \in DOMAIN e[t] : e[t][i] = d[t][i]
    /\ \A t \in NoTask : e[t] = d[t]

\* What is left when tasks are deleted.
LEMMA DropTasksEffect ==
    ASSUME NEW d, IsDb(d), NEW S, NEW e, e = DropTasks(d, S)
    PROVE  IsDb(e) /\ e.next = d.next /\ TasksDropped(d, e, S)
<1> DEFINE of(t) == {i \in DOMAIN d[t] : d[t][i].task \in S}
           tasks == Without(d.tasks, S)
           userMsgs == [i \in DOMAIN d.userMsgs |->
                           IF i \in of("userMsgs") THEN Freed(d.userMsgs[i])
                           ELSE d.userMsgs[i]]
           agentMsgs == Without(d.agentMsgs, of("agentMsgs"))
           userMems == Without(d.userMems, of("userMems"))
           agentMems == Without(d.agentMems, of("agentMems"))
<1>1. d = [x \in Tables \cup {"next"} |-> d[x]] /\ DOMAIN d = Tables \cup {"next"}
  BY DEF IsDb
<1>2. e = [d EXCEPT !.tasks = tasks, !.userMsgs = userMsgs, !.agentMsgs = agentMsgs,
                    !.userMems = userMems, !.agentMems = agentMems]
  BY DEF DropTasks, Freed
<1>3. /\ DOMAIN tasks = DOMAIN d.tasks \ S
      /\ \A i \in DOMAIN tasks : tasks[i] = d.tasks[i]
  BY DEF Without
<1>4. /\ DOMAIN userMsgs = DOMAIN d.userMsgs
      /\ \A i \in DOMAIN d.userMsgs :
            userMsgs[i] = IF d.userMsgs[i].task \in S THEN Freed(d.userMsgs[i])
                          ELSE d.userMsgs[i]
  OBVIOUS
<1>5. /\ DOMAIN agentMsgs = {i \in DOMAIN d.agentMsgs : d.agentMsgs[i].task \notin S}
      /\ \A i \in DOMAIN agentMsgs : agentMsgs[i] = d.agentMsgs[i]
  BY DEF Without
<1>6. /\ DOMAIN userMems = {i \in DOMAIN d.userMems : d.userMems[i].task \notin S}
      /\ \A i \in DOMAIN userMems : userMems[i] = d.userMems[i]
  BY DEF Without
<1>7. /\ DOMAIN agentMems = {i \in DOMAIN d.agentMems : d.agentMems[i].task \notin S}
      /\ \A i \in DOMAIN agentMems : agentMems[i] = d.agentMems[i]
  BY DEF Without
<1> HIDE DEF tasks, userMsgs, agentMsgs, userMems, agentMems
<1>8. /\ e = [x \in Tables \cup {"next"} |-> e[x]] /\ DOMAIN e = Tables \cup {"next"}
      /\ e.next = d.next
      /\ e.tasks = tasks /\ e.userMsgs = userMsgs /\ e.agentMsgs = agentMsgs
      /\ e.userMems = userMems /\ e.agentMems = agentMems
      /\ \A t \in NoTask : e[t] = d[t]
  BY <1>1, <1>2 DEF Tables, NoTask
<1>9. TasksDropped(d, e, S)
  <2>1. ASSUME NEW t \in WithTask
        PROVE  /\ DOMAIN e[t] = {i \in DOMAIN d[t] : d[t][i].task \notin S}
               /\ \A i \in DOMAIN e[t] : e[t][i] = d[t][i]
    <3>1. CASE t = "agentMsgs"
      BY <1>5, <1>8, <3>1
    <3>2. CASE t = "userMems"
      BY <1>6, <1>8, <3>2
    <3>3. CASE t = "agentMems"
      BY <1>7, <1>8, <3>3
    <3> QED
      BY <3>1, <3>2, <3>3 DEF WithTask
  <2> QED
    BY <1>3, <1>4, <1>8, <2>1 DEF TasksDropped
<1>10. \A t \in Tables : DOMAIN e[t] \subseteq DOMAIN d[t]
  <2>1. Tables = {"tasks", "userMsgs"} \cup WithTask \cup NoTask
    BY DEF Tables, WithTask, NoTask
  <2> QED
    BY <1>9, <2>1 DEF TasksDropped
<1>11. IsDb(e)
  BY <1>8, <1>10 DEF IsDb
<1> QED
  BY <1>8, <1>9, <1>11

\* The tasks of a session go.
LEMMA DropTasksIsCall ==
    ASSUME NEW d, ChatSound(d), NEW S, NEW s,
           \A i \in S \cap DOMAIN d.tasks : d.tasks[i].session = s,
           S \subseteq DOMAIN d.tasks, NEW e, e = DropTasks(d, S)
    PROVE  Call(d, e, 0, s)
<1>1. IsDb(d) /\ Keyed(d) /\ \A q \in TaskTables : \A i \in DOMAIN d[q] : Linked(d, d[q][i])
  BY DEF ChatSound
<1>2. IsDb(e) /\ e.next = d.next /\ TasksDropped(d, e, S)
  BY <1>1, DropTasksEffect
<1>3. Tables = {"tasks", "userMsgs"} \cup WithTask \cup NoTask
  BY DEF Tables, WithTask, NoTask
<1>4. None \notin S
  <2>1. DOMAIN d.tasks \subseteq Nat
    BY <1>1 DEF IsDb, Tables
  <2> QED
    BY <2>1, NoneAndFailure
<1>5. ASSUME NEW t \in TaskTables, NEW i \in DOMAIN d[t], d[t][i].task \in S
      PROVE  d[t][i].session = s
  <2>1. d.tasks[d[t][i].task].session = d[t][i].session
    BY <1>1, <1>4, <1>5 DEF Linked
  <2> QED
    BY <1>5, <2>1
<1>6. Gone(d, e, s)
  <2>1. ASSUME NEW t \in Tables
        PROVE  /\ DOMAIN e[t] \subseteq DOMAIN d[t]
               /\ \A i \in DOMAIN e[t] :
                     e[t][i] = d[t][i] \/ (t = "userMsgs" /\ e[t][i] = Freed(d[t][i]))
    BY <1>2, <1>3 DEF TasksDropped
  <2>2. ASSUME NEW t \in SessionTables, NEW i \in DOMAIN d[t], d[t][i].session # s
        PROVE  i \in DOMAIN e[t] /\ e[t][i] = d[t][i]
    <3>1. t \in Tables
      BY TablesOfChat
    <3>2. CASE t = "tasks"
      BY <1>2, <2>2, <3>2 DEF TasksDropped
    <3>3. CASE t = "userMsgs"
      <4>1. d.userMsgs[i].task \notin S
        BY <1>5, <2>2, <3>3 DEF TaskTables
      <4> QED
        BY <1>2, <2>2, <3>3, <4>1 DEF TasksDropped
    <3>4. CASE t \in WithTask
      <4>1. d[t][i].task \notin S
        BY <1>5, <2>2, <3>4 DEF TaskTables, WithTask
      <4> QED
        BY <1>2, <2>2, <3>4, <4>1 DEF TasksDropped
    <3>5. CASE t \in NoTask
      BY <1>2, <2>2, <3>5 DEF TasksDropped
    <3> QED
      BY <1>3, <3>1, <3>2, <3>3, <3>4, <3>5
  <2> QED
    BY <1>2, <2>1, <2>2 DEF Gone
<1>7. KeysLast(d, e)
  <2> SUFFICES ASSUME NEW t \in Tables, NEW i \in DOMAIN e[t], NEW c \in Keys[t]
               PROVE  e[t][i][c] = None \/ e[t][i][c] \in DOMAIN e[Refers[c]]
    BY DEF KeysLast
  <2>1. i \in DOMAIN d[t] /\ c \in DOMAIN Refers /\ c \in DOMAIN d[t][i] /\ KeysHold(d, d[t][i])
    BY <1>1, <1>6 DEF Keyed, Gone
  <2>2. d[t][i][c] = None \/ d[t][i][c] \in DOMAIN d[Refers[c]]
    BY <2>1 DEF KeysHold
  <2>3. CASE c # "task"
    <3>1. e[Refers[c]] = d[Refers[c]]
      <4>1. Refers[c] \in NoTask
        BY <2>1, <2>3, ReferredTo DEF NoTask
      <4> QED
        BY <1>2, <4>1 DEF TasksDropped
    <3>2. e[t][i][c] = d[t][i][c]
      <4>1. \A r : c \in DOMAIN r => Freed(r)[c] = r[c]
        BY <2>3 DEF Freed
      <4> QED
        BY <1>6, <2>1, <4>1 DEF Gone
    <3> QED
      BY <2>2, <3>1, <3>2
  <2>4. CASE c = "task"
    <3>1. t \in {"userMsgs"} \cup WithTask
      BY <2>4 DEF Keys, ChatKeys, Tables, WithTask
    <3>2. CASE d[t][i].task \in S
      <4>1. t = "userMsgs" /\ e[t][i] = Freed(d[t][i])
        BY <1>2, <2>1, <3>1, <3>2 DEF TasksDropped
      <4> QED
        BY <2>1, <2>4, <4>1 DEF Freed
    <3>3. CASE d[t][i].task \notin S
      <4>1. e[t][i] = d[t][i]
        BY <1>2, <2>1, <3>1, <3>3 DEF TasksDropped
      <4>2. Refers[c] = "tasks"
        BY <2>4, ReferredTo
      <4> QED
        BY <1>2, <2>2, <2>4, <3>3, <4>1, <4>2 DEF TasksDropped
    <3> QED
      BY <3>2, <3>3
  <2> QED
    BY <2>3, <2>4
<1> QED
  BY <1>2, <1>6, <1>7, KeysLasting, GoneIsCall

\* The tables whose rows go with their session, beside the tasks.
WithSession == TaskTables \cup {"configs"}
\* The tables that hold nothing of a session.
NoSession == {"users", "files", "a2aSessions", "a2aTasks"}

\* From d to e the sessions of S go, with their rows in all tables but that of the tasks.
SessionsDropped(d, e, S) ==
    /\ e.sessions = Without(d.sessions, S)
    /\ e.tasks = d.tasks
    /\ \A t \in WithSession : e[t] = Without(d[t], {i \in DOMAIN d[t] : d[t][i].session \in S})
    /\ \A t \in NoSession : e[t] = d[t]

\* What is left when sessions are deleted, after their tasks.
LEMMA DropSessionsEffect ==
    ASSUME NEW d, IsDb(d), NEW S, NEW e, e = DropSessions(d, S),
           NEW D, D = {i \in DOMAIN d.tasks : d.tasks[i].session \in S},
           NEW f, f = DropTasks(d, D)
    PROVE  /\ TasksDropped(d, f, D) /\ SessionsDropped(f, e, S)
           /\ e.next = d.next /\ IsDb(e)
<1>1. IsDb(f) /\ f.next = d.next /\ TasksDropped(d, f, D)
  BY DropTasksEffect
<1> DEFINE of(t) == {i \in DOMAIN f[t] : f[t][i].session \in S}
           sessions == Without(f.sessions, S)
           userMsgs == Without(f.userMsgs, of("userMsgs"))
           agentMsgs == Without(f.agentMsgs, of("agentMsgs"))
           userMems == Without(f.userMems, of("userMems"))
           agentMems == Without(f.agentMems, of("agentMems"))
           configs == Without(f.configs, of("configs"))
<1>2. f = [x \in Tables \cup {"next"} |-> f[x]] /\ DOMAIN f = Tables \cup {"next"}
  BY <1>1 DEF IsDb
<1>3. e = [f EXCEPT !.sessions = sessions, !.userMsgs = userMsgs, !.agentMsgs = agentMsgs,
                    !.userMems = userMems, !.agentMems = agentMems, !.configs = configs]
  BY DEF DropSessions
<1> HIDE DEF sessions, userMsgs, agentMsgs, userMems, agentMems, configs
<1>4. /\ e = [x \in Tables \cup {"next"} |-> e[x]] /\ DOMAIN e = Tables \cup {"next"}
      /\ e.next = f.next
      /\ e.sessions = sessions /\ e.tasks = f.tasks
      /\ e.userMsgs = userMsgs /\ e.agentMsgs = agentMsgs
      /\ e.userMems = userMems /\ e.agentMems = agentMems /\ e.configs = configs
      /\ \A t \in NoSession : e[t] = f[t]
  BY <1>2, <1>3 DEF Tables, NoSession
<1>5. ASSUME NEW t \in WithSession PROVE e[t] = Without(f[t], of(t))
  <2>1. CASE t = "userMsgs"
    BY <1>4, <2>1 DEF userMsgs
  <2>2. CASE t = "agentMsgs"
    BY <1>4, <2>2 DEF agentMsgs
  <2>3. CASE t = "userMems"
    BY <1>4, <2>3 DEF userMems
  <2>4. CASE t = "agentMems"
    BY <1>4, <2>4 DEF agentMems
  <2>5. CASE t = "configs"
    BY <1>4, <2>5 DEF configs
  <2> QED
    BY <2>1, <2>2, <2>3, <2>4, <2>5 DEF WithSession, TaskTables
<1>6. SessionsDropped(f, e, S)
  BY <1>4, <1>5 DEF SessionsDropped, sessions
<1>7. Tables = {"sessions", "tasks"} \cup WithSession \cup NoSession
  BY DEF Tables, WithSession, TaskTables, NoSession
<1>8. \A t \in Tables : DOMAIN e[t] \subseteq DOMAIN f[t]
  <2>1. \A rows, R : DOMAIN Without(rows, R) \subseteq DOMAIN rows
    BY DEF Without
  <2>2. \A t \in WithSession : DOMAIN e[t] \subseteq DOMAIN f[t]
    BY <1>5, <2>1
  <2>3. DOMAIN e.sessions \subseteq DOMAIN f.sessions
    BY <1>4, <2>1 DEF sessions
  <2> QED
    BY <1>4, <1>7, <2>2, <2>3
<1>9. IsDb(e)
  BY <1>1, <1>4, <1>8 DEF IsDb
<1> QED
  BY <1>1, <1>4, <1>6, <1>9

\* A session goes, with everything that refers to it.
LEMMA DropSessionIsCall ==
    ASSUME NEW d, ChatSound(d), NEW s, NEW S, S \subseteq {s}, NEW e, e = DropSessions(d, S)
    PROVE  Call(d, e, 0, s)
<1> DEFINE D == {i \in DOMAIN d.tasks : d.tasks[i].session \in S}
           f == DropTasks(d, D)
<1>1. IsDb(d)
  BY DEF ChatSound
<1>2. /\ TasksDropped(d, f, D) /\ SessionsDropped(f, e, S)
      /\ e.next = d.next /\ IsDb(e)
  BY <1>1, DropSessionsEffect
<1>3. Call(d, f, 0, s)
  <2>1. D \subseteq DOMAIN d.tasks /\ \A i \in D \cap DOMAIN d.tasks : d.tasks[i].session = s
    OBVIOUS
  <2> HIDE DEF D
  <2> QED
    BY <2>1, DropTasksIsCall
<1> HIDE DEF f
<1>4. ChatSound(f) /\ f.next = d.next
  BY <1>1, <1>3 DEF Call, IsDb, Id
<1>5. \A i \in DOMAIN f.tasks : f.tasks[i].session \notin S
  BY <1>2 DEF TasksDropped
<1>6. Tables = {"sessions", "tasks"} \cup WithSession \cup NoSession
  BY DEF Tables, WithSession, TaskTables, NoSession
<1>7. /\ DOMAIN e.sessions = DOMAIN f.sessions \ S
      /\ \A i \in DOMAIN e.sessions : e.sessions[i] = f.sessions[i]
  <2>1. e.sessions = Without(f.sessions, S)
    BY <1>2 DEF SessionsDropped
  <2> QED
    BY <2>1 DEF Without
<1>8. ASSUME NEW t \in WithSession
      PROVE  /\ DOMAIN e[t] = {i \in DOMAIN f[t] : f[t][i].session \notin S}
             /\ \A i \in DOMAIN e[t] : e[t][i] = f[t][i]
  <2>1. e[t] = Without(f[t], {i \in DOMAIN f[t] : f[t][i].session \in S})
    BY <1>2 DEF SessionsDropped
  <2> QED
    BY <2>1 DEF Without
<1>9. e.tasks = f.tasks /\ \A t \in NoSession : e[t] = f[t]
  BY <1>2 DEF SessionsDropped
<1>10. ASSUME NEW t \in Tables
       PROVE  /\ DOMAIN e[t] \subseteq DOMAIN f[t]
              /\ \A i \in DOMAIN e[t] : e[t][i] = f[t][i]
  <2>1. CASE t \in WithSession
    BY <1>8, <2>1
  <2>2. CASE t \in NoSession \cup {"sessions", "tasks"}
    BY <1>7, <1>9, <2>2
  <2> QED
    BY <1>6, <2>1, <2>2
<1>11. Gone(f, e, s)
  <2>1. ASSUME NEW t \in SessionTables, NEW i \in DOMAIN f[t], f[t][i].session # s
        PROVE  i \in DOMAIN e[t] /\ e[t][i] = f[t][i]
    <3>1. CASE t = "tasks"
      BY <1>9, <2>1, <3>1
    <3>2. CASE t # "tasks"
      <4>1. t \in WithSession
        BY <3>2 DEF SessionTables, WithSession, TaskTables
      <4> QED
        BY <1>8, <2>1, <4>1
    <3> QED
      BY <3>1, <3>2
  <2> QED
    BY <1>2, <1>4, <1>10, <2>1 DEF Gone
<1>12. KeysLast(f, e)
  <2> SUFFICES ASSUME NEW t \in Tables, NEW i \in DOMAIN e[t], NEW c \in Keys[t]
               PROVE  e[t][i][c] = None \/ e[t][i][c] \in DOMAIN e[Refers[c]]
    BY DEF KeysLast
  <2>1. /\ c \in DOMAIN Refers /\ c \in DOMAIN f[t][i] /\ KeysHold(f, f[t][i])
        /\ e[t][i] = f[t][i] /\ i \in DOMAIN f[t]
    BY <1>4, <1>10 DEF ChatSound, Keyed
  <2>2. f[t][i][c] = None \/ f[t][i][c] \in DOMAIN f[Refers[c]]
    BY <2>1 DEF KeysHold
  <2>3. CASE c # "session"
    <3>1. Refers[c] \in NoSession \cup {"tasks"}
      BY <2>1, <2>3, ReferredTo DEF NoSession
    <3> QED
      BY <1>9, <2>1, <2>2, <3>1
  <2>4. CASE c = "session"
    <3>1. t \in WithSession \cup {"tasks"}
      BY <2>4 DEF Keys, ChatKeys, Tables, WithSession, TaskTables
    <3>2. f[t][i].session \notin S
      BY <1>5, <1>8, <1>9, <3>1
    <3>3. Refers[c] = "sessions"
      BY <2>4, ReferredTo
    <3> QED
      BY <1>7, <2>1, <2>2, <2>4, <3>2, <3>3
  <2> QED
    BY <2>3, <2>4
<1>13. Call(f, e, 0, s)
  BY <1>2, <1>4, <1>11, <1>12, KeysLasting, GoneIsCall
<1>14. Only(d, e, s)
  <2>1. f.sessions = d.sessions
    BY <1>2 DEF TasksDropped, NoTask
  <2> QED
    BY <1>3, <1>13, <2>1 DEF Call, Only
<1>15. TasksStay(d, e)
  BY <1>3, <1>9 DEF Call, TasksStay
<1> QED
  BY <1>2, <1>13, <1>14, <1>15 DEF Call

\* Rows of session s, or session s itself, are deleted.
LEMMA DeleteIsCall ==
    ASSUME NEW d, ChatSound(d), NEW t \in DOMAIN Rows, NEW S, NEW s,
           IF t = "sessions" THEN S \subseteq {s}
           ELSE \A i \in S \cap DOMAIN d[t] : d[t][i].session = s,
           NEW e, e = Delete(d, t, S).db
    PROVE  Call(d, e, 0, s)
<1> DEFINE D == S \cap DOMAIN d[t]
<1>1. e = Drop(d, t, D)
  BY DEF Delete, Returns
<1>2. CASE t = "sessions"
  <2>1. D \subseteq {s} /\ e = DropSessions(d, D)
    BY <1>1, <1>2 DEF Drop
  <2> QED
    BY <2>1, DropSessionIsCall
<1>3. CASE t = "tasks"
  <2>1. /\ D \subseteq DOMAIN d.tasks /\ e = DropTasks(d, D)
        /\ \A i \in D \cap DOMAIN d.tasks : d.tasks[i].session = s
    BY <1>1, <1>3 DEF Drop
  <2> HIDE DEF D
  <2> QED
    BY <2>1, DropTasksIsCall
<1>4. CASE t \notin {"sessions", "tasks"}
  <2>1. t \in SessionTables \ {"tasks"} /\ t # "a2aSessions"
    BY <1>4, TablesOfChat DEF SessionTables
  <2>2. e = [d EXCEPT ![t] = Without(@, D)]
    BY <1>1, <1>4, <2>1 DEF Drop
  <2>3. \A i \in D \cap DOMAIN d[t] : d[t][i].session = s
    BY <1>4
  <2> HIDE DEF D
  <2> QED
    BY <2>1, <2>2, <2>3, DropLeaf
<1> QED
  BY <1>2, <1>3, <1>4

-----------------------------------------------------------------------------
(* The fields that calls change *)

\* A status, a lock, a configuration.
Values == [tasks |-> [status : TaskStatus], userMsgs |-> [status : UserMsgStatus],
           agentMsgs |-> [status : AgentMsgStatus],
           sessions |-> [context_lock : BOOLEAN], configs |-> [config : Nat]]
LEMMA ValueKeys ==
    ASSUME NEW t \in DOMAIN Values, NEW fields \in Values[t]
    PROVE  DOMAIN fields \cap DOMAIN Refers = {}
<1>1. DOMAIN fields \in {{"status"}, {"context_lock"}, {"config"}}
  <2>1. CASE t = "tasks"
    BY <2>1 DEF Values
  <2>2. CASE t = "userMsgs"
    BY <2>2 DEF Values
  <2>3. CASE t = "agentMsgs"
    BY <2>3 DEF Values
  <2>4. CASE t = "sessions"
    BY <2>4 DEF Values
  <2>5. CASE t = "configs"
    BY <2>5 DEF Values
  <2> QED
    BY <2>1, <2>2, <2>3, <2>4, <2>5 DEF Values
<1> QED
  BY <1>1, ReferredTo

\* A row with a new value is still fit for its table.
LEMMA ValueFits ==
    ASSUME NEW d, ChatSound(d), NEW t \in DOMAIN Values, NEW fields \in Values[t],
           NEW i \in DOMAIN d[t]
    PROVE  FitFields(d, t, i, d[t][i].session, fields)
<1>1. t \in {"tasks", "userMsgs", "agentMsgs", "sessions", "configs"}
  BY DEF Values
<1>2. t \in DOMAIN Rows /\ d[t][i] \in Rows[t]
  BY <1>1, TablesOfChat DEF SessionTables, ChatSound
<1> DEFINE r == Over(fields, d[t][i])
<1>4. CASE t = "tasks"
  <2>1. fields \in [status : TaskStatus] /\ d[t][i] \in U2ASessionTask
    BY <1>2, <1>4 DEF Values, Rows
  <2>2. DOMAIN fields = {"status"}
    BY <2>1
  <2>3. r \in U2ASessionTask /\ r.session = d[t][i].session
    BY <2>1, <2>2 DEF Over, U2ASessionTask
  <2>4. r \in Rows[t]
    BY <1>4, <2>3 DEF Rows
  <2> QED
    BY <1>4, <2>2, <2>3, <2>4 DEF FitFields, Fit, TaskTables
<1>5. CASE t = "userMsgs"
  <2>1. fields \in [status : UserMsgStatus] /\ d[t][i] \in U2AUserMessage
    BY <1>2, <1>5 DEF Values, Rows
  <2>2. DOMAIN fields = {"status"}
    BY <2>1
  <2>3. r \in U2AUserMessage /\ r.session = d[t][i].session /\ r.task = d[t][i].task
    BY <2>1, <2>2 DEF Over, U2AUserMessage
  <2>4. r \in Rows[t] /\ Linked(d, d[t][i])
    BY <1>5, <2>3 DEF Rows, ChatSound, TaskTables
  <2> QED
    BY <1>5, <2>2, <2>3, <2>4 DEF FitFields, Fit, Linked
<1>6. CASE t = "agentMsgs"
  <2>1. fields \in [status : AgentMsgStatus] /\ d[t][i] \in U2AAgentMessage
    BY <1>2, <1>6 DEF Values, Rows
  <2>2. DOMAIN fields = {"status"}
    BY <2>1
  <2>3. r \in U2AAgentMessage /\ r.session = d[t][i].session /\ r.task = d[t][i].task
    BY <2>1, <2>2 DEF Over, U2AAgentMessage
  <2>4. r \in Rows[t] /\ Linked(d, d[t][i])
    BY <1>6, <2>3 DEF Rows, ChatSound, TaskTables
  <2> QED
    BY <1>6, <2>2, <2>3, <2>4 DEF FitFields, Fit, Linked
<1>7. CASE t = "sessions"
  <2>1. fields \in [context_lock : BOOLEAN] /\ d[t][i] \in U2ASession
    BY <1>2, <1>7 DEF Values, Rows
  <2>2. DOMAIN fields = {"context_lock"}
    BY <2>1
  <2>3. r \in U2ASession
    BY <2>1, <2>2 DEF Over, U2ASession
  <2>4. r \in Rows[t]
    BY <1>7, <2>3 DEF Rows
  <2> QED
    BY <1>7, <2>2, <2>4 DEF FitFields, Fit, TaskTables, SessionTables
<1>8. CASE t = "configs"
  <2>1. fields \in [config : Nat] /\ d[t][i] \in U2ASessionAgentConfig
    BY <1>2, <1>8 DEF Values, Rows
  <2>2. DOMAIN fields = {"config"}
    BY <2>1
  <2>3. r \in U2ASessionAgentConfig /\ r.session = d[t][i].session
    BY <2>1, <2>2 DEF Over, U2ASessionAgentConfig
  <2>4. r \in Rows[t]
    BY <1>8, <2>3 DEF Rows
  <2> QED
    BY <1>8, <2>2, <2>3, <2>4 DEF FitFields, Fit, TaskTables
<1> QED
  BY <1>1, <1>4, <1>5, <1>6, <1>7, <1>8

\* The task of a row becomes none, or one of its session.
LEMMA TaskFits ==
    ASSUME NEW d, ChatSound(d), NEW t \in TaskTables, NEW i \in DOMAIN d[t], NEW k,
           k = None \/ (k \in Id /\ d.tasks[k].session = d[t][i].session)
    PROVE  FitFields(d, t, i, d[t][i].session, [task |-> k])
<1> DEFINE fields == [task |-> k]
           r == Over(fields, d[t][i])
<1>1. t \in DOMAIN Rows /\ d[t][i] \in Rows[t] /\ DOMAIN fields = {"task"} /\ fields.task = k
  BY TablesOfChat DEF ChatSound
<1> HIDE DEF fields
<1>2. r \in Rows[t] /\ r.session = d[t][i].session /\ r.task = k
  <2>1. CASE t = "userMsgs"
    BY <1>1, <2>1 DEF Over, Rows, U2AUserMessage
  <2>2. CASE t = "agentMsgs"
    BY <1>1, <2>2 DEF Over, Rows, U2AAgentMessage
  <2>3. CASE t = "userMems"
    BY <1>1, <2>3 DEF Over, Rows, UserShortTermMemory
  <2>4. CASE t = "agentMems"
    BY <1>1, <2>4 DEF Over, Rows, AgentShortTermMemory
  <2> QED
    BY <2>1, <2>2, <2>3, <2>4 DEF TaskTables
<1> QED
  BY <1>2 DEF FitFields, Fit, Linked, fields

-----------------------------------------------------------------------------
(* The calls *)

\* A step is a call for one session, with room for the ids it gives out.
Served == \E n \in Nat : \E s : Call(db, db', n, s) /\ (n = 0 \/ Room(n))

\* A call that raises or finds no row.
LEMMA ServedNothing == ASSUME ChatSound(db), UNCHANGED db PROVE Served
<1>1. Call(db, db', 0, None)
  BY SameIsCall
<1> QED
  BY <1>1 DEF Served

\* A call that inserts a row.
LEMMA ServedInsert ==
    ASSUME ChatSound(db), Room(1), NEW t \in DOMAIN Rows, NEW row,
           KeysHold(db, row) => Fit(db, t, row), db' = Insert(db, t, row).db
    PROVE  Served
<1>1. Call(db, db', 1, row.session)
  BY InsertIsCall
<1> QED
  BY <1>1 DEF Served

\* A call that inserts a list of rows of one session.
LEMMA ServedList ==
    ASSUME ChatSound(db), NEW t \in DOMAIN Rows, NEW R, NEW rows \in Seq(R), Room(Len(rows)),
           NEW s, AllFit(db, t, rows, s), db' = InsertAll(db, t, rows).db
    PROVE  Served
<1>1. Call(db, db', Len(rows), s)
  BY InsertAllIsCall
<1>2. Len(rows) \in Nat
  OBVIOUS
<1> QED
  BY <1>1, <1>2 DEF Served

\* ids are of rows of session s
OfSession(d, t, ids, s) == \A i \in ids \cap DOMAIN d[t] : d[t][i].session = s

\* A call that writes a column without a key into rows of one session.
LEMMA ServedValue ==
    ASSUME ChatSound(db), NEW t \in DOMAIN Values, NEW fields \in Values[t], NEW ids, NEW s,
           t = "sessions" \/ OfSession(db, t, ids, s),
           db' \in {db, Change(db, t, ids, fields).db}
    PROVE  Served
<1>1. t \in DOMAIN Rows /\ (t = "sessions" => t \notin SessionTables)
  BY TablesOfChat DEF Values, SessionTables
<1>2. CASE db' = db
  BY <1>2, ServedNothing
<1>3. CASE db' = Change(db, t, ids, fields).db
  <2>1. \A i \in ids \cap DOMAIN db[t] : FitFields(db, t, i, s, fields)
    <3>1. \A i \in DOMAIN db[t] : FitFields(db, t, i, db[t][i].session, fields)
      BY ValueFits
    <3> QED
      BY <1>1, <3>1 DEF OfSession, FitFields
  <2>2. DOMAIN fields \cap DOMAIN Refers \subseteq Keys[t]
    BY ValueKeys
  <2>3. Call(db, db', 0, s)
    BY <1>1, <1>3, <2>1, <2>2, ChangeIsCall
  <2> QED
    BY <2>3 DEF Served
<1> QED
  BY <1>2, <1>3

\* A call that links rows of one session to a task of it, or to none.
LEMMA ServedTask ==
    ASSUME ChatSound(db), NEW t \in TaskTables, NEW ids, NEW s, OfSession(db, t, ids, s),
           NEW k, k = None \/ (k \in Id /\ db.tasks[k].session = s),
           db' = Change(db, t, ids, [task |-> k]).db
    PROVE  Served
<1>1. t \in DOMAIN Rows
  BY TablesOfChat
<1>2. DOMAIN [task |-> k] \cap DOMAIN Refers \subseteq Keys[t]
  BY ReferredTo DEF Keys, ChatKeys, TaskTables
<1>3. \A i \in ids \cap DOMAIN db[t] : FitFields(db, t, i, s, [task |-> k])
  <2> SUFFICES ASSUME NEW i \in ids \cap DOMAIN db[t] PROVE FitFields(db, t, i, s, [task |-> k])
    OBVIOUS
  <2>1. db[t][i].session = s
    BY DEF OfSession
  <2> QED
    BY <2>1, TaskFits
<1>4. Call(db, db', 0, s)
  BY <1>1, <1>2, <1>3, ChangeIsCall
<1> QED
  BY <1>4 DEF Served

\* A call that deletes rows of one session.
LEMMA ServedDelete ==
    ASSUME ChatSound(db), NEW t \in SessionTables, NEW ids, NEW s, OfSession(db, t, ids, s),
           db' = Delete(db, t, ids).db
    PROVE  Served
<1>1. t \in DOMAIN Rows /\ t # "sessions"
  BY TablesOfChat DEF SessionTables
<1>2. Call(db, db', 0, s)
  BY <1>1, DeleteIsCall DEF OfSession
<1> QED
  BY <1>2 DEF Served

\* The lists of ids that calls name are of one session.
LEMMA OneOfSession == ASSUME NEW d, NEW t, NEW i PROVE OfSession(d, t, {i}, d[t][i].session)
BY DEF OfSession

\* ... those found by the session,
LEMMA SessionOfSession ==
    ASSUME NEW d, NEW t, NEW s PROVE OfSession(d, t, Where(d, t, "session", s), s)
BY DEF OfSession, Where

\* ... those found by a task, because rows are of the session of their task,
LEMMA TaskOfSession ==
    ASSUME NEW d, ChatSound(d), NEW t \in TaskTables, NEW k
    PROVE  OfSession(d, t, Where(d, t, "task", k), d.tasks[k].session)
BY DEF OfSession, Where, ChatSound, Linked

\* ... and those a caller has read before.
LEMMA PicksOfSession ==
    ASSUME NEW t, NEW ids \in Picks(t) PROVE \E s : OfSession(db, t, ids, s)
BY OneOfSession, SessionOfSession DEF Picks

-----------------------------------------------------------------------------
(* Calls on sessions, tasks and configurations *)

\* A row of a session that may be inserted is of a session and an account that are there.
LEMMA ItsSession ==
    ASSUME NEW d, ChatSound(d), NEW s \in Nat, NEW row, KeysHold(d, row),
           "session" \in DOMAIN row, row.session = s
    PROVE  s \in DOMAIN d.sessions /\ s \in Id /\ d.sessions[s].user \in Id
<1>1. s # None
  BY NoneAndFailure
<1>2. s \in DOMAIN d.sessions
  BY <1>1, ReferredTo DEF KeysHold
<1>3. d.sessions[s] \in U2ASession
  BY <1>2, TablesOfChat DEF ChatSound, Rows
<1>4. DOMAIN d.sessions \subseteq 1 .. d.next - 1 /\ d.next \in Nat
  BY DEF ChatSound, IsDb, Tables, Id
<1> QED
  BY <1>2, <1>3, <1>4 DEF U2ASession, Id

\* Every function on u2a_sessions is a call for one session.
LEMMA SessionCalls ==
    ASSUME ChatSound(db), SessionCall PROVE Served /\ UNCHANGED auto
<1>1. ASSUME NEW u \in Users, Room(1), Do(insert_session(db, u)) PROVE Served
  <2> DEFINE row == [user |-> u, context_lock |-> FALSE]
  <2>1. u \in Id
    BY DEF Users, ChatSound, IsDb, Tables, Id
  <2>2. row \in Rows.sessions /\ "sessions" \in DOMAIN Rows
    BY <2>1 DEF Rows, U2ASession
  <2>3. Fit(db, "sessions", row)
    BY <2>2 DEF Fit, TaskTables
  <2>4. db' = Insert(db, "sessions", row).db
    BY <1>1 DEF Do, insert_session
  <2> HIDE DEF row
  <2> QED
    BY <1>1, <2>2, <2>3, <2>4, ServedInsert
<1>2. ASSUME NEW s \in Ids, NEW held \in Locks,
             Do(update_session_fields(db, s, [context_lock |-> held]))
      PROVE  Served
  <2>1. db' \in {db, Change(db, "sessions", {s}, [context_lock |-> held]).db}
    BY <1>2, UpdateFieldsIsChange DEF Do, update_session_fields
  <2>2. "sessions" \in DOMAIN Values /\ [context_lock |-> held] \in Values["sessions"]
    BY InputsAreValues DEF Values
  <2> QED
    BY <2>1, <2>2, ServedValue
<1>3. ASSUME NEW s \in Ids, NEW held \in Locks, Do(update_context_lock(db, s, held))
      PROVE  Served
  <2>1. db' = Change(db, "sessions", {s}, [context_lock |-> held]).db
    BY <1>3, AnyRowKeeps DEF Do, update_context_lock
  <2>2. "sessions" \in DOMAIN Values /\ [context_lock |-> held] \in Values["sessions"]
    BY InputsAreValues DEF Values
  <2> QED
    BY <2>1, <2>2, ServedValue
<1>4. ASSUME NEW s \in Ids, Do(delete_session(db, s)) PROVE Served
  <2>1. db' = Delete(db, "sessions", {s}).db
    BY <1>4, AnyRowKeeps DEF Do, delete_session
  <2>2. "sessions" \in DOMAIN Rows
    BY TablesOfChat
  <2>3. Call(db, db', 0, s)
    BY <2>1, <2>2, DeleteIsCall
  <2> QED
    BY <2>3 DEF Served
<1> QED
  BY <1>1, <1>2, <1>3, <1>4 DEF SessionCall, Do

\* Every function on u2a_session_tasks is.
LEMMA TaskCalls ==
    ASSUME ChatSound(db), TaskCall PROVE Served /\ UNCHANGED auto
<1>0. "tasks" \in DOMAIN Values /\ "tasks" \in SessionTables /\ "tasks" \in DOMAIN Rows
  BY DEF Values, SessionTables, Rows
<1>1. ASSUME NEW s \in Ids, NEW st \in TaskStates, Room(1), Do(insert_task(db, s, Owner(s), st))
      PROVE  Served
  <2> DEFINE row == [session |-> s, user |-> Owner(s), status |-> st]
  <2>1. ASSUME KeysHold(db, row) PROVE Fit(db, "tasks", row)
    <3>1. "session" \in DOMAIN row /\ row.session = s /\ s \in Nat
      BY DEF Ids
    <3>2. s \in DOMAIN db.sessions /\ s \in Id /\ db.sessions[s].user \in Id
      BY <2>1, <3>1, ItsSession
    <3>3. st \in TaskStatus /\ Owner(s) \in Id
      BY <3>2, StatesAreStatuses DEF Owner
    <3> QED
      BY <3>2, <3>3 DEF Fit, Rows, U2ASessionTask, TaskTables
  <2>2. db' = Insert(db, "tasks", row).db
    BY <1>1 DEF Do, insert_task
  <2> HIDE DEF row
  <2> QED
    BY <1>0, <1>1, <2>1, <2>2, ServedInsert
<1>2. ASSUME NEW i \in Ids, NEW st \in TaskStates,
             db' \in {db, Change(db, "tasks", {i}, [status |-> st]).db}
      PROVE  Served
  <2>1. [status |-> st] \in Values["tasks"]
    BY StatesAreStatuses DEF Values
  <2> QED
    BY <1>0, <1>2, <2>1, OneOfSession, ServedValue
<1>3. ASSUME NEW i \in Ids, NEW st \in TaskStates,
             \/ Do(update_task_fields(db, i, [status |-> st]))
             \/ Do(update_task_status(db, i, st))
      PROVE  Served
  <2>1. db' \in {db, Change(db, "tasks", {i}, [status |-> st]).db}
    BY <1>3, UpdateFieldsIsChange, AnyRowKeeps
    DEF Do, update_task_fields, update_task_status
  <2> QED
    BY <1>2, <2>1
<1>4. ASSUME NEW i \in Ids, Do(delete_task(db, i)) PROVE Served
  <2>1. db' = Delete(db, "tasks", {i}).db
    BY <1>4, AnyRowKeeps DEF Do, delete_task
  <2> QED
    BY <1>0, <2>1, OneOfSession, ServedDelete
<1>5. ASSUME NEW s \in Ids, Do(delete_tasks_by_session(db, s)) PROVE Served
  <2>1. db' = Delete(db, "tasks", Where(db, "tasks", "session", s)).db
    BY <1>5, AnyRowKeeps DEF Do, delete_tasks_by_session
  <2> QED
    BY <1>0, <2>1, SessionOfSession, ServedDelete
<1> QED
  BY <1>1, <1>3, <1>4, <1>5 DEF TaskCall, Do

\* Every function on u2a_session_agent_config is.
LEMMA ConfigCalls ==
    ASSUME ChatSound(db), ConfigCall PROVE Served /\ UNCHANGED auto
<1>0. "configs" \in DOMAIN Values /\ "configs" \in SessionTables /\ "configs" \in DOMAIN Rows
  BY DEF Values, SessionTables, Rows
<1>1. ASSUME NEW s \in Ids, NEW c \in {1, 2}, Room(1), Do(insert_session_config(db, s, c))
      PROVE  Served
  <2> DEFINE row == [session |-> s, config |-> c]
  <2>1. ASSUME KeysHold(db, row) PROVE Fit(db, "configs", row)
    <3>1. "session" \in DOMAIN row /\ row.session = s /\ s \in Nat
      BY DEF Ids
    <3>2. s \in Id
      BY <2>1, <3>1, ItsSession
    <3> QED
      BY <3>2 DEF Fit, Rows, U2ASessionAgentConfig, TaskTables
  <2>2. db' = Insert(db, "configs", row).db
    BY <1>1 DEF Do, insert_session_config
  <2> HIDE DEF row
  <2> QED
    BY <1>0, <1>1, <2>1, <2>2, ServedInsert
<1>2. \A c \in {1, 2} : [config |-> c] \in Values["configs"]
  BY DEF Values
<1>3. ASSUME NEW i \in Ids, NEW c \in {1, 2}, Do(update_session_config(db, i, c)) PROVE Served
  <2>1. db' \in {db, Change(db, "configs", {i}, [config |-> c]).db}
    BY <1>3, AnyRowKeeps DEF Do, update_session_config
  <2> QED
    BY <1>0, <1>2, <2>1, OneOfSession, ServedValue
<1>4. ASSUME NEW s \in Ids, NEW c \in {1, 2}, Do(update_session_config_by_session_id(db, s, c))
      PROVE  Served
  <2>1. db' \in {db, Change(db, "configs", Where(db, "configs", "session", s),
                            [config |-> c]).db}
    BY <1>4, AnyRowKeeps DEF Do, update_session_config_by_session_id
  <2> QED
    BY <1>0, <1>2, <2>1, SessionOfSession, ServedValue
<1>5. ASSUME NEW i \in Ids, Do(delete_session_config(db, i)) PROVE Served
  <2>1. db' = Delete(db, "configs", {i}).db
    BY <1>5, AnyRowKeeps DEF Do, delete_session_config
  <2> QED
    BY <1>0, <2>1, OneOfSession, ServedDelete
<1>6. ASSUME NEW s \in Ids, Do(delete_session_config_by_session_id(db, s)) PROVE Served
  <2>1. db' = Delete(db, "configs", Where(db, "configs", "session", s)).db
    BY <1>6, AnyRowKeeps DEF Do, delete_session_config_by_session_id
  <2> QED
    BY <1>0, <2>1, SessionOfSession, ServedDelete
<1> QED
  BY <1>1, <1>3, <1>4, <1>5, <1>6 DEF ConfigCall, Do

-----------------------------------------------------------------------------
(* Calls on messages and memories *)

\* A next index is a number above all it counts.
IndexAbove(d, t, c) ==
    \A S \in SUBSET DOMAIN d[t] :
        /\ NextIndex(d, t, c, S) \in Nat
        /\ \A i \in S : d[t][i][c] \in Nat /\ d[t][i][c] < NextIndex(d, t, c, S)
LEMMA NextIndexes ==
    ASSUME NEW d, ChatSound(d)
    PROVE  /\ IndexAbove(d, "userMsgs", "seq_index")
           /\ IndexAbove(d, "agentMsgs", "sub_seq_index")
           /\ IndexAbove(d, "userMems", "seq_index")
           /\ IndexAbove(d, "agentMems", "sub_seq_index")
<1>1. ASSUME NEW t \in Tables, NEW c, \A i \in DOMAIN d[t] : d[t][i][c] \in Nat
      PROVE  IndexAbove(d, t, c)
  <2> SUFFICES ASSUME NEW S \in SUBSET DOMAIN d[t]
               PROVE  /\ NextIndex(d, t, c, S) \in Nat
                      /\ \A i \in S : d[t][i][c] \in Nat /\ d[t][i][c] < NextIndex(d, t, c, S)
    BY DEF IndexAbove
  <2>1. IsDb(d) /\ \A i \in S : d[t][i][c] \in Nat
    BY <1>1 DEF ChatSound
  <2>2. /\ NextIndex(d, t, c, S) \in Nat
        /\ \A i \in S : d[t][i][c] < NextIndex(d, t, c, S)
    BY <2>1, NextIndexAbove
  <2> QED
    BY <2>1, <2>2
<1>2. \A i \in DOMAIN d["userMsgs"] : d["userMsgs"][i]["seq_index"] \in Nat
  BY TablesOfChat DEF ChatSound, Rows, U2AUserMessage
<1>3. \A i \in DOMAIN d["agentMsgs"] : d["agentMsgs"][i]["sub_seq_index"] \in Nat
  BY TablesOfChat DEF ChatSound, Rows, U2AAgentMessage
<1>4. \A i \in DOMAIN d["userMems"] : d["userMems"][i]["seq_index"] \in Nat
  BY TablesOfChat DEF ChatSound, Rows, UserShortTermMemory
<1>5. \A i \in DOMAIN d["agentMems"] : d["agentMems"][i]["sub_seq_index"] \in Nat
  BY TablesOfChat DEF ChatSound, Rows, AgentShortTermMemory
<1>6. {"userMsgs", "agentMsgs", "userMems", "agentMems"} \subseteq Tables
  BY DEF Tables
<1>7. IndexAbove(d, "userMsgs", "seq_index")
  BY <1>1, <1>2, <1>6
<1>8. IndexAbove(d, "agentMsgs", "sub_seq_index")
  BY <1>1, <1>3, <1>6
<1>9. IndexAbove(d, "userMems", "seq_index")
  BY <1>1, <1>4, <1>6
<1>10. IndexAbove(d, "agentMems", "sub_seq_index")
  BY <1>1, <1>5, <1>6
<1> QED
  BY <1>7, <1>8, <1>9, <1>10

\* A task that a row of a session is linked to is none, or one of the session.
LEMMA ItsTask ==
    ASSUME ChatSound(db), NEW s, NEW k \in TasksOf(s)
    PROVE  k = None \/ (k \in Id /\ k \in DOMAIN db.tasks /\ db.tasks[k].session = s)
<1>1. DOMAIN db.tasks \subseteq Id
  BY DEF ChatSound, IsDb, Tables, Id
<1> QED
  BY <1>1 DEF TasksOf, Where

\* The owner of a session, for a row of the session that may be inserted.
LEMMA ItsOwner ==
    ASSUME ChatSound(db), NEW s \in Ids, NEW row, KeysHold(db, row),
           "session" \in DOMAIN row, row.session = s
    PROVE  s \in Id /\ Owner(s) \in Id
<1>1. s \in DOMAIN db.sessions /\ s \in Id /\ db.sessions[s].user \in Id
  BY ItsSession DEF Ids
<1> QED
  BY <1>1 DEF Owner

\* Rows are linked to tasks of their session.
LEMMA ServedLink ==
    ASSUME ChatSound(db), NEW t \in TaskTables, NEW ids \in Picks(t),
           NEW s \in SessionOf(t, ids), NEW k \in TasksOf(s),
           db' = Change(db, t, ids, [task |-> k]).db
    PROVE  Served
<1>1. PICK r : OfSession(db, t, ids, r)
  BY PicksOfSession
<1>2. r = s
  BY <1>1 DEF OfSession, SessionOf
<1>3. k = None \/ (k \in Id /\ db.tasks[k].session = s)
  BY ItsTask
<1> QED
  BY <1>1, <1>2, <1>3, ServedTask

\* Rows go by their id, their session or their task.
LEMMA ServedGone ==
    ASSUME ChatSound(db), NEW t \in TaskTables,
           NEW ids, \/ \E i : ids = {i}
                    \/ \E s : ids = Where(db, t, "session", s)
                    \/ \E k : ids = Where(db, t, "task", k),
           db' = Delete(db, t, ids).db
    PROVE  Served
<1>1. PICK s : OfSession(db, t, ids, s)
  BY OneOfSession, SessionOfSession, TaskOfSession
<1> QED
  BY <1>1, TablesOfChat, ServedDelete

\* Statuses of messages change.
LEMMA ServedStatus ==
    ASSUME ChatSound(db), NEW t \in {"userMsgs", "agentMsgs"},
           NEW st, st \in IF t = "userMsgs" THEN UserMsgStates ELSE AgentMsgStates,
           NEW ids, \E s : OfSession(db, t, ids, s),
           db' \in {db, Change(db, t, ids, [status |-> st]).db}
    PROVE  Served
<1>1. t \in DOMAIN Values
  BY DEF Values
<1>2. [status |-> st] \in Values[t]
  <2>1. CASE t = "userMsgs"
    <3>1. st \in UserMsgStatus
      BY <2>1, StatesAreStatuses
    <3> QED
      BY <2>1, <3>1 DEF Values
  <2>2. CASE t = "agentMsgs"
    <3>1. st \in AgentMsgStatus
      BY <2>2, StatesAreStatuses
    <3> QED
      BY <2>2, <3>1 DEF Values
  <2> QED
    BY <2>1, <2>2
<1>3. PICK s : OfSession(db, t, ids, s)
  OBVIOUS
<1> QED
  BY <1>1, <1>2, <1>3, ServedValue

\* Every function on u2a_user_messages is a call for one session.
LEMMA UserMsgCalls ==
    ASSUME ChatSound(db), UserMsgCall PROVE Served /\ UNCHANGED auto
<1>0. "userMsgs" \in TaskTables /\ "userMsgs" \in DOMAIN Rows
  BY DEF TaskTables, Rows
<1>1. ASSUME NEW s \in Ids, NEW seq \in Indices, NEW st \in UserMsgStates,
             NEW t \in TasksOf(s), Room(1), Do(insert_user_message(db, Owner(s), s, seq, st, t))
      PROVE  Served
  <2> DEFINE row == [user |-> Owner(s), session |-> s, seq_index |-> seq,
                     status |-> st, task |-> t]
  <2>1. seq \in Nat
    BY InputsAreValues DEF Indices
  <2>2. ASSUME KeysHold(db, row) PROVE Fit(db, "userMsgs", row)
    <3>1. "session" \in DOMAIN row /\ row.session = s /\ row.task = t
      OBVIOUS
    <3>2. s \in Id /\ Owner(s) \in Id
      BY <2>2, <3>1, ItsOwner
    <3>3. t \in Id \cup {None} /\ Linked(db, row)
      BY <3>1, ItsTask DEF Linked
    <3>4. st \in UserMsgStatus
      BY StatesAreStatuses
    <3>5. row \in U2AUserMessage
      BY <2>1, <3>2, <3>3, <3>4 DEF U2AUserMessage
    <3> QED
      BY <3>3, <3>5 DEF Fit, Rows
  <2>3. db' = Insert(db, "userMsgs", row).db
    BY <1>1 DEF Do, insert_user_message
  <2> HIDE DEF row
  <2> QED
    BY <1>0, <1>1, <2>2, <2>3, ServedInsert
<1>2. ASSUME NEW i \in Ids, NEW st \in UserMsgStates,
             Do(update_user_message_fields(db, i, [status |-> st]))
      PROVE  Served
  <2>1. db' \in {db, Change(db, "userMsgs", {i}, [status |-> st]).db}
    BY <1>2, UpdateFieldsIsChange DEF Do, update_user_message_fields
  <2> QED
    BY <2>1, OneOfSession, ServedStatus
<1>3. ASSUME NEW ids \in Picks("userMsgs"), NEW st \in UserMsgStates,
             Do(update_user_message_status_by_ids(db, ids, st))
      PROVE  Served
  <2>1. db' = Change(db, "userMsgs", ids, [status |-> st]).db
    BY <1>3 DEF Do, update_user_message_status_by_ids
  <2> QED
    BY <2>1, PicksOfSession, ServedStatus
<1>4. ASSUME NEW ids \in Picks("userMsgs"), NEW s \in SessionOf("userMsgs", ids),
             NEW t \in TasksOf(s), Do(update_user_message_session_task_by_ids(db, ids, t))
      PROVE  Served
  <2>1. db' = Change(db, "userMsgs", ids, [task |-> t]).db
    BY <1>4 DEF Do, update_user_message_session_task_by_ids
  <2> QED
    BY <1>0, <2>1, ServedLink
<1>5. ASSUME NEW i \in Ids, Do(delete_user_message(db, i)) PROVE Served
  <2>1. db' = Delete(db, "userMsgs", {i}).db
    BY <1>5, AnyRowKeeps DEF Do, delete_user_message
  <2> QED
    BY <1>0, <2>1, ServedGone
<1>6. ASSUME NEW s \in Ids, Do(delete_user_messages_by_session(db, s)) PROVE Served
  <2>1. db' = Delete(db, "userMsgs", Where(db, "userMsgs", "session", s)).db
    BY <1>6, AnyRowKeeps DEF Do, delete_user_messages_by_session
  <2> QED
    BY <1>0, <2>1, ServedGone
<1> QED
  BY <1>1, <1>2, <1>3, <1>4, <1>5, <1>6 DEF UserMsgCall, Do

\* The lists of rows that calls insert by their columns.
IsList(rows, n, C) ==
    /\ rows = [k \in 1 .. n |-> rows[k]]
    /\ \A k \in 1 .. n : rows[k] = [c \in C |-> rows[k][c]]
LEMMA ServedRows ==
    ASSUME ChatSound(db), NEW t \in DOMAIN Rows, NEW n \in Nat, Room(n), NEW rows,
           NEW C, "session" \in C, IsList(rows, n, C), NEW s, AllFit(db, t, rows, s),
           db' = IF rows = <<>> THEN db ELSE InsertColumns(db, t, Columns(rows)).db
    PROVE  Served
<1> DEFINE R == {rows[k] : k \in 1 .. n}
<1>1. rows = [k \in 1 .. n |-> rows[k]] /\ \A k \in 1 .. n : rows[k] = [c \in C |-> rows[k][c]]
  BY DEF IsList
<1>2. rows \in [1 .. n -> R]
  BY <1>1
<1>3. rows \in Seq(R) /\ Len(rows) = n
  <2> HIDE DEF R
  <2>1. rows \in Seq(R)
    BY <1>2, IsASeq
  <2>2. DOMAIN rows = 1 .. n /\ DOMAIN rows = 1 .. Len(rows) /\ Len(rows) \in Nat
    BY <1>2, <2>1, LenProperties
  <2> QED
    BY <2>1, <2>2
<1>4. \A r \in R : r = [c \in C |-> r[c]]
  BY <1>1
<1> HIDE DEF R
<1>5. CASE rows = <<>>
  BY <1>5, ServedNothing
<1>6. CASE rows # <<>>
  <2>1. InsertColumns(db, t, Columns(rows)) = InsertAll(db, t, rows)
    BY <1>3, <1>4, <1>6, ColumnsAreRows
  <2>2. db' = InsertAll(db, t, rows).db
    BY <1>6, <2>1
  <2> QED
    BY <1>3, <2>2, ServedList
<1> QED
  BY <1>5, <1>6

\* The rows a caller inserts fit: agent messages,
LEMMA AgentMsgFits ==
    ASSUME ChatSound(db), NEW s \in Ids, NEW t \in TasksOf(s), NEW seq \in Nat,
           NEW st \in AgentMsgStates, KeysHold(db, AgentMsg(s, t, seq, st))
    PROVE  Fit(db, "agentMsgs", AgentMsg(s, t, seq, st))
<1> DEFINE row == AgentMsg(s, t, seq, st)
<1>1. "session" \in DOMAIN row /\ row.session = s /\ row.task = t
  BY DEF AgentMsg
<1>2. s \in Id /\ Owner(s) \in Id
  BY <1>1, ItsOwner
<1>3. t \in Id \cup {None} /\ Linked(db, row)
  BY <1>1, ItsTask DEF Linked
<1>4. st \in AgentMsgStatus
  BY StatesAreStatuses
<1>5. row \in U2AAgentMessage
  BY <1>2, <1>3, <1>4 DEF AgentMsg, U2AAgentMessage
<1> QED
  BY <1>3, <1>5 DEF Fit, Rows

\* ... memories of the user,
LEMMA UserMemFits ==
    ASSUME ChatSound(db), NEW s \in Ids, NEW t \in TasksOf(s), NEW seq \in Nat,
           KeysHold(db, UserMem(s, t, seq))
    PROVE  Fit(db, "userMems", UserMem(s, t, seq))
<1> DEFINE row == UserMem(s, t, seq)
<1>1. "session" \in DOMAIN row /\ row.session = s /\ row.task = t
  BY DEF UserMem
<1>2. s \in Id /\ Owner(s) \in Id
  BY <1>1, ItsOwner
<1>3. t \in Id \cup {None} /\ Linked(db, row)
  BY <1>1, ItsTask DEF Linked
<1>5. row \in UserShortTermMemory
  BY <1>2, <1>3 DEF UserMem, UserShortTermMemory
<1> QED
  BY <1>3, <1>5 DEF Fit, Rows

\* ... and memories of the agent.
LEMMA AgentMemFits ==
    ASSUME ChatSound(db), NEW s \in Ids, NEW t \in TasksOf(s), NEW seq \in Nat,
           KeysHold(db, AgentMem(s, t, seq))
    PROVE  Fit(db, "agentMems", AgentMem(s, t, seq))
<1> DEFINE row == AgentMem(s, t, seq)
<1>1. "session" \in DOMAIN row /\ row.session = s /\ row.task = t
  BY DEF AgentMem
<1>2. s \in Id /\ Owner(s) \in Id
  BY <1>1, ItsOwner
<1>3. t \in Id \cup {None} /\ Linked(db, row)
  BY <1>1, ItsTask DEF Linked
<1>5. row \in AgentShortTermMemory
  BY <1>2, <1>3 DEF AgentMem, AgentShortTermMemory
<1> QED
  BY <1>3, <1>5 DEF Fit, Rows

\* Every function on u2a_agent_messages is a call for one session.
LEMMA AgentMsgCalls ==
    ASSUME ChatSound(db), AgentMsgCall PROVE Served /\ UNCHANGED auto
<1>0. "agentMsgs" \in TaskTables /\ "agentMsgs" \in DOMAIN Rows
  BY DEF TaskTables, Rows
<1>1. ASSUME NEW s \in Ids, NEW seq \in Indices, NEW st \in AgentMsgStates,
             NEW t \in TasksOf(s), Room(1),
             Do(insert_agent_message(db, AgentMsg(s, t, seq, st)))
      PROVE  Served
  <2>1. seq \in Nat
    BY InputsAreValues DEF Indices
  <2>2. db' = Insert(db, "agentMsgs", AgentMsg(s, t, seq, st)).db
    BY <1>1 DEF Do, insert_agent_message
  <2>3. KeysHold(db, AgentMsg(s, t, seq, st)) => Fit(db, "agentMsgs", AgentMsg(s, t, seq, st))
    BY <2>1, AgentMsgFits
  <2> QED
    BY <1>0, <1>1, <2>2, <2>3, ServedInsert
<1>2. ASSUME NEW s \in Ids, NEW st \in AgentMsgStates, NEW n \in 0 .. 2, NEW t \in TasksOf(s),
             Room(n),
             Do(insert_agent_messages_from_list(db, [k \in 1 .. n |-> AgentMsg(s, t, k - 1, st)]))
      PROVE  Served
  <2> DEFINE rows == [k \in 1 .. n |-> AgentMsg(s, t, k - 1, st)]
             C == {"user", "session", "sub_seq_index", "status", "task"}
  <2>1. IsList(rows, n, C)
    BY DEF IsList, AgentMsg
  <2>2. AllFit(db, "agentMsgs", rows, s)
    <3>1. ASSUME NEW k \in 1 .. n, KeysHold(db, AgentMsg(s, t, k - 1, st))
          PROVE  /\ Fit(db, "agentMsgs", AgentMsg(s, t, k - 1, st))
                 /\ AgentMsg(s, t, k - 1, st).session = s
      <4>1. k - 1 \in Nat
        OBVIOUS
      <4> QED
        BY <3>1, <4>1, AgentMsgFits DEF AgentMsg
    <3> QED
      BY <3>1 DEF AllFit
  <2>3. db' = IF rows = <<>> THEN db ELSE InsertColumns(db, "agentMsgs", Columns(rows)).db
    BY <1>2 DEF Do, insert_agent_messages_from_list, insert_agent_messages_batch, Returns
  <2>4. n \in Nat /\ "session" \in C
    OBVIOUS
  <2> HIDE DEF rows, C
  <2> QED
    BY <1>0, <1>2, <2>1, <2>2, <2>3, <2>4, ServedRows
<1>3. ASSUME NEW i \in Ids, NEW st \in AgentMsgStates,
             Do(update_agent_message_fields(db, i, [status |-> st]))
      PROVE  Served
  <2>1. db' \in {db, Change(db, "agentMsgs", {i}, [status |-> st]).db}
    BY <1>3, UpdateFieldsIsChange DEF Do, update_agent_message_fields
  <2> QED
    BY <2>1, OneOfSession, ServedStatus
<1>4. ASSUME NEW ids \in Picks("agentMsgs"), NEW st \in AgentMsgStates,
             Do(update_agent_message_status_by_ids(db, ids, st))
      PROVE  Served
  <2>1. db' = Change(db, "agentMsgs", ids, [status |-> st]).db
    BY <1>4 DEF Do, update_agent_message_status_by_ids
  <2> QED
    BY <2>1, PicksOfSession, ServedStatus
<1>5. ASSUME NEW ids \in Picks("agentMsgs"), NEW s \in SessionOf("agentMsgs", ids),
             NEW t \in TasksOf(s), Do(update_agent_message_session_task_by_ids(db, ids, t))
      PROVE  Served
  <2>1. db' = Change(db, "agentMsgs", ids, [task |-> t]).db
    BY <1>5 DEF Do, update_agent_message_session_task_by_ids
  <2> QED
    BY <1>0, <2>1, ServedLink
<1>6. ASSUME NEW i \in Ids, Do(delete_agent_message(db, i)) PROVE Served
  <2>1. db' = Delete(db, "agentMsgs", {i}).db
    BY <1>6, AnyRowKeeps DEF Do, delete_agent_message
  <2> QED
    BY <1>0, <2>1, ServedGone
<1>7. ASSUME NEW s \in Ids, Do(delete_agent_messages_by_session(db, s)) PROVE Served
  <2>1. db' = Delete(db, "agentMsgs", Where(db, "agentMsgs", "session", s)).db
    BY <1>7, AnyRowKeeps DEF Do, delete_agent_messages_by_session
  <2> QED
    BY <1>0, <2>1, ServedGone
<1>8. ASSUME NEW t \in Ids, Do(delete_agent_messages_by_session_task(db, t)) PROVE Served
  <2>1. db' = Delete(db, "agentMsgs", Where(db, "agentMsgs", "task", t)).db
    BY <1>8, AnyRowKeeps DEF Do, delete_agent_messages_by_session_task
  <2> QED
    BY <1>0, <2>1, ServedGone
<1> QED
  BY <1>1, <1>2, <1>3, <1>4, <1>5, <1>6, <1>7, <1>8 DEF AgentMsgCall, Do

\* Every function on u2a_user_short_term_memory is.
LEMMA UserMemCalls ==
    ASSUME ChatSound(db), UserMemCall PROVE Served /\ UNCHANGED auto
<1>0. "userMems" \in TaskTables /\ "userMems" \in DOMAIN Rows
  BY DEF TaskTables, Rows
<1>1. Indices \subseteq Nat
  BY InputsAreValues DEF Indices
<1>2. ASSUME NEW s \in Ids, NEW seq \in Indices, NEW t \in TasksOf(s), Room(1),
             Do(create_user_short_term_memory(db, UserMem(s, t, seq)))
      PROVE  Served
  <2> DEFINE row == UserMem(s, t, seq)
  <2>1. db' = Insert(db, "userMems", row).db
    BY <1>2 DEF Do, create_user_short_term_memory
  <2>2. KeysHold(db, row) => Fit(db, "userMems", row)
    BY <1>1, UserMemFits
  <2> HIDE DEF row
  <2> QED
    BY <1>0, <1>2, <2>1, <2>2, ServedInsert
<1>3. ASSUME NEW s \in Ids, NEW seq \in Indices, NEW n \in 0 .. 2, NEW t \in TasksOf(s),
             Room(n),
             Do(create_user_short_term_memories_from_list(db,
                    [k \in 1 .. n |-> UserMem(s, t, seq + k - 1)]))
      PROVE  Served
  <2> DEFINE rows == [k \in 1 .. n |-> UserMem(s, t, seq + k - 1)]
             C == {"user", "session", "seq_index", "task"}
  <2>0. seq \in Nat /\ Do(create_user_short_term_memories_from_list(db, rows))
    BY <1>1, <1>3
  <2>1. IsList(rows, n, C)
    BY DEF IsList, UserMem
  <2>2. AllFit(db, "userMems", rows, s)
    <3>1. ASSUME NEW k \in 1 .. n, KeysHold(db, UserMem(s, t, seq + k - 1))
          PROVE  /\ Fit(db, "userMems", UserMem(s, t, seq + k - 1))
                 /\ UserMem(s, t, seq + k - 1).session = s
      <4>1. seq + k - 1 \in Nat
        BY <2>0
      <4> QED
        BY <3>1, <4>1, UserMemFits DEF UserMem
    <3> QED
      BY <3>1 DEF AllFit
  <2>3. db' = IF rows = <<>> THEN db ELSE InsertColumns(db, "userMems", Columns(rows)).db
    BY <2>0 DEF Do, create_user_short_term_memories_from_list,
                create_user_short_term_memories_batch, Returns
  <2>4. n \in Nat /\ "session" \in C
    OBVIOUS
  <2> HIDE DEF rows, C
  <2> QED
    BY <1>0, <1>3, <2>1, <2>2, <2>3, <2>4, ServedRows
<1>4. ASSUME NEW i \in Ids, Do(update_user_short_term_memory(db, i, [seq_index |-> 0]))
      PROVE  Served
  <2>1. db' = db
    BY <1>4 DEF Do, update_user_short_term_memory, Returns, Raises
  <2> QED
    BY <2>1, ServedNothing
<1>5. ASSUME NEW ids \in Picks("userMems"), NEW s \in SessionOf("userMems", ids),
             NEW t \in TasksOf(s), Do(update_user_memory_session_task_by_ids(db, ids, t))
      PROVE  Served
  <2>1. db' = Change(db, "userMems", ids, [task |-> t]).db
    BY <1>5 DEF Do, update_user_memory_session_task_by_ids
  <2> QED
    BY <1>0, <2>1, ServedLink
<1>6. ASSUME NEW i \in Ids, Do(delete_user_short_term_memory(db, i)) PROVE Served
  <2>1. db' = Delete(db, "userMems", {i}).db
    BY <1>6, AnyRowKeeps DEF Do, delete_user_short_term_memory
  <2> QED
    BY <1>0, <2>1, ServedGone
<1>7. ASSUME NEW s \in Ids, Do(delete_user_short_term_memories_by_session(db, s)) PROVE Served
  <2>1. db' = Delete(db, "userMems", Where(db, "userMems", "session", s)).db
    BY <1>7 DEF Do, delete_user_short_term_memories_by_session
  <2> QED
    BY <1>0, <2>1, ServedGone
<1>8. ASSUME NEW t \in Ids, Do(delete_user_short_term_memories_by_session_task(db, t))
      PROVE  Served
  <2>1. db' = Delete(db, "userMems", Where(db, "userMems", "task", t)).db
    BY <1>8 DEF Do, delete_user_short_term_memories_by_session_task
  <2> QED
    BY <1>0, <2>1, ServedGone
<1> QED
  BY <1>2, <1>3, <1>4, <1>5, <1>6, <1>7, <1>8 DEF UserMemCall, Do

\* Every function on u2a_agent_short_term_memory is.
LEMMA AgentMemCalls ==
    ASSUME ChatSound(db), AgentMemCall PROVE Served /\ UNCHANGED auto
<1>0. "agentMems" \in TaskTables /\ "agentMems" \in DOMAIN Rows
  BY DEF TaskTables, Rows
<1>1. ASSUME NEW s \in Ids, NEW t \in TasksOf(s), Room(1),
             Do(create_agent_short_term_memory(db, AgentMem(s, t, 0)))
      PROVE  Served
  <2> DEFINE row == AgentMem(s, t, 0)
  <2>1. db' = Insert(db, "agentMems", row).db
    BY <1>1 DEF Do, create_agent_short_term_memory
  <2>2. KeysHold(db, row) => Fit(db, "agentMems", row)
    BY AgentMemFits
  <2> HIDE DEF row
  <2> QED
    BY <1>0, <1>1, <2>1, <2>2, ServedInsert
<1>2. ASSUME NEW s \in Ids, NEW n \in 0 .. 2, NEW t \in TasksOf(s), Room(n),
             Do(create_agent_short_term_memories_from_list(db,
                    [k \in 1 .. n |-> AgentMem(s, t, k - 1)]))
      PROVE  Served
  <2> DEFINE rows == [k \in 1 .. n |-> AgentMem(s, t, k - 1)]
             C == {"user", "session", "sub_seq_index", "task"}
  <2>1. IsList(rows, n, C)
    BY DEF IsList, AgentMem
  <2>2. AllFit(db, "agentMems", rows, s)
    <3>1. ASSUME NEW k \in 1 .. n, KeysHold(db, AgentMem(s, t, k - 1))
          PROVE  /\ Fit(db, "agentMems", AgentMem(s, t, k - 1))
                 /\ AgentMem(s, t, k - 1).session = s
      <4>1. k - 1 \in Nat
        OBVIOUS
      <4> QED
        BY <3>1, <4>1, AgentMemFits DEF AgentMem
    <3> QED
      BY <3>1 DEF AllFit
  <2>3. db' = IF rows = <<>> THEN db ELSE InsertColumns(db, "agentMems", Columns(rows)).db
    BY <1>2 DEF Do, create_agent_short_term_memories_from_list,
                create_agent_short_term_memories_batch, Returns
  <2>4. n \in Nat /\ "session" \in C
    OBVIOUS
  <2> HIDE DEF rows, C
  <2> QED
    BY <1>0, <1>2, <2>1, <2>2, <2>3, <2>4, ServedRows
<1>3. ASSUME NEW i \in Ids, Do(update_agent_short_term_memory(db, i, [sub_seq_index |-> 0]))
      PROVE  Served
  <2>1. db' = db
    BY <1>3 DEF Do, update_agent_short_term_memory, Returns, Raises
  <2> QED
    BY <2>1, ServedNothing
<1>4. ASSUME NEW ids \in Picks("agentMems"), NEW s \in SessionOf("agentMems", ids),
             NEW t \in TasksOf(s), Do(update_agent_memory_session_task_by_ids(db, ids, t))
      PROVE  Served
  <2>1. db' = Change(db, "agentMems", ids, [task |-> t]).db
    BY <1>4 DEF Do, update_agent_memory_session_task_by_ids
  <2> QED
    BY <1>0, <2>1, ServedLink
<1>5. ASSUME NEW i \in Ids, Do(delete_agent_short_term_memory(db, i)) PROVE Served
  <2>1. db' = Delete(db, "agentMems", {i}).db
    BY <1>5, AnyRowKeeps DEF Do, delete_agent_short_term_memory
  <2> QED
    BY <1>0, <2>1, ServedGone
<1>6. ASSUME NEW s \in Ids, Do(delete_agent_short_term_memories_by_session(db, s)) PROVE Served
  <2>1. db' = Delete(db, "agentMems", Where(db, "agentMems", "session", s)).db
    BY <1>6 DEF Do, delete_agent_short_term_memories_by_session
  <2> QED
    BY <1>0, <2>1, ServedGone
<1>7. ASSUME NEW t \in Ids, Do(delete_agent_short_term_memories_by_session_task(db, t))
      PROVE  Served
  <2>1. db' = Delete(db, "agentMems", Where(db, "agentMems", "task", t)).db
    BY <1>7 DEF Do, delete_agent_short_term_memories_by_session_task
  <2> QED
    BY <1>0, <2>1, ServedGone
<1> QED
  BY <1>1, <1>2, <1>3, <1>4, <1>5, <1>6, <1>7 DEF AgentMemCall, Do

-----------------------------------------------------------------------------
(* The inductive invariant *)

\* A memory of a task is of the session the task had, and the task's id is given out
\* already: no other session's task will have it.
OfItsTask(row) ==
    row.task # None =>
        /\ row.task \in Id /\ row.task < db.next
        /\ row.task \in DOMAIN db.tasks => db.tasks[row.task].session = row.session

\* The memories a function has numbered are rows of their table and of one session.
AutoSound ==
    auto # None =>
        /\ auto.table \in {"agentMems", "userMems"}
        /\ auto.rows \in Seq(Rows[auto.table]) /\ Len(auto.rows) \in {1, 2}
        /\ \A k \in 1 .. Len(auto.rows) :
              OfItsTask(auto.rows[k]) /\ auto.rows[k].session = auto.rows[1].session

CInv == ChatSound(db) /\ db.next \in 1 .. MaxId + 1 /\ AutoSound

\* The account's row is all there is in the tables.
LEMMA AccountMade ==
    ASSUME NEW d, d = Insert(EmptyDb, "users", [is_deleted |-> FALSE]).db
    PROVE  /\ ChatSound(d) /\ d.next \in {1, 2}
           /\ \A t \in Tables \ {"users"} : DOMAIN d[t] = {}
           /\ DOMAIN d.users # {} => d.next = 2
<1>1. IsDb(EmptyDb) /\ EmptyDb.next = 1 /\ \A t \in Tables : DOMAIN EmptyDb[t] = {}
  BY DEF IsDb, EmptyDb, Tables, Id, NoRows
<1>2. "users" \in Tables
  BY DEF Tables
<1>3. /\ IsDb(d)
      /\ d = EmptyDb \/ Inserted(EmptyDb, d, "users", [is_deleted |-> FALSE])
  BY <1>1, <1>2, InsertEffect
<1>4. /\ d.next \in {1, 2}
      /\ \A t \in Tables \ {"users"} : DOMAIN d[t] = {}
      /\ \A i \in DOMAIN d["users"] : d["users"][i] = [is_deleted |-> FALSE]
      /\ DOMAIN d.users # {} => d.next = 2
  BY <1>1, <1>2, <1>3 DEF Inserted
<1>5. Keyed(d)
  BY <1>4, ReferredTo DEF Keyed, Keys, KeysHold
<1>6. DOMAIN Rows \subseteq Tables \ {"users"} /\ TaskTables \subseteq Tables \ {"users"}
  BY DEF Rows, Tables, TaskTables
<1> QED
  BY <1>3, <1>4, <1>5, <1>6 DEF ChatSound

\* The account, its sessions and their task are sound tables.
LEMMA InitSound == StoreInit => CInv
<1> SUFFICES ASSUME StoreInit PROVE CInv
  OBVIOUS
<1> DEFINE users  == Insert(EmptyDb, "users", [is_deleted |-> FALSE]).db
           first  == insert_session(users, 1).db
           second == insert_session(first, 1).db
           st     == CHOOSE st \in TaskStates : TRUE
           full   == insert_task(second, 2, 1, st).db
<1>1. db = full /\ auto = None
  BY DEF StoreInit
<1>2. ChatSound(users) /\ users.next \in {1, 2}
  BY AccountMade
<1> HIDE DEF users
<1>3. ASSUME NEW d, ChatSound(d), NEW e, e = insert_session(d, 1).db
      PROVE  ChatSound(e) /\ e.next \in {d.next, d.next + 1}
  <2> DEFINE row == [user |-> 1, context_lock |-> FALSE]
  <2>1. "sessions" \in DOMAIN Rows /\ Fit(d, "sessions", row)
    BY DEF Fit, Rows, TaskTables, U2ASession, Id
  <2>2. e = Insert(d, "sessions", row).db
    BY <1>3 DEF insert_session
  <2> HIDE DEF row
  <2>3. Call(d, e, 1, row.session)
    BY <1>3, <2>1, <2>2, InsertIsCall
  <2> QED
    BY <2>3 DEF Call
<1>4. ChatSound(first) /\ first.next \in {1, 2, 3}
  <2>1. ChatSound(first) /\ first.next \in {users.next, users.next + 1}
    BY <1>2, <1>3
  <2> QED
    BY <1>2, <2>1
<1> HIDE DEF first
<1>5. ChatSound(second) /\ second.next \in {1, 2, 3, 4}
  <2>1. ChatSound(second) /\ second.next \in {first.next, first.next + 1}
    BY <1>3, <1>4
  <2> QED
    BY <1>4, <2>1
<1> HIDE DEF second
<1>6. ChatSound(full) /\ full.next \in {1, 2, 3, 4, 5}
  <2> DEFINE row == [session |-> 2, user |-> 1, status |-> st]
  <2>1. st \in TaskStatus
    BY StatesAreStatuses
  <2> HIDE DEF st
  <2>2. "tasks" \in DOMAIN Rows /\ Fit(second, "tasks", row)
    BY <2>1 DEF Fit, Rows, TaskTables, U2ASessionTask, Id
  <2>3. full = Insert(second, "tasks", row).db
    BY DEF insert_task
  <2> HIDE DEF row, full
  <2>4. Call(second, full, 1, row.session)
    BY <1>5, <2>2, <2>3, InsertIsCall
  <2>5. ChatSound(full) /\ full.next \in {second.next, second.next + 1}
    BY <2>4 DEF Call
  <2> QED
    BY <1>5, <2>5
<1> HIDE DEF full
<1> QED
  BY <1>1, <1>6, RoomForInit DEF CInv, AutoSound

\* The memories a function has numbered fit, if what they refer to is still there.
LEMMA NumberedFit ==
    ASSUME CInv, auto # None
    PROVE  AllFit(db, auto.table, auto.rows, auto.rows[1].session)
<1>1. /\ auto.table \in {"agentMems", "userMems"} /\ auto.rows \in Seq(Rows[auto.table])
      /\ \A k \in 1 .. Len(auto.rows) :
            OfItsTask(auto.rows[k]) /\ auto.rows[k].session = auto.rows[1].session
  BY DEF CInv, AutoSound
<1>2. DOMAIN auto.rows = 1 .. Len(auto.rows)
  BY <1>1, LenProperties
<1> SUFFICES ASSUME NEW k \in 1 .. Len(auto.rows), KeysHold(db, auto.rows[k])
             PROVE  Fit(db, auto.table, auto.rows[k])
  BY <1>1, <1>2 DEF AllFit
<1> DEFINE row == auto.rows[k]
<1>3. row \in Rows[auto.table] /\ OfItsTask(row) /\ KeysHold(db, row)
  BY <1>1, <1>2, ElementOfSeq
<1> HIDE DEF row
<1>4. "task" \in DOMAIN row
  <2>1. \A r \in Rows["agentMems"] \cup Rows["userMems"] : "task" \in DOMAIN r
    BY DEF Rows, AgentShortTermMemory, UserShortTermMemory
  <2>2. row \in Rows["agentMems"] \cup Rows["userMems"]
    BY <1>1, <1>3
  <2> QED
    BY <2>1, <2>2
<1>5. row.task = None \/ row.task \in DOMAIN db.tasks
  BY <1>3, <1>4, ReferredTo DEF KeysHold
<1>6. Linked(db, row)
  BY <1>3, <1>5 DEF Linked, OfItsTask
<1> QED
  BY <1>3, <1>6 DEF Fit, row

\* Every step is a call for one session.
LEMMA StepServed == ASSUME CInv, StoreNext PROVE Served
<1>1. ChatSound(db)
  BY DEF CInv
<1>2. CASE AutoIndex \/ UserIndex
  BY <1>1, <1>2, ServedNothing DEF AutoIndex, UserIndex, Numbered
<1>3. CASE AutoInsert
  <2> DEFINE n == Len(auto.rows)
             s == auto.rows[1].session
             C == {"user", "session", "seq_index", "task"}
  <2>1. /\ auto # None /\ Room(n) /\ n \in {1, 2} /\ n \in Nat
        /\ auto.rows \in Seq(Rows[auto.table]) /\ DOMAIN auto.rows = 1 .. n
    BY <1>3, LenProperties DEF AutoInsert, CInv, AutoSound
  <2>2. AllFit(db, auto.table, auto.rows, s)
    BY <2>1, NumberedFit
  <2>3. {"agentMems", "userMems"} \subseteq DOMAIN Rows
    BY DEF Rows
  <2>4. ASSUME auto.table \in {"agentMems", "userMems"},
               db' = Insert(db, auto.table, auto.rows[1]).db, Room(1)
        PROVE  Served
    <3>1. 1 \in DOMAIN auto.rows
      <4> HIDE DEF n
      <4> QED
        BY <2>1
    <3>2. KeysHold(db, auto.rows[1]) => Fit(db, auto.table, auto.rows[1])
      BY <2>2, <3>1 DEF AllFit
    <3> QED
      BY <1>1, <2>3, <2>4, <3>2, ServedInsert
  <2>5. CASE auto.table = "agentMems" /\ db' = create_agent_short_term_memory(db, auto.rows[1]).db
    <3>1. Room(1)
      <4> HIDE DEF n
      <4>1. db.next \in Nat /\ MaxId \in Nat
        BY <1>1, RoomForInit DEF ChatSound, IsDb, Id
      <4> QED
        BY <2>1, <4>1 DEF Room
    <3> QED
      BY <2>4, <2>5, <3>1 DEF create_agent_short_term_memory
  <2>6. CASE /\ auto.table = "userMems" /\ n = 1
             /\ db' = create_user_short_term_memory(db, auto.rows[1]).db
    BY <2>1, <2>4, <2>6 DEF create_user_short_term_memory
  <2>7. CASE /\ auto.table = "userMems"
             /\ db' = create_user_short_term_memories_from_list(db, auto.rows).db
    <3>1. IsList(auto.rows, n, C)
      <4>1. \A k \in 1 .. n : auto.rows[k] \in Rows["userMems"]
        BY <2>1, <2>7, ElementOfSeq
      <4>2. \A k \in 1 .. n : auto.rows[k] = [c \in C |-> auto.rows[k][c]]
        BY <4>1, TablesOfChat DEF Columned
      <4>3. auto.rows = [k \in 1 .. n |-> auto.rows[k]]
        BY <2>1
      <4> QED
        BY <4>2, <4>3 DEF IsList
    <3>2. db' = IF auto.rows = <<>> THEN db
                ELSE InsertColumns(db, "userMems", Columns(auto.rows)).db
      BY <2>7 DEF create_user_short_term_memories_from_list,
                  create_user_short_term_memories_batch, Returns
    <3>3. "session" \in C /\ AllFit(db, "userMems", auto.rows, s)
      BY <2>2, <2>7
    <3> HIDE DEF C, n, s
    <3> QED
      BY <1>1, <2>1, <2>3, <3>1, <3>2, <3>3, ServedRows
  <2> QED
    BY <1>3, <2>5, <2>6, <2>7 DEF AutoInsert
<1> QED
  BY <1>1, <1>2, <1>3, SessionCalls, TaskCalls, ConfigCalls, UserMsgCalls, AgentMsgCalls,
     UserMemCalls, AgentMemCalls DEF StoreNext

\* Once read, the memories stay as sound as they were, whatever calls come between.
LEMMA AutoStays == ASSUME CInv, Served, UNCHANGED auto PROVE AutoSound'
<1>1. PICK n \in Nat : \E s : Call(db, db', n, s)
  BY DEF Served
<1>2. TasksStay(db, db') /\ db'.next \in {db.next, db.next + n} /\ db.next \in Nat
  BY <1>1 DEF Call, CInv, ChatSound, IsDb, Id
<1>3. ASSUME NEW row, OfItsTask(row), row.task # None
      PROVE  /\ row.task \in Id /\ row.task < db'.next
             /\ row.task \in DOMAIN db'.tasks => db'.tasks[row.task].session = row.session
  <2>1. /\ row.task \in Id /\ row.task < db.next
        /\ row.task \in DOMAIN db.tasks => db.tasks[row.task].session = row.session
    BY <1>3 DEF OfItsTask
  <2>2. row.task \in Nat /\ row.task < db'.next /\ ~ (row.task >= db.next)
    BY <1>2, <2>1 DEF Id
  <2> QED
    BY <1>2, <2>1, <2>2 DEF TasksStay
<1>4. \A k \in 1 .. Len(auto.rows) : OfItsTask(auto.rows[k]) => OfItsTask(auto.rows[k])'
  BY <1>3 DEF OfItsTask
<1> QED
  BY <1>4 DEF CInv, AutoSound

\* The memories are sound when an index is read.
LEMMA NumberedSound ==
    ASSUME CInv, UNCHANGED db, NEW T \in {"agentMems", "userMems"}, NEW rows \in Seq(Rows[T]),
           Len(rows) \in {1, 2},
           \A k \in 1 .. Len(rows) : OfItsTask(rows[k]) /\ rows[k].session = rows[1].session,
           auto' = [table |-> T, rows |-> rows]
    PROVE  AutoSound'
<1>1. auto'.table = T /\ auto'.rows = rows
  OBVIOUS
<1>2. \A k \in 1 .. Len(rows) : OfItsTask(rows[k])'
  BY DEF OfItsTask
<1> QED
  BY <1>1, <1>2 DEF AutoSound, OfItsTask

\* A list of one row, and of one more.
LEMMA OneRow ==
    ASSUME NEW R, NEW row \in R
    PROVE  <<row>> \in Seq(R) /\ Len(<<row>>) = 1 /\ <<row>>[1] = row
OBVIOUS

LEMMA OneMoreRow ==
    ASSUME NEW R, NEW rows \in Seq(R), Len(rows) = 1, NEW row \in R,
           NEW both, both = Append(rows, row)
    PROVE  both \in Seq(R) /\ Len(both) = 2 /\ both[1] = rows[1] /\ both[2] = row
<1>1. /\ Append(rows, row) \in Seq(R)
      /\ Append(rows, row) # << >>
      /\ Len(Append(rows, row)) = Len(rows) + 1
      /\ \A i \in 1 .. Len(rows) : Append(rows, row)[i] = rows[i]
      /\ Append(rows, row)[Len(rows) + 1] = row
  BY AppendProperties
<1>2. /\ both \in Seq(R) /\ Len(both) = Len(rows) + 1
      /\ \A i \in 1 .. Len(rows) : both[i] = rows[i]
      /\ both[Len(rows) + 1] = row
  BY <1>1, Zenon
<1>3. 1 \in 1 .. Len(rows) /\ Len(rows) + 1 = 2
  OBVIOUS
<1> QED
  BY <1>2, <1>3, Zenon

LEMMA AutoIsRead == ASSUME CInv, AutoIndex PROVE AutoSound'
<1>1. PICK t \in DOMAIN db.tasks :
         LET s == db.tasks[t].session
         IN  Numbered("agentMems", <<AgentMem(s, t, get_next_sub_seq_index(db, s, t))>>)
  BY DEF AutoIndex
<1> DEFINE s   == db.tasks[t].session
           seq == get_next_sub_seq_index(db, s, t)
           row == AgentMem(s, t, seq)
<1>2. auto' = [table |-> "agentMems", rows |-> <<row>>] /\ UNCHANGED db
  BY <1>1 DEF Numbered
<1>3. ChatSound(db)
  BY DEF CInv
<1>4. seq \in Nat
  BY <1>3, NextIndexes DEF IndexAbove, get_next_sub_seq_index, Where
<1>5. t \in Id /\ t < db.next
  BY <1>3 DEF ChatSound, IsDb, Tables, Id
<1>6. db.tasks[t] \in U2ASessionTask /\ KeysHold(db, db.tasks[t])
  BY <1>3, TablesOfChat DEF ChatSound, Rows, Keyed, Tables
<1>7. s \in Id /\ Owner(s) \in Id
  <2>1. "session" \in DOMAIN db.tasks[t] /\ s \in Nat
    BY <1>6 DEF U2ASessionTask, Id
  <2>2. s \in DOMAIN db.sessions /\ s \in Id /\ db.sessions[s].user \in Id
    BY <1>3, <1>6, <2>1, ItsSession
  <2> QED
    BY <2>2 DEF Owner
<1> HIDE DEF s, seq
<1>8. row \in Rows["agentMems"] /\ row.task = t /\ row.session = s
  BY <1>4, <1>5, <1>7 DEF AgentMem, AgentShortTermMemory, Rows
<1> HIDE DEF row
<1>9. OfItsTask(row)
  BY <1>5, <1>8 DEF OfItsTask, s
<1> DEFINE rows == <<row>>
<1>10. rows \in Seq(Rows["agentMems"]) /\ Len(rows) = 1 /\ rows[1] = row
  BY <1>8, OneRow
<1>11. auto' = [table |-> "agentMems", rows |-> rows]
  BY <1>2
<1> HIDE DEF rows
<1> QED
  BY <1>2, <1>9, <1>10, <1>11, NumberedSound

LEMMA UserIsRead == ASSUME CInv, UserIndex PROVE AutoSound'
<1>0. ChatSound(db)
  BY DEF CInv
<1>1. ASSUME NEW s \in DOMAIN db.sessions, NEW t \in TasksOf(s),
             Numbered("userMems", <<UserMem(s, t, get_next_seq_index(db, s))>>)
      PROVE  AutoSound'
  <2> DEFINE seq == get_next_seq_index(db, s)
             row == UserMem(s, t, seq)
  <2>1. auto' = [table |-> "userMems", rows |-> <<row>>] /\ UNCHANGED db
    BY <1>1 DEF Numbered
  <2>2. seq \in Nat
    BY <1>0, NextIndexes DEF IndexAbove, get_next_seq_index, Where
  <2>3. s \in Id /\ Owner(s) \in Id
    <3>1. "sessions" \in Tables /\ db.sessions[s] \in U2ASession
      BY <1>0, TablesOfChat DEF ChatSound, Rows
    <3>2. DOMAIN db.sessions \subseteq 1 .. db.next - 1
      BY <1>0, <3>1 DEF ChatSound, IsDb
    <3> QED
      BY <3>1, <3>2 DEF Owner, U2ASession, Id
  <2>4. t # None => t \in DOMAIN db.tasks /\ db.tasks[t].session = s
    BY DEF TasksOf, Where
  <2>5. t # None => t \in Id /\ t < db.next
    BY <1>0, <2>4 DEF ChatSound, IsDb, Tables, Id
  <2> HIDE DEF seq
  <2>6. row \in Rows["userMems"] /\ row.task = t /\ row.session = s
    BY <2>2, <2>3, <2>5 DEF UserMem, UserShortTermMemory, Rows
  <2> HIDE DEF row
  <2>7. OfItsTask(row)
    BY <2>4, <2>5, <2>6 DEF OfItsTask
  <2> DEFINE rows == <<row>>
  <2>8. rows \in Seq(Rows["userMems"]) /\ Len(rows) = 1 /\ rows[1] = row
    BY <2>6, OneRow
  <2>9. auto' = [table |-> "userMems", rows |-> rows]
    BY <2>1
  <2> HIDE DEF rows
  <2> QED
    BY <2>1, <2>7, <2>8, <2>9, NumberedSound
<1>2. ASSUME auto # None, auto.table = "userMems", Len(auto.rows) = 1,
             NEW row, row = [auto.rows[1] EXCEPT !.seq_index =
                                get_next_seq_index(db, auto.rows[1].session)],
             Numbered("userMems", Append(auto.rows, row))
      PROVE  AutoSound'
  <2> DEFINE first == auto.rows[1]
             seq   == get_next_seq_index(db, first.session)
  <2>1. auto.rows \in Seq(UserShortTermMemory) /\ OfItsTask(first)
    BY <1>2 DEF CInv, AutoSound, Rows
  <2>2. first \in UserShortTermMemory
    BY <1>2, <2>1
  <2>3. seq \in Nat
    BY <1>0, NextIndexes DEF IndexAbove, get_next_seq_index, Where
  <2> HIDE DEF seq
  <2>4. row = [first EXCEPT !.seq_index = seq]
    BY <1>2 DEF seq
  <2>5. row \in UserShortTermMemory /\ row.task = first.task /\ row.session = first.session
    BY <2>2, <2>3, <2>4 DEF UserShortTermMemory
  <2>6. OfItsTask(row)
    BY <2>1, <2>5 DEF OfItsTask
  <2> DEFINE both == Append(auto.rows, row)
  <2>7. both \in Seq(UserShortTermMemory) /\ Len(both) = 2 /\ both[1] = first /\ both[2] = row
    BY <1>2, <2>1, <2>5, OneMoreRow
  <2>8. auto' = [table |-> "userMems", rows |-> both] /\ UNCHANGED db
    BY <1>2 DEF Numbered
  <2> HIDE DEF both, first
  <2>9. \A k \in 1 .. Len(both) : OfItsTask(both[k]) /\ both[k].session = both[1].session
    <3>1. \A k \in 1 .. 2 : k = 1 \/ k = 2
      OBVIOUS
    <3> QED
      BY <2>1, <2>5, <2>6, <2>7, <3>1
  <2>10. both \in Seq(Rows["userMems"])
    BY <2>7 DEF Rows
  <2> QED
    BY <2>7, <2>8, <2>9, <2>10, NumberedSound
<1> QED
  BY <1>1, <1>2 DEF UserIndex

\* Every step keeps the invariant.
LEMMA NextKeeps == CInv /\ [StoreNext]_storeVars => CInv'
<1> SUFFICES ASSUME CInv, [StoreNext]_storeVars PROVE CInv'
  OBVIOUS
<1>1. CASE UNCHANGED storeVars
  BY <1>1 DEF storeVars, CInv, AutoSound, OfItsTask
<1>2. CASE StoreNext
  <2>1. Served
    BY <1>2, StepServed
  <2>2. PICK n \in Nat : \E s : Call(db, db', n, s) /\ (n = 0 \/ Room(n))
    BY <2>1 DEF Served
  <2>3. ChatSound(db')
    BY <2>2 DEF Call
  <2>4. db'.next \in 1 .. MaxId + 1
    <3>1. db.next \in 1 .. MaxId + 1 /\ MaxId \in Nat
      BY RoomForInit DEF CInv
    <3>2. db'.next \in {db.next, db.next + n} /\ (n = 0 \/ db.next + n - 1 <= MaxId)
      BY <2>2 DEF Call, Room
    <3> QED
      BY <3>1, <3>2
  <2>5. AutoSound'
    <3>1. ChatSound(db)
      BY DEF CInv
    <3>2. CASE AutoIndex
      BY <3>2, AutoIsRead
    <3>3. CASE AutoInsert
      BY <3>3 DEF AutoInsert, AutoSound
    <3>5. CASE UserIndex
      BY <3>5, UserIsRead
    <3>4. CASE UNCHANGED auto
      BY <2>1, <3>4, AutoStays
    <3> QED
      BY <1>2, <3>1, <3>2, <3>3, <3>4, <3>5, SessionCalls, TaskCalls, ConfigCalls, UserMsgCalls,
         AgentMsgCalls, UserMemCalls, AgentMemCalls DEF StoreNext
  <2> QED
    BY <2>3, <2>4, <2>5 DEF CInv
<1> QED
  BY <1>1, <1>2

\* The invariant holds in every state.
LEMMA InvAlways == StoreSpec => []CInv
BY InitSound, NextKeeps, PTL DEF StoreSpec

-----------------------------------------------------------------------------
(* The theorems *)

\* Whatever is deleted in whatever order, every table keeps its types, no row refers to
\* a row that is gone, and a row and its task are of one session.
THEOREM RowsHaveParentsAlways == StoreSpec => []RowsHaveParents
<1>1. CInv => RowsHaveParents
  <2> SUFFICES ASSUME CInv PROVE RowsHaveParents
    OBVIOUS
  <2>1. ChatSound(db) /\ db.next \in 1 .. MaxId + 1
    BY DEF CInv
  <2>2. TypeOK
    BY <2>1 DEF TypeOK, ChatSound, IsDb
  <2> QED
    BY <2>1, <2>2 DEF RowsHaveParents, ChatSound, Keyed, Linked
<1> QED
  BY <1>1, InvAlways, PTL

\* A call of any function writes the rows of one session.
THEOREM CallsStayInSession == StoreSpec => OneSessionPerCall
<1> DEFINE Apart == \A s, r \in DOMAIN db.sessions :
                       s < r => \/ RowsOf(db', s) = RowsOf(db, s)
                                \/ RowsOf(db', r) = RowsOf(db, r)
<1>1. CInv /\ [StoreNext]_storeVars => [Apart]_storeVars
  <2> SUFFICES ASSUME CInv, StoreNext PROVE Apart
    OBVIOUS
  <2>0. \E n \in Nat : \E x : Call(db, db', n, x)
    BY StepServed DEF Served
  <2>1. PICK x : \E n \in Nat : Call(db, db', n, x)
    BY <2>0
  <2>2. \A r \in DOMAIN db.sessions \ {x} : RowsOf(db', r) = RowsOf(db, r)
    BY <2>1 DEF Call, Only
  <2>3. DOMAIN db.sessions \subseteq Nat
    BY DEF CInv, ChatSound, IsDb, Tables, Id
  <2>4. \A s, r \in DOMAIN db.sessions : s < r => s # r
    BY <2>3
  <2> QED
    BY <2>2, <2>4
<1>2. StoreSpec => [][Apart]_storeVars
  BY <1>1, InvAlways, PTL DEF StoreSpec
<1> QED
  BY <1>2 DEF OneSessionPerCall

-----------------------------------------------------------------------------
(* What the queries answer *)

\* ORDER BY seq_index DESC lists the rows of a session, none before one with a greater index.
LEMMA FallingLists ==
    ASSUME NEW S, IsFiniteSet(S), NEW key, \A x \in S : key[x] \in Nat,
           NEW m \in Sorted(S, key), NEW l, l = Falling(m)
    PROVE  Lists(l, S, Cardinality(S)) /\ Falls(l, Cardinality(S), key)
<1> DEFINE n == Cardinality(S)
<1>1. Lists(m, S, n) /\ \A i, j \in DOMAIN m : i < j => key[m[i]] <= key[m[j]]
  BY SeqsAreLists DEF Sorted
<1> HIDE DEF n
<1>2. /\ n \in Nat /\ DOMAIN m = 1 .. n /\ Len(m) = n
      /\ \A k \in 1 .. n : m[k] \in S
      /\ \A x \in S : \E k \in 1 .. n : m[k] = x
      /\ \A i, j \in 1 .. n : i # j => m[i] # m[j]
  BY <1>1 DEF Lists
<1>3. l = [k \in 1 .. n |-> m[n + 1 - k]]
  BY <1>2 DEF Falling
<1>4. \A k \in 1 .. n : n + 1 - k \in 1 .. n /\ n + 1 - (n + 1 - k) = k
  BY <1>2
<1>5. /\ \A k \in 1 .. n : l[k] = m[n + 1 - k] /\ m[k] = l[n + 1 - k]
      /\ DOMAIN l = 1 .. n
  BY <1>3, <1>4
<1>6. Len(l) = n
  <2>1. l \in [1 .. n -> S]
    BY <1>2, <1>3, <1>4
  <2>2. l \in Seq(S)
    BY <1>2, <2>1, IsASeq
  <2>3. DOMAIN l = 1 .. Len(l) /\ Len(l) \in Nat
    BY <2>2, LenProperties
  <2> QED
    BY <1>2, <1>5, <2>3
<1>7. \A x \in S : \E k \in 1 .. n : l[k] = x
  <2> SUFFICES ASSUME NEW x \in S PROVE \E k \in 1 .. n : l[k] = x
    OBVIOUS
  <2>1. PICK k \in 1 .. n : m[k] = x
    BY <1>2
  <2> QED
    BY <1>4, <1>5, <2>1
<1>8. \A i, j \in 1 .. n : i # j => l[i] # l[j]
  <2> SUFFICES ASSUME NEW i \in 1 .. n, NEW j \in 1 .. n, i # j PROVE l[i] # l[j]
    OBVIOUS
  <2>1. n + 1 - i # n + 1 - j
    BY <1>2
  <2> QED
    BY <1>2, <1>4, <1>5, <2>1
<1>9. Lists(l, S, n)
  BY <1>2, <1>4, <1>5, <1>6, <1>7, <1>8 DEF Lists
<1>10. Falls(l, n, key)
  <2> SUFFICES ASSUME NEW i \in 1 .. n, NEW j \in 1 .. n, i < j
               PROVE  key[l[j]] <= key[l[i]]
    BY DEF Falls
  <2>1. n + 1 - j \in DOMAIN m /\ n + 1 - i \in DOMAIN m /\ n + 1 - j < n + 1 - i
    BY <1>2, <1>4
  <2>2. key[m[n + 1 - j]] <= key[m[n + 1 - i]]
    BY <1>1, <2>1
  <2> QED
    BY <1>5, <2>2
<1> QED
  BY <1>9, <1>10 DEF n

\* The rows of a session or with a status, asked for with a value that is there.
LEMMA Found ==
    ASSUME NEW d, NEW t, NEW c, NEW v, v # None
    PROVE  Where(d, t, c, v) = {i \in DOMAIN d[t] : d[t][i][c] = v}
BY DEF Where

\* A session is there just if its owner has it in the list.
LEMMA SessionQueries ==
    ASSUME CInv, NEW s \in Ids
    PROVE  session_exists(db, s) <=> \E u \in Users : s \in get_sessions_by_user_id(db, u)
<1>1. ChatSound(db)
  BY DEF CInv
<1>2. ASSUME s \in DOMAIN db.sessions
      PROVE  /\ db.sessions[s].user \in DOMAIN db.users
             /\ s \in get_sessions_by_user_id(db, db.sessions[s].user)
  <2>1. db.sessions[s] \in U2ASession /\ KeysHold(db, db.sessions[s])
    BY <1>1, <1>2, TablesOfChat DEF ChatSound, Rows, Keyed, Tables
  <2>2. "user" \in DOMAIN db.sessions[s] /\ db.sessions[s].user \in Nat
    BY <2>1 DEF U2ASession, Id
  <2>3. db.sessions[s].user # None
    BY <2>2, NoneAndFailure
  <2>4. db.sessions[s].user \in DOMAIN db.users
    BY <2>1, <2>2, <2>3, ReferredTo DEF KeysHold
  <2> QED
    BY <1>2, <2>3, <2>4 DEF get_sessions_by_user_id, Where
<1> QED
  BY <1>2 DEF session_exists, get_sessions_by_user_id, Where, Users

\* The queries for tasks agree on their statuses.
LEMMA TaskQueries ==
    ASSUME CInv, NEW s \in Ids, NEW st \in TaskStates
    PROVE  /\ check_session_has_task_with_status(db, s, st)
                 <=> get_tasks_by_session_and_status(db, s, st) # {}
           /\ \A l \in get_tasks_by_session(db, s) :
                 {l[k] : k \in DOMAIN l} \cap {i \in Ids : get_task(db, i) # None
                                                 /\ db.tasks[i].status = st}
                    = get_tasks_by_session_and_status(db, s, st)
<1> DEFINE W == Where(db, "tasks", "session", s)
           A == get_tasks_by_session_and_status(db, s, st)
<1>1. s # None /\ st # None
  BY NoneAndFailure, NullIsNoStatus, StatesAreStatuses DEF Ids
<1>2. W = {i \in DOMAIN db.tasks : db.tasks[i].session = s}
  BY <1>1, Found
<1>3. A = {i \in W : db.tasks[i].status = st}
  BY <1>1, <1>2, Found DEF get_tasks_by_session_and_status
<1>4. check_session_has_task_with_status(db, s, st) <=> A # {}
  BY <1>2, <1>3 DEF check_session_has_task_with_status
<1>5. ASSUME NEW i \in W PROVE i \in Ids /\ get_task(db, i) # None
  <2>1. ChatSound(db) /\ db.next \in 1 .. MaxId + 1 /\ MaxId \in Nat
    BY RoomForInit DEF CInv
  <2>2. i \in DOMAIN db.tasks /\ DOMAIN db.tasks \subseteq 1 .. db.next - 1
    BY <1>2, <2>1 DEF ChatSound, IsDb, Tables
  <2>3. i \in Ids
    BY <2>1, <2>2 DEF Ids
  <2>4. db.tasks[i] \in U2ASessionTask
    BY <2>1, <2>2, TablesOfChat DEF ChatSound, Rows
  <2> QED
    BY <2>2, <2>3, <2>4, NullIsNoRow DEF get_task, Row
<1>6. IsFiniteSet(W)
  BY <1>2, FewRows DEF CInv, ChatSound, Tables
<1> HIDE DEF W, A
<1>7. ASSUME NEW l \in get_tasks_by_session(db, s) PROVE {l[k] : k \in DOMAIN l} = W
  <2>1. l \in SetToSeqs(W)
    BY <1>7 DEF get_tasks_by_session, ByAge, Sorted, W
  <2>2. Lists(l, W, Cardinality(W))
    BY <1>6, <2>1, SeqsAreLists
  <2> QED
    BY <2>2 DEF Lists
<1>8. \A l \in get_tasks_by_session(db, s) :
         {l[k] : k \in DOMAIN l} \cap {i \in Ids : get_task(db, i) # None
                                         /\ db.tasks[i].status = st} = A
  <2>1. W \cap {i \in Ids : get_task(db, i) # None /\ db.tasks[i].status = st} = A
    BY <1>3, <1>5
  <2> QED
    BY <1>7, <2>1
<1> QED
  BY <1>4, <1>8 DEF A

\* The list of messages, its pages and the next index agree.
LEMMA MessageQueries ==
    ASSUME CInv, NEW s \in Ids, NEW l \in get_user_messages_by_session(db, s)
    PROVE  /\ \A n \in 1 .. 2 : \E P \in get_user_messages_by_session_with_limit(db, s, n) :
                 P = {l[k] : k \in DOMAIN l \cap 1 .. n}
           /\ \A k \in DOMAIN l : \A n \in 1 .. 2 :
                 \A P \in get_user_messages_by_session_with_limit_and_seq_index(
                              db, s, n, db.userMsgs[l[k]].seq_index) :
                    P \subseteq {l[j] : j \in k + 1 .. Len(l)}
           /\ \A k \in DOMAIN l :
                 db.userMsgs[l[k]].seq_index < get_next_user_message_seq_index(db, s)
<1> DEFINE W   == Where(db, "userMsgs", "session", s)
           key == Column(db, "userMsgs", "seq_index")
<1>1. ChatSound(db) /\ W \in SUBSET DOMAIN db.userMsgs
  BY DEF CInv, Where
<1>2. IsFiniteSet(W)
  BY <1>1, FewRows DEF ChatSound, Tables
<1>3. \A i \in W : /\ key[i] = db.userMsgs[i].seq_index /\ key[i] \in Nat
                   /\ key[i] < get_next_user_message_seq_index(db, s)
  <2>1. IndexAbove(db, "userMsgs", "seq_index")
    BY <1>1, NextIndexes
  <2>2. \A i \in W : key[i] = db.userMsgs[i].seq_index
    BY <1>1 DEF Column
  <2>3. \A i \in W : /\ db["userMsgs"][i]["seq_index"] \in Nat
                     /\ db["userMsgs"][i]["seq_index"] < NextIndex(db, "userMsgs", "seq_index", W)
    BY <1>1, <2>1 DEF IndexAbove
  <2> QED
    BY <2>2, <2>3 DEF get_next_user_message_seq_index
<1>4. PICK m \in Sorted(W, key) : l = Falling(m)
  BY DEF get_user_messages_by_session
<1> DEFINE N == Cardinality(W)
<1>5. \A n : /\ get_user_messages_by_session_with_limit(db, s, n) = Pages(W, key, n)
             /\ \A x : get_user_messages_by_session_with_limit_and_seq_index(db, s, n, x)
                          = Pages({i \in W : db.userMsgs[i].seq_index < x}, key, n)
  BY DEF get_user_messages_by_session_with_limit,
         get_user_messages_by_session_with_limit_and_seq_index
<1> HIDE DEF W, key
<1>6. Lists(l, W, N) /\ Falls(l, N, key)
  BY <1>2, <1>3, <1>4, FallingLists
<1> HIDE DEF N
<1>7. DOMAIN l = 1 .. N /\ Len(l) = N /\ \A k \in 1 .. N : l[k] \in W
  BY <1>6 DEF Lists
<1>8. \A n \in 1 .. 2 : {l[k] : k \in DOMAIN l \cap 1 .. n}
                           \in get_user_messages_by_session_with_limit(db, s, n)
  <2> SUFFICES ASSUME NEW n \in Nat
               PROVE  {l[k] : k \in DOMAIN l \cap 1 .. n} \in Pages(W, key, n)
    BY <1>5
  <2> QED
    BY <1>6, FirstPage
<1>9. ASSUME NEW k \in DOMAIN l, NEW n,
             NEW P \in get_user_messages_by_session_with_limit_and_seq_index(
                           db, s, n, db.userMsgs[l[k]].seq_index)
      PROVE  P \subseteq {l[j] : j \in k + 1 .. Len(l)}
  <2>1. P \in Pages({i \in W : db.userMsgs[i].seq_index < db.userMsgs[l[k]].seq_index}, key, n)
    BY <1>5, <1>9
  <2>2. {i \in W : db.userMsgs[i].seq_index < db.userMsgs[l[k]].seq_index}
           = {i \in W : key[i] < key[l[k]]}
    BY <1>3, <1>7
  <2>3. P \in Pages({i \in W : key[i] < key[l[k]]}, key, n)
    BY <2>1, <2>2
  <2>4. P \subseteq {l[j] : j \in k + 1 .. N}
    BY <1>3, <1>6, <1>7, <2>3, OlderPage
  <2> QED
    BY <1>7, <2>4
<1>10. \A k \in DOMAIN l :
          db.userMsgs[l[k]].seq_index < get_next_user_message_seq_index(db, s)
  BY <1>3, <1>7
<1> QED
  BY <1>8, <1>9, <1>10

\* Listings by session, status, owner or page answer what row by row queries answer, and
\* a next index is above every index it counts.
THEOREM QueriesAgreeAlways == StoreSpec => []QueriesAgree
<1>1. CInv => QueriesAgree
  <2> SUFFICES ASSUME CInv, NEW s \in Ids
               PROVE  /\ \A i \in Where(db, "userMems", "session", s) :
                            db.userMems[i].seq_index < get_next_seq_index(db, s)
                      /\ \A i \in Where(db, "agentMsgs", "task", s) :
                            db.agentMsgs[i].sub_seq_index
                               < get_next_agent_message_sub_seq_index(db, s)
    BY SessionQueries, TaskQueries, MessageQueries DEF QueriesAgree
  <2>1. ChatSound(db)
    BY DEF CInv
  <2> QED
    BY <2>1, NextIndexes DEF IndexAbove, get_next_seq_index,
                             get_next_agent_message_sub_seq_index, Where
<1> QED
  BY <1>1, InvAlways, PTL

-----------------------------------------------------------------------------
(* Lists and indexes the reader and the senders go by *)

\* A sorted list lists its set, no member after one with a higher key.
LEMMA SortedLists ==
    ASSUME NEW S, IsFiniteSet(S), NEW key, NEW l \in Sorted(S, key)
    PROVE  /\ Lists(l, S, Cardinality(S))
           /\ \A i, j \in DOMAIN l : i < j => key[l[i]] <= key[l[j]]
<1>1. l \in SetToSeqs(S) /\ \A i, j \in DOMAIN l : i < j => key[l[i]] <= key[l[j]]
  BY DEF Sorted
<1> QED
  BY <1>1, SeqsAreLists

\* COALESCE(MAX(c), -1) + 1 is 0, or comes right after an index that is there.
LEMMA NextIndexFollows ==
    ASSUME NEW d, IsDb(d), NEW t \in Tables, NEW c, NEW S \in SUBSET DOMAIN d[t],
           \A i \in S : d[t][i][c] \in Nat
    PROVE  NextIndex(d, t, c, S) = 0 \/ \E i \in S : NextIndex(d, t, c, S) = d[t][i][c] + 1
<1>1. CASE S = {}
  BY <1>1 DEF NextIndex
<1>2. CASE S # {}
  <2> DEFINE key == [i \in S |-> d[t][i][c]]
             above == {d[t][i][c] + 1 : i \in S}
             m == CHOOSE m \in above : \A i \in S : d[t][i][c] < m
  <2>1. \E n \in S : \A k \in S : key[k] <= key[n]
    <3>1. IsFiniteSet(S) /\ \A i \in S : key[i] \in Nat
      BY FewRows
    <3> HIDE DEF key
    <3> QED
      BY <1>2, <3>1, SomeGreatest
  <2>2. PICK n \in S : \A k \in S : d[t][k][c] <= d[t][n][c]
    BY <2>1
  <2>3. d[t][n][c] + 1 \in above /\ \A i \in S : d[t][i][c] < d[t][n][c] + 1
    BY <2>2
  <2>4. m \in above
    BY <2>3
  <2>5. NextIndex(d, t, c, S) = m
    BY <1>2 DEF NextIndex
  <2> HIDE DEF m
  <2> QED
    BY <2>4, <2>5
<1> QED
  BY <1>1, <1>2

\* Of finitely many rows one has the least key.
LEMMA SomeLeast ==
    ASSUME NEW S, IsFiniteSet(S), S # {}, NEW key, \A x \in S : key[x] \in Nat
    PROVE  \E n \in S : \A k \in S : key[n] <= key[k]
<1>1. PICK g \in S : \A k \in S : key[k] <= key[g]
  BY SomeGreatest
<1> DEFINE below == [x \in S |-> key[g] - key[x]]
<1>2. \A x \in S : below[x] \in Nat /\ below[x] = key[g] - key[x]
  BY <1>1
<1> HIDE DEF below
<1>3. PICK n \in S : \A k \in S : below[k] <= below[n]
  BY <1>2, SomeGreatest
<1> QED
  BY <1>2, <1>3

-----------------------------------------------------------------------------
(* The tables ChatHistory writes *)

\* The tables are as they should be, and no session is there but the one.
OneSession(d) == ChatSound(d) /\ DOMAIN d.sessions \subseteq {Session}

\* From d to e rows of t are written, and of no other table.
OnlyTable(d, e, t) == \A s \in Tables \ {t} : e[s] = d[s]

\* What the rows hold, and their ids.
LEMMA ChatRows ==
    ASSUME NEW d, ChatSound(d)
    PROVE  /\ d.next \in Id
           /\ \A i \in DOMAIN d.userMsgs : i \in Id /\ i < d.next /\ d.userMsgs[i] \in U2AUserMessage
           /\ \A t \in DOMAIN d.tasks : t \in Id /\ t < d.next /\ d.tasks[t] \in U2ASessionTask
           /\ \A i \in DOMAIN d.agentMsgs : i \in Id /\ d.agentMsgs[i] \in U2AAgentMessage
<1>1. /\ \A i \in DOMAIN d.userMsgs : d.userMsgs[i] \in U2AUserMessage
      /\ \A t \in DOMAIN d.tasks : d.tasks[t] \in U2ASessionTask
      /\ \A i \in DOMAIN d.agentMsgs : d.agentMsgs[i] \in U2AAgentMessage
  BY DEF ChatSound, Rows
<1>2. d.next \in Id /\ \A t \in Tables : DOMAIN d[t] \subseteq 1 .. d.next - 1
  BY DEF ChatSound, IsDb
<1>3. {"userMsgs", "tasks", "agentMsgs"} \subseteq Tables
  BY DEF Tables
<1>4. \A t \in {"userMsgs", "tasks", "agentMsgs"} : \A i \in DOMAIN d[t] : i \in Id /\ i < d.next
  BY <1>2, <1>3 DEF Id
<1> QED
  BY <1>1, <1>2, <1>4

\* A row of a session is of the one that is there.
LEMMA RowsOfOne ==
    ASSUME NEW d, OneSession(d), NEW t \in SessionTables, NEW i \in DOMAIN d[t]
    PROVE  d[t][i].session = Session /\ Session \in DOMAIN d.sessions
<1>1. t \in DOMAIN Rows /\ t \in Tables
  BY TablesOfChat
<1>2. d[t][i] \in Rows[t]
  BY <1>1 DEF OneSession, ChatSound
<1>3. "session" \in DOMAIN d[t][i] /\ d[t][i].session \in Id
  BY <1>1, <1>2, RowKeys
<1>4. KeysHold(d, d[t][i])
  BY <1>1 DEF OneSession, ChatSound, Keyed
<1>5. d[t][i].session # None
  BY <1>3, NoneAndFailure DEF Id
<1>6. d[t][i].session \in DOMAIN d.sessions
  BY <1>3, <1>4, <1>5, ReferredTo DEF KeysHold
<1> QED
  BY <1>6 DEF OneSession

\* What Over gives an entry.
LEMMA OverEntry ==
    ASSUME NEW f, NEW g, NEW x \in DOMAIN f \cup DOMAIN g
    PROVE  Over(f, g)[x] = IF x \in DOMAIN f THEN f[x] ELSE g[x]
BY DEF Over

-----------------------------------------------------------------------------
(* The statements ChatHistory runs *)

Sent(q) == [user |-> User, session |-> Session, seq_index |-> q,
            status |-> "waiting_agent_ack_user", task |-> None]

\* send_message adds a message that waits, or fails.
LEMMA MessageSent ==
    ASSUME NEW d, OneSession(d), NEW q \in Nat,
           NEW e, e = insert_user_message(d, User, Session, q, "waiting_agent_ack_user", None).db
    PROVE  /\ OneSession(e) /\ OnlyTable(d, e, "userMsgs")
           /\ e = d \/ Inserted(d, e, "userMsgs", Sent(q))
<1>1. "userMsgs" \in DOMAIN Rows /\ "userMsgs" \in Tables
  BY TablesOfChat DEF SessionTables
<1>2. Fit(d, "userMsgs", Sent(q))
  BY DEF Fit, Sent, Rows, U2AUserMessage, Linked, User, Session, Id, UserMsgStatus
<1>3. e = Insert(d, "userMsgs", Sent(q)).db
  BY DEF insert_user_message, Sent
<1>4. IsDb(d) /\ ChatSound(d)
  BY DEF OneSession, ChatSound
<1>5. ChatSound(e)
  BY <1>1, <1>2, <1>3, <1>4, InsertIsCall DEF Call
<1>6. e = d \/ Inserted(d, e, "userMsgs", Sent(q))
  BY <1>1, <1>3, <1>4, InsertEffect
<1>7. OnlyTable(d, e, "userMsgs")
  BY <1>6 DEF OnlyTable, Inserted
<1>8. e.sessions = d.sessions
  BY <1>7 DEF OnlyTable, Tables
<1> QED
  BY <1>5, <1>6, <1>7, <1>8 DEF OneSession

Started == [session |-> Session, user |-> User, status |-> "processing"]

\* A task's record is created, or the session is gone.
LEMMA TaskCreated ==
    ASSUME NEW d, OneSession(d), NEW r, r = create_session_task_record(d), NEW e, e = r.db
    PROVE  /\ OneSession(e) /\ OnlyTable(d, e, "tasks")
           /\ \/ r.ret = Failure /\ e = d
              \/ r.ret = d.next /\ Inserted(d, e, "tasks", Started)
<1>1. "tasks" \in DOMAIN Rows /\ "tasks" \in Tables
  BY TablesOfChat DEF SessionTables
<1>2. Fit(d, "tasks", Started)
  BY DEF Fit, Started, Rows, U2ASessionTask, TaskTables, User, Session, Id, TaskStatus
<1>3. r = Insert(d, "tasks", Started)
  BY DEF create_session_task_record, insert_task, Started
<1>4. IsDb(d) /\ ChatSound(d) /\ d.next \in Id
  BY ChatRows DEF OneSession, ChatSound
<1>5. ChatSound(e)
  BY <1>1, <1>2, <1>3, <1>4, InsertIsCall DEF Call
<1>6. e = d \/ Inserted(d, e, "tasks", Started)
  BY <1>1, <1>3, <1>4, InsertEffect
<1>7. OnlyTable(d, e, "tasks")
  BY <1>6 DEF OnlyTable, Inserted
<1>8. e.sessions = d.sessions
  BY <1>7 DEF OnlyTable, Tables
<1>9. \/ r.ret = Failure /\ e = d
      \/ r.ret = d.next /\ e # d
  <2> DEFINE rows == <<Started>>
             all == InsertAll(d, "tasks", rows)
  <2>1. Len(rows) = 1 /\ DOMAIN rows = {1} /\ rows[1] = Started
    OBVIOUS
  <2> HIDE DEF rows
  <2>2. CASE KeysHold(d, Started)
    <3>1. all.ret = [k \in DOMAIN rows |-> d.next + k - 1]
      BY <2>1, <2>2 DEF InsertAll, Returns
    <3>2. all.ret[1] = d.next
      BY <1>4, <2>1, <3>1 DEF Id
    <3>3. DOMAIN all.ret = {1}
      BY <2>1, <3>1
    <3>4. all.ret \in Seq(Nat)
      <4>1. \A k \in 1 .. 1 : d.next + k - 1 \in Nat
        BY <1>4 DEF Id
      <4>2. [k \in 1 .. 1 |-> d.next + k - 1] \in Seq(Nat)
        BY <4>1, IsASeq
      <4>3. DOMAIN rows = 1 .. 1
        BY <2>1
      <4>4. all.ret = [k \in 1 .. 1 |-> d.next + k - 1]
        BY <3>1, <4>3
      <4> HIDE DEF all
      <4> QED
        BY <4>2, <4>4
    <3>5. r.ret = d.next
      BY <1>3, <3>2, <3>4, FailureIsNoList DEF Insert, rows, Returns
    <3>6. e.next = d.next + 1
      <4>1. all.db = [d EXCEPT !["tasks"] = Over([i \in d.next .. d.next + Len(rows) - 1
                                                    |-> rows[i - d.next + 1]], @),
                               !.next = @ + Len(rows)]
        BY <2>1, <2>2 DEF InsertAll, Returns
      <4>2. "next" \in DOMAIN d
        BY <1>4 DEF IsDb
      <4>3. all.db.next = d.next + 1
        BY <2>1, <4>1, <4>2
      <4> QED
        BY <1>3, <3>4, <4>3, FailureIsNoList DEF Insert, rows, Returns
    <3> QED
      BY <1>4, <3>5, <3>6 DEF Id
  <2>3. CASE ~KeysHold(d, Started)
    <3>1. all.ret = Failure /\ all.db = d
      BY <2>1, <2>3 DEF InsertAll, Raises, Returns
    <3>2. r = all
      BY <1>3, <3>1 DEF Insert, rows
    <3> QED
      BY <3>1, <3>2
  <2> QED
    BY <2>2, <2>3
<1> QED
  BY <1>5, <1>6, <1>7, <1>8, <1>9 DEF OneSession

\* From d to e the messages with these ids are linked to a task.
MsgsLinked(d, e, ids, k) ==
    /\ DOMAIN e.userMsgs = DOMAIN d.userMsgs
    /\ \A i \in DOMAIN d.userMsgs :
          /\ e.userMsgs[i].seq_index = d.userMsgs[i].seq_index
          /\ e.userMsgs[i].status = d.userMsgs[i].status
          /\ e.userMsgs[i].task = IF i \in ids THEN k ELSE d.userMsgs[i].task

\* The messages are linked to the task, unless it is gone.
LEMMA MessagesLinked ==
    ASSUME NEW d, OneSession(d), NEW ids, NEW k \in Id,
           NEW r, r = update_user_message_session_task_by_ids(d, ids, k), NEW e, e = r.db
    PROVE  /\ OneSession(e) /\ OnlyTable(d, e, "userMsgs")
           /\ k \in DOMAIN d.tasks => r.ret # Failure /\ MsgsLinked(d, e, ids, k)
<1> DEFINE fields == [task |-> k]
           t == "userMsgs"
<1>1. t \in DOMAIN Rows /\ t \in Tables /\ t \in TaskTables /\ "tasks" \in SessionTables
      /\ t \in SessionTables
  BY TablesOfChat DEF SessionTables, TaskTables
<1>2. IsDb(d) /\ ChatSound(d) /\ r = Change(d, t, ids, fields) /\ e = Change(d, t, ids, fields).db
  BY DEF OneSession, ChatSound, update_user_message_session_task_by_ids
<1>3. DOMAIN fields = {"task"} /\ DOMAIN fields \cap DOMAIN Refers \subseteq Keys[t]
      /\ fields["task"] = k /\ k # None
  BY NoneAndFailure DEF Keys, ChatKeys, Id
<1> HIDE DEF fields
<1>4. KeysHold(d, fields) <=> k \in DOMAIN d.tasks
  BY <1>3, ReferredTo DEF KeysHold
<1>5. ASSUME NEW i \in ids \cap DOMAIN d[t], KeysHold(d, fields)
      PROVE  FitFields(d, t, i, Session, fields)
  <2>1. d.tasks[k].session = Session /\ d[t][i].session = Session
    BY <1>1, <1>4, <1>5, RowsOfOne
  <2> QED
    BY <1>1, <1>2, <2>1, TaskFits DEF fields
<1>6. ChatSound(e)
  <2>1. \A i \in ids \cap DOMAIN d[t] : KeysHold(d, fields) => FitFields(d, t, i, Session, fields)
    BY <1>5
  <2> HIDE DEF t
  <2>2. Call(d, e, 0, Session)
    BY <1>1, <1>2, <1>3, <2>1, ChangeIsCall
  <2> QED
    BY <2>2 DEF Call
<1>7. /\ e = d \/ Changed(d, e, t, ids, fields)
      /\ KeysHold(d, fields) => Changed(d, e, t, ids, fields)
  BY <1>1, <1>2, ChangeEffect
<1>8. OnlyTable(d, e, t)
  BY <1>7 DEF OnlyTable, Changed
<1>9. e.sessions = d.sessions
  BY <1>8 DEF OnlyTable, Tables
<1>10. ASSUME k \in DOMAIN d.tasks PROVE r.ret # Failure /\ MsgsLinked(d, e, ids, k)
  <2>1. Changed(d, e, t, ids, fields)
    BY <1>4, <1>7, <1>10
  <2>2. ASSUME NEW i \in DOMAIN d.userMsgs
        PROVE  /\ Over(fields, d.userMsgs[i]).seq_index = d.userMsgs[i].seq_index
               /\ Over(fields, d.userMsgs[i]).status = d.userMsgs[i].status
               /\ Over(fields, d.userMsgs[i]).task = k
    <3>1. DOMAIN d.userMsgs[i] = {"user", "session", "seq_index", "status", "task"}
      BY <1>2, ChatRows DEF U2AUserMessage
    <3> QED
      BY <1>3, <3>1, OverEntry
  <2>3. MsgsLinked(d, e, ids, k)
    BY <2>1, <2>2 DEF MsgsLinked, Changed
  <2>4. r.ret = Cardinality(ids \cap DOMAIN d[t])
    BY <1>2, <1>4, <1>10 DEF Change, Returns
  <2>5. IsFiniteSet(ids \cap DOMAIN d[t])
    BY <1>1, <1>2, FewRows
  <2> QED
    BY <2>3, <2>4, <2>5, FS_CardinalityType, NoneAndFailure
<1> QED
  BY <1>6, <1>8, <1>9, <1>10 DEF OneSession

\* From d to e the rows of t with these ids have the status.
Marked(d, e, t, ids, st) ==
    /\ DOMAIN e[t] = DOMAIN d[t]
    /\ \A i \in DOMAIN d[t] :
          /\ e[t][i].status = IF i \in ids THEN st ELSE d[t][i].status
          /\ t = "userMsgs" => /\ e[t][i].seq_index = d[t][i].seq_index
                               /\ e[t][i].task = d[t][i].task

\* A status is written.
LEMMA StatusWritten ==
    ASSUME NEW d, OneSession(d), NEW t \in {"userMsgs", "tasks"}, NEW ids,
           NEW st, st \in IF t = "tasks" THEN TaskStatus ELSE UserMsgStatus,
           NEW e, e = Change(d, t, ids, [status |-> st]).db
    PROVE  OneSession(e) /\ OnlyTable(d, e, t) /\ Marked(d, e, t, ids, st)
<1> DEFINE fields == [status |-> st]
<1>1. t \in DOMAIN Rows /\ t \in Tables /\ t \in SessionTables /\ t \in DOMAIN Values
  BY TablesOfChat DEF SessionTables, Values
<1>2. IsDb(d) /\ ChatSound(d)
  BY DEF OneSession, ChatSound
<1>3. DOMAIN fields = {"status"} /\ fields["status"] = st /\ fields \in Values[t]
  <2>1. fields \in Values[t]
    <3>1. CASE t = "tasks"
      BY <3>1 DEF Values
    <3>2. CASE t = "userMsgs"
      BY <3>2 DEF Values
    <3> QED
      BY <3>1, <3>2
  <2> QED
    BY <2>1
<1>4. e = Change(d, t, ids, fields).db
  OBVIOUS
<1> HIDE DEF fields
<1>5. DOMAIN fields \cap DOMAIN Refers = {}
  BY <1>1, <1>3, ValueKeys
<1>6. \A i \in ids \cap DOMAIN d[t] : FitFields(d, t, i, Session, fields)
  <2> SUFFICES ASSUME NEW i \in DOMAIN d[t] PROVE FitFields(d, t, i, Session, fields)
    OBVIOUS
  <2>1. d[t][i].session = Session
    BY <1>1, RowsOfOne
  <2> QED
    BY <1>1, <1>2, <1>3, <2>1, ValueFits
<1>7. ChatSound(e)
  BY <1>1, <1>2, <1>4, <1>5, <1>6, ChangeIsCall DEF Call
<1>8. Changed(d, e, t, ids, fields)
  <2>1. KeysHold(d, fields)
    BY <1>5 DEF KeysHold
  <2> QED
    BY <1>1, <1>2, <1>4, <2>1, ChangeEffect
<1>9. OnlyTable(d, e, t)
  BY <1>8 DEF OnlyTable, Changed
<1>10. e.sessions = d.sessions
  BY <1>9 DEF OnlyTable, Tables
<1>11. ASSUME NEW i \in DOMAIN d[t]
       PROVE  /\ Over(fields, d[t][i]).status = st
              /\ t = "userMsgs" => /\ Over(fields, d[t][i]).seq_index = d[t][i].seq_index
                                   /\ Over(fields, d[t][i]).task = d[t][i].task
  <2>1. t = "userMsgs" => DOMAIN d[t][i] = {"user", "session", "seq_index", "status", "task"}
    BY <1>2, ChatRows DEF U2AUserMessage
  <2> QED
    BY <1>3, <2>1, OverEntry
<1>12. Marked(d, e, t, ids, st)
  BY <1>8, <1>11 DEF Marked, Changed
<1> QED
  BY <1>7, <1>9, <1>10, <1>12 DEF OneSession

\* The agent messages of no task but t are those d has, or fewer.
OthersAnswers(d, e, t) ==
    \A u \in Id : u # t => Where(e, "agentMsgs", "task", u) \subseteq Where(d, "agentMsgs", "task", u)

\* A task's agent messages are inserted, all or none.
LEMMA AnswersInserted ==
    ASSUME NEW d, OneSession(d), NEW t \in Id, NEW n \in Nat,
           NEW e, e = insert_agent_messages_from_list(d, Answer(t, n)).db
    PROVE  OneSession(e) /\ OnlyTable(d, e, "agentMsgs") /\ OthersAnswers(d, e, t)
<1> DEFINE rows == Answer(t, n)
           row(k) == [user |-> User, session |-> Session, sub_seq_index |-> k - 1,
                      status |-> "completed", task |-> t]
           R == {row(k) : k \in 1 .. n}
           C == {"user", "session", "sub_seq_index", "status", "task"}
           a == "agentMsgs"
<1>1. a \in DOMAIN Rows /\ a \in Tables /\ a \in TaskTables /\ "tasks" \in SessionTables
  BY TablesOfChat DEF SessionTables, TaskTables
<1>2. IsDb(d) /\ ChatSound(d)
  BY DEF OneSession, ChatSound
<1>3. rows = [k \in 1 .. n |-> row(k)]
  BY DEF Answer
<1>4. DOMAIN rows = 1 .. n /\ \A k \in 1 .. n : rows[k] = row(k)
  BY <1>3
<1>5. rows \in Seq(R)
  <2>1. \A k \in 1 .. n : row(k) \in R
    OBVIOUS
  <2>2. [k \in 1 .. n |-> row(k)] \in Seq(R)
    <3> HIDE DEF row, R
    <3> QED
      BY <2>1, IsASeq
  <2> QED
    BY <1>3, <2>2
<1>6. \A x \in R : x = [c \in C |-> x[c]]
  OBVIOUS
<1>7. AllFit(d, a, rows, Session)
  <2> SUFFICES ASSUME NEW k \in 1 .. n, KeysHold(d, row(k))
               PROVE  Fit(d, a, row(k)) /\ row(k).session = Session
    BY <1>4 DEF AllFit
  <2>1. t # None /\ t \in DOMAIN d.tasks
    <3>1. "task" \in DOMAIN row(k) \cap DOMAIN Refers /\ row(k)["task"] = t /\ t # None
      BY ReferredTo, NoneAndFailure DEF Id
    <3> HIDE DEF row
    <3> QED
      BY <3>1, ReferredTo DEF KeysHold
  <2>2. d.tasks[t].session = Session
    BY <1>1, <2>1, RowsOfOne
  <2>3. row(k) \in U2AAgentMessage
    BY DEF U2AAgentMessage, AgentMsgStatus, User, Session, Id
  <2> QED
    BY <2>2, <2>3 DEF Fit, Rows, Linked
<1> HIDE DEF rows, R, row
<1>8. e = d \/ e = InsertAll(d, a, rows).db
  <2>1. CASE rows = <<>>
    BY <2>1 DEF insert_agent_messages_from_list, Returns, rows
  <2>2. CASE rows # <<>>
    <3>1. InsertColumns(d, a, Columns(rows)) = InsertAll(d, a, rows)
      BY <1>5, <1>6, <2>2, ColumnsAreRows
    <3>2. e = InsertColumns(d, a, Columns(rows)).db
      BY <2>2 DEF insert_agent_messages_from_list, insert_agent_messages_batch, rows
    <3> QED
      BY <3>1, <3>2
  <2> QED
    BY <2>1, <2>2
<1>9. ChatSound(e)
  <2>1. ASSUME e = InsertAll(d, a, rows).db PROVE ChatSound(e)
    <3>1. Call(d, e, Len(rows), Session)
      BY <1>1, <1>2, <1>5, <1>7, <2>1, InsertAllIsCall
    <3> QED
      BY <3>1 DEF Call
  <2> QED
    BY <1>2, <1>8, <2>1
<1>10. e = d \/ Added(d, e, a, rows)
  BY <1>1, <1>2, <1>5, <1>8, InsertAllEffect
<1>11. OnlyTable(d, e, a)
  BY <1>10 DEF OnlyTable, Added
<1>12. e.sessions = d.sessions
  BY <1>11 DEF OnlyTable, Tables
<1>13. OthersAnswers(d, e, t)
  <2> SUFFICES ASSUME Added(d, e, a, rows), NEW u \in Id, u # t, NEW i \in DOMAIN e.agentMsgs,
                      e.agentMsgs[i].task = u
               PROVE  i \in DOMAIN d.agentMsgs /\ d.agentMsgs[i].task = u
    BY <1>10 DEF OthersAnswers, Where
  <2>1. \A k \in DOMAIN rows : rows[k].task = t
    BY <1>4 DEF row
  <2>2. i \in DOMAIN d.agentMsgs
    BY <2>1 DEF Added
  <2> QED
    BY <2>2 DEF Added
<1> QED
  BY <1>9, <1>11, <1>12, <1>13 DEF OneSession

\* A task's agent messages are deleted.
LEMMA AnswersDeleted ==
    ASSUME NEW d, OneSession(d), NEW t,
           NEW e, e = delete_agent_messages_by_session_task(d, t).db
    PROVE  OneSession(e) /\ OnlyTable(d, e, "agentMsgs") /\ OthersAnswers(d, e, None)
<1> DEFINE a == "agentMsgs"
           S == Where(d, a, "task", t)
<1>1. a \in DOMAIN Rows /\ a \in SessionTables /\ a \in Tables \ {"tasks", "sessions", "a2aSessions"}
  BY TablesOfChat DEF SessionTables, Tables
<1>2. IsDb(d) /\ ChatSound(d) /\ DOMAIN d = Tables \cup {"next"}
  BY DEF OneSession, ChatSound, IsDb
<1>3. e = Delete(d, a, S).db
  BY AnyRowKeeps DEF delete_agent_messages_by_session_task
<1>4. \A i \in S \cap DOMAIN d[a] : d[a][i].session = Session
  BY <1>1, RowsOfOne
<1>5. ChatSound(e)
  <2> HIDE DEF S, a
  <2>1. Call(d, e, 0, Session)
    BY <1>1, <1>2, <1>3, <1>4, DeleteIsCall
  <2> QED
    BY <2>1 DEF Call
<1>6. e = [d EXCEPT ![a] = Without(@, S \cap DOMAIN d[a])]
  BY <1>3 DEF Delete, Drop, Returns
<1>7. OnlyTable(d, e, a) /\ e[a] = Without(d[a], S \cap DOMAIN d[a])
  BY <1>1, <1>2, <1>6 DEF OnlyTable
<1>8. e.sessions = d.sessions
  BY <1>7 DEF OnlyTable, Tables
<1>9. OthersAnswers(d, e, None)
  BY <1>7 DEF OthersAnswers, Where, Without
<1> QED
  BY <1>5, <1>7, <1>8, <1>9 DEF OneSession

\* A session that is deleted is gone for good.
LEMMA SessionDeleted ==
    ASSUME NEW d, OneSession(d), NEW e, e = delete_session(d, Session).db
    PROVE  OneSession(e) /\ Session \notin DOMAIN e.sessions
<1>1. "sessions" \in DOMAIN Rows /\ ChatSound(d) /\ IsDb(d)
  BY TablesOfChat DEF OneSession, ChatSound
<1>2. e = Delete(d, "sessions", {Session}).db
  BY AnyRowKeeps DEF delete_session
<1>3. ChatSound(e)
  <2>1. Call(d, e, 0, Session)
    BY <1>1, <1>2, DeleteIsCall
  <2> QED
    BY <2>1 DEF Call
<1> DEFINE S == {Session} \cap DOMAIN d.sessions
           D == {i \in DOMAIN d.tasks : d.tasks[i].session \in S}
           f == DropTasks(d, D)
<1>4. e = DropSessions(d, S)
  BY <1>2 DEF Delete, Drop, Returns
<1>5. TasksDropped(d, f, D) /\ SessionsDropped(f, e, S)
  <2> HIDE DEF S
  <2> QED
    BY <1>1, <1>4, DropSessionsEffect
<1> HIDE DEF f
<1>6. f.sessions = d.sessions /\ e.sessions = Without(f.sessions, S)
  BY <1>5 DEF TasksDropped, NoTask, SessionsDropped
<1>7. DOMAIN e.sessions = DOMAIN d.sessions \ {Session}
  BY <1>6 DEF Without
<1> QED
  BY <1>3, <1>7 DEF OneSession

-----------------------------------------------------------------------------
(* The inductive invariant of ChatHistory *)

\* The states a sender, the request inside the lock, a task and the reader can be in.
SenderStates == {Idle} \cup [pc : {"insert"}, seq : Nat]
ProcStates == {Idle} \cup [pc : {"task"}, msgs : SUBSET Id]
                     \cup [pc : {"link", "mark"}, msgs : SUBSET Id, task : Id]
RunStates == [pc : {"agent", "status", "messages", "failed", "error", "rollback", "ended"},
              msgs : SUBSET Id]
PageSize == Limits \cup {None}
ReaderPages == [pc : {"page"}, limit : PageSize, max : Nat \cup {None}, settled : SUBSET Id,
                seen : Seq(Id), had : SUBSET Id]
Item == [role : {"user", "assistant"}, id : Id]
PageRow == [task : Id \cup {None}, seq_index : Nat]
ReaderGroups == [pc : {"groups"}, limit : PageSize, max : Nat \cup {None},
                 settled : SUBSET Id, seen : Seq(Id), had : SUBSET Id,
                 page : UNION {[P -> PageRow] : P \in SUBSET Id},
                 items : Seq(Item), todo : Seq(Id \cup {None})]
ReaderStates == {Idle} \cup [pc : {"active"}, tasks : SUBSET Id, active : SUBSET Id]
                       \cup ReaderPages \cup ReaderGroups

\* The tables are sound and hold one session, and every actor is in one of its states.
Handled ==
    /\ OneSession(db)
    /\ snd \in [Senders -> SenderStates]
    /\ proc \in ProcStates
    /\ run = [t \in DOMAIN run |-> run[t]]
    /\ \A t \in DOMAIN run : t \in Id /\ run[t] \in RunStates
    /\ client \in ReaderStates
    /\ client.pc = "groups" => IsFiniteSet(DOMAIN client.page)

\* The session is there: what follows of rows is asked only then.
Live == session_exists(db, Session)

\* Its messages, with their index and the task they belong to.
Msgs == DOMAIN db.userMsgs
IndexOf(i) == db.userMsgs[i].seq_index
TaskOf(i) == db.userMsgs[i].task

\* Every index below n has been given to a message.
Reached(n) == \A m \in Nat : m < n => \E i \in Msgs : IndexOf(i) = m

\* An index is the next after those given, also the one a sender has read; and
\* as long as no two messages share one, later messages have higher indexes.
Indexed ==
    /\ \A i \in Msgs : Reached(IndexOf(i))
    /\ \A s \in Senders : snd[s].pc = "insert" => Reached(snd[s].seq)
    /\ InSequence => \A i, j \in Msgs : i < j => IndexOf(i) < IndexOf(j)

\* A message waits until a task has it.
Waiting(i) == db.userMsgs[i].status = "waiting_agent_ack_user"

\* Only messages that wait are without a task, but for those about to be
\* marked; and tasks take all that wait, so the messages of earlier tasks are
\* earlier and those of no task are the latest.
MsgsSound ==
    /\ \A i \in Msgs : TaskOf(i) = None => Waiting(i)
    /\ \A i \in Msgs : Waiting(i) /\ TaskOf(i) # None => proc.pc = "mark" /\ i \in proc.msgs
    /\ \A i, j \in Msgs : TaskOf(i) # None =>
          /\ TaskOf(j) = None => i < j
          /\ TaskOf(j) # None /\ TaskOf(i) < TaskOf(j) => i < j

\* What the request inside the lock has collected is still without a task and
\* precedes all that came since; its task has no coroutine yet, and once it is
\* linked has the messages that were collected.
ProcSound ==
    /\ proc.pc \in {"task", "link", "mark"} => proc.msgs \subseteq Msgs /\ proc.msgs # {}
    /\ proc.pc \in {"task", "link"} =>
          \A i \in proc.msgs : /\ TaskOf(i) = None
                               /\ \A j \in Msgs \ proc.msgs : TaskOf(j) = None => i < j
    /\ proc.pc = "mark" => \A i \in proc.msgs : TaskOf(i) = proc.task
    /\ proc.pc \in {"link", "mark"} =>
          /\ proc.task \in DOMAIN db.tasks \ DOMAIN run
          /\ db.tasks[proc.task].status = "processing"
    /\ proc.pc = "link" => \A i \in Msgs : TaskOf(i) # None => TaskOf(i) < proc.task

\* A coroutine owns its task and the messages that started it, and the task is
\* processing until the status is written; there are no other tasks.
RunSound ==
    /\ \A t \in DOMAIN run :
          /\ t \in DOMAIN db.tasks
          /\ run[t].msgs # {} /\ run[t].msgs \subseteq Msgs
          /\ \A i \in run[t].msgs : TaskOf(i) = t
          /\ run[t].pc \in {"agent", "status"} => db.tasks[t].status = "processing"
    /\ \A t \in DOMAIN db.tasks :
          t \in DOMAIN run \/ (proc.pc \in {"link", "mark"} /\ proc.task = t)
    /\ \A t \in DOMAIN db.tasks : db.tasks[t].status # "pending"

\* The client is between two statements of a history request or two requests.
Reading == client.pc \in {"page", "groups"}

\* The tasks of a client that was told that none is active have stopped
\* processing; each is to be shown yet or is shown with all its agent messages.
SettledSound ==
    /\ client.pc = "active" => client.tasks \subseteq DOMAIN db.tasks
    /\ Reading =>
          /\ client.settled # {} => client.limit = None
          /\ client.limit = None => client.max = None
          /\ \A t \in client.settled :
                t \in DOMAIN db.tasks /\ db.tasks[t].status # "processing"
    /\ client.pc = "groups" =>
          \A t \in client.settled :
             \/ \E k \in DOMAIN client.todo : client.todo[k] = t
             \/ Where(db, "agentMsgs", "task", t)
                   \subseteq {client.items[k].id : k \in DOMAIN client.items}

\* A page still holds messages with the index they were read with.
PageSound ==
    client.pc = "groups" =>
       /\ DOMAIN client.page \subseteq Msgs
       /\ \A i \in DOMAIN client.page : client.page[i].seq_index = IndexOf(i)

\* A list has x; it has nothing twice.
Listed(x, l) == \E k \in DOMAIN l : l[k] = x
Distinct(l) == \A i, j \in DOMAIN l : l[i] = l[j] => i = j

\* Between pages the client has seen all it wants to see from its bound on and
\* nothing below; within a page it has seen what is above the page and the
\* groups that had their turn, and what it wants else lies below the page.
PagingSound ==
    /\ Reading => client.had \subseteq Msgs /\ \A k \in DOMAIN client.seen : client.seen[k] \in Msgs
    /\ client.pc = "page" =>
          /\ client.max = None => client.seen = <<>>
          /\ client.max # None /\ InSequence =>
                /\ Distinct(client.seen)
                /\ \A i \in Msgs : Listed(i, client.seen) => IndexOf(i) >= client.max
                /\ \A i \in client.had : Listed(i, client.seen) \/ IndexOf(i) < client.max
    /\ client.pc = "groups" =>
          /\ Distinct(client.todo)
          /\ InSequence =>
                /\ Distinct(client.seen)
                /\ \A i \in Msgs : Listed(i, client.seen) =>
                      \/ i \in DOMAIN client.page /\ ~Listed(client.page[i].task, client.todo)
                      \/ i \notin DOMAIN client.page /\ \A j \in DOMAIN client.page : IndexOf(j) < IndexOf(i)
                /\ \A i \in DOMAIN client.page :
                      Listed(i, client.seen) \/ Listed(client.page[i].task, client.todo)
                /\ client.limit # None => \A i \in client.had :
                      \/ Listed(i, client.seen) \/ i \in DOMAIN client.page
                      \/ /\ DOMAIN client.page # {}
                         /\ \A j \in DOMAIN client.page : IndexOf(i) < IndexOf(j)

\* Every user message of the items comes before those that follow it, and
\* before those of the groups that are left; so do the messages of a group.
Ordered(page, items, todo) ==
    /\ \A k \in DOMAIN items : items[k].role = "user" => items[k].id \in DOMAIN page
    /\ \A i, j \in DOMAIN items :
          i < j /\ items[i].role = "user" /\ items[j].role = "user" =>
             page[items[i].id].seq_index < page[items[j].id].seq_index
    /\ \A k \in DOMAIN items, a \in DOMAIN todo : \A j \in Group(page, todo[a]) :
          items[k].role = "user" => page[items[k].id].seq_index < page[j].seq_index
    /\ \A a, b \in DOMAIN todo : a < b =>
          \A i \in Group(page, todo[a]), j \in Group(page, todo[b]) :
             page[i].seq_index < page[j].seq_index

\* An answer is in order while it is put together.
OrderSound ==
    client.pc = "groups" /\ InSequence => Ordered(client.page, client.items, client.todo)

\* What holds of the rows and of those that write them.
Writers == Indexed /\ MsgsSound /\ ProcSound /\ RunSound

\* What holds of the reader.
Reader == SettledSound /\ PageSound /\ PagingSound /\ OrderSound

\* The inductive invariant of the history.
HInv == Handled /\ (Live => Writers /\ Reader)

\* The account's session is the only one.
LEMMA HistoryStarts == HistoryInit => HInv
<1> SUFFICES ASSUME HistoryInit PROVE HInv
  OBVIOUS
<1> DEFINE users == Insert(EmptyDb, "users", [is_deleted |-> FALSE]).db
           row == [user |-> User, context_lock |-> FALSE]
<1>1. db = Insert(users, "sessions", row).db
  BY DEF HistoryInit, insert_session
<1>2. /\ ChatSound(users) /\ users.next \in {1, 2}
      /\ \A t \in Tables \ {"users"} : DOMAIN users[t] = {}
      /\ DOMAIN users.users # {} => users.next = 2
  BY AccountMade
<1> HIDE DEF users
<1>3. "sessions" \in DOMAIN Rows /\ "sessions" \in Tables /\ Fit(users, "sessions", row)
  BY DEF Fit, Rows, Tables, TaskTables, U2ASession, User, Id
<1>4. KeysHold(users, row) => users.next = 2
  <2>1. "user" \in DOMAIN row \cap DOMAIN Refers /\ row["user"] = User /\ User # None
    BY ReferredTo, NoneAndFailure DEF User
  <2> HIDE DEF row
  <2> QED
    BY <1>2, <2>1, ReferredTo DEF KeysHold
<1> HIDE DEF row
<1>5. ChatSound(db)
  BY <1>1, <1>2, <1>3, InsertIsCall DEF Call
<1>6. db = users \/ Inserted(users, db, "sessions", row)
  <2>1. IsDb(users)
    BY <1>2 DEF ChatSound
  <2> QED
    BY <1>1, <1>3, <2>1, InsertEffect
<1>7. DOMAIN db.sessions \subseteq {Session} /\ DOMAIN db.userMsgs = {} /\ DOMAIN db.tasks = {}
  BY <1>2, <1>4, <1>6 DEF Inserted, Tables, Session
<1>8. snd = [s \in Senders |-> Idle] /\ proc = Idle /\ run = NoRows /\ client = Idle
  BY DEF HistoryInit
<1>9. DOMAIN run = {} /\ run = [t \in DOMAIN run |-> run[t]]
  BY <1>8 DEF NoRows
<1>10. Handled
  BY <1>5, <1>7, <1>8, <1>9 DEF Handled, OneSession, SenderStates, ProcStates, ReaderStates, Idle
<1>11. Writers
  BY <1>7, <1>8, <1>9 DEF Writers, Indexed, MsgsSound, ProcSound, RunSound, Msgs, Idle
<1>12. Reader
  BY <1>8 DEF Reader, SettledSound, PageSound, PagingSound, OrderSound, Reading, Idle
<1> QED
  BY <1>10, <1>11, <1>12 DEF HInv

-----------------------------------------------------------------------------
(* What a reader finds is still true after any step of the writers *)

\* From d to e messages keep their index, and a task that has settled stays
\* so and gets no agent messages.
Keeps(d, e) ==
    /\ \A i \in DOMAIN d.userMsgs :
          i \in DOMAIN e.userMsgs /\ e.userMsgs[i].seq_index = d.userMsgs[i].seq_index
    /\ \A t \in DOMAIN d.tasks :
          /\ t \in DOMAIN e.tasks
          /\ d.tasks[t].status # "processing" =>
                /\ e.tasks[t].status # "processing"
                /\ Where(e, "agentMsgs", "task", t) \subseteq Where(d, "agentMsgs", "task", t)

\* Two messages that share an index go on sharing it.
LEMMA OutOfSequence ==
    ASSUME Live, Keeps(db, db') PROVE InSequence' => InSequence
BY DEF Live, Keeps, InSequence

\* A list the reader works from, as its state says.
LEMMA ReaderIs ==
    ASSUME Handled
    PROVE  /\ Reading => client.seen \in Seq(Id) /\ client.had \subseteq Id
                         /\ client.limit \in PageSize /\ client.max \in Nat \cup {None}
                         /\ client.settled \subseteq Id
           /\ client.pc = "page" => client \in ReaderPages
           /\ client.pc = "groups" => client \in ReaderGroups
           /\ client.pc = "active" => client.tasks \subseteq Id /\ client.active \subseteq Id
           /\ client.pc \in {"idle", "active", "page", "groups"}
BY DEF Handled, ReaderStates, ReaderPages, ReaderGroups, Reading, Idle

\* What holds of the reader does so after a step that keeps what it relies on.
LEMMA ReaderStays ==
    ASSUME Handled, Live, Reader, Keeps(db, db'), UNCHANGED client
    PROVE  Reader'
<1>1. InSequence' => InSequence
  BY OutOfSequence
<1>2. SettledSound'
  BY DEF Reader, SettledSound, Reading, Keeps
<1>3. PageSound'
  BY DEF Reader, PageSound, Keeps, Msgs, IndexOf
<1>4. PagingSound'
  <2>1. PagingSound /\ \A i \in Msgs : i \in Msgs' /\ IndexOf(i)' = IndexOf(i)
    BY DEF Reader, Keeps, Msgs, IndexOf
  <2>2. Reading => \A i \in Msgs' : Listed(i, client.seen) => i \in Msgs
    BY <2>1 DEF PagingSound, Listed
  <2>3. Reading' => client'.had \subseteq Msgs' /\ \A k \in DOMAIN client'.seen : client'.seen[k] \in Msgs'
    BY <2>1 DEF PagingSound, Reading
  <2>4. CASE client.pc = "page"
    <3>1. /\ client.max = None => client.seen = <<>>
          /\ client.max # None /\ InSequence' =>
                /\ Distinct(client.seen)
                /\ \A i \in Msgs' : Listed(i, client.seen) => IndexOf(i)' >= client.max
                /\ \A i \in client.had : Listed(i, client.seen) \/ IndexOf(i)' < client.max
      BY <1>1, <2>1, <2>2, <2>4 DEF PagingSound, Reading
    <3> QED
      BY <2>3, <2>4, <3>1 DEF PagingSound, Reading
  <2>5. CASE client.pc = "groups"
    <3>1. ASSUME InSequence', NEW i \in Msgs', Listed(i, client.seen)
          PROVE  \/ i \in DOMAIN client.page /\ ~Listed(client.page[i].task, client.todo)
                 \/ i \notin DOMAIN client.page /\ \A j \in DOMAIN client.page : IndexOf(j)' < IndexOf(i)'
      <4>1. i \in Msgs
        BY <2>2, <2>5, <3>1 DEF Reading
      <4>2. \A j \in DOMAIN client.page : IndexOf(j)' = IndexOf(j)
        BY <2>1, <2>5 DEF Reader, PageSound
      <4> QED
        BY <1>1, <2>1, <2>5, <3>1, <4>1, <4>2 DEF PagingSound
    <3>2. ASSUME InSequence', client.limit # None, NEW i \in client.had
          PROVE  \/ Listed(i, client.seen) \/ i \in DOMAIN client.page
                 \/ /\ DOMAIN client.page # {}
                    /\ \A j \in DOMAIN client.page : IndexOf(i)' < IndexOf(j)'
      <4>1. i \in Msgs
        BY <2>1, <2>5, <3>2 DEF PagingSound, Reading
      <4>2. \A j \in DOMAIN client.page : IndexOf(j)' = IndexOf(j)
        BY <2>1, <2>5 DEF Reader, PageSound
      <4> QED
        BY <1>1, <2>1, <2>5, <3>2, <4>1, <4>2 DEF PagingSound
    <3>3. /\ Distinct(client.todo)
          /\ InSequence' =>
                /\ Distinct(client.seen)
                /\ \A i \in DOMAIN client.page :
                      Listed(i, client.seen) \/ Listed(client.page[i].task, client.todo)
      BY <1>1, <2>1, <2>5 DEF PagingSound
    <3> QED
      BY <2>3, <2>5, <3>1, <3>2, <3>3 DEF PagingSound, Reading
  <2> QED
    BY <2>3, <2>4, <2>5 DEF PagingSound, Reading
<1>5. OrderSound'
  BY <1>1 DEF Reader, OrderSound
<1> QED
  BY <1>2, <1>3, <1>4, <1>5 DEF Reader

\* What is asked of a step of the writers.
WriterStep == Handled' /\ (Live' => Live /\ Keeps(db, db') /\ Writers')

\* Such a step keeps the invariant.
LEMMA WriterStepIsSound ==
    ASSUME HInv, WriterStep, UNCHANGED client PROVE HInv'
BY ReaderStays DEF HInv, WriterStep

-----------------------------------------------------------------------------
(* The steps of the writers *)

\* A request of the session's user finds it there.
LEMMA MineIsLive == Mine(Session) => Live
BY DEF Mine, Live, get_sessions_by_user_id, Where, session_exists

\* What Handled says of the tables.
LEMMA MessageRows ==
    ASSUME Handled
    PROVE  /\ OneSession(db) /\ IsDb(db) /\ db.next \in Id
           /\ \A i \in Msgs : /\ i \in Id /\ i < db.next
                              /\ IndexOf(i) \in Nat /\ TaskOf(i) \in Id \cup {None}
                              /\ TaskOf(i) # None => TaskOf(i) \in DOMAIN db.tasks
           /\ \A t \in DOMAIN db.tasks : t \in Id /\ t < db.next
           /\ None \notin Id
<1>1. OneSession(db) /\ ChatSound(db) /\ IsDb(db)
  BY DEF Handled, OneSession, ChatSound
<1>2. \A i \in Msgs : TaskOf(i) # None => TaskOf(i) \in DOMAIN db.tasks
  <2> SUFFICES ASSUME NEW i \in DOMAIN db.userMsgs, db.userMsgs[i].task # None
               PROVE  db.userMsgs[i].task \in DOMAIN db.tasks
    BY DEF Msgs, TaskOf
  <2>1. "userMsgs" \in Tables
    BY DEF Tables
  <2>2. KeysHold(db, db.userMsgs[i])
    BY <1>1, <2>1 DEF ChatSound, Keyed
  <2>3. "task" \in DOMAIN db.userMsgs[i]
    BY <1>1, ChatRows DEF U2AUserMessage
  <2> QED
    BY <2>2, <2>3, ReferredTo DEF KeysHold
<1>3. None \notin Id
  BY NoneAndFailure DEF Id
<1> QED
  BY <1>1, <1>2, <1>3, ChatRows DEF U2AUserMessage, Msgs, IndexOf, TaskOf

\* An index is read.
LEMMA IndexStep ==
    ASSUME HInv, NEW s \in Senders, SendIndex(s) PROVE WriterStep
<1> DEFINE n == get_next_user_message_seq_index(db, Session)
           S == Where(db, "userMsgs", "session", Session)
<1>1. Live /\ Handled /\ Writers /\ UNCHANGED <<db, proc, run, client>>
  BY MineIsLive DEF SendIndex, HInv
<1>2. snd' = [snd EXCEPT ![s] = [pc |-> "insert", seq |-> n]]
  BY DEF SendIndex
<1>3. n = 0 \/ \E i \in Msgs : n = IndexOf(i) + 1
  <2>1. S \subseteq DOMAIN db.userMsgs /\ "userMsgs" \in Tables
    BY DEF Where, Tables
  <2>2. n = NextIndex(db, "userMsgs", "seq_index", S)
    BY DEF get_next_user_message_seq_index
  <2>3. \A i \in S : db.userMsgs[i]["seq_index"] \in Nat
    BY <1>1, <2>1, MessageRows DEF Msgs, IndexOf
  <2> HIDE DEF S, n
  <2>4. IsDb(db)
    BY <1>1, MessageRows
  <2>5. n = 0 \/ \E i \in S : n = db.userMsgs[i]["seq_index"] + 1
    BY <2>1, <2>2, <2>3, <2>4, NextIndexFollows
  <2> QED
    BY <2>1, <2>5 DEF Msgs, IndexOf
<1> HIDE DEF n
<1>4. n \in Nat
  BY <1>1, <1>3, MessageRows
<1>5. Reached(n)
  <2>1. CASE n = 0
    BY <2>1 DEF Reached
  <2>2. ASSUME NEW i \in Msgs, n = IndexOf(i) + 1 PROVE Reached(n)
    BY <1>1, <2>2, MessageRows DEF Reached, Writers, Indexed
  <2> QED
    BY <1>3, <2>1, <2>2
<1>6. Handled'
  BY <1>1, <1>2, <1>4 DEF Handled, SenderStates
<1>7. Writers'
  BY <1>1, <1>2, <1>5 DEF Writers, Indexed, MsgsSound, ProcSound, RunSound, Msgs, IndexOf, TaskOf,
     Reached, Waiting, InSequence, Handled
<1> QED
  BY <1>1, <1>6, <1>7 DEF WriterStep, Keeps

\* A message is inserted.
LEMMA InsertStep ==
    ASSUME HInv, NEW s \in Senders, SendInsert(s) PROVE WriterStep
<1> PICK q : q = snd[s].seq
  OBVIOUS
<1> PICK n : n = db.next
  OBVIOUS
<1>1. Handled /\ UNCHANGED <<proc, run, client>> /\ snd' = [snd EXCEPT ![s] = Idle]
  BY DEF SendInsert, HInv
<1>2. q \in Nat
  BY <1>1 DEF SendInsert, Handled, SenderStates, Idle
<1>3. /\ OneSession(db') /\ OnlyTable(db, db', "userMsgs")
      /\ db' = db \/ Inserted(db, db', "userMsgs", Sent(q))
  BY <1>1, <1>2, MessageSent DEF SendInsert, Handled
<1>4. Handled'
  BY <1>1, <1>3 DEF Handled, SenderStates
<1>5. db'.tasks = db.tasks /\ db'.sessions = db.sessions /\ db'.agentMsgs = db.agentMsgs
  BY <1>3 DEF OnlyTable, Tables
<1> SUFFICES ASSUME Live' PROVE Live /\ Keeps(db, db') /\ Writers'
  BY <1>4 DEF WriterStep
<1>6. Live
  BY <1>5 DEF Live, session_exists
<1>7. Writers
  BY <1>6 DEF HInv
<1>8. \A u \in Senders : snd'[u].pc = "insert" => snd[u].pc = "insert" /\ snd'[u] = snd[u]
  BY <1>1 DEF Handled, Idle
<1>9. CASE db' = db
  BY <1>1, <1>6, <1>7, <1>8, <1>9 DEF Keeps, Writers, Indexed, MsgsSound, ProcSound, RunSound,
     Msgs, IndexOf, TaskOf, Reached, Waiting, InSequence
<1>10. CASE Inserted(db, db', "userMsgs", Sent(q))
  <2>1. /\ n \notin Msgs /\ Msgs' = Msgs \cup {n}
        /\ \A i \in Msgs : /\ db'.userMsgs[i] = db.userMsgs[i] /\ IndexOf(i)' = IndexOf(i)
                           /\ TaskOf(i)' = TaskOf(i) /\ Waiting(i)' = Waiting(i)
        /\ IndexOf(n)' = q /\ TaskOf(n)' = None /\ Waiting(n)'
    BY <1>10 DEF Inserted, Sent, Msgs, IndexOf, TaskOf, Waiting
  <2>2. Keeps(db, db')
    BY <1>5, <2>1 DEF Keeps, Where, Msgs
  <2>3. \A k \in Nat : Reached(k) => Reached(k)'
    BY <2>1 DEF Reached
  <2>4. Reached(q)
    BY <1>7 DEF SendInsert, Writers, Indexed
  <2>5. Indexed'
    <3>1. \A i \in Msgs' : Reached(IndexOf(i))'
      <4>1. \A i \in Msgs : Reached(IndexOf(i))
        BY <1>7 DEF Writers, Indexed
      <4> QED
        BY <1>2, <2>1, <2>4, <4>1 DEF Reached
    <3>2. \A u \in Senders : snd'[u].pc = "insert" => Reached(snd[u].seq)'
      <4>1. \A u \in Senders : snd[u].pc = "insert" => Reached(snd[u].seq)
        BY <1>7 DEF Writers, Indexed
      <4> QED
        BY <1>8, <2>1, <4>1 DEF Reached
    <3>3. ASSUME InSequence', NEW i \in Msgs', NEW j \in Msgs', i < j
          PROVE  IndexOf(i)' < IndexOf(j)'
      <4>1. InSequence
        BY <1>6, <2>2, <3>3, OutOfSequence
      <4>2. CASE j \in Msgs
        BY <1>1, <1>7, <2>1, <3>3, <4>1, <4>2, MessageRows DEF Writers, Indexed, Id
      <4>3. CASE j = n
        <5>1. i \in Msgs /\ IndexOf(i) \in Nat
          BY <1>1, <2>1, <3>3, <4>3, MessageRows DEF Id
        <5>2. ~ q < IndexOf(i)
          <6> SUFFICES ASSUME q < IndexOf(i) PROVE FALSE
            OBVIOUS
          <6>1. PICK k \in Msgs : IndexOf(k) = q
            BY <1>2, <1>7, <5>1 DEF Writers, Indexed, Reached
          <6>2. k # n /\ k \in Msgs' /\ n \in Msgs' /\ IndexOf(k)' = IndexOf(n)'
            BY <2>1, <6>1
          <6> QED
            BY <3>3, <6>2 DEF InSequence, Msgs, IndexOf
        <5>3. IndexOf(i) # q
          <6>1. i # n /\ n \in Msgs'
            BY <2>1, <5>1
          <6> QED
            BY <2>1, <3>3, <5>1, <6>1 DEF InSequence, Msgs, IndexOf
        <5> QED
          BY <1>2, <2>1, <4>3, <5>1, <5>2, <5>3
      <4> QED
        BY <2>1, <4>2, <4>3
    <3> QED
      BY <3>1, <3>2, <3>3 DEF Indexed
  <2>6. MsgsSound'
    <3>1. \A i \in Msgs : i < n /\ ~ n < i
      BY <1>1, MessageRows DEF Id
    <3> QED
      BY <1>1, <1>7, <2>1, <3>1 DEF Writers, MsgsSound
  <2>7. ProcSound'
    <3>1. \A i \in Msgs : i < n
      BY <1>1, MessageRows
    <3>2. proc' = proc /\ run' = run /\ db'.tasks = db.tasks
      BY <1>1, <1>5
    <3> QED
      BY <1>7, <2>1, <3>1, <3>2 DEF Writers, ProcSound
  <2>8. RunSound'
    BY <1>1, <1>5, <1>7, <2>1 DEF Writers, RunSound
  <2> QED
    BY <1>6, <2>2, <2>5, <2>6, <2>7, <2>8 DEF Writers
<1> QED
  BY <1>3, <1>9, <1>10

\* The waiting messages are collected: all there are.
LEMMA CollectStep == ASSUME HInv, ProcCollect PROVE WriterStep
<1> PICK W : W = collect_pending_messages
  OBVIOUS
<1>1. Live /\ Handled /\ Writers /\ UNCHANGED <<db, snd, run, client>>
  BY MineIsLive DEF ProcCollect, HInv
<1>2. proc = Idle /\ W # {} /\ proc' = [pc |-> "task", msgs |-> W]
  BY DEF ProcCollect
<1>3. W = {i \in Msgs : Waiting(i)}
  <2>1. OneSession(db) /\ "userMsgs" \in SessionTables /\ Session # None
    BY <1>1, NoneAndFailure DEF Handled, SessionTables, Session
  <2>2. \A i \in DOMAIN db.userMsgs : db.userMsgs[i].session = Session
    BY <2>1, RowsOfOne
  <2> QED
    BY <2>1, <2>2 DEF collect_pending_messages, Where, Msgs, Waiting
<1>4. W \subseteq Msgs /\ W \subseteq Id
  BY <1>1, <1>3, MessageRows
<1>5. Handled'
  BY <1>1, <1>2, <1>4 DEF Handled, ProcStates
<1>6. ProcSound'
  <2>1. \A i \in W : TaskOf(i) = None
    BY <1>1, <1>2, <1>3 DEF Writers, MsgsSound, Idle
  <2>2. \A j \in Msgs \ W : TaskOf(j) # None
    BY <1>1, <1>3 DEF Writers, MsgsSound
  <2> QED
    BY <1>1, <1>2, <1>4, <2>1, <2>2 DEF ProcSound, Msgs, TaskOf
<1>7. Indexed' /\ MsgsSound' /\ RunSound'
  BY <1>1, <1>2 DEF Writers, Indexed, MsgsSound, RunSound, Msgs, IndexOf, TaskOf,
     Reached, Waiting, InSequence, Idle
<1> QED
  BY <1>1, <1>5, <1>6, <1>7 DEF WriterStep, Keeps, Writers

\* The index of a message does not change when the messages keep it.
LEMMA IndexedStays ==
    ASSUME Indexed, UNCHANGED snd, session_exists(db, Session),
           DOMAIN db'.userMsgs = DOMAIN db.userMsgs,
           \A i \in DOMAIN db.userMsgs : db'.userMsgs[i].seq_index = db.userMsgs[i].seq_index
    PROVE  Indexed'
BY DEF Indexed, Reached, Msgs, IndexOf, InSequence

\* The task that will answer them is created.
LEMMA TaskStep == ASSUME HInv, ProcTask PROVE WriterStep
<1> PICK r : r = create_session_task_record(db)
  OBVIOUS
<1> PICK n : n = db.next
  OBVIOUS
<1>1. Handled /\ UNCHANGED <<snd, run, client>> /\ proc.pc = "task"
  BY DEF ProcTask, HInv
<1>2. db' = r.db /\ proc' = IF r.ret = Failure THEN Idle
                           ELSE [pc |-> "link", msgs |-> proc.msgs, task |-> r.ret]
  BY DEF ProcTask
<1>3. /\ OneSession(db') /\ OnlyTable(db, db', "tasks")
      /\ \/ r.ret = Failure /\ db' = db
         \/ r.ret = n /\ Inserted(db, db', "tasks", Started)
  BY <1>1, <1>2, TaskCreated DEF Handled
<1>4. n \in Id /\ n # Failure /\ proc.msgs \subseteq Id
  BY <1>1, MessageRows, NoneAndFailure DEF Id, Handled, ProcStates, Idle
<1>5. Handled'
  BY <1>1, <1>2, <1>3, <1>4 DEF Handled, ProcStates
<1>6. /\ db'.userMsgs = db.userMsgs /\ db'.sessions = db.sessions
      /\ db'.agentMsgs = db.agentMsgs
  BY <1>3 DEF OnlyTable, Tables
<1> SUFFICES ASSUME Live' PROVE Live /\ Keeps(db, db') /\ Writers'
  BY <1>5 DEF WriterStep
<1>7. Live
  BY <1>6 DEF Live, session_exists
<1>8. Writers
  BY <1>7 DEF HInv
<1>9. Indexed'
  BY <1>1, <1>6, <1>7, <1>8, IndexedStays DEF Writers, Live
<1>10. MsgsSound'
  BY <1>1, <1>6, <1>8 DEF Writers, MsgsSound, Msgs, TaskOf, Waiting
<1>11. CASE r.ret = Failure /\ db' = db
  <2>1. ProcSound' /\ RunSound'
    BY <1>1, <1>2, <1>8, <1>11 DEF Writers, ProcSound, RunSound, Msgs, TaskOf, Idle
  <2> QED
    BY <1>7, <1>9, <1>10, <1>11, <2>1 DEF Keeps, Writers
<1>12. CASE r.ret = n /\ Inserted(db, db', "tasks", Started)
  <2>1. /\ DOMAIN db'.tasks = DOMAIN db.tasks \cup {n} /\ n \notin DOMAIN db.tasks
        /\ \A t \in DOMAIN db.tasks : db'.tasks[t] = db.tasks[t]
        /\ db'.tasks[n].status = "processing"
    BY <1>12 DEF Inserted, Started
  <2>2. proc' = [pc |-> "link", msgs |-> proc.msgs, task |-> n]
    BY <1>2, <1>4, <1>12
  <2>3. Keeps(db, db')
    BY <1>6, <2>1 DEF Keeps, Where
  <2>4. ProcSound'
    <3>1. n \notin DOMAIN run
      BY <1>8, <2>1 DEF Writers, RunSound
    <3>2. \A i \in Msgs : TaskOf(i) # None => TaskOf(i) < n
      BY <1>1, MessageRows
    <3>3. /\ proc.msgs \subseteq Msgs /\ proc.msgs # {}
          /\ \A i \in proc.msgs : /\ TaskOf(i) = None
                                  /\ \A j \in Msgs \ proc.msgs : TaskOf(j) = None => i < j
      BY <1>1, <1>8 DEF Writers, ProcSound
    <3> QED
      BY <1>1, <1>6, <2>1, <2>2, <3>1, <3>2, <3>3 DEF ProcSound, Msgs, TaskOf
  <2>5. RunSound'
    BY <1>1, <1>6, <1>8, <2>1, <2>2 DEF Writers, RunSound, Msgs, TaskOf
  <2> QED
    BY <1>7, <1>9, <1>10, <2>3, <2>4, <2>5 DEF Writers
<1> QED
  BY <1>3, <1>11, <1>12

\* The messages are linked to it.
LEMMA LinkStep == ASSUME HInv, ProcLink PROVE WriterStep
<1> PICK ids : ids = proc.msgs
  OBVIOUS
<1> PICK k : k = proc.task
  OBVIOUS
<1> PICK r : r = update_user_message_session_task_by_ids(db, ids, k)
  OBVIOUS
<1>1. Handled /\ UNCHANGED <<snd, run, client>> /\ proc.pc = "link"
  BY DEF ProcLink, HInv
<1>2. proc = [pc |-> "link", msgs |-> ids, task |-> k] /\ ids \subseteq Id /\ k \in Id
  BY <1>1 DEF Handled, ProcStates, Idle
<1>3. db' = r.db /\ proc' = IF r.ret = Failure THEN Idle ELSE [proc EXCEPT !.pc = "mark"]
  BY DEF ProcLink
<1>4. /\ OneSession(db') /\ OnlyTable(db, db', "userMsgs")
      /\ k \in DOMAIN db.tasks => r.ret # Failure /\ MsgsLinked(db, db', ids, k)
  BY <1>1, <1>2, <1>3, MessagesLinked DEF Handled
<1>5. Handled'
  BY <1>1, <1>2, <1>3, <1>4 DEF Handled, ProcStates
<1>6. /\ db'.tasks = db.tasks /\ db'.sessions = db.sessions
      /\ db'.agentMsgs = db.agentMsgs
  BY <1>4 DEF OnlyTable, Tables
<1> SUFFICES ASSUME Live' PROVE Live /\ Keeps(db, db') /\ Writers'
  BY <1>5 DEF WriterStep
<1>7. Live
  BY <1>6 DEF Live, session_exists
<1>8. Writers
  BY <1>7 DEF HInv
<1>9. MsgsLinked(db, db', ids, k) /\ proc' = [pc |-> "mark", msgs |-> ids, task |-> k]
  BY <1>1, <1>2, <1>3, <1>4, <1>8 DEF Writers, ProcSound
<1>10. /\ Msgs' = Msgs
       /\ \A i \in Msgs : /\ IndexOf(i)' = IndexOf(i) /\ Waiting(i)' = Waiting(i)
                          /\ TaskOf(i)' = IF i \in ids THEN k ELSE TaskOf(i)
  BY <1>9 DEF MsgsLinked, Msgs, IndexOf, Waiting, TaskOf
<1>11. Keeps(db, db')
  BY <1>6, <1>9 DEF Keeps, MsgsLinked, Where
<1>12. Indexed'
  BY <1>1, <1>7, <1>8, <1>9, IndexedStays DEF Writers, Live, MsgsLinked
<1>13. /\ ids \subseteq Msgs /\ ids # {}
       /\ \A i \in ids : TaskOf(i) = None /\ \A j \in Msgs \ ids : TaskOf(j) = None => i < j
       /\ k \in DOMAIN db.tasks \ DOMAIN run /\ db.tasks[k].status = "processing"
       /\ \A i \in Msgs : TaskOf(i) # None => TaskOf(i) < k
  BY <1>1, <1>2, <1>8 DEF Writers, ProcSound
<1>14. k # None /\ \A i \in Msgs : TaskOf(i) # None => TaskOf(i) \in Id
  BY <1>1, <1>2, MessageRows
<1>15. MsgsSound'
  <2>1. \A i \in Msgs : TaskOf(i)' = None => Waiting(i)'
    BY <1>8, <1>10, <1>14 DEF Writers, MsgsSound
  <2>2. \A i \in Msgs : Waiting(i)' /\ TaskOf(i)' # None => i \in ids
    BY <1>1, <1>8, <1>10 DEF Writers, MsgsSound
  <2>3. ASSUME NEW i \in Msgs, NEW j \in Msgs, TaskOf(i)' # None
        PROVE  /\ TaskOf(j)' = None => i < j
               /\ TaskOf(j)' # None /\ TaskOf(i)' < TaskOf(j)' => i < j
    <3>1. CASE i \in ids
      <4>1. TaskOf(i)' = k
        BY <1>10, <3>1
      <4>2. CASE j \in ids
        <5>1. TaskOf(j)' = k /\ ~ k < k
          BY <1>2, <1>10, <4>2 DEF Id
        <5> QED
          BY <1>14, <4>1, <5>1
      <4>3. CASE j \notin ids
        <5>1. TaskOf(j)' = TaskOf(j)
          BY <1>10, <4>3
        <5>2. TaskOf(j) # None => ~ k < TaskOf(j)
          BY <1>2, <1>13, <1>14 DEF Id
        <5> QED
          BY <1>13, <3>1, <4>1, <4>3, <5>1, <5>2
      <4> QED
        BY <4>2, <4>3
    <3>2. CASE i \notin ids
      <4>1. TaskOf(i)' = TaskOf(i) /\ TaskOf(i) # None
        BY <1>10, <2>3, <3>2
      <4>2. CASE j \in ids
        BY <1>8, <1>13, <4>1, <4>2 DEF Writers, MsgsSound
      <4>3. CASE j \notin ids
        BY <1>8, <1>10, <4>1, <4>3 DEF Writers, MsgsSound
      <4> QED
        BY <4>2, <4>3
    <3> QED
      BY <3>1, <3>2
  <2> QED
    BY <1>9, <1>10, <2>1, <2>2, <2>3 DEF MsgsSound
<1>16. ProcSound'
  BY <1>1, <1>6, <1>9, <1>10, <1>13 DEF ProcSound
<1>17. RunSound'
  <2>1. \A t \in DOMAIN run : \A i \in run[t].msgs : i \in Msgs /\ TaskOf(i) = t /\ t # None
    BY <1>1, <1>8, MessageRows DEF Writers, RunSound
  <2>2. \A t \in DOMAIN run : \A i \in run[t].msgs : i \notin ids /\ TaskOf(i)' = t
    BY <1>10, <1>13, <2>1
  <2> QED
    BY <1>1, <1>6, <1>8, <1>9, <1>10, <2>2 DEF Writers, RunSound
<1> QED
  BY <1>7, <1>11, <1>12, <1>15, <1>16, <1>17 DEF Writers

\* The messages of a task are given a status, and none waits among them.
LEMMA MsgsMarked ==
    ASSUME Handled, Writers, NEW ids, ids \subseteq Msgs,
           \A i \in ids : TaskOf(i) # None,
           NEW st \in UserMsgStatus \ {"waiting_agent_ack_user"},
           db' = update_user_message_status_by_ids(db, ids, st).db,
           proc.pc = "mark" => proc' = proc \/ ids = proc.msgs
    PROVE  /\ OneSession(db') /\ Keeps(db, db') /\ Msgs' = Msgs
           /\ db'.tasks = db.tasks /\ db'.sessions = db.sessions
           /\ \A i \in Msgs : IndexOf(i)' = IndexOf(i) /\ TaskOf(i)' = TaskOf(i)
           /\ MsgsSound'
<1>1. OneSession(db') /\ OnlyTable(db, db', "userMsgs") /\ Marked(db, db', "userMsgs", ids, st)
  BY StatusWritten DEF Handled, update_user_message_status_by_ids
<1>2. db'.tasks = db.tasks /\ db'.sessions = db.sessions /\ db'.agentMsgs = db.agentMsgs
  BY <1>1 DEF OnlyTable, Tables
<1>3. /\ Msgs' = Msgs
      /\ \A i \in Msgs : /\ IndexOf(i)' = IndexOf(i) /\ TaskOf(i)' = TaskOf(i)
                         /\ Waiting(i)' <=> i \notin ids /\ Waiting(i)
  BY <1>1 DEF Marked, Msgs, IndexOf, TaskOf, Waiting
<1>4. Keeps(db, db')
  BY <1>2, <1>3 DEF Keeps, Where, Msgs, IndexOf
<1>5. MsgsSound'
  BY <1>3 DEF Writers, MsgsSound
<1> QED
  BY <1>1, <1>2, <1>3, <1>4, <1>5

\* The messages are marked and the task is left to run.
LEMMA MarkStep == ASSUME HInv, ProcMark PROVE WriterStep
<1> PICK ids : ids = proc.msgs
  OBVIOUS
<1> PICK k : k = proc.task
  OBVIOUS
<1>1. Handled /\ UNCHANGED <<snd, client>> /\ proc.pc = "mark" /\ proc' = Idle
      /\ db' = update_user_message_status_by_ids(db, ids, "agent_working_for_user").db
  BY DEF ProcMark, HInv
<1>2. proc = [pc |-> "mark", msgs |-> ids, task |-> k] /\ ids \subseteq Id /\ k \in Id
  BY <1>1 DEF Handled, ProcStates, Idle
<1>3. run' = [t \in DOMAIN run \cup {k} |-> IF t = k THEN [pc |-> "agent", msgs |-> ids] ELSE run[t]]
  BY DEF ProcMark
<1>4. OneSession(db') /\ OnlyTable(db, db', "userMsgs")
  BY <1>1, StatusWritten DEF Handled, update_user_message_status_by_ids, UserMsgStatus
<1>5. Handled'
  BY <1>1, <1>2, <1>3, <1>4 DEF Handled, ProcStates, RunStates
<1> SUFFICES ASSUME Live' PROVE Live /\ Keeps(db, db') /\ Writers'
  BY <1>5 DEF WriterStep
<1>6. Live
  BY <1>4 DEF Live, session_exists, OnlyTable, Tables
<1>7. Writers
  BY <1>6 DEF HInv
<1>8. /\ ids \subseteq Msgs /\ ids # {} /\ \A i \in ids : TaskOf(i) = k
      /\ k \in DOMAIN db.tasks \ DOMAIN run /\ db.tasks[k].status = "processing"
  BY <1>1, <1>2, <1>7 DEF Writers, ProcSound
<1>9. /\ Keeps(db, db') /\ Msgs' = Msgs
      /\ db'.tasks = db.tasks /\ db'.sessions = db.sessions
      /\ \A i \in Msgs : IndexOf(i)' = IndexOf(i) /\ TaskOf(i)' = TaskOf(i)
      /\ MsgsSound'
  <2>1. \A i \in ids : TaskOf(i) # None
    BY <1>1, <1>2, <1>8, MessageRows
  <2>2. "agent_working_for_user" \in UserMsgStatus \ {"waiting_agent_ack_user"}
    BY DEF UserMsgStatus
  <2> QED
    BY <1>1, <1>7, <1>8, <2>1, <2>2, MsgsMarked
<1>10. Indexed'
  BY <1>1, <1>6, <1>7, <1>9, IndexedStays DEF Writers, Live, Msgs, IndexOf
<1>11. ProcSound'
  BY <1>1 DEF ProcSound, Idle
<1>12. RunSound'
  <2>1. \A t \in DOMAIN run : run'[t] = run[t]
    BY <1>3, <1>8
  <2>2. DOMAIN run' = DOMAIN run \cup {k} /\ run'[k] = [pc |-> "agent", msgs |-> ids]
    BY <1>3
  <2>3. \A t \in DOMAIN db.tasks : t \in DOMAIN run' /\ db.tasks[t].status # "pending"
    BY <1>1, <1>2, <1>7, <2>2 DEF Writers, RunSound
  <2>4. ASSUME NEW t \in DOMAIN run'
        PROVE  /\ t \in DOMAIN db.tasks
               /\ run'[t].msgs # {} /\ run'[t].msgs \subseteq Msgs
               /\ \A i \in run'[t].msgs : TaskOf(i)' = t
               /\ run'[t].pc \in {"agent", "status"} => db.tasks[t].status = "processing"
    <3>1. CASE t = k
      BY <1>8, <1>9, <2>2, <3>1
    <3>2. CASE t \in DOMAIN run
      BY <1>7, <1>9, <2>1, <3>2 DEF Writers, RunSound
    <3> QED
      BY <2>2, <3>1, <3>2
  <2> QED
    BY <1>9, <2>3, <2>4 DEF RunSound
<1> QED
  BY <1>6, <1>9, <1>10, <1>11, <1>12 DEF Writers

-----------------------------------------------------------------------------
(* The steps of a task *)

\* A task moves on and nothing is written.
LEMMA RunMoves ==
    ASSUME Handled, NEW t \in DOMAIN run,
           NEW pc \in {"agent", "status", "messages", "failed", "error", "rollback", "ended"},
           Goto(t, pc)
    PROVE  /\ run' = [u \in DOMAIN run' |-> run'[u]] /\ \A u \in DOMAIN run' : u \in Id /\ run'[u] \in RunStates
           /\ DOMAIN run' = DOMAIN run
           /\ \A u \in DOMAIN run : run'[u].msgs = run[u].msgs
           /\ \A u \in DOMAIN run : run'[u].pc = IF u = t THEN pc ELSE run[u].pc
BY DEF Handled, RunStates, Goto

\* A task's step that leaves the messages and the tasks alone.
LEMMA AnswerStep ==
    ASSUME HInv, NEW t \in DOMAIN run, UNCHANGED <<snd, proc, client>>,
           NEW pc \in {"status", "messages", "failed", "error", "rollback", "ended"},
           Goto(t, pc), pc = "status" => run[t].pc = "agent",
           OneSession(db'), OnlyTable(db, db', "agentMsgs"),
           OthersAnswers(db, db', IF run[t].pc = "agent" THEN t ELSE None)
    PROVE  WriterStep
<1>1. Handled /\ UNCHANGED <<snd, proc, client>>
  BY DEF HInv
<1>2. /\ run' = [u \in DOMAIN run' |-> run'[u]] /\ \A u \in DOMAIN run' : u \in Id /\ run'[u] \in RunStates
      /\ DOMAIN run' = DOMAIN run
      /\ \A u \in DOMAIN run : run'[u].msgs = run[u].msgs
      /\ \A u \in DOMAIN run : run'[u].pc = IF u = t THEN pc ELSE run[u].pc
  BY <1>1, RunMoves
<1>3. Handled'
  BY <1>1, <1>2 DEF Handled
<1>4. db'.userMsgs = db.userMsgs /\ db'.sessions = db.sessions /\ db'.tasks = db.tasks
  BY DEF OnlyTable, Tables
<1> SUFFICES ASSUME Live' PROVE Live /\ Keeps(db, db') /\ Writers'
  BY <1>3 DEF WriterStep
<1>5. Live
  BY <1>4 DEF Live, session_exists
<1>6. Writers
  BY <1>5 DEF HInv
<1>7. Keeps(db, db')
  <2>1. ASSUME NEW u \in DOMAIN db.tasks, db.tasks[u].status # "processing"
        PROVE  Where(db', "agentMsgs", "task", u) \subseteq Where(db, "agentMsgs", "task", u)
    <3>1. u \in Id /\ u # None
      BY <1>1, MessageRows
    <3>2. run[t].pc = "agent" => u # t
      BY <1>6, <2>1 DEF Writers, RunSound
    <3> QED
      BY <3>1, <3>2 DEF OthersAnswers
  <2> QED
    BY <1>4, <2>1 DEF Keeps
<1>8. Indexed'
  BY <1>1, <1>4, <1>5, <1>6, IndexedStays DEF Writers, Live
<1>9. MsgsSound' /\ ProcSound'
  BY <1>1, <1>2, <1>4, <1>6 DEF Writers, MsgsSound, ProcSound, Msgs, TaskOf, Waiting
<1>10. RunSound'
  BY <1>1, <1>2, <1>4, <1>6 DEF Writers, RunSound, Msgs, TaskOf
<1> QED
  BY <1>5, <1>7, <1>8, <1>9, <1>10 DEF Writers

\* The agent messages are inserted while the task is "processing".
LEMMA MessagesStep ==
    ASSUME HInv, NEW t \in DOMAIN run, RunMessages(t) PROVE WriterStep
<1>1. OneSession(db) /\ t \in Id /\ run[t].pc = "agent" /\ UNCHANGED <<snd, proc, client>>
  BY DEF HInv, Handled, RunMessages, At
<1>2. PICK n \in 0 .. MaxAnswers :
         LET r == insert_agent_messages_from_list(db, Answer(t, n))
         IN  /\ db' = r.db
             /\ Goto(t, IF r.ret = Failure THEN "failed" ELSE "status")
  BY DEF RunMessages
<1>3. PICK pc \in {"failed", "status"} : Goto(t, pc)
  BY <1>2
<1>4. n \in Nat
  BY <1>2, BoundsPositive
<1>5. OneSession(db') /\ OnlyTable(db, db', "agentMsgs") /\ OthersAnswers(db, db', t)
  BY <1>1, <1>2, <1>4, AnswersInserted
<1> QED
  BY <1>1, <1>3, <1>5, AnswerStep

\* A coroutine fails: no row is written.
LEMMA FailsStep ==
    ASSUME HInv, NEW t \in DOMAIN run, RunFails(t) PROVE WriterStep
<1>1. OneSession(db) /\ UNCHANGED <<db, snd, proc, client>> /\ Goto(t, "failed")
  BY DEF HInv, Handled, RunFails
<1>2. OneSession(db') /\ OnlyTable(db, db', "agentMsgs")
      /\ OthersAnswers(db, db', IF run[t].pc = "agent" THEN t ELSE None)
  BY <1>1 DEF OnlyTable, OthersAnswers
<1> QED
  BY <1>1, <1>2, AnswerStep

\* The roll back.
LEMMA RollBackStep ==
    ASSUME HInv, NEW t \in DOMAIN run, At(t, "rollback"), Goto(t, "ended"),
           db' = delete_agent_messages_by_session_task(db, t).db, UNCHANGED <<snd, proc, client>>
    PROVE  WriterStep
<1>1. OneSession(db) /\ run[t].pc = "rollback"
  BY DEF HInv, Handled, At
<1>2. OneSession(db') /\ OnlyTable(db, db', "agentMsgs") /\ OthersAnswers(db, db', None)
  BY <1>1, AnswersDeleted
<1> QED
  BY <1>1, <1>2, AnswerStep

\* A task's status is written when it is no longer working.
LEMMA TaskStatusStep ==
    ASSUME HInv, NEW t \in DOMAIN run, UNCHANGED <<snd, proc, client>>,
           NEW pc \in {"messages", "error"}, Goto(t, pc),
           NEW st \in {"completed", "failed"}, db' = update_task_status(db, t, st).db
    PROVE  WriterStep
<1>1. Handled /\ UNCHANGED <<snd, proc, client>>
  BY DEF HInv
<1>2. /\ run' = [u \in DOMAIN run' |-> run'[u]]
      /\ \A u \in DOMAIN run' : u \in Id /\ run'[u] \in RunStates
      /\ DOMAIN run' = DOMAIN run
      /\ \A u \in DOMAIN run : run'[u].msgs = run[u].msgs
      /\ \A u \in DOMAIN run : run'[u].pc = IF u = t THEN pc ELSE run[u].pc
  BY <1>1, RunMoves
<1>3. OneSession(db') /\ OnlyTable(db, db', "tasks") /\ Marked(db, db', "tasks", {t}, st)
  <2>1. db' = Change(db, "tasks", {t}, [status |-> st]).db
    BY AnyRowKeeps DEF update_task_status
  <2>2. st \in TaskStatus
    BY DEF TaskStatus
  <2> QED
    BY <1>1, <2>1, <2>2, StatusWritten DEF Handled
<1>4. Handled'
  BY <1>1, <1>2, <1>3 DEF Handled
<1>5. /\ db'.userMsgs = db.userMsgs /\ db'.sessions = db.sessions
      /\ db'.agentMsgs = db.agentMsgs
  BY <1>3 DEF OnlyTable, Tables
<1>6. /\ DOMAIN db'.tasks = DOMAIN db.tasks
      /\ \A u \in DOMAIN db.tasks :
            db'.tasks[u].status = IF u = t THEN st ELSE db.tasks[u].status
  BY <1>3 DEF Marked
<1> SUFFICES ASSUME Live' PROVE Live /\ Keeps(db, db') /\ Writers'
  BY <1>4 DEF WriterStep
<1>7. Live
  BY <1>5 DEF Live, session_exists
<1>8. Writers
  BY <1>7 DEF HInv
<1>9. Keeps(db, db')
  BY <1>5, <1>6 DEF Keeps, Where
<1>10. Indexed'
  BY <1>1, <1>5, <1>7, <1>8, IndexedStays DEF Writers, Live
<1>11. MsgsSound' /\ ProcSound'
  BY <1>1, <1>2, <1>5, <1>6, <1>8 DEF Writers, MsgsSound, ProcSound, Msgs, TaskOf, Waiting
<1>12. RunSound'
  <2>1. \A u \in DOMAIN run :
           /\ u \in DOMAIN db.tasks
           /\ run'[u].msgs # {} /\ run'[u].msgs \subseteq Msgs
           /\ \A i \in run'[u].msgs : TaskOf(i) = u
           /\ run'[u].pc \in {"agent", "status"} => db'.tasks[u].status = "processing"
    BY <1>2, <1>6, <1>8 DEF Writers, RunSound
  <2>2. \A u \in DOMAIN db.tasks : /\ u \in DOMAIN run \/ (proc.pc \in {"link", "mark"} /\ proc.task = u)
                                   /\ db'.tasks[u].status # "pending"
    BY <1>6, <1>8 DEF Writers, RunSound
  <2> QED
    BY <1>1, <1>2, <1>5, <1>6, <2>1, <2>2 DEF RunSound, Msgs, TaskOf
<1> QED
  BY <1>7, <1>9, <1>10, <1>11, <1>12 DEF Writers

\* A task's messages are given the status it ends with.
LEMMA TaskMessagesStep ==
    ASSUME HInv, NEW t \in DOMAIN run, UNCHANGED <<snd, proc, client>>,
           NEW pc \in {"ended", "rollback"}, Goto(t, pc),
           NEW st \in {"completed", "error"},
           db' = update_user_message_status_by_ids(db, run[t].msgs, st).db
    PROVE  WriterStep
<1>1. Handled /\ UNCHANGED <<snd, proc, client>>
  BY DEF HInv
<1>2. /\ run' = [u \in DOMAIN run' |-> run'[u]]
      /\ \A u \in DOMAIN run' : u \in Id /\ run'[u] \in RunStates
      /\ DOMAIN run' = DOMAIN run
      /\ \A u \in DOMAIN run : run'[u].msgs = run[u].msgs
      /\ \A u \in DOMAIN run : run'[u].pc = IF u = t THEN pc ELSE run[u].pc
  BY <1>1, RunMoves
<1>3. st \in UserMsgStatus \ {"waiting_agent_ack_user"}
  BY DEF UserMsgStatus
<1>4. OneSession(db') /\ OnlyTable(db, db', "userMsgs")
  <2>1. db' = Change(db, "userMsgs", run[t].msgs, [status |-> st]).db
    BY DEF update_user_message_status_by_ids
  <2> QED
    BY <1>1, <1>3, <2>1, StatusWritten DEF Handled
<1>5. Handled'
  BY <1>1, <1>2, <1>4 DEF Handled
<1> SUFFICES ASSUME Live' PROVE Live /\ Keeps(db, db') /\ Writers'
  BY <1>5 DEF WriterStep
<1>6. Live
  BY <1>4 DEF Live, session_exists, OnlyTable, Tables
<1>7. Writers
  BY <1>6 DEF HInv
<1>8. /\ Keeps(db, db') /\ Msgs' = Msgs
      /\ db'.tasks = db.tasks /\ db'.sessions = db.sessions
      /\ \A i \in Msgs : IndexOf(i)' = IndexOf(i) /\ TaskOf(i)' = TaskOf(i)
      /\ MsgsSound'
  <2>1. run[t].msgs \subseteq Msgs /\ \A i \in run[t].msgs : TaskOf(i) # None
    BY <1>1, <1>7, MessageRows DEF Writers, RunSound
  <2> QED
    BY <1>1, <1>3, <1>7, <2>1, MsgsMarked
<1>9. Indexed'
  BY <1>1, <1>6, <1>7, <1>8, IndexedStays DEF Writers, Live, Msgs, IndexOf
<1>10. ProcSound'
  BY <1>1, <1>2, <1>7, <1>8 DEF Writers, ProcSound
<1>11. RunSound'
  <2>1. \A u \in DOMAIN run :
           /\ u \in DOMAIN db.tasks
           /\ run'[u].msgs # {} /\ run'[u].msgs \subseteq Msgs
           /\ \A i \in run'[u].msgs : TaskOf(i)' = u
           /\ run'[u].pc \in {"agent", "status"} => db.tasks[u].status = "processing"
    BY <1>2, <1>7, <1>8 DEF Writers, RunSound
  <2>2. \A u \in DOMAIN db.tasks : /\ u \in DOMAIN run \/ (proc.pc \in {"link", "mark"} /\ proc.task = u)
                                   /\ db.tasks[u].status # "pending"
    BY <1>7 DEF Writers, RunSound
  <2> QED
    BY <1>1, <1>2, <1>8, <2>1, <2>2 DEF RunSound
<1> QED
  BY <1>6, <1>8, <1>9, <1>10, <1>11 DEF Writers

\* With the session everything is gone that the properties are about.
LEMMA DeleteStep == ASSUME HInv, DeleteSession PROVE WriterStep
<1>1. Handled /\ UNCHANGED <<snd, proc, run, client>> /\ db' = delete_session(db, Session).db
  BY DEF DeleteSession, HInv
<1>2. OneSession(db') /\ ~Live'
  BY <1>1, SessionDeleted DEF Handled, Live, session_exists
<1> QED
  BY <1>1, <1>2 DEF WriterStep, Handled

\* Every step of the writers.
LEMMA WritersStep ==
    ASSUME HInv,
           \/ \E s \in Senders : SendIndex(s) \/ SendInsert(s)
           \/ ProcCollect \/ ProcTask \/ ProcLink \/ ProcMark
           \/ \E t \in DOMAIN run : \/ RunMessages(t) \/ RunFails(t) \/ RunStatus(t)
                                    \/ RunAcknowledge(t) \/ RunFailed(t)
           \/ DeleteSession
    PROVE  HInv'
<1>1. ASSUME NEW s \in Senders, SendIndex(s) \/ SendInsert(s) PROVE HInv'
  BY <1>1, IndexStep, InsertStep, WriterStepIsSound DEF SendIndex, SendInsert
<1>2. CASE ProcCollect \/ ProcTask \/ ProcLink \/ ProcMark
  BY <1>2, CollectStep, TaskStep, LinkStep, MarkStep, WriterStepIsSound
     DEF ProcCollect, ProcTask, ProcLink, ProcMark
<1>3. ASSUME NEW t \in DOMAIN run, RunMessages(t) \/ RunFails(t) PROVE HInv'
  BY <1>3, MessagesStep, FailsStep, WriterStepIsSound DEF RunMessages, RunFails
<1>4. ASSUME NEW t \in DOMAIN run, RunStatus(t) PROVE HInv'
  BY <1>4, TaskStatusStep, WriterStepIsSound DEF RunStatus
<1>5. ASSUME NEW t \in DOMAIN run, RunAcknowledge(t) PROVE HInv'
  BY <1>5, TaskMessagesStep, WriterStepIsSound DEF RunAcknowledge
<1>6. ASSUME NEW t \in DOMAIN run, RunFailed(t) PROVE HInv'
  <2>1. CASE At(t, "failed")
    BY <1>6, <2>1, TaskStatusStep, WriterStepIsSound DEF RunFailed, At
  <2>2. CASE At(t, "error")
    BY <1>6, <2>2, TaskMessagesStep, WriterStepIsSound DEF RunFailed, At
  <2>3. CASE At(t, "rollback")
    BY <1>6, <2>3, RollBackStep, WriterStepIsSound DEF RunFailed, At
  <2> QED
    BY <1>6, <2>1, <2>2, <2>3 DEF RunFailed
<1>7. CASE DeleteSession
  BY <1>7, DeleteStep, WriterStepIsSound DEF DeleteSession
<1> QED
  BY <1>1, <1>2, <1>3, <1>4, <1>5, <1>6, <1>7

-----------------------------------------------------------------------------
(* The steps of the reader *)

\* A step that only the reader takes part in.
LEMMA ReaderStep ==
    ASSUME HInv, UNCHANGED <<db, snd, proc, run>>, client' \in ReaderStates,
           client'.pc = "groups" => IsFiniteSet(DOMAIN client'.page),
           Live => Reader'
    PROVE  HInv'
<1>1. Handled'
  BY DEF HInv, Handled
<1>2. Live' <=> Live
  BY DEF Live
<1>3. Live => Writers'
  BY DEF HInv, Writers, Indexed, MsgsSound, ProcSound, RunSound, Msgs, IndexOf, TaskOf,
     Reached, Waiting, InSequence
<1> QED
  BY <1>1, <1>2, <1>3 DEF HInv

\* The rows are the session's.
LEMMA RowsAreMine ==
    ASSUME Handled
    PROVE  /\ Where(db, "userMsgs", "session", Session) = Msgs
           /\ Where(db, "tasks", "session", Session) = DOMAIN db.tasks
<1>1. OneSession(db) /\ Session # None /\ {"userMsgs", "tasks"} \subseteq SessionTables
  BY NoneAndFailure DEF Handled, SessionTables, Session
<1>2. /\ \A i \in DOMAIN db.userMsgs : db.userMsgs[i].session = Session
      /\ \A t \in DOMAIN db.tasks : db.tasks[t].session = Session
  BY <1>1, RowsOfOne
<1> QED
  BY <1>1, <1>2 DEF Where, Msgs

\* With nothing read there is nothing to be wrong.
LEMMA IdleReader == ASSUME client' = Idle PROVE client' \in ReaderStates /\ client'.pc = "idle" /\ Reader'
BY DEF Reader, SettledSound, PageSound, PagingSound, OrderSound, Reading, Idle, ReaderStates

\* What the history is asked for.
LEMMA HistoryAsks ==
    ASSUME NEW n \in PageSize, NEW m \in Nat \cup {None}, NEW S \in SUBSET Id,
           NEW l \in Seq(Id), NEW h \in SUBSET Id
    PROVE  History(n, m, S, l, h) \in ReaderPages
BY DEF History, ReaderPages

\* The history is asked for from its newest message on.
LEMMA AskedFirst ==
    ASSUME NEW n \in PageSize, NEW S \in SUBSET Id, client' = History(n, None, S, <<>>, {}),
           UNCHANGED db, S # {} => n = None,
           Live => \A t \in S : t \in DOMAIN db.tasks /\ db.tasks[t].status # "processing"
    PROVE  client' \in ReaderStates /\ client'.pc = "page" /\ (Live => Reader')
<1>1. client' = [pc |-> "page", limit |-> n, max |-> None, settled |-> S, seen |-> <<>>, had |-> {}]
  BY DEF History
<1>2. client' \in ReaderPages
  <2>1. <<>> \in Seq(Id) /\ {} \in SUBSET Id /\ None \in Nat \cup {None}
    OBVIOUS
  <2> QED
    BY <2>1, HistoryAsks
<1>3. ASSUME Live PROVE Reader'
  BY <1>1, <1>3 DEF Reader, SettledSound, PageSound, PagingSound, OrderSound, Reading
<1> QED
  BY <1>1, <1>2, <1>3 DEF ReaderStates

\* The client asks for the pending tasks: it has all the tasks there are.
LEMMA PendingStep == ASSUME HInv, ActivePending PROVE HInv'
<1>1. Handled /\ UNCHANGED <<db, snd, proc, run>>
  BY DEF ActivePending, HInv
<1> PICK S : S = DOMAIN db.tasks
  OBVIOUS
<1> PICK A : A = get_tasks_by_session_and_status(db, Session, "pending")
  OBVIOUS
<1>2. client' = [pc |-> "active", tasks |-> S, active |-> A]
  BY <1>1, RowsAreMine DEF ActivePending
<1>3. S \subseteq Id /\ A \subseteq S
  BY <1>1, MessageRows, RowsAreMine DEF get_tasks_by_session_and_status
<1>4. client' \in ReaderStates
  BY <1>2, <1>3 DEF ReaderStates
<1>5. Reader'
  BY <1>1, <1>2 DEF Reader, SettledSound, PageSound, PagingSound, OrderSound, Reading
<1> QED
  BY <1>1, <1>2, <1>4, <1>5, ReaderStep

\* It is told of the processing ones, or that no task is active.
LEMMA ProcessingStep == ASSUME HInv, ActiveProcessing PROVE HInv'
<1> PICK B : B = get_tasks_by_session_and_status(db, Session, "processing")
  OBVIOUS
<1> PICK S : S = client.tasks
  OBVIOUS
<1>1. Handled /\ UNCHANGED <<db, snd, proc, run>> /\ client.pc = "active" /\ S \subseteq Id
  BY ReaderIs DEF ActiveProcessing, HInv
<1>2. CASE client' = Idle
  BY <1>1, <1>2, IdleReader, ReaderStep
<1>3. CASE B = {} /\ client' = History(None, None, S, <<>>, {})
  <2>1. ASSUME Live, NEW t \in S PROVE t \in DOMAIN db.tasks /\ db.tasks[t].status # "processing"
    <3>1. t \in DOMAIN db.tasks
      BY <1>1, <2>1 DEF HInv, Reader, SettledSound
    <3>2. t \notin Where(db, "tasks", "status", "processing") => db.tasks[t].status # "processing"
      BY <3>1, NullIsNoStatus DEF Where, TaskStatus
    <3> QED
      <4>1. t \notin Where(db, "tasks", "status", "processing")
        BY <1>1, <1>3, <3>1, RowsAreMine DEF get_tasks_by_session_and_status
      <4> QED
        BY <3>1, <3>2, <4>1
  <2>2. None \in PageSize
    BY DEF PageSize
  <2> QED
    BY <1>1, <1>3, <2>1, <2>2, AskedFirst, ReaderStep
<1> QED
  BY <1>2, <1>3 DEF ActiveProcessing

\* A client begins to page back.
LEMMA NewestStep == ASSUME HInv, NEW n \in Limits, AskNewest(n) PROVE HInv'
<1>1. UNCHANGED <<db, snd, proc, run>> /\ n \in PageSize /\ client' = History(n, None, {}, <<>>, {})
  BY DEF AskNewest, PageSize
<1> QED
  BY <1>1, AskedFirst, ReaderStep

\* A client has its answer.
LEMMA LeaveStep == ASSUME HInv, Leave PROVE HInv'
BY IdleReader, ReaderStep DEF Leave

-----------------------------------------------------------------------------
(* A page of the history *)

\* What a request that selects P knows of the messages: the page is finite,
\* no message that is not in it lies between those that are, and it is empty
\* only when there is no message to ask for.
LEMMA PageRows ==
    ASSUME Handled, client.pc = "page", NEW P \in Selected
    PROVE  /\ P \subseteq Msgs /\ IsFiniteSet(P)
           /\ client.limit = None => P = Msgs
           /\ client.limit # None /\ client.max # None => \A i \in P : IndexOf(i) < client.max
           /\ \A i \in P, j \in Msgs \ P :
                 client.max = None \/ IndexOf(j) < client.max => IndexOf(j) <= IndexOf(i)
           /\ P = {} => \A j \in Msgs : client.max # None /\ ~ IndexOf(j) < client.max
<1> PICK key : key = Column(db, "userMsgs", "seq_index")
  OBVIOUS
<1>1. \A i \in Msgs : key[i] = IndexOf(i) /\ IndexOf(i) \in Nat
  BY MessageRows DEF Column, Msgs, IndexOf
<1>2. \A S \in SUBSET Msgs : IsFiniteSet(S)
  BY MessageRows, FewRows DEF Tables, Msgs
<1>3. client.limit \in Limits \cup {None} /\ Limits \subseteq Nat \ {0}
  BY ReaderIs, BoundsPositive DEF Reading, PageSize
<1>4. CASE client.limit = None
  <2>1. P = Msgs
    BY <1>4, RowsAreMine DEF Selected
  <2> QED
    BY <1>2, <1>4, <2>1
<1>5. CASE client.limit # None /\ client.max = None
  <2>1. P \in Pages(Msgs, key, client.limit)
    BY <1>5, RowsAreMine DEF Selected, get_user_messages_by_session_with_limit
  <2>2. P = {} => Msgs = {}
    <3>1. client.limit \in Nat \ {0}
      BY <1>3, <1>5
    <3>2. Cardinality({}) = 0
      BY FS_EmptySet
    <3> QED
      BY <2>1, <3>1, <3>2 DEF Pages
  <2> QED
    BY <1>1, <1>2, <1>5, <2>1, <2>2 DEF Pages
<1>6. CASE client.limit # None /\ client.max # None
  <2> PICK S : S = {i \in Msgs : IndexOf(i) < client.max}
    OBVIOUS
  <2>1. P \in Pages(S, key, client.limit)
    BY <1>6, RowsAreMine DEF Selected, get_user_messages_by_session_with_limit_and_seq_index,
       Msgs, IndexOf
  <2>2. P = {} => S = {}
    <3>1. client.limit \in Nat \ {0}
      BY <1>3, <1>6
    <3>2. Cardinality({}) = 0
      BY FS_EmptySet
    <3> QED
      BY <2>1, <3>1, <3>2 DEF Pages
  <2> QED
    BY <1>1, <1>2, <1>6, <2>1, <2>2 DEF Pages
<1> QED
  BY <1>4, <1>5, <1>6

\* The index a task is placed by is that of its last message in the page.
LEMMA LastOfTask ==
    ASSUME NEW page, IsFiniteSet(DOMAIN page), \A i \in DOMAIN page : page[i].seq_index \in Nat,
           NEW t \in Groups(page)
    PROVE  \E g \in Group(page, t) :
              /\ task_max_seq_index(page)[t] = page[g].seq_index
              /\ \A i \in Group(page, t) : page[i].seq_index <= page[g].seq_index
<1> PICK G : G = Group(page, t)
  OBVIOUS
<1>1. G # {} /\ G \subseteq DOMAIN page /\ IsFiniteSet(G)
  BY FS_Subset DEF Groups, Group
<1> DEFINE key == [i \in G |-> page[i].seq_index]
           seqs == {page[i].seq_index : i \in G}
           m == CHOOSE n \in seqs : \A i \in G : page[i].seq_index <= n
<1>2. \A i \in G : key[i] \in Nat
  BY <1>1
<1>3. PICK g \in G : \A i \in G : key[i] <= key[g]
  <2> HIDE DEF key
  <2> QED
    BY <1>1, <1>2, SomeGreatest
<1>4. m \in seqs /\ \A i \in G : page[i].seq_index <= m
  <2>1. page[g].seq_index \in seqs /\ \A i \in G : page[i].seq_index <= page[g].seq_index
    BY <1>3
  <2> QED
    BY <2>1
<1>5. task_max_seq_index(page)[t] = m
  BY DEF task_max_seq_index
<1> HIDE DEF m
<1> QED
  BY <1>4, <1>5

\* A function on 1 .. n is a list.
LEMMA ListIsSeq == ASSUME NEW S, NEW n \in Nat, NEW l \in [1 .. n -> S] PROVE l \in Seq(S)
BY IsASeq

\* One list after the other.
LEMMA Joined ==
    ASSUME NEW S, NEW s \in Seq(S), NEW t \in Seq(S), NEW st, st = s \o t
    PROVE  /\ st \in Seq(S) /\ Len(s) \in Nat /\ Len(t) \in Nat
           /\ DOMAIN s = 1 .. Len(s) /\ DOMAIN t = 1 .. Len(t)
           /\ DOMAIN st = 1 .. Len(s) + Len(t)
           /\ \A i \in 1 .. Len(s) : st[i] = s[i]
           /\ \A i \in 1 .. Len(t) : st[Len(s) + i] = t[i]
<1>1. Len(s) \in Nat /\ Len(t) \in Nat /\ DOMAIN s = 1 .. Len(s) /\ DOMAIN t = 1 .. Len(t)
  BY LenProperties
<1>2. /\ st \in Seq(S) /\ Len(st) = Len(s) + Len(t)
      /\ \A i \in 1 .. Len(s) + Len(t) : st[i] = IF i <= Len(s) THEN s[i] ELSE t[i - Len(s)]
  BY ConcatProperties
<1>3. DOMAIN st = 1 .. Len(st)
  BY <1>2, LenProperties
<1>4. ASSUME NEW i \in 1 .. Len(t) PROVE st[Len(s) + i] = t[i]
  <2>1. Len(s) + i \in 1 .. Len(s) + Len(t) /\ ~ Len(s) + i <= Len(s) /\ (Len(s) + i) - Len(s) = i
    BY <1>1
  <2> QED
    BY <1>2, <2>1
<1> QED
  BY <1>1, <1>2, <1>3, <1>4

\* The order in which the groups of a page are answered.
Order(page, l) == l \o IF None \in Groups(page) THEN <<None>> ELSE <<>>

\* Each group has its turn once: the tasks by their last message, then the
\* messages of no task.
LEMMA GroupsInTurn ==
    ASSUME NEW page, IsFiniteSet(DOMAIN page), \A i \in DOMAIN page : page[i] \in PageRow,
           NEW l \in sorted_session_task_ids(page), NEW todo, todo = Order(page, l)
    PROVE  /\ todo \in Seq(Id \cup {None}) /\ Distinct(todo)
           /\ \A t : Listed(t, todo) <=> t \in Groups(page)
           /\ \A a, b \in DOMAIN todo : a < b =>
                 /\ todo[a] # None
                 /\ todo[b] # None =>
                       task_max_seq_index(page)[todo[a]] <= task_max_seq_index(page)[todo[b]]
<1> PICK T : T = Groups(page) \ {None}
  OBVIOUS
<1>1. T \subseteq Id /\ IsFiniteSet(T) /\ None \notin T
  <2>1. Groups(page) \subseteq Id \cup {None}
    BY DEF Groups, PageRow
  <2>2. IsFiniteSet({page[i].task : i \in DOMAIN page})
    <3> DEFINE G == {page[i].task : i \in DOMAIN page}
               f == [i \in DOMAIN page |-> page[i].task]
    <3>1. f \in Surjection(DOMAIN page, G)
      BY DEF Surjection
    <3> HIDE DEF f, G
    <3>2. IsFiniteSet(G)
      BY <3>1, FS_Surjection
    <3> QED
      BY <3>2 DEF G
  <2> QED
    BY <2>1, <2>2, FS_Subset DEF Groups
<1> PICK n : n = Cardinality(T)
  OBVIOUS
<1>2. /\ n \in Nat /\ DOMAIN l = 1 .. n /\ Len(l) = n
      /\ \A k \in 1 .. n : l[k] \in T
      /\ \A x \in T : \E k \in 1 .. n : l[k] = x
      /\ \A i, j \in 1 .. n : i # j => l[i] # l[j]
      /\ \A i, j \in 1 .. n : i < j => task_max_seq_index(page)[l[i]] <= task_max_seq_index(page)[l[j]]
  <2>1. l \in Sorted(T, task_max_seq_index(page))
    BY DEF sorted_session_task_ids
  <2>2. Lists(l, T, n) /\ \A i, j \in DOMAIN l : i < j => task_max_seq_index(page)[l[i]] <= task_max_seq_index(page)[l[j]]
    BY <1>1, <2>1, SortedLists
  <2> QED
    BY <2>2 DEF Lists
<1>3. l \in Seq(Id \cup {None})
  <2>1. l \in SetToSeqs(T)
    BY DEF sorted_session_task_ids, Sorted
  <2>2. l \in [1 .. n -> T]
    BY <2>1 DEF SetToSeqs
  <2>3. l \in [1 .. n -> Id \cup {None}]
    BY <1>1, <2>2
  <2> QED
    BY <1>2, <2>3, ListIsSeq
<1>4. CASE None \notin Groups(page)
  <2>1. todo = l
    BY <1>3, <1>4, ConcatEmptySeq DEF Order
  <2> QED
    BY <1>1, <1>2, <1>3, <1>4, <2>1 DEF Distinct, Listed
<1>5. CASE None \in Groups(page)
  <2>1. todo = l \o <<None>> /\ <<None>> \in Seq(Id \cup {None})
    BY <1>5 DEF Order
  <2>2. /\ todo \in Seq(Id \cup {None}) /\ DOMAIN todo = 1 .. n + 1
        /\ \A k \in 1 .. n : todo[k] = l[k]
        /\ todo[n + 1] = None
    <3> PICK last : last = <<None>>
      OBVIOUS
    <3>1. Len(last) = 1 /\ last[1] = None
      OBVIOUS
    <3>2. /\ todo \in Seq(Id \cup {None}) /\ DOMAIN todo = 1 .. Len(l) + Len(last)
          /\ \A i \in 1 .. Len(l) : todo[i] = l[i]
          /\ \A i \in 1 .. Len(last) : todo[Len(l) + i] = last[i]
      BY <1>3, <2>1, Joined
    <3>3. todo[Len(l) + 1] = last[1] /\ DOMAIN todo = 1 .. Len(l) + 1
      BY <3>1, <3>2
    <3>4. Len(l) = n
      BY <1>2
    <3> QED
      BY <3>1, <3>2, <3>3, <3>4
  <2>3. \A k \in 1 .. n : todo[k] \in T
    BY <1>2, <2>2
  <2>4. Distinct(todo)
    <3> SUFFICES ASSUME NEW i \in 1 .. n + 1, NEW j \in 1 .. n + 1, todo[i] = todo[j] PROVE i = j
      BY <2>2 DEF Distinct
    <3>1. (i \in 1 .. n \/ i = n + 1) /\ (j \in 1 .. n \/ j = n + 1)
      BY <1>2
    <3>2. \A k \in 1 .. n : todo[k] # None
      BY <1>1, <2>3
    <3>3. i \in 1 .. n /\ j \in 1 .. n => i = j
      BY <1>2, <2>2
    <3> QED
      BY <2>2, <3>1, <3>2, <3>3
  <2>5. ASSUME NEW t PROVE Listed(t, todo) <=> t \in Groups(page)
    <3>1. ASSUME Listed(t, todo) PROVE t \in Groups(page)
      <4>1. PICK k \in 1 .. n + 1 : todo[k] = t
        BY <2>2, <3>1 DEF Listed
      <4>2. k \in 1 .. n \/ k = n + 1
        BY <1>2
      <4> QED
        BY <1>5, <2>2, <2>3, <4>1, <4>2
    <3>2. ASSUME t \in T PROVE Listed(t, todo)
      <4>1. PICK k \in 1 .. n : l[k] = t
        BY <1>2, <3>2
      <4>2. k \in 1 .. n + 1
        BY <1>2
      <4> QED
        BY <2>2, <4>1, <4>2 DEF Listed
    <3>3. Listed(None, todo)
      <4>1. n + 1 \in DOMAIN todo
        BY <1>2, <2>2
      <4> QED
        BY <2>2, <4>1 DEF Listed
    <3> QED
      BY <3>1, <3>2, <3>3
  <2>6. ASSUME NEW a \in DOMAIN todo, NEW b \in DOMAIN todo, a < b
        PROVE  /\ todo[a] # None
               /\ todo[b] # None =>
                     task_max_seq_index(page)[todo[a]] <= task_max_seq_index(page)[todo[b]]
    <3>1. a \in 1 .. n /\ (b \in 1 .. n \/ b = n + 1)
      BY <1>2, <2>2, <2>6
    <3> QED
      BY <1>1, <1>2, <2>2, <2>3, <2>6, <3>1
  <2> QED
    BY <2>2, <2>4, <2>5, <2>6
<1> QED
  BY <1>4, <1>5

\* The messages of one group all come before those of the next.
LEMMA GroupsFollow ==
    ASSUME Handled, Writers, InSequence, NEW page, IsFiniteSet(DOMAIN page), DOMAIN page \subseteq Msgs,
           \A i \in DOMAIN page : page[i].task = TaskOf(i) /\ page[i].seq_index = IndexOf(i),
           NEW t \in Groups(page), NEW u \in Groups(page), t # u, t # None,
           u # None => task_max_seq_index(page)[t] <= task_max_seq_index(page)[u],
           NEW i \in Group(page, t), NEW j \in Group(page, u)
    PROVE  page[i].seq_index < page[j].seq_index
<1>1. /\ i \in Msgs /\ j \in Msgs /\ TaskOf(i) = t /\ TaskOf(j) = u
      /\ page[i].seq_index = IndexOf(i) /\ page[j].seq_index = IndexOf(j)
  BY DEF Group
<1>2. t \in Id /\ (u \in Id \/ u = None)
  BY <1>1, MessageRows
<1>3. \A m, n \in Msgs : m < n => IndexOf(m) < IndexOf(n)
  BY DEF Writers, Indexed
<1>4. CASE u = None
  BY <1>1, <1>3, <1>4 DEF Writers, MsgsSound
<1>5. CASE u # None
  <2>1. \A n \in DOMAIN page : page[n].seq_index \in Nat
    BY MessageRows
  <2>2. PICK g \in Group(page, t) : task_max_seq_index(page)[t] = page[g].seq_index
    BY <2>1, LastOfTask
  <2>3. PICK h \in Group(page, u) : task_max_seq_index(page)[u] = page[h].seq_index
    BY <2>1, LastOfTask
  <2>4. /\ g \in Msgs /\ h \in Msgs /\ TaskOf(g) = t /\ TaskOf(h) = u
        /\ page[g].seq_index = IndexOf(g) /\ page[h].seq_index = IndexOf(h)
        /\ IndexOf(g) \in Nat /\ IndexOf(h) \in Nat
    BY MessageRows DEF Group
  <2>5. IndexOf(g) <= IndexOf(h)
    BY <1>5, <2>2, <2>3, <2>4
  <2>6. ~ u < t
    <3> SUFFICES ASSUME u < t PROVE FALSE
      OBVIOUS
    <3>1. h < g
      BY <1>2, <1>5, <2>4 DEF Writers, MsgsSound
    <3>2. IndexOf(h) < IndexOf(g)
      BY <1>3, <2>4, <3>1
    <3> QED
      BY <2>4, <2>5, <3>2
  <2>7. t < u
    BY <1>2, <1>5, <2>6 DEF Id
  <2> QED
    BY <1>1, <1>2, <1>3, <1>5, <2>7 DEF Writers, MsgsSound
<1> QED
  BY <1>4, <1>5

\* A page is read, and the groups to answer are put in order.
LEMMA PageStep == ASSUME HInv, HistoryPage PROVE HInv'
<1>1. Handled /\ UNCHANGED <<db, snd, proc, run>> /\ client.pc = "page"
  BY DEF HistoryPage, HInv
<1> PICK had : had = IF client.limit # None /\ client.max = None
                     THEN Where(db, "userMsgs", "session", Session) ELSE client.had
  OBVIOUS
<1> DEFINE PageOf(P) == [i \in P |-> [task |-> db.userMsgs[i].task,
                                     seq_index |-> db.userMsgs[i].seq_index]]
           Shown(page, todo) ==
              [pc |-> "groups", limit |-> client.limit, max |-> client.max,
               settled |-> client.settled, seen |-> client.seen, had |-> had,
               page |-> page, items |-> <<>>, todo |-> todo]
<1>20. PICK P \in Selected : \E order \in sorted_session_task_ids(PageOf(P)) :
                                client' = Shown(PageOf(P), Order(PageOf(P), order))
  BY DEF HistoryPage, Order
<1> PICK page : page = PageOf(P)
  OBVIOUS
<1>21. PICK order \in sorted_session_task_ids(page) : client' = Shown(page, Order(page, order))
  BY <1>20
<1> PICK todo : todo = Order(page, order)
  OBVIOUS
<1>2. /\ page = [i \in P |-> [task |-> db.userMsgs[i].task, seq_index |-> db.userMsgs[i].seq_index]]
      /\ client' = [pc |-> "groups", limit |-> client.limit, max |-> client.max,
                    settled |-> client.settled, seen |-> client.seen, had |-> had,
                    page |-> page, items |-> <<>>, todo |-> todo]
  BY <1>21
<1> HIDE DEF PageOf, Shown
<1>3. /\ P \subseteq Msgs /\ IsFiniteSet(P)
      /\ client.limit = None => P = Msgs
      /\ client.limit # None /\ client.max # None => \A i \in P : IndexOf(i) < client.max
      /\ \A i \in P, j \in Msgs \ P :
            client.max = None \/ IndexOf(j) < client.max => IndexOf(j) <= IndexOf(i)
      /\ P = {} => \A j \in Msgs : client.max # None /\ ~ IndexOf(j) < client.max
  BY <1>1, PageRows
<1>4. /\ DOMAIN page = P /\ page \in [P -> PageRow]
      /\ \A i \in P : page[i] \in PageRow /\ page[i].task = TaskOf(i) /\ page[i].seq_index = IndexOf(i)
  <2>1. \A i \in P : db.userMsgs[i].task \in Id \cup {None} /\ db.userMsgs[i].seq_index \in Nat
    BY <1>1, <1>3, MessageRows DEF TaskOf, IndexOf
  <2> QED
    BY <1>2, <2>1 DEF PageRow, TaskOf, IndexOf
<1>5. /\ todo \in Seq(Id \cup {None}) /\ Distinct(todo)
      /\ \A t : Listed(t, todo) <=> t \in Groups(page)
      /\ \A a, b \in DOMAIN todo : a < b =>
            /\ todo[a] # None
            /\ todo[b] # None =>
                  task_max_seq_index(page)[todo[a]] <= task_max_seq_index(page)[todo[b]]
  BY <1>3, <1>4, GroupsInTurn
<1>6. had \subseteq Id /\ client.had \subseteq Id
  BY <1>1, ReaderIs, RowsAreMine, MessageRows DEF Reading
<1>7. client' \in ReaderStates
  <2>1. P \in SUBSET Id
    BY <1>1, <1>3, MessageRows
  <2>2. page \in UNION {[Q -> PageRow] : Q \in SUBSET Id}
    BY <1>4, <2>1
  <2>3. <<>> \in Seq(Item) /\ client \in ReaderPages
    BY <1>1, ReaderIs
  <2>4. client' \in ReaderGroups
    BY <1>2, <1>5, <1>6, <2>2, <2>3 DEF ReaderGroups, ReaderPages
  <2> QED
    BY <2>4 DEF ReaderStates
<1>8. client'.pc = "groups" /\ IsFiniteSet(DOMAIN client'.page)
  BY <1>2, <1>3, <1>4
<1> SUFFICES ASSUME Live PROVE Reader'
  BY <1>1, <1>7, <1>8, ReaderStep
<1>9. Writers /\ Reader
  BY DEF HInv
<1>10. Msgs' = Msgs /\ (\A i : IndexOf(i)' = IndexOf(i)) /\ InSequence' = InSequence
  BY <1>1 DEF Msgs, IndexOf, InSequence
<1>11. SettledSound'
  <2>1. ASSUME NEW t \in client.settled
        PROVE  t \in DOMAIN db.tasks /\ db.tasks[t].status # "processing" /\ Listed(t, todo)
    <3>1. /\ client.limit = None /\ t \in DOMAIN db.tasks /\ db.tasks[t].status # "processing"
      BY <1>1, <1>9, <2>1 DEF Reader, SettledSound, Reading
    <3>2. t \in DOMAIN run
      BY <1>9, <3>1 DEF Writers, RunSound, ProcSound
    <3>3. PICK i \in run[t].msgs : i \in Msgs /\ TaskOf(i) = t
      BY <1>9, <3>2 DEF Writers, RunSound
    <3>4. t \in Groups(page)
      BY <1>3, <1>4, <3>1, <3>3 DEF Groups
    <3> QED
      BY <1>5, <3>1, <3>4
  <2>2. /\ client.settled # {} => client.limit = None
        /\ client.limit = None => client.max = None
    BY <1>1, <1>9 DEF Reader, SettledSound, Reading
  <2> QED
    BY <1>1, <1>2, <2>1, <2>2 DEF SettledSound, Listed
<1>12. PageSound'
  BY <1>2, <1>3, <1>4, <1>10 DEF PageSound
<1>13. PagingSound'
  <2>1. \A k \in DOMAIN client.seen : client.seen[k] \in Msgs
    BY <1>1, <1>9 DEF Reader, PagingSound, Reading
  <2>2. had \subseteq Msgs
    BY <1>1, <1>9, RowsAreMine DEF Reader, PagingSound, Reading
  <2>3. client.max = None => client.seen = <<>> /\ \A i : ~ Listed(i, client.seen)
    BY <1>1, <1>9 DEF Reader, PagingSound, Listed
  <2>4. client.max # None /\ InSequence =>
           /\ Distinct(client.seen)
           /\ \A i \in Msgs : Listed(i, client.seen) => IndexOf(i) >= client.max
           /\ \A i \in client.had : Listed(i, client.seen) \/ IndexOf(i) < client.max
    BY <1>1, <1>9 DEF Reader, PagingSound
  <2>5. InSequence => Distinct(client.seen)
    BY <2>3, <2>4 DEF Distinct
  <2>6. client.limit = None => client.max = None
    BY <1>1, <1>9 DEF Reader, SettledSound, Reading
  <2>7. client.max \in Nat \cup {None} /\ (\A i \in Msgs : IndexOf(i) \in Nat)
    BY <1>1, ReaderIs, MessageRows DEF Reading
  <2>8. ASSUME InSequence, NEW i \in Msgs, Listed(i, client.seen)
        PROVE  i \notin P /\ \A j \in P : IndexOf(j) < IndexOf(i)
    <3>1. client.max # None /\ client.limit # None
      BY <2>3, <2>6, <2>8
    <3>2. IndexOf(i) >= client.max /\ client.max \in Nat /\ IndexOf(i) \in Nat
      BY <2>4, <2>7, <2>8, <3>1
    <3>3. \A j \in P : IndexOf(j) < client.max /\ IndexOf(j) \in Nat
      BY <1>3, <2>7, <3>1
    <3> QED
      BY <3>2, <3>3
  <2>9. \A i \in P : Listed(page[i].task, todo)
    BY <1>4, <1>5 DEF Groups
  <2>10. ASSUME InSequence, client.limit # None, NEW i \in had,
                ~ Listed(i, client.seen), i \notin P
         PROVE  P # {} /\ \A j \in P : IndexOf(i) < IndexOf(j)
    <3>1. i \in Msgs /\ (client.max = None \/ IndexOf(i) < client.max)
      <4>1. CASE client.max = None
        BY <2>2, <2>10, <4>1
      <4>2. CASE client.max # None
        BY <2>2, <2>4, <2>10, <4>2
      <4> QED
        BY <4>1, <4>2
    <3>2. P # {} /\ \A j \in P : IndexOf(i) <= IndexOf(j)
      BY <1>3, <2>10, <3>1
    <3>3. \A j \in P : IndexOf(i) # IndexOf(j)
      BY <1>3, <2>10, <3>1 DEF InSequence, Msgs, IndexOf
    <3> QED
      <4>1. \A j \in P : IndexOf(j) \in Nat /\ IndexOf(i) \in Nat
        BY <1>3, <2>7, <3>1
      <4> QED
        BY <3>2, <3>3, <4>1
  <2> PICK seen : seen = client.seen
    OBVIOUS
  <2>11. /\ client'.pc = "groups" /\ client'.seen = seen /\ client'.had = had
         /\ client'.todo = todo /\ client'.page = page /\ client'.limit = client.limit
    BY <1>2
  <2> QED
    BY <1>4, <1>5, <1>10, <2>1, <2>2, <2>5, <2>8, <2>9, <2>10, <2>11 DEF PagingSound, Reading
<1>14. OrderSound'
  <2> SUFFICES ASSUME InSequence, NEW a \in DOMAIN todo, NEW b \in DOMAIN todo, a < b,
                      NEW i \in Group(page, todo[a]), NEW j \in Group(page, todo[b])
               PROVE  page[i].seq_index < page[j].seq_index
    <3>1. /\ client'.pc = "groups" /\ client'.items = <<>> /\ client'.page = page /\ client'.todo = todo
      BY <1>2
    <3> QED
      BY <1>10, <3>1 DEF OrderSound, Ordered
  <2>1. todo[a] \in Groups(page) /\ todo[b] \in Groups(page) /\ todo[a] # todo[b]
    <3>1. a # b
      BY <1>5, LenProperties
    <3> QED
      BY <1>5, <3>1 DEF Listed, Distinct
  <2> QED
    BY <1>1, <1>3, <1>4, <1>5, <1>9, <2>1, GroupsFollow
<1> QED
  BY <1>11, <1>12, <1>13, <1>14 DEF Reader

-----------------------------------------------------------------------------
(* A group of the history *)

\* Intervals from 1 are equal when their ends are.
LEMMA SameLength == ASSUME NEW n \in Nat, NEW m \in Nat, 1 .. n = 1 .. m PROVE n = m
<1>1. CASE n < m
  <2>1. m \in 1 .. m /\ m \notin 1 .. n
    BY <1>1
  <2> QED
    BY <2>1
<1>2. CASE m < n
  <2>1. n \in 1 .. n /\ n \notin 1 .. m
    BY <1>2
  <2> QED
    BY <2>1
<1> QED
  BY <1>1, <1>2

\* What one list after the other lists.
LEMMA JoinedLists ==
    ASSUME NEW S, NEW s \in Seq(S), NEW t \in Seq(S), NEW st, st = s \o t
    PROVE  /\ \A x : Listed(x, st) <=> Listed(x, s) \/ Listed(x, t)
           /\ Distinct(s) /\ Distinct(t) /\ (\A x : ~ (Listed(x, s) /\ Listed(x, t))) => Distinct(st)
<1> PICK n : n = Len(s)
  OBVIOUS
<1> PICK m : m = Len(t)
  OBVIOUS
<1>1. /\ n \in Nat /\ m \in Nat /\ DOMAIN s = 1 .. n /\ DOMAIN t = 1 .. m /\ DOMAIN st = 1 .. n + m
      /\ \A i \in 1 .. n : st[i] = s[i]
      /\ \A i \in 1 .. m : st[n + i] = t[i]
  BY Joined
<1>2. \A k \in 1 .. n + m : k \in 1 .. n \/ \E q \in 1 .. m : k = n + q
  <2> SUFFICES ASSUME NEW k \in 1 .. n + m, k \notin 1 .. n PROVE \E q \in 1 .. m : k = n + q
    OBVIOUS
  <2>1. k - n \in 1 .. m /\ k = n + (k - n)
    BY <1>1
  <2> QED
    BY <2>1
<1>3. \A k \in 1 .. n + m : \/ k \in 1 .. n /\ st[k] = s[k]
                            \/ \E q \in 1 .. m : k = n + q /\ st[k] = t[q]
  BY <1>1, <1>2
<1>4. \A q \in 1 .. m : n + q \in DOMAIN st /\ st[n + q] = t[q]
  BY <1>1
<1>5. \A k \in 1 .. n : k \in DOMAIN st /\ st[k] = s[k]
  BY <1>1
<1>6. ASSUME NEW x PROVE Listed(x, st) <=> Listed(x, s) \/ Listed(x, t)
  <2>1. ASSUME Listed(x, st) PROVE Listed(x, s) \/ Listed(x, t)
    <3>1. PICK k \in 1 .. n + m : st[k] = x
      BY <1>1, <2>1 DEF Listed
    <3> QED
      BY <1>1, <1>3, <3>1 DEF Listed
  <2>2. ASSUME Listed(x, s) PROVE Listed(x, st)
    <3>1. PICK k \in 1 .. n : s[k] = x
      BY <1>1, <2>2 DEF Listed
    <3> QED
      BY <1>5, <3>1 DEF Listed
  <2>3. ASSUME Listed(x, t) PROVE Listed(x, st)
    <3>1. PICK q \in 1 .. m : t[q] = x
      BY <1>1, <2>3 DEF Listed
    <3>2. n + q \in DOMAIN st /\ st[n + q] = x
      BY <1>4, <3>1
    <3> QED
      BY <3>2 DEF Listed
  <2> QED
    BY <2>1, <2>2, <2>3
<1>7. ASSUME Distinct(s), Distinct(t), \A x : ~ (Listed(x, s) /\ Listed(x, t)),
             NEW i \in 1 .. n + m, NEW j \in 1 .. n + m, st[i] = st[j]
      PROVE  i = j
  <2>1. CASE i \in 1 .. n /\ st[i] = s[i]
    <3>1. ~ Listed(st[i], t)
      BY <1>1, <1>7, <2>1 DEF Listed
    <3>2. \A q \in 1 .. m : t[q] # st[j]
      BY <1>1, <1>7, <3>1 DEF Listed
    <3>3. j \in 1 .. n /\ st[j] = s[j]
      BY <1>3, <3>2
    <3> QED
      BY <1>1, <1>7, <2>1, <3>3 DEF Distinct
  <2>2. ASSUME NEW q \in 1 .. m, i = n + q, st[i] = t[q] PROVE i = j
    <3>1. ~ Listed(st[i], s)
      BY <1>1, <1>7, <2>2 DEF Listed
    <3>2. \A k \in 1 .. n : s[k] # st[j]
      BY <1>1, <1>7, <3>1 DEF Listed
    <3>3. PICK r \in 1 .. m : j = n + r /\ st[j] = t[r]
      BY <1>3, <3>2
    <3>4. q = r
      BY <1>1, <1>7, <2>2, <3>3 DEF Distinct
    <3> QED
      BY <2>2, <3>3, <3>4
  <2> QED
    BY <1>3, <2>1, <2>2
<1> QED
  BY <1>1, <1>6, <1>7 DEF Distinct

\* The first of l was t, and rest is to come.
Turned(S, l, t, rest) ==
    /\ rest \in Seq(S) /\ 1 \in DOMAIN l /\ l[1] = t
    /\ \A a \in DOMAIN rest : a \in Nat /\ 1 < a + 1 /\ a + 1 \in DOMAIN l /\ rest[a] = l[a + 1]
    /\ \A x : Listed(x, l) <=> x = t \/ Listed(x, rest)
    /\ Distinct(l) => Distinct(rest) /\ ~ Listed(t, rest)

\* The first of a list has its turn.
LEMMA FirstDone ==
    ASSUME NEW S, NEW l \in Seq(S), l # <<>>
    PROVE  Turned(S, l, Head(l), Tail(l))
<1> PICK t : t = Head(l)
  OBVIOUS
<1> PICK rest : rest = Tail(l)
  OBVIOUS
<1> PICK n : n = Len(l)
  OBVIOUS
<1>1. n \in Nat /\ DOMAIN l = 1 .. n /\ n # 0 /\ l[1] = t
  BY LenProperties, EmptySeq
<1>2. rest \in Seq(S) /\ DOMAIN rest = 1 .. n - 1 /\ \A i \in 1 .. n - 1 : rest[i] = l[i + 1]
  <2>1. rest \in Seq(S) /\ Len(rest) = n - 1 /\ \A i \in 1 .. Len(rest) : rest[i] = l[i + 1]
    BY HeadTailProperties
  <2> QED
    BY <2>1, LenProperties
<1>3. \A a \in 1 .. n - 1 : a \in Nat /\ 1 < a + 1 /\ a + 1 \in 1 .. n
  BY <1>1
<1>4. \A k \in 1 .. n : k = 1 \/ \E a \in 1 .. n - 1 : k = a + 1 /\ rest[a] = l[k]
  <2> SUFFICES ASSUME NEW k \in 1 .. n, k # 1 PROVE \E a \in 1 .. n - 1 : k = a + 1 /\ rest[a] = l[k]
    OBVIOUS
  <2>1. k - 1 \in 1 .. n - 1 /\ k = (k - 1) + 1
    BY <1>1
  <2> QED
    BY <1>2, <2>1
<1>5. \A a \in 1 .. n - 1 : a \in DOMAIN rest /\ a + 1 \in DOMAIN l /\ rest[a] = l[a + 1]
  BY <1>1, <1>2, <1>3
<1>6. 1 \in 1 .. n
  BY <1>1
<1>7. ASSUME NEW x PROVE Listed(x, l) <=> x = t \/ Listed(x, rest)
  <2>1. ASSUME Listed(x, l), x # t PROVE Listed(x, rest)
    <3>1. PICK k \in 1 .. n : l[k] = x
      BY <1>1, <2>1 DEF Listed
    <3> QED
      BY <1>1, <1>4, <1>5, <2>1, <3>1 DEF Listed
  <2>2. ASSUME Listed(x, rest) PROVE Listed(x, l)
    <3>1. PICK a \in 1 .. n - 1 : rest[a] = x
      BY <1>2, <2>2 DEF Listed
    <3>2. a + 1 \in DOMAIN l /\ l[a + 1] = x
      BY <1>5, <3>1
    <3> QED
      BY <3>2 DEF Listed
  <2>3. Listed(t, l)
    BY <1>1, <1>6 DEF Listed
  <2> QED
    BY <2>1, <2>2, <2>3
<1>8. ASSUME Distinct(l) PROVE Distinct(rest) /\ ~ Listed(t, rest)
  <2>1. Distinct(rest)
    BY <1>1, <1>2, <1>3, <1>8 DEF Distinct
  <2>2. ~ Listed(t, rest)
    <3> SUFFICES ASSUME NEW a \in 1 .. n - 1, rest[a] = t PROVE FALSE
      BY <1>2 DEF Listed
    <3>1. l[a + 1] = l[1] /\ a + 1 \in 1 .. n /\ 1 < a + 1
      BY <1>1, <1>2, <1>3
    <3> QED
      BY <1>1, <1>6, <1>8, <3>1 DEF Distinct
  <2> QED
    BY <2>1, <2>2
<1> QED
  BY <1>1, <1>2, <1>3, <1>6, <1>7, <1>8 DEF Turned

\* The messages of one role as items of the answer.
LEMMA ItemsOf ==
    ASSUME NEW role \in {"user", "assistant"}, NEW l \in Seq(Id)
    PROVE  /\ Items(role, l) \in Seq(Item) /\ Len(Items(role, l)) = Len(l)
           /\ \A k \in 1 .. Len(l) : Items(role, l)[k] = [role |-> role, id |-> l[k]]
<1> PICK n : n = Len(l)
  OBVIOUS
<1>1. n \in Nat /\ DOMAIN l = 1 .. n /\ \A k \in 1 .. n : l[k] \in Id
  BY LenProperties, ElementOfSeq
<1> PICK its : its = Items(role, l)
  OBVIOUS
<1>2. its = [k \in 1 .. n |-> [role |-> role, id |-> l[k]]]
  BY <1>1 DEF Items
<1>3. \A k \in 1 .. n : [role |-> role, id |-> l[k]] \in Item
  BY <1>1 DEF Item
<1>4. its \in [1 .. n -> Item]
  BY <1>2, <1>3
<1>5. its \in Seq(Item)
  BY <1>1, <1>4, ListIsSeq
<1>6. Len(its) = n
  <2>1. Len(its) \in Nat /\ DOMAIN its = 1 .. Len(its) /\ DOMAIN its = 1 .. n
    BY <1>4, <1>5, LenProperties
  <2> QED
    BY <1>1, <2>1, SameLength
<1> QED
  BY <1>2, <1>5, <1>6

\* A list st of what s lists and then what t lists, without its arithmetic.
After(s, t, st) ==
    /\ \A k \in DOMAIN s : k \in DOMAIN st /\ st[k] = s[k]
    /\ \A k \in DOMAIN st \ DOMAIN s : \E c \in DOMAIN t : st[k] = t[c]
    /\ \A i, j \in DOMAIN st : i < j =>
          /\ j \in DOMAIN s => i \in DOMAIN s
          /\ i \notin DOMAIN s => \E c, d \in DOMAIN t : c < d /\ st[i] = t[c] /\ st[j] = t[d]
    /\ \A c \in DOMAIN t : \E k \in DOMAIN st : st[k] = t[c]

\* Such is the list that has s at its first n places and t at the m others,
LEMMA IsAfter ==
    ASSUME NEW n \in Nat, NEW m \in Nat, NEW s, NEW t, NEW st,
           DOMAIN s = 1 .. n, DOMAIN t = 1 .. m, DOMAIN st = 1 .. n + m,
           \A k \in 1 .. n : st[k] = s[k],
           \A c \in 1 .. m : st[n + c] = t[c]
    PROVE  After(s, t, st)
<1>1. \A k \in DOMAIN s : k \in DOMAIN st /\ st[k] = s[k]
  OBVIOUS
<1>2. ASSUME NEW k \in DOMAIN st, k \notin DOMAIN s PROVE \E c \in DOMAIN t : k = n + c /\ st[k] = t[c]
  <2>1. k - n \in DOMAIN t /\ k = n + (k - n)
    BY <1>2
  <2> QED
    BY <2>1
<1>3. \A c \in DOMAIN t : n + c \in DOMAIN st /\ st[n + c] = t[c]
  OBVIOUS
<1>4. ASSUME NEW i \in DOMAIN st, NEW j \in DOMAIN st, i < j, j \in DOMAIN s PROVE i \in DOMAIN s
  BY <1>4
<1>5. ASSUME NEW i \in DOMAIN st, NEW j \in DOMAIN st, i < j, i \notin DOMAIN s
      PROVE  \E c, d \in DOMAIN t : c < d /\ st[i] = t[c] /\ st[j] = t[d]
  <2>1. PICK c \in DOMAIN t : i = n + c /\ st[i] = t[c]
    BY <1>2, <1>5
  <2>2. PICK d \in DOMAIN t : j = n + d /\ st[j] = t[d]
    BY <1>2, <1>4, <1>5
  <2>3. c < d
    BY <1>5, <2>1, <2>2
  <2> QED
    BY <2>1, <2>2, <2>3
<1>6. \A k \in DOMAIN st \ DOMAIN s : \E c \in DOMAIN t : st[k] = t[c]
  BY <1>2
<1>7. \A c \in DOMAIN t : \E k \in DOMAIN st : st[k] = t[c]
  BY <1>3
<1> QED
  BY <1>1, <1>4, <1>5, <1>6, <1>7, Zenon DEF After

\* and that is what the two make when they are joined.
LEMMA JoinedAfter ==
    ASSUME NEW S, NEW s \in Seq(S), NEW t \in Seq(S)
    PROVE  s \o t \in Seq(S) /\ After(s, t, s \o t)
<1>1. /\ s \o t \in Seq(S) /\ Len(s) \in Nat /\ Len(t) \in Nat
      /\ DOMAIN s = 1 .. Len(s) /\ DOMAIN t = 1 .. Len(t) /\ DOMAIN (s \o t) = 1 .. Len(s) + Len(t)
      /\ \A k \in 1 .. Len(s) : (s \o t)[k] = s[k]
      /\ \A c \in 1 .. Len(t) : (s \o t)[Len(s) + c] = t[c]
  BY Joined
<1> QED
  BY <1>1, IsAfter

\* What an answer shows after a group's turn: the items it had, the group's
\* user messages after them in their order, and all its agent messages.
Grown(items, mine, theirs, more) ==
    /\ \A k \in DOMAIN items : k \in DOMAIN more /\ more[k] = items[k]
    /\ \A k \in DOMAIN more : more[k].role = "user" =>
          \/ k \in DOMAIN items
          \/ k \notin DOMAIN items /\ \E c \in DOMAIN mine : more[k].id = mine[c]
    /\ \A i, j \in DOMAIN more : i < j /\ more[j].role = "user" =>
          /\ j \in DOMAIN items => i \in DOMAIN items
          /\ i \notin DOMAIN items => \E c, d \in DOMAIN mine :
                c < d /\ more[i].id = mine[c] /\ more[j].id = mine[d]
    /\ \A c \in DOMAIN theirs : \E k \in DOMAIN more : more[k].id = theirs[c]

\* Two lists joined to the items, of which the second shows no user message.
LEMMA UserOnes ==
    ASSUME NEW items, NEW mine, NEW theirs, NEW us, NEW as, NEW half, NEW more,
           After(items, us, half), After(half, as, more),
           DOMAIN us = DOMAIN mine, DOMAIN as = DOMAIN theirs,
           \A c \in DOMAIN mine : us[c].id = mine[c],
           \A c \in DOMAIN theirs : as[c].id = theirs[c] /\ as[c].role = "assistant"
    PROVE  Grown(items, mine, theirs, more)
<1>1. /\ \A k \in DOMAIN items : k \in DOMAIN half /\ half[k] = items[k]
      /\ \A k \in DOMAIN half \ DOMAIN items : \E c \in DOMAIN us : half[k] = us[c]
      /\ \A i, j \in DOMAIN half : i < j =>
            /\ j \in DOMAIN items => i \in DOMAIN items
            /\ i \notin DOMAIN items =>
                  \E c, d \in DOMAIN us : c < d /\ half[i] = us[c] /\ half[j] = us[d]
  BY DEF After
<1>2. /\ \A k \in DOMAIN half : k \in DOMAIN more /\ more[k] = half[k]
      /\ \A k \in DOMAIN more \ DOMAIN half : \E c \in DOMAIN as : more[k] = as[c]
      /\ \A i, j \in DOMAIN more : i < j => (j \in DOMAIN half => i \in DOMAIN half)
      /\ \A c \in DOMAIN as : \E k \in DOMAIN more : more[k] = as[c]
  BY DEF After
<1>3. \A k \in DOMAIN items : k \in DOMAIN more /\ more[k] = items[k]
  BY <1>1, <1>2
<1>4. ASSUME NEW k \in DOMAIN more, more[k].role = "user" PROVE k \in DOMAIN half /\ more[k] = half[k]
  <2>1. SUFFICES ASSUME k \notin DOMAIN half PROVE FALSE
    BY <1>2
  <2>2. PICK c \in DOMAIN as : more[k] = as[c]
    BY <1>2, <2>1
  <2>3. more[k].role = "assistant"
    BY <2>2
  <2> QED
    BY <1>4, <2>3
<1>5. ASSUME NEW k \in DOMAIN more, more[k].role = "user", k \notin DOMAIN items
      PROVE  \E c \in DOMAIN mine : more[k].id = mine[c]
  <2>1. k \in DOMAIN half \ DOMAIN items /\ more[k] = half[k]
    BY <1>4, <1>5
  <2>2. PICK c \in DOMAIN us : half[k] = us[c]
    BY <1>1, <2>1
  <2> QED
    BY <2>1, <2>2
<1>6. ASSUME NEW i \in DOMAIN more, NEW j \in DOMAIN more, i < j, more[j].role = "user"
      PROVE  /\ j \in DOMAIN items => i \in DOMAIN items
             /\ i \notin DOMAIN items => \E c, d \in DOMAIN mine :
                   c < d /\ more[i].id = mine[c] /\ more[j].id = mine[d]
  <2>1. j \in DOMAIN half /\ more[j] = half[j]
    BY <1>4, <1>6
  <2>2. i \in DOMAIN half /\ more[i] = half[i]
    BY <1>2, <1>6, <2>1
  <2>3. j \in DOMAIN items => i \in DOMAIN items
    BY <1>1, <1>6, <2>1, <2>2
  <2>4. ASSUME i \notin DOMAIN items
        PROVE  \E c, d \in DOMAIN mine : c < d /\ more[i].id = mine[c] /\ more[j].id = mine[d]
    <3>1. \E c, d \in DOMAIN us : c < d /\ half[i] = us[c] /\ half[j] = us[d]
      BY <1>1, <1>6, <2>1, <2>2, <2>4, Zenon
    <3>2. PICK c \in DOMAIN us, d \in DOMAIN us : c < d /\ half[i] = us[c] /\ half[j] = us[d]
      BY <3>1
    <3>3. more[i].id = mine[c] /\ more[j].id = mine[d]
      BY <2>1, <2>2, <3>2
    <3> QED
      BY <3>2, <3>3
  <2> QED
    BY <2>3, <2>4
<1>7. ASSUME NEW c \in DOMAIN theirs PROVE \E k \in DOMAIN more : more[k].id = theirs[c]
  <2>1. PICK k \in DOMAIN more : more[k] = as[c]
    BY <1>2
  <2> QED
    BY <2>1
<1> QED
  BY <1>3, <1>5, <1>6, <1>7, Zenon DEF Grown

\* The items that HistoryGroup adds.
LEMMA ItemsAreGrown ==
    ASSUME NEW items \in Seq(Item), NEW mine \in Seq(Id), NEW theirs \in Seq(Id)
    PROVE  LET more == (items \o Items("user", mine)) \o Items("assistant", theirs)
           IN  more \in Seq(Item) /\ Grown(items, mine, theirs, more)
<1>1. PICK us : us = Items("user", mine)
  OBVIOUS
<1>2. PICK as : as = Items("assistant", theirs)
  OBVIOUS
<1>3. PICK half : half = items \o us
  OBVIOUS
<1>4. PICK more : more = half \o as
  OBVIOUS
<1>5. /\ us \in Seq(Item) /\ Len(us) = Len(mine)
      /\ \A k \in 1 .. Len(mine) : us[k] = [role |-> "user", id |-> mine[k]]
  BY <1>1, ItemsOf
<1>6. /\ as \in Seq(Item) /\ Len(as) = Len(theirs)
      /\ \A k \in 1 .. Len(theirs) : as[k] = [role |-> "assistant", id |-> theirs[k]]
  BY <1>2, ItemsOf
<1>7. DOMAIN mine = 1 .. Len(mine) /\ DOMAIN theirs = 1 .. Len(theirs)
      /\ DOMAIN us = 1 .. Len(us) /\ DOMAIN as = 1 .. Len(as)
  BY <1>5, <1>6, LenProperties
<1>8. DOMAIN us = DOMAIN mine /\ \A c \in DOMAIN mine : us[c].id = mine[c]
  BY <1>5, <1>7
<1>9. DOMAIN as = DOMAIN theirs
      /\ \A c \in DOMAIN theirs : as[c].id = theirs[c] /\ as[c].role = "assistant"
  <2>1. Len(as) = Len(theirs) /\ DOMAIN as = 1 .. Len(theirs) /\ DOMAIN theirs = 1 .. Len(theirs)
    BY <1>6, <1>7
  <2>2. ASSUME NEW c \in 1 .. Len(theirs) PROVE as[c].id = theirs[c] /\ as[c].role = "assistant"
    <3>1. as[c] = [role |-> "assistant", id |-> theirs[c]]
      BY <1>6
    <3> QED
      BY <3>1
  <2> QED
    BY <2>1, <2>2
<1>10. half \in Seq(Item) /\ After(items, us, half)
  BY <1>3, <1>5, JoinedAfter
<1>11. more \in Seq(Item) /\ After(half, as, more)
  BY <1>4, <1>6, <1>10, JoinedAfter
<1>12. Grown(items, mine, theirs, more)
  BY <1>8, <1>9, <1>10, <1>11, UserOnes, Zenon
<1>13. more = (items \o Items("user", mine)) \o Items("assistant", theirs)
  BY <1>1, <1>2, <1>3, <1>4
<1> QED
  BY <1>11, <1>12, <1>13


\* What a group's turn does to the reader.
LEMMA GroupIs ==
    ASSUME Handled, HistoryGroup
    PROVE  \E t \in Id \cup {None}, mine \in Seq(Id), theirs \in Seq(Id) :
              /\ client.todo # <<>> /\ t = Head(client.todo)
              /\ Distinct(mine) /\ \A x : Listed(x, mine) <=> x \in Group(client.page, t)
              /\ \A i, j \in DOMAIN mine : i < j =>
                    client.page[mine[i]].seq_index <= client.page[mine[j]].seq_index
              /\ t # None => \A x \in Where(db, "agentMsgs", "task", t) : Listed(x, theirs)
              /\ client' = [client EXCEPT
                              !.todo = Tail(client.todo),
                              !.items = (client.items \o Items("user", mine))
                                           \o Items("assistant", theirs),
                              !.seen = client.seen \o mine]
<1> PICK t : t = Head(client.todo)
  OBVIOUS
<1> PICK page : page = client.page
  OBVIOUS
<1>1. client \in ReaderGroups /\ client.todo # <<>>
  BY ReaderIs DEF HistoryGroup
<1>2. /\ t \in Id \cup {None} /\ IsFiniteSet(DOMAIN page) /\ DOMAIN page \subseteq Id
      /\ \A i \in DOMAIN page : page[i] \in PageRow
  <2>1. client.todo \in Seq(Id \cup {None}) /\ page \in UNION {[Q -> PageRow] : Q \in SUBSET Id}
    BY <1>1 DEF ReaderGroups
  <2>2. t \in Id \cup {None}
    BY <1>1, <2>1, HeadTailProperties
  <2> QED
    BY <2>1, <2>2 DEF Handled, HistoryGroup
<1> DEFINE Turn(mine, theirs) ==
              [client EXCEPT !.todo = Tail(client.todo),
                             !.items = (client.items \o Items("user", mine))
                                          \o Items("assistant", theirs),
                             !.seen = client.seen \o mine]
<1>3. PICK mine \in Sorted(Group(page, t), SeqIndex(page)) :
         \E theirs \in IF t = None THEN {<<>>} ELSE get_agent_messages_by_session_task(db, t) :
            client' = Turn(mine, theirs)
  BY DEF HistoryGroup
<1>4. PICK theirs \in IF t = None THEN {<<>>} ELSE get_agent_messages_by_session_task(db, t) :
            client' = Turn(mine, theirs)
  BY <1>3
<1> HIDE DEF Turn
<1> PICK G : G = Group(page, t)
  OBVIOUS
<1>5. G \subseteq DOMAIN page /\ IsFiniteSet(G)
  BY <1>2, FS_Subset DEF Group
<1>6. /\ mine \in Seq(Id) /\ Distinct(mine) /\ \A x : Listed(x, mine) <=> x \in G
      /\ \A i, j \in DOMAIN mine : i < j => page[mine[i]].seq_index <= page[mine[j]].seq_index
  <2>1. /\ Lists(mine, G, Cardinality(G))
        /\ \A i, j \in DOMAIN mine : i < j => SeqIndex(page)[mine[i]] <= SeqIndex(page)[mine[j]]
    BY <1>5, SortedLists
  <2>2. \A i \in DOMAIN page : SeqIndex(page)[i] = page[i].seq_index
    BY DEF SeqIndex
  <2>3. \A k \in DOMAIN mine : mine[k] \in DOMAIN page
    BY <1>5, <2>1 DEF Lists
  <2>4. mine \in Seq(Id)
    <3>1. mine \in [1 .. Cardinality(G) -> G] /\ Cardinality(G) \in Nat
      BY <2>1 DEF Sorted, SetToSeqs, Lists
    <3>2. mine \in [1 .. Cardinality(G) -> Id]
      BY <1>2, <1>5, <3>1
    <3> QED
      BY <3>1, <3>2, ListIsSeq
  <2>5. Distinct(mine) /\ \A x : Listed(x, mine) <=> x \in G
    BY <2>1 DEF Lists, Distinct, Listed
  <2> QED
    BY <2>1, <2>2, <2>3, <2>4, <2>5
<1>7. /\ theirs \in Seq(Id)
      /\ t # None => \A x \in Where(db, "agentMsgs", "task", t) : Listed(x, theirs)
  <2>1. CASE t = None
    <3>1. theirs = <<>>
      BY <1>4, <2>1
    <3>2. <<>> \in Seq(Id)
      OBVIOUS
    <3> QED
      BY <2>1, <3>1, <3>2
  <2>2. CASE t # None
    <3> PICK W : W = Where(db, "agentMsgs", "task", t)
      OBVIOUS
    <3>1. W \subseteq DOMAIN db.agentMsgs /\ IsFiniteSet(W) /\ W \subseteq Id
      <4>1. W \subseteq DOMAIN db.agentMsgs
        BY DEF Where
      <4>2. IsDb(db) /\ ChatSound(db)
        BY DEF Handled, OneSession, ChatSound
      <4> QED
        BY <4>1, <4>2, FewRows, ChatRows DEF Tables
    <3>2. theirs \in Sorted(W, Column(db, "agentMsgs", "sub_seq_index"))
      BY <1>4, <2>2 DEF get_agent_messages_by_session_task
    <3>3. Lists(theirs, W, Cardinality(W))
      BY <3>1, <3>2, SortedLists
    <3>4. theirs \in Seq(Id)
      <4>1. theirs \in [1 .. Cardinality(W) -> W] /\ Cardinality(W) \in Nat
        BY <3>2, <3>3 DEF Sorted, SetToSeqs, Lists
      <4>2. theirs \in [1 .. Cardinality(W) -> Id]
        BY <3>1, <4>1
      <4> QED
        BY <4>1, <4>2, ListIsSeq
    <3> QED
      BY <3>3, <3>4 DEF Lists, Listed
  <2> QED
    BY <2>1, <2>2
<1> QED
  BY <1>1, <1>2, <1>4, <1>6, <1>7 DEF Turn

\* A group's turn keeps the answer in order: the group's messages come after
\* what is shown, in their order, and before those of the groups that are left.
LEMMA OrderGrows ==
    ASSUME NEW page, NEW t, NEW todo, NEW rest, NEW items, NEW mine, NEW theirs, NEW more,
           \A i \in DOMAIN page : page[i].seq_index \in Nat,
           \A i, j \in DOMAIN page : page[i].seq_index = page[j].seq_index => i = j,
           1 \in DOMAIN todo, todo[1] = t,
           \A a \in DOMAIN rest : a \in Nat /\ 1 < a + 1 /\ a + 1 \in DOMAIN todo /\ rest[a] = todo[a + 1],
           DOMAIN mine \subseteq Nat, Distinct(mine),
           \A x : Listed(x, mine) <=> x \in Group(page, t),
           \A i, j \in DOMAIN mine : i < j => page[mine[i]].seq_index <= page[mine[j]].seq_index,
           Grown(items, mine, theirs, more),
           Ordered(page, items, todo)
    PROVE  Ordered(page, more, rest)
<1>1. /\ \A k \in DOMAIN items : items[k].role = "user" => items[k].id \in DOMAIN page
      /\ \A i, j \in DOMAIN items :
            i < j /\ items[i].role = "user" /\ items[j].role = "user" =>
               page[items[i].id].seq_index < page[items[j].id].seq_index
      /\ \A k \in DOMAIN items, a \in DOMAIN todo : \A j \in Group(page, todo[a]) :
            items[k].role = "user" => page[items[k].id].seq_index < page[j].seq_index
      /\ \A a, b \in DOMAIN todo : a < b =>
            \A i \in Group(page, todo[a]), j \in Group(page, todo[b]) :
               page[i].seq_index < page[j].seq_index
  BY DEF Ordered
<1>2. \A c \in DOMAIN mine : mine[c] \in Group(page, t) /\ mine[c] \in DOMAIN page
  <2> SUFFICES ASSUME NEW c \in DOMAIN mine PROVE mine[c] \in Group(page, t) /\ mine[c] \in DOMAIN page
    OBVIOUS
  <2>1. Listed(mine[c], mine)
    BY DEF Listed
  <2>2. mine[c] \in Group(page, t)
    BY <2>1
  <2> QED
    BY <2>2 DEF Group
<1>3. /\ \A k \in DOMAIN items : k \in DOMAIN more /\ more[k] = items[k]
      /\ \A k \in DOMAIN more : more[k].role = "user" =>
            \/ k \in DOMAIN items
            \/ k \notin DOMAIN items /\ \E c \in DOMAIN mine : more[k].id = mine[c]
      /\ \A i, j \in DOMAIN more : i < j /\ more[j].role = "user" =>
            /\ j \in DOMAIN items => i \in DOMAIN items
            /\ i \notin DOMAIN items => \E c, d \in DOMAIN mine :
                  c < d /\ more[i].id = mine[c] /\ more[j].id = mine[d]
  BY DEF Grown
<1>4. ASSUME NEW k \in DOMAIN more, more[k].role = "user" PROVE more[k].id \in DOMAIN page
  <2>1. CASE k \in DOMAIN items
    BY <1>1, <1>3, <1>4, <2>1
  <2>2. CASE \E c \in DOMAIN mine : more[k].id = mine[c]
    BY <1>2, <2>2
  <2> QED
    BY <1>3, <1>4, <2>1, <2>2
<1>5. ASSUME NEW k \in DOMAIN more, more[k].role = "user", NEW a \in DOMAIN rest,
             NEW j \in Group(page, rest[a])
      PROVE  page[more[k].id].seq_index < page[j].seq_index
  <2>1. PICK b : b = a + 1
    OBVIOUS
  <2>2. j \in Group(page, todo[b]) /\ b \in DOMAIN todo /\ 1 < b
    BY <2>1
  <2>3. CASE k \in DOMAIN items
    <3>1. more[k] = items[k] /\ items[k].role = "user"
      BY <1>3, <1>5, <2>3
    <3>2. page[items[k].id].seq_index < page[j].seq_index
      BY <1>1, <2>2, <2>3, <3>1
    <3> QED
      BY <3>1, <3>2
  <2>4. ASSUME NEW c \in DOMAIN mine, more[k].id = mine[c]
        PROVE  page[more[k].id].seq_index < page[j].seq_index
    <3>1. mine[c] \in Group(page, todo[1])
      BY <1>2
    <3>2. page[mine[c]].seq_index < page[j].seq_index
      BY <1>1, <2>2, <3>1
    <3> QED
      BY <2>4, <3>2
  <2> QED
    BY <1>3, <1>5, <2>3, <2>4
<1>6. ASSUME NEW i \in DOMAIN more, NEW j \in DOMAIN more, i < j,
             more[i].role = "user", more[j].role = "user"
      PROVE  page[more[i].id].seq_index < page[more[j].id].seq_index
  <2>1. CASE j \in DOMAIN items
    <3>1. i \in DOMAIN items /\ more[i] = items[i] /\ more[j] = items[j]
      BY <1>3, <1>6, <2>1
    <3>2. items[i].role = "user" /\ items[j].role = "user"
      BY <1>6, <3>1
    <3>3. page[items[i].id].seq_index < page[items[j].id].seq_index
      BY <1>1, <1>6, <2>1, <3>1, <3>2
    <3> QED
      BY <3>1, <3>3
  <2>2. CASE i \in DOMAIN items /\ j \notin DOMAIN items
    <3>1. PICK d \in DOMAIN mine : more[j].id = mine[d]
      BY <1>3, <1>6, <2>2
    <3>2. mine[d] \in Group(page, todo[1])
      BY <1>2
    <3>3. more[i] = items[i] /\ items[i].role = "user"
      BY <1>3, <1>6, <2>2
    <3>4. page[items[i].id].seq_index < page[mine[d]].seq_index
      BY <1>1, <2>2, <3>2, <3>3
    <3> QED
      BY <3>1, <3>3, <3>4
  <2>3. CASE i \notin DOMAIN items
    <3>1. \E c, d \in DOMAIN mine : c < d /\ more[i].id = mine[c] /\ more[j].id = mine[d]
      BY <1>3, <1>6, <2>3, Zenon
    <3>2. PICK c \in DOMAIN mine, d \in DOMAIN mine :
             c < d /\ more[i].id = mine[c] /\ more[j].id = mine[d]
      BY <3>1
    <3>3. page[mine[c]].seq_index <= page[mine[d]].seq_index
      BY <3>2
    <3>4. mine[c] # mine[d]
      <4>1. c # d
        BY <3>2
      <4> QED
        BY <4>1 DEF Distinct
    <3>5. mine[c] \in DOMAIN page /\ mine[d] \in DOMAIN page
      BY <1>2
    <3>6. page[mine[c]].seq_index \in Nat /\ page[mine[d]].seq_index \in Nat
          /\ page[mine[c]].seq_index # page[mine[d]].seq_index
      BY <3>4, <3>5
    <3>7. page[mine[c]].seq_index < page[mine[d]].seq_index
      BY <3>3, <3>6
    <3> QED
      BY <3>2, <3>7
  <2> QED
    BY <2>1, <2>2, <2>3, Zenon
<1>7. ASSUME NEW a \in DOMAIN rest, NEW b \in DOMAIN rest, a < b,
             NEW i \in Group(page, rest[a]), NEW j \in Group(page, rest[b])
      PROVE  page[i].seq_index < page[j].seq_index
  <2>1. a + 1 \in DOMAIN todo /\ b + 1 \in DOMAIN todo /\ a + 1 < b + 1
        /\ rest[a] = todo[a + 1] /\ rest[b] = todo[b + 1]
    BY <1>7
  <2> QED
    BY <1>1, <1>7, <2>1
<1> QED
  BY <1>4, <1>5, <1>6, <1>7, Zenon DEF Ordered

\* A group is answered.
LEMMA GroupStep == ASSUME HInv, HistoryGroup PROVE HInv'
<1>1. Handled /\ UNCHANGED <<db, snd, proc, run>> /\ client.pc = "groups" /\ client \in ReaderGroups
  BY ReaderIs DEF HistoryGroup, HInv
<1>2. PICK t \in Id \cup {None}, mine \in Seq(Id), theirs \in Seq(Id) :
         /\ client.todo # <<>> /\ t = Head(client.todo)
         /\ Distinct(mine) /\ \A x : Listed(x, mine) <=> x \in Group(client.page, t)
         /\ \A i, j \in DOMAIN mine : i < j =>
               client.page[mine[i]].seq_index <= client.page[mine[j]].seq_index
         /\ t # None => \A x \in Where(db, "agentMsgs", "task", t) : Listed(x, theirs)
         /\ client' = [client EXCEPT
                         !.todo = Tail(client.todo),
                         !.items = (client.items \o Items("user", mine))
                                      \o Items("assistant", theirs),
                         !.seen = client.seen \o mine]
  BY <1>1, GroupIs
<1>19. PICK todo : todo = client.todo
  OBVIOUS
<1>20. PICK rest : rest = Tail(todo)
  OBVIOUS
<1>21. PICK items : items = client.items
  OBVIOUS
<1>22. PICK more : more = (items \o Items("user", mine)) \o Items("assistant", theirs)
  OBVIOUS
<1>23. PICK seen : seen = client.seen
  OBVIOUS
<1>24. PICK all : all = seen \o mine
  OBVIOUS
<1>25. PICK page : page = client.page
  OBVIOUS
<1>3. /\ client'.pc = "groups" /\ client'.limit = client.limit /\ client'.max = client.max
      /\ client'.settled = client.settled /\ client'.had = client.had
      /\ client'.page = page /\ client'.todo = rest /\ client'.items = more /\ client'.seen = all
  BY <1>1, <1>2, <1>19, <1>20, <1>21, <1>22, <1>23, <1>24, <1>25 DEF ReaderGroups
<1>4. todo \in Seq(Id \cup {None}) /\ items \in Seq(Item) /\ seen \in Seq(Id)
  BY <1>1, <1>19, <1>21, <1>23 DEF ReaderGroups
<1>18. /\ todo # <<>> /\ t = Head(todo) /\ Distinct(mine)
       /\ \A x : Listed(x, mine) <=> x \in Group(page, t)
       /\ \A i, j \in DOMAIN mine : i < j => page[mine[i]].seq_index <= page[mine[j]].seq_index
       /\ t # None => \A x \in Where(db, "agentMsgs", "task", t) : Listed(x, theirs)
  BY <1>2, <1>19, <1>25
<1>5. /\ rest \in Seq(Id \cup {None}) /\ 1 \in DOMAIN todo /\ todo[1] = t
      /\ \A a \in DOMAIN rest : a \in Nat /\ 1 < a + 1 /\ a + 1 \in DOMAIN todo /\ rest[a] = todo[a + 1]
      /\ \A x : Listed(x, todo) <=> x = t \/ Listed(x, rest)
      /\ Distinct(todo) => Distinct(rest) /\ ~ Listed(t, rest)
  BY <1>4, <1>18, <1>20, FirstDone DEF Turned
<1>6. more \in Seq(Item) /\ Grown(items, mine, theirs, more)
  BY <1>4, <1>22, ItemsAreGrown
<1>7. /\ all \in Seq(Id)
      /\ \A x : Listed(x, all) <=> Listed(x, seen) \/ x \in Group(page, t)
      /\ Distinct(seen) /\ (\A x \in Group(page, t) : ~ Listed(x, seen)) => Distinct(all)
  <2>1. all \in Seq(Id)
    BY <1>4, <1>24, ConcatProperties
  <2>2. /\ \A x : Listed(x, all) <=> Listed(x, seen) \/ Listed(x, mine)
        /\ Distinct(seen) /\ Distinct(mine) /\ (\A x : ~ (Listed(x, seen) /\ Listed(x, mine)))
              => Distinct(all)
    BY <1>4, <1>24, JoinedLists
  <2>3. Distinct(mine) /\ \A x : Listed(x, mine) <=> x \in Group(page, t)
    BY <1>18
  <2> QED
    BY <2>1, <2>2, <2>3
<1>8. client' \in ReaderStates
  <2>1. client' \in ReaderGroups
    BY <1>1, <1>2, <1>5, <1>6, <1>7, <1>19, <1>20, <1>21, <1>22, <1>23, <1>24, <1>25 DEF ReaderGroups
  <2> QED
    BY <2>1 DEF ReaderStates
<1>9. IsFiniteSet(DOMAIN client'.page)
  BY <1>1, <1>3, <1>25 DEF Handled
<1> SUFFICES ASSUME Live PROVE Reader'
  BY <1>1, <1>8, <1>9, ReaderStep
<1>10. Writers /\ SettledSound /\ PageSound /\ PagingSound /\ OrderSound
  BY DEF HInv, Reader
<1>11. Msgs' = Msgs /\ (\A i : IndexOf(i)' = IndexOf(i)) /\ InSequence' = InSequence
  BY <1>1 DEF Msgs, IndexOf, InSequence
<1>12. \A x \in Group(page, t) : x \in DOMAIN page /\ page[x].task = t
  BY DEF Group
<1>13. SettledSound'
  <2>1. ASSUME NEW u \in client.settled
        PROVE  \/ Listed(u, rest)
               \/ Where(db, "agentMsgs", "task", u) \subseteq {more[k].id : k \in DOMAIN more}
    <3>3. u # None
      BY <1>1, NoneAndFailure DEF ReaderGroups, Id
    <3>4. CASE u = t
      <4>1. ASSUME NEW x \in Where(db, "agentMsgs", "task", u)
            PROVE  \E k \in DOMAIN more : more[k].id = x
        <5>1. PICK k \in DOMAIN theirs : theirs[k] = x
          BY <1>18, <3>3, <3>4, <4>1 DEF Listed
        <5> QED
          BY <1>6, <5>1 DEF Grown
      <4> QED
        BY <4>1
    <3>5. CASE u # t
      <4>1. \/ Listed(u, todo)
            \/ Where(db, "agentMsgs", "task", u) \subseteq {items[k].id : k \in DOMAIN items}
        BY <1>1, <1>10, <1>19, <1>21 DEF SettledSound, Listed
      <4>2. {items[k].id : k \in DOMAIN items} \subseteq {more[k].id : k \in DOMAIN more}
        BY <1>6 DEF Grown
      <4> QED
        BY <1>5, <3>5, <4>1, <4>2
    <3> QED
      BY <3>4, <3>5
  <2>2. /\ client.settled # {} => client.limit = None
        /\ client.limit = None => client.max = None
        /\ \A u \in client.settled : u \in DOMAIN db.tasks /\ db.tasks[u].status # "processing"
    BY <1>1, <1>10 DEF SettledSound, Reading
  <2> QED
    BY <1>1, <1>3, <2>1, <2>2 DEF SettledSound, Listed
<1>14. PageSound'
  BY <1>1, <1>3, <1>10, <1>11, <1>25 DEF PageSound
<1>15. PagingSound'
  <2>1. /\ DOMAIN page \subseteq Msgs /\ Distinct(todo) /\ client.had \subseteq Msgs
        /\ \A k \in DOMAIN seen : seen[k] \in Msgs
    BY <1>1, <1>10, <1>19, <1>23, <1>25 DEF PagingSound, PageSound, Reading
  <2>2. \A k \in DOMAIN all : all[k] \in Msgs
    <3> SUFFICES ASSUME NEW k \in DOMAIN all PROVE all[k] \in Msgs
      OBVIOUS
    <3>1. Listed(all[k], seen) \/ all[k] \in Group(page, t)
      BY <1>7 DEF Listed
    <3> QED
      BY <1>12, <2>1, <3>1 DEF Listed
  <2>3. ASSUME InSequence
        PROVE  /\ Distinct(all)
               /\ \A i \in Msgs : Listed(i, all) =>
                     \/ i \in DOMAIN page /\ ~Listed(page[i].task, rest)
                     \/ i \notin DOMAIN page /\ \A j \in DOMAIN page : IndexOf(j) < IndexOf(i)
               /\ \A i \in DOMAIN page : Listed(i, all) \/ Listed(page[i].task, rest)
               /\ client.limit # None => \A i \in client.had :
                     \/ Listed(i, all) \/ i \in DOMAIN page
                     \/ /\ DOMAIN page # {}
                        /\ \A j \in DOMAIN page : IndexOf(i) < IndexOf(j)
    <3>1. /\ Distinct(seen)
          /\ \A i \in Msgs : Listed(i, seen) =>
                \/ i \in DOMAIN page /\ ~Listed(page[i].task, todo)
                \/ i \notin DOMAIN page /\ \A j \in DOMAIN page : IndexOf(j) < IndexOf(i)
          /\ \A i \in DOMAIN page : Listed(i, seen) \/ Listed(page[i].task, todo)
          /\ client.limit # None => \A i \in client.had :
                \/ Listed(i, seen) \/ i \in DOMAIN page
                \/ /\ DOMAIN page # {}
                   /\ \A j \in DOMAIN page : IndexOf(i) < IndexOf(j)
      BY <1>1, <1>10, <1>19, <1>23, <1>25, <2>3 DEF PagingSound
    <3>2. Distinct(all)
      <4>1. \A x \in Group(page, t) : ~ Listed(x, seen)
        BY <1>5, <1>12, <2>1, <3>1
      <4> QED
        BY <1>7, <3>1, <4>1
    <3>3. ASSUME NEW i \in Msgs, Listed(i, all)
          PROVE  \/ i \in DOMAIN page /\ ~Listed(page[i].task, rest)
                 \/ i \notin DOMAIN page /\ \A j \in DOMAIN page : IndexOf(j) < IndexOf(i)
      BY <1>5, <1>7, <1>12, <2>1, <3>1, <3>3
    <3>4. ASSUME NEW i \in DOMAIN page PROVE Listed(i, all) \/ Listed(page[i].task, rest)
      BY <1>5, <1>7, <3>1 DEF Group
    <3> QED
      BY <1>7, <3>1, <3>2, <3>3, <3>4
  <2> QED
    BY <1>3, <1>5, <1>11, <2>1, <2>2, <2>3 DEF PagingSound, Reading
<1>16. ASSUME InSequence PROVE Ordered(page, more, rest)
  <2>1. Ordered(page, items, todo)
    BY <1>1, <1>10, <1>16, <1>19, <1>21, <1>25 DEF OrderSound
  <2>2. \A i \in DOMAIN page : i \in Msgs /\ page[i].seq_index = IndexOf(i)
    BY <1>1, <1>10, <1>25 DEF PageSound
  <2>3. \A i \in DOMAIN page : page[i].seq_index \in Nat
    BY <1>1, <2>2, MessageRows
  <2>4. \A i, j \in DOMAIN page : page[i].seq_index = page[j].seq_index => i = j
    BY <1>16, <2>2 DEF InSequence, Msgs, IndexOf
  <2>5. DOMAIN mine \subseteq Nat
    BY LenProperties
  <2> QED
    BY <1>5, <1>6, <1>18, <2>1, <2>3, <2>4, <2>5, OrderGrows
<1>17. OrderSound'
  BY <1>3, <1>11, <1>16 DEF OrderSound
<1> QED
  BY <1>13, <1>14, <1>15, <1>17 DEF Reader

\* The client asks for what is older than the page it was shown.
LEMMA OlderStep == ASSUME HInv, AskOlder PROVE HInv'
<1>1. PICK page : page = client.page
  OBVIOUS
<1>2. /\ Handled /\ UNCHANGED <<db, snd, proc, run>> /\ client.pc = "groups"
      /\ client \in ReaderGroups /\ client.todo = <<>> /\ client.limit # None /\ DOMAIN page # {}
  BY <1>1, ReaderIs DEF AskOlder, Answered, HInv
<1>3. PICK low : low = CHOOSE n \in {page[i].seq_index : i \in DOMAIN page} :
                          \A m \in {page[i].seq_index : i \in DOMAIN page} : n <= m
  OBVIOUS
<1>4. client' = History(client.limit, low, {}, client.seen, client.had)
  BY <1>1, <1>3 DEF AskOlder
<1>5. \A i \in DOMAIN page : page[i].seq_index \in Nat
  BY <1>1, <1>2 DEF ReaderGroups, PageRow
<1>6. low \in Nat /\ (\E i \in DOMAIN page : low = page[i].seq_index)
      /\ \A i \in DOMAIN page : low <= page[i].seq_index
  <2>1. \E n \in DOMAIN page : \A k \in DOMAIN page : page[n].seq_index <= page[k].seq_index
    <3>1. PICK key : key = SeqIndex(page)
      OBVIOUS
    <3>2. \A i \in DOMAIN page : key[i] = page[i].seq_index
      BY <3>1 DEF SeqIndex
    <3>3. IsFiniteSet(DOMAIN page) /\ \A i \in DOMAIN page : key[i] \in Nat
      BY <1>1, <1>2, <1>5, <3>2 DEF Handled
    <3>4. \E n \in DOMAIN page : \A k \in DOMAIN page : key[n] <= key[k]
      BY <1>2, <3>3, SomeLeast
    <3> QED
      BY <3>2, <3>4
  <2>2. \E n \in {page[i].seq_index : i \in DOMAIN page} :
            \A m \in {page[i].seq_index : i \in DOMAIN page} : n <= m
    BY <2>1
  <2>3. low \in {page[i].seq_index : i \in DOMAIN page}
        /\ \A m \in {page[i].seq_index : i \in DOMAIN page} : low <= m
    BY <1>3, <2>2
  <2> QED
    BY <1>5, <2>3
<1>7. low # None
  BY <1>6, NoneAndFailure
<1>8. client' = [pc |-> "page", limit |-> client.limit, max |-> low, settled |-> {},
                 seen |-> client.seen, had |-> client.had]
  BY <1>4 DEF History
<1>9. client' \in ReaderStates
  BY <1>2, <1>4, <1>6, HistoryAsks DEF ReaderGroups, ReaderStates
<1> SUFFICES ASSUME Live PROVE Reader'
  BY <1>2, <1>8, <1>9, ReaderStep
<1>10. SettledSound /\ PageSound /\ PagingSound
  BY DEF HInv, Reader
<1>11. Msgs' = Msgs /\ (\A i : IndexOf(i)' = IndexOf(i)) /\ InSequence' = InSequence
  BY <1>2 DEF Msgs, IndexOf, InSequence
<1>12. \A x : ~ Listed(x, client.todo)
  BY <1>2 DEF Listed
<1>13. \A i \in DOMAIN page : i \in Msgs /\ IndexOf(i) = page[i].seq_index
  BY <1>1, <1>2, <1>10 DEF PageSound
<1>14. ASSUME InSequence
       PROVE  /\ Distinct(client.seen)
              /\ \A i \in Msgs : Listed(i, client.seen) => IndexOf(i) >= low
              /\ \A i \in client.had : Listed(i, client.seen) \/ IndexOf(i) < low
  <2>1. /\ Distinct(client.seen) /\ client.had \subseteq Msgs
        /\ \A i \in Msgs : Listed(i, client.seen) =>
              i \in DOMAIN page \/ \A j \in DOMAIN page : IndexOf(j) < IndexOf(i)
        /\ \A i \in DOMAIN page : Listed(i, client.seen)
        /\ \A i \in client.had :
              \/ Listed(i, client.seen) \/ i \in DOMAIN page
              \/ \A j \in DOMAIN page : IndexOf(i) < IndexOf(j)
    BY <1>1, <1>2, <1>10, <1>12, <1>14 DEF PagingSound, Reading
  <2>2. PICK least \in DOMAIN page : low = IndexOf(least)
    BY <1>6, <1>13
  <2>3. \A i \in Msgs : IndexOf(i) \in Nat
    BY <1>2, MessageRows
  <2>4. ASSUME NEW i \in Msgs, Listed(i, client.seen) PROVE IndexOf(i) >= low
    <3>1. CASE i \in DOMAIN page
      BY <1>6, <1>13, <3>1
    <3>2. CASE IndexOf(least) < IndexOf(i)
      BY <1>6, <2>2, <2>3, <3>2
    <3> QED
      BY <2>1, <2>4, <3>1, <3>2
  <2>5. ASSUME NEW i \in client.had PROVE Listed(i, client.seen) \/ IndexOf(i) < low
    BY <2>1, <2>2
  <2> QED
    BY <2>1, <2>4, <2>5
<1>15. SettledSound'
  BY <1>2, <1>8 DEF SettledSound, Reading
<1>16. PagingSound'
  <2>1. client.had \subseteq Msgs /\ \A k \in DOMAIN client.seen : client.seen[k] \in Msgs
    BY <1>2, <1>10 DEF PagingSound, Reading
  <2> QED
    BY <1>7, <1>8, <1>11, <1>14, <2>1 DEF PagingSound, Reading
<1> QED
  BY <1>8, <1>15, <1>16 DEF Reader, PageSound, OrderSound

\* HInv is inductive.
LEMMA HistoryKeeps == HInv /\ [HistoryNext]_historyVars => HInv'
<1> SUFFICES ASSUME HInv, [HistoryNext]_historyVars PROVE HInv'
  OBVIOUS
<1>1. CASE \/ \E s \in Senders : SendIndex(s) \/ SendInsert(s)
           \/ ProcCollect \/ ProcTask \/ ProcLink \/ ProcMark
           \/ \E t \in DOMAIN run : \/ RunMessages(t) \/ RunFails(t) \/ RunStatus(t)
                                    \/ RunAcknowledge(t) \/ RunFailed(t)
           \/ DeleteSession
  BY <1>1, WritersStep
<1>2. CASE ActivePending
  BY <1>2, PendingStep
<1>3. CASE ActiveProcessing
  BY <1>3, ProcessingStep
<1>4. ASSUME NEW n \in Limits, AskNewest(n) PROVE HInv'
  BY <1>4, NewestStep
<1>5. CASE HistoryPage
  BY <1>5, PageStep
<1>6. CASE HistoryGroup
  BY <1>6, GroupStep
<1>7. CASE AskOlder
  BY <1>7, OlderStep
<1>8. CASE Leave
  BY <1>8, LeaveStep
<1>9. CASE UNCHANGED historyVars
  BY <1>9 DEF historyVars, HInv, Handled, OneSession, Live, Writers, Reader, Indexed, MsgsSound,
     ProcSound, RunSound, SettledSound, PageSound, PagingSound, OrderSound, Msgs, IndexOf,
     TaskOf, Reached, Waiting, Reading, InSequence
<1> QED
  BY <1>1, <1>2, <1>3, <1>4, <1>5, <1>6, <1>7, <1>8, <1>9 DEF HistoryNext

\* In every state the chat tables, the writers, the tasks and the reader fit.
THEOREM HistoryIsSound == HistorySpec => []HInv
<1> QED
  BY HistoryStarts, HistoryKeeps, PTL DEF HistorySpec

\* The history that get_session_messages_history puts together task by task
\* shows a user's messages in the order they were numbered, whatever was sent,
\* answered or failed between its statements: of two user messages of an
\* answer the one shown first has the lower index.
THEOREM HistoryIsInOrder == HistorySpec => []HistoryAscends
<1>1. HInv => HistoryAscends
  <2> SUFFICES ASSUME HInv, Answered, InSequence PROVE HistoryAscends
    BY DEF HistoryAscends
  <2>1. PICK page : page = client.page
    OBVIOUS
  <2>2. PICK items : items = client.items
    OBVIOUS
  <2>3. /\ \A k \in DOMAIN items : items[k].role = "user" => items[k].id \in DOMAIN page
        /\ \A i, j \in DOMAIN items :
              i < j /\ items[i].role = "user" /\ items[j].role = "user" =>
                 page[items[i].id].seq_index < page[items[j].id].seq_index
    BY <2>1, <2>2 DEF HInv, Live, InSequence, Reader, OrderSound, Ordered, Answered
  <2>4. \A i \in DOMAIN page : SeqIndex(page)[i] = page[i].seq_index
    BY DEF SeqIndex
  <2>5. \A i, j \in DOMAIN items :
           i < j /\ items[i].role = "user" /\ items[j].role = "user" =>
              SeqIndex(page)[items[i].id] < SeqIndex(page)[items[j].id]
    BY <2>3, <2>4
  <2> QED
    BY <2>1, <2>2, <2>5 DEF HistoryAscends
<1> QED
  BY <1>1, HistoryIsSound, PTL

\* A client that pages back by max_seq_index sees no message twice, and has
\* seen all that was there when it began once a page is empty, whatever is
\* sent or answered while it pages.
THEOREM PagesMissNothing == HistorySpec => []PagesComplete
<1>1. HInv => PagesComplete
  <2> SUFFICES ASSUME HInv, Answered, InSequence, client.limit # None
               PROVE  /\ \A i, j \in DOMAIN client.seen : client.seen[i] = client.seen[j] => i = j
                      /\ DOMAIN client.page = {} =>
                            client.had \subseteq {client.seen[k] : k \in DOMAIN client.seen}
    BY DEF PagesComplete
  <2>1. PagingSound /\ client.pc = "groups"
    BY DEF HInv, Live, InSequence, Reader, Answered
  <2>2. Distinct(client.seen)
    BY <2>1 DEF PagingSound
  <2>3. ASSUME DOMAIN client.page = {}, NEW i \in client.had PROVE Listed(i, client.seen)
    BY <2>1, <2>3 DEF PagingSound
  <2> QED
    BY <2>2, <2>3 DEF Distinct, Listed
<1> QED
  BY <1>1, HistoryIsSound, PTL

\* A client that get_session_active_task told of no active task is shown by
\* the history it reads next every agent message of the completed tasks it
\* asked about: the answer is written before the task stops processing.
THEOREM SettledTasksAreShown == HistorySpec => []SettledIsComplete
<1>1. HInv => SettledIsComplete
  <2> SUFFICES ASSUME HInv, Answered, session_exists(db, Session), NEW t \in client.settled
               PROVE  Where(db, "agentMsgs", "task", t)
                         \subseteq {client.items[k].id : k \in DOMAIN client.items}
    BY DEF SettledIsComplete
  <2>1. SettledSound /\ client.pc = "groups" /\ client.todo = <<>>
    BY DEF HInv, Live, Reader, Answered
  <2>2. ~ \E k \in DOMAIN client.todo : client.todo[k] = t
    BY <2>1
  <2> QED
    BY <2>1, <2>2 DEF SettledSound
<1> QED
  BY <1>1, HistoryIsSound, PTL

\* ... and some page of them holds the first.
LEMMA SomePage ==
    ASSUME NEW S, IsFiniteSet(S), NEW key, \A x \in S : key[x] \in Nat, NEW m \in Nat
    PROVE  Pages(S, key, m) # {}
<1>1. PICK l : l \in Sorted(S, key)
  BY SomeOrder
<1>2. PICK f : f = Falling(l)
  OBVIOUS
<1>3. Lists(f, S, Cardinality(S)) /\ Falls(f, Cardinality(S), key)
  BY <1>1, <1>2, FallingLists
<1>4. {f[k] : k \in DOMAIN f \cap 1 .. m} \in Pages(S, key, m)
  BY <1>3, FirstPage
<1> QED
  BY <1>4

-----------------------------------------------------------------------------
(* The history is always answered *)

\* A request for a page selects rows whose tasks can be put in order, and the
\* messages of a group, with the agent messages of its task, can be listed.
ReaderServed ==
    /\ client.pc = "page" =>
          /\ Selected # {}
          /\ \A P \in Selected :
                sorted_session_task_ids([i \in P |-> [task |-> db.userMsgs[i].task,
                                                      seq_index |-> db.userMsgs[i].seq_index]]) # {}
    /\ client.pc = "groups" /\ client.todo # <<>> =>
          /\ Sorted(Group(client.page, Head(client.todo)), SeqIndex(client.page)) # {}
          /\ Head(client.todo) # None => get_agent_messages_by_session_task(db, Head(client.todo)) # {}

\* The rows a request can select.
LEMMA SomeSelected == ASSUME Handled, client.pc = "page" PROVE Selected # {}
<1>1. PICK key : key = Column(db, "userMsgs", "seq_index")
  OBVIOUS
<1>2. \A i \in Msgs : key[i] \in Nat
  BY <1>1, MessageRows DEF Column, Msgs, IndexOf
<1>3. PICK W : W = Where(db, "userMsgs", "session", Session)
  OBVIOUS
<1>4. W \subseteq Msgs /\ \A S \in SUBSET Msgs : IsFiniteSet(S)
  BY <1>3, MessageRows, FewRows DEF Where, Tables, Msgs
<1>5. client.limit # None => client.limit \in Nat
  BY ReaderIs, BoundsPositive DEF ReaderPages, PageSize
<1>6. CASE client.limit = None
  BY <1>6 DEF Selected
<1>7. CASE client.limit # None /\ client.max = None
  <2>1. Pages(W, key, client.limit) # {}
    BY <1>2, <1>4, <1>5, <1>7, SomePage
  <2> QED
    BY <1>1, <1>3, <1>7, <2>1 DEF Selected, get_user_messages_by_session_with_limit
<1>8. CASE client.limit # None /\ client.max # None
  <2>1. PICK V : V = {i \in W : db.userMsgs[i].seq_index < client.max}
    OBVIOUS
  <2>2. V \subseteq Msgs
    BY <1>4, <2>1
  <2>3. Pages(V, key, client.limit) # {}
    BY <1>2, <1>4, <1>5, <1>8, <2>2, SomePage
  <2> QED
    BY <1>1, <1>3, <1>8, <2>1, <2>3
       DEF Selected, get_user_messages_by_session_with_limit_and_seq_index
<1> QED
  BY <1>6, <1>7, <1>8

\* The tasks of a page in some order.
LEMMA SomeTurns ==
    ASSUME NEW page, IsFiniteSet(DOMAIN page), \A i \in DOMAIN page : page[i].seq_index \in Nat
    PROVE  sorted_session_task_ids(page) # {}
<1>1. PICK G : G = {page[i].task : i \in DOMAIN page}
  OBVIOUS
<1>2. IsFiniteSet(G)
  <2>1. PICK f : f = [i \in DOMAIN page |-> page[i].task]
    OBVIOUS
  <2>2. f \in Surjection(DOMAIN page, G)
    BY <1>1, <2>1 DEF Surjection
  <2> QED
    BY <2>2, FS_Surjection
<1>3. IsFiniteSet(G \ {None}) /\ G = Groups(page)
  BY <1>1, <1>2, FS_Subset DEF Groups
<1>4. \A t \in G : task_max_seq_index(page)[t] \in Nat
  <2> SUFFICES ASSUME NEW t \in G PROVE task_max_seq_index(page)[t] \in Nat
    OBVIOUS
  <2>1. PICK g \in Group(page, t) : task_max_seq_index(page)[t] = page[g].seq_index
    BY <1>3, LastOfTask
  <2> QED
    BY <2>1 DEF Group
<1>5. PICK key : key = task_max_seq_index(page)
  OBVIOUS
<1>6. Sorted(G \ {None}, key) # {}
  BY <1>3, <1>4, <1>5, SomeOrder
<1> QED
  BY <1>3, <1>5, <1>6 DEF sorted_session_task_ids

\* get_session_messages_history has an answer at each of its statements: the
\* orders and pages that the properties of the history speak of exist.
THEOREM HistoryAnswers == HistorySpec => []ReaderServed
<1>1. HInv => ReaderServed
  <2> SUFFICES ASSUME Handled PROVE ReaderServed
    BY DEF HInv
  <2>1. ASSUME client.pc = "page", NEW P \in Selected
        PROVE  sorted_session_task_ids([i \in P |-> [task |-> db.userMsgs[i].task,
                                                     seq_index |-> db.userMsgs[i].seq_index]]) # {}
    <3>1. PICK page : page = [i \in P |-> [task |-> db.userMsgs[i].task,
                                           seq_index |-> db.userMsgs[i].seq_index]]
      OBVIOUS
    <3>2. P \subseteq Msgs /\ IsFiniteSet(P)
      BY <2>1, PageRows
    <3>3. DOMAIN page = P /\ \A i \in P : page[i].seq_index = IndexOf(i)
      BY <3>1 DEF IndexOf
    <3>4. \A i \in DOMAIN page : page[i].seq_index \in Nat
      BY <3>2, <3>3, MessageRows
    <3>5. sorted_session_task_ids(page) # {}
      BY <3>2, <3>3, <3>4, SomeTurns
    <3> QED
      BY <3>1, <3>5
  <2>2. ASSUME client.pc = "groups", client.todo # <<>>
        PROVE  /\ Sorted(Group(client.page, Head(client.todo)), SeqIndex(client.page)) # {}
               /\ Head(client.todo) # None =>
                     get_agent_messages_by_session_task(db, Head(client.todo)) # {}
    <3>1. PICK page : page = client.page
      OBVIOUS
    <3>2. PICK t : t = Head(client.todo)
      OBVIOUS
    <3>3. IsFiniteSet(DOMAIN page) /\ \A i \in DOMAIN page : page[i].seq_index \in Nat
      BY <2>2, <3>1, ReaderIs DEF Handled, ReaderGroups, PageRow
    <3>4. Sorted(Group(page, t), SeqIndex(page)) # {}
      <4>1. PICK G : G = Group(page, t)
        OBVIOUS
      <4>2. PICK key : key = SeqIndex(page)
        OBVIOUS
      <4>3. IsFiniteSet(G) /\ \A i \in G : key[i] \in Nat
        BY <3>3, <4>1, <4>2, FS_Subset DEF Group, SeqIndex
      <4>4. Sorted(G, key) # {}
        BY <4>3, SomeOrder
      <4> QED
        BY <4>1, <4>2, <4>4
    <3>5. get_agent_messages_by_session_task(db, t) # {}
      <4>1. PICK W : W = Where(db, "agentMsgs", "task", t)
        OBVIOUS
      <4>2. PICK key : key = Column(db, "agentMsgs", "sub_seq_index")
        OBVIOUS
      <4>3. ChatSound(db) /\ IsDb(db)
        BY DEF Handled, OneSession, ChatSound
      <4>4. W \subseteq DOMAIN db.agentMsgs /\ IsFiniteSet(W)
        BY <4>1, <4>3, FewRows DEF Where, Tables
      <4>5. \A i \in W : key[i] \in Nat
        <5>1. \A i \in DOMAIN db.agentMsgs : db.agentMsgs[i] \in U2AAgentMessage
          BY <4>3, ChatRows
        <5> QED
          BY <4>2, <4>4, <5>1 DEF Column, U2AAgentMessage
      <4>6. Sorted(W, key) # {}
        BY <4>4, <4>5, SomeOrder
      <4> QED
        BY <4>1, <4>2, <4>6 DEF get_agent_messages_by_session_task
    <3> QED
      BY <3>1, <3>2, <3>4, <3>5
  <2> QED
    BY <2>1, <2>2, SomeSelected DEF ReaderServed
<1> QED
  BY <1>1, HistoryIsSound, PTL
=============================================================================
