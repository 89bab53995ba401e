----------------------------- MODULE Relations -----------------------------
(***************************************************************************)
(* The PostgreSQL database the application keeps its rows in, as a value:  *)
(* a record of tables, each a function from the ids of its rows to the     *)
(* rows, and "next", the next id.  uuidv7() ids grow with time, so an id   *)
(* also stands for the row's created_at; the other timestamps and the      *)
(* texts (titles, contents, passwords, JSON) are left out.                 *)
(*                                                                         *)
(* Every function of the sql_stat packages runs one transaction on it.     *)
(* A query is an operator that returns its answer; a statement that        *)
(* writes returns the new database and the answer, and a statement that    *)
(* raises leaves the database as it was.                                   *)
(***************************************************************************)
EXTENDS Naturals, Sequences, FiniteSets, SequencesExt, TLC

CONSTANTS
    None,       \* SQL NULL, Python None
    Failure     \* the call raised an exception

ASSUME NoneAndFailure == None # Failure /\ None \notin Nat /\ Failure \notin Nat

\* an exception is no list of ids
ASSUME FailureIsNoList == Failure \notin Seq(Nat)

Tables == {"users", "sessions", "tasks", "userMsgs", "agentMsgs", "userMems",
           "agentMems", "configs", "files", "a2aSessions", "a2aTasks"}

NoRows == [i \in {} |-> None]

(* The ids of rows. *)
Id == Nat \ {0}

EmptyDb == [t \in Tables \cup {"next"} |-> IF t = "next" THEN 1 ELSE NoRows]

(* The FOREIGN KEY columns and the table each refers to. *)
Refers == [user |-> "users", userA |-> "users", userB |-> "users",
           session |-> "sessions", task |-> "tasks", a2aSession |-> "a2aSessions"]

Returns(db, answer) == [db |-> db, ret |-> answer]
Raises(db)          == Returns(db, Failure)

(* A column that refers to a row is NULL or names one that is there. *)
KeysHold(db, row) ==
    \A c \in DOMAIN row \cap DOMAIN Refers :
        row[c] = None \/ row[c] \in DOMAIN db[Refers[c]]

(* SELECT id FROM t WHERE c = v *)
Where(db, t, c, v) == {i \in DOMAIN db[t] : v # None /\ db[t][i][c] = v}

(* The entries of f, and those of g where f has none. *)
Over(f, g) ==
    [x \in DOMAIN f \cup DOMAIN g |-> IF x \in DOMAIN f THEN f[x] ELSE g[x]]

Without(rows, S) == [i \in DOMAIN rows \ S |-> rows[i]]

(* INSERT ... RETURNING id, of the rows of a list, all or none. *)
InsertAll(db, t, rows) ==
    IF \A k \in DOMAIN rows : KeysHold(db, rows[k])
    THEN Returns([db EXCEPT ![t] = Over([i \in db.next .. db.next + Len(rows) - 1
                                            |-> rows[i - db.next + 1]], @),
                            !.next = @ + Len(rows)],
                 [k \in DOMAIN rows |-> db.next + k - 1])
    ELSE Raises(db)

Insert(db, t, row) ==
    LET r == InsertAll(db, t, <<row>>)
    IN  IF r.ret = Failure THEN r ELSE Returns(r.db, r.ret[1])

(* The batch inserts take one list for each column, of one length. *)
InsertColumns(db, t, columns) ==
    LET n == Len(columns.session)
    IN  IF \E c \in DOMAIN columns : Len(columns[c]) # n THEN Raises(db)
        ELSE InsertAll(db, t, [k \in 1..n |-> [c \in DOMAIN columns |-> columns[c][k]]])

(* The lists of the columns of a list of rows. *)
Columns(rows) == [c \in DOMAIN rows[1] |-> [k \in DOMAIN rows |-> rows[k][c]]]

(* UPDATE t SET fields WHERE id IN ids; the answer is the rowcount. *)
Change(db, t, ids, fields) ==
    LET hit == ids \cap DOMAIN db[t]
    IN  IF hit = {} \/ KeysHold(db, fields)
        THEN Returns([db EXCEPT ![t] = Over([i \in hit |-> Over(fields, db[t][i])], @)],
                     Cardinality(hit))
        ELSE Raises(db)

(* result.rowcount > 0 *)
AnyRow(r) == IF r.ret = Failure THEN r ELSE Returns(r.db, r.ret > 0)

(* The update_*_fields functions: one to "most" columns, named in the SQL. *)
UpdateFields(db, t, id, fields, most) ==
    LET n == Cardinality(DOMAIN fields)
    IN  IF n = 0 THEN Returns(db, FALSE)
        ELSE IF n > most THEN Raises(db)
        ELSE AnyRow(Change(db, t, {id}, fields))

(* The get_*_fields functions: up to "most" columns of one row. *)
Fields(db, t, id, names, most) ==
    IF names = <<>> THEN NoRows
    ELSE IF Len(names) > most THEN Failure
    ELSE IF id \notin DOMAIN db[t] THEN None
    ELSE [c \in ToSet(names) |-> db[t][id][c]]

(* The get_*_field functions bind the column's name as a parameter, so     *)
(* the row, if it is there, answers with the name itself.                  *)
FieldName(db, t, id, name) == IF id \in DOMAIN db[t] THEN name ELSE None

Row(db, t, id) == IF id \in DOMAIN db[t] THEN db[t][id] ELSE None

(* ORDER BY key: every list of the rows it allows, equal keys in any order *)
Sorted(S, key) ==
    {l \in SetToSeqs(S) :
        \A i, j \in DOMAIN l : i < j => key[l[i]] <= key[l[j]]}

(* ... DESC LIMIT n: the sets of rows a page can hold. *)
Pages(S, key, n) ==
    {P \in SUBSET S : /\ Cardinality(P) <= n
                      /\ Cardinality(P) < n => P = S
                      /\ \A i \in P, j \in S \ P : key[j] <= key[i]}

Column(db, t, c) == [i \in DOMAIN db[t] |-> db[t][i][c]]

(* COALESCE(MAX(c), -1) + 1 *)
NextIndex(db, t, c, S) ==
    IF S = {} THEN 0
    ELSE CHOOSE n \in {db[t][i][c] + 1 : i \in S} :
            \A i \in S : db[t][i][c] < n

(* mutant: the rows of a deleted task keep its id *)
DropTasksOnly(db, S) == [db EXCEPT !.tasks = Without(@, S)]

(* DELETE FROM u2a_session_tasks: agent messages and memories are deleted  *)
(* with their task, user messages stay and lose it (ON DELETE SET NULL).   *)
DropTasks(db, S) ==
    LET of(t)    == {i \in DOMAIN db[t] : db[t][i].task \in S}
        freed(i) == IF i \in of("userMsgs")
                    THEN [db.userMsgs[i] EXCEPT !.task = None]
                    ELSE db.userMsgs[i]
    IN  [db EXCEPT !.tasks     = Without(@, S),
                   !.userMsgs  = [i \in DOMAIN db.userMsgs |-> freed(i)],
                   !.agentMsgs = Without(@, of("agentMsgs")),
                   !.userMems  = Without(@, of("userMems")),
                   !.agentMems = Without(@, of("agentMems"))]

(* DELETE FROM u2a_sessions: everything that refers to one goes with it. *)
DropSessions(db, S) ==
    LET of(d, t) == {i \in DOMAIN d[t] : d[t][i].session \in S}
        d == DropTasks(db, of(db, "tasks"))
    IN  [d EXCEPT !.sessions  = Without(@, S),
                  !.userMsgs  = Without(@, of(d, "userMsgs")),
                  !.agentMsgs = Without(@, of(d, "agentMsgs")),
                  !.userMems  = Without(@, of(d, "userMems")),
                  !.agentMems = Without(@, of(d, "agentMems")),
                  !.configs   = Without(@, of(d, "configs"))]

(* DELETE FROM a2a_sessions, with its tasks. *)
DropA2ASessions(db, S) ==
    [db EXCEPT !.a2aSessions = Without(@, S),
               !.a2aTasks = Without(@, {i \in DOMAIN db.a2aTasks :
                                          db.a2aTasks[i].a2aSession \in S})]

Drop(db, t, S) ==
    CASE t = "tasks"       -> DropTasks(db, S)
      [] t = "sessions"    -> DropSessions(db, S)
      [] t = "a2aSessions" -> DropA2ASessions(db, S)
      [] OTHER             -> [db EXCEPT ![t] = Without(@, S)]

(* DELETE FROM t WHERE id IN S; the answer is the rowcount. *)
Delete(db, t, S) ==
    Returns(Drop(db, t, S \cap DOMAIN db[t]), Cardinality(S \cap DOMAIN db[t]))

=============================================================================
