------------------------------ MODULE ChatStore ------------------------------
(***************************************************************************)
(* The database under all its callers: every step is one call of a         *)
(* function of ChatTables, one transaction, and the calls of different     *)
(* requests and background tasks come in any order. A caller names rows of *)
(* one session: it links a message or a memory to a task of the row's own  *)
(* session and updates by id the rows of one session, which is how the     *)
(* handlers use the functions. Rows it names may be gone.                  *)
(* A caller that numbers its row itself has read the next index before, in *)
(* a transaction of its own: it inserts any index. A function that numbers *)
(* rows itself (an agent memory with_auto_index, user memories whose       *)
(* seq_index is None) is a transaction for each index and one to insert.   *)
(***************************************************************************)
EXTENDS ChatDatabase

CONSTANTS
    MaxId,          \* bound: the database has given out this many ids
    MaxIndex,       \* bound: the highest index a caller inserts
    Locks,          \* the values callers give context_lock
    TaskStates, UserMsgStates, AgentMsgStates   \* the statuses callers use

ASSUME StatesAreStatuses == /\ TaskStates \subseteq TaskStatus /\ TaskStates # {}
                            /\ UserMsgStates \subseteq UserMsgStatus
                            /\ AgentMsgStates \subseteq AgentMsgStatus

\* room for the account, its sessions and the task that StoreInit makes
ASSUME RoomForInit == MaxId \in Nat /\ MaxId >= 4

ASSUME InputsAreValues == MaxIndex \in Nat /\ Locks \subseteq BOOLEAN

\* a query for a row tells "no row" from every row
ASSUME NullIsNoRow == None \notin U2ASessionTask

VARIABLE
    auto    \* the memories a function has numbered and is about to insert,
            \* with their table, or None

storeVars == <<db, auto>>

Ids == 1..MaxId

\* the next indexes that callers have read, of whatever rows were there then
Indices == 0..MaxIndex

\* an account with two sessions and a task in the first
StoreInit ==
    /\ db = LET account == Insert(EmptyDb, "users", [is_deleted |-> FALSE]).db
                first   == insert_session(account, 1).db
                second  == insert_session(first, 1).db
            IN  insert_task(second, 2, 1, CHOOSE st \in TaskStates : TRUE).db
    /\ auto = None

Room(n) == db.next + n - 1 <= MaxId

Do(call) == db' = call.db /\ UNCHANGED auto

Users == DOMAIN db.users
Owner(s) == IF s \in DOMAIN db.sessions THEN db.sessions[s].user
            ELSE CHOOSE u \in Users : TRUE

\* the tasks a caller may link the rows of a session to
TasksOf(s) == Where(db, "tasks", "session", s) \cup {None}

\* the lists of ids of rows of one session, read before
Picks(t) == {{i} : i \in Ids} \cup {Where(db, t, "session", s) : s \in Ids}
SessionOf(t, ids) == {db[t][i].session : i \in ids \cap DOMAIN db[t]}

-----------------------------------------------------------------------------
(* Sessions and tasks *)

SessionCall ==
    \/ \E u \in Users : Room(1) /\ Do(insert_session(db, u))
    \/ \E s \in Ids, held \in Locks :
            Do(update_session_fields(db, s, [context_lock |-> held]))
    \/ \E s \in Ids, held \in Locks : Do(update_context_lock(db, s, held))
    \/ \E s \in Ids : Do(delete_session(db, s))

TaskCall ==
    \/ \E s \in Ids, st \in TaskStates : Room(1) /\ Do(insert_task(db, s, Owner(s), st))
    \/ \E i \in Ids, st \in TaskStates : Do(update_task_fields(db, i, [status |-> st]))
    \/ \E i \in Ids, st \in TaskStates : Do(update_task_status(db, i, st))
    \/ \E i \in Ids : Do(delete_task(db, i))
    \/ \E s \in Ids : Do(delete_tasks_by_session(db, s))

ConfigCall ==
    \/ \E s \in Ids, c \in {1, 2} : Room(1) /\ Do(insert_session_config(db, s, c))
    \/ \E i \in Ids, c \in {1, 2} : Do(update_session_config(db, i, c))
    \/ \E s \in Ids, c \in {1, 2} : Do(update_session_config_by_session_id(db, s, c))
    \/ \E i \in Ids : Do(delete_session_config(db, i))
    \/ \E s \in Ids : Do(delete_session_config_by_session_id(db, s))

-----------------------------------------------------------------------------
(* Messages *)

UserMsgCall ==
    \/ \E s \in Ids, seq \in Indices, st \in UserMsgStates : \E t \in TasksOf(s) :
            Room(1) /\ Do(insert_user_message(db, Owner(s), s, seq, st, t))
    \/ \E i \in Ids, st \in UserMsgStates :
            Do(update_user_message_fields(db, i, [status |-> st]))
    \/ \E ids \in Picks("userMsgs"), st \in UserMsgStates :
            Do(update_user_message_status_by_ids(db, ids, st))
    \/ \E ids \in Picks("userMsgs") : \E s \in SessionOf("userMsgs", ids) :
            \E t \in TasksOf(s) : Do(update_user_message_session_task_by_ids(db, ids, t))
    \/ \E i \in Ids : Do(delete_user_message(db, i))
    \/ \E s \in Ids : Do(delete_user_messages_by_session(db, s))

AgentMsg(s, t, seq, st) ==
    [user |-> Owner(s), session |-> s, sub_seq_index |-> seq, status |-> st, task |-> t]

AgentMsgCall ==
    \/ \E s \in Ids, seq \in Indices, st \in AgentMsgStates : \E t \in TasksOf(s) :
            Room(1) /\ Do(insert_agent_message(db, AgentMsg(s, t, seq, st)))
    \/ \E s \in Ids, st \in AgentMsgStates, n \in 0..2 : \E t \in TasksOf(s) :
            Room(n) /\ Do(insert_agent_messages_from_list(db,
                              [k \in 1..n |-> AgentMsg(s, t, k - 1, st)]))
    \/ \E i \in Ids, st \in AgentMsgStates :
            Do(update_agent_message_fields(db, i, [status |-> st]))
    \/ \E ids \in Picks("agentMsgs"), st \in AgentMsgStates :
            Do(update_agent_message_status_by_ids(db, ids, st))
    \/ \E ids \in Picks("agentMsgs") : \E s \in SessionOf("agentMsgs", ids) :
            \E t \in TasksOf(s) : Do(update_agent_message_session_task_by_ids(db, ids, t))
    \/ \E i \in Ids : Do(delete_agent_message(db, i))
    \/ \E s \in Ids : Do(delete_agent_messages_by_session(db, s))
    \/ \E t \in Ids : Do(delete_agent_messages_by_session_task(db, t))

-----------------------------------------------------------------------------
(* Short term memories *)

UserMem(s, t, seq) == [user |-> Owner(s), session |-> s, seq_index |-> seq, task |-> t]

UserMemCall ==
    \/ \E s \in Ids, seq \in Indices : \E t \in TasksOf(s) :
            Room(1) /\ Do(create_user_short_term_memory(db, UserMem(s, t, seq)))
    \/ \E s \in Ids, seq \in Indices, n \in 0..2 : \E t \in TasksOf(s) :
            Room(n) /\ Do(create_user_short_term_memories_from_list(db,
                              [k \in 1..n |-> UserMem(s, t, seq + k - 1)]))
    \/ \E i \in Ids : Do(update_user_short_term_memory(db, i, [seq_index |-> 0]))
    \/ \E ids \in Picks("userMems") : \E s \in SessionOf("userMems", ids) :
            \E t \in TasksOf(s) : Do(update_user_memory_session_task_by_ids(db, ids, t))
    \/ \E i \in Ids : Do(delete_user_short_term_memory(db, i))
    \/ \E s \in Ids : Do(delete_user_short_term_memories_by_session(db, s))
    \/ \E t \in Ids : Do(delete_user_short_term_memories_by_session_task(db, t))

AgentMem(s, t, seq) == [user |-> Owner(s), session |-> s, sub_seq_index |-> seq, task |-> t]

AgentMemCall ==
    \/ \E s \in Ids : \E t \in TasksOf(s) :
            Room(1) /\ Do(create_agent_short_term_memory(db, AgentMem(s, t, 0)))
    \/ \E s \in Ids, n \in 0..2 : \E t \in TasksOf(s) :
            Room(n) /\ Do(create_agent_short_term_memories_from_list(db,
                              [k \in 1..n |-> AgentMem(s, t, k - 1)]))
    \/ \E i \in Ids : Do(update_agent_short_term_memory(db, i, [sub_seq_index |-> 0]))
    \/ \E ids \in Picks("agentMems") : \E s \in SessionOf("agentMems", ids) :
            \E t \in TasksOf(s) : Do(update_agent_memory_session_task_by_ids(db, ids, t))
    \/ \E i \in Ids : Do(delete_agent_short_term_memory(db, i))
    \/ \E s \in Ids : Do(delete_agent_short_term_memories_by_session(db, s))
    \/ \E t \in Ids : Do(delete_agent_short_term_memories_by_session_task(db, t))

-----------------------------------------------------------------------------
(* Functions that number the rows they insert *)

Numbered(t, rows) ==
    Room(Len(rows)) /\ auto' = [table |-> t, rows |-> rows] /\ UNCHANGED db

\* create_agent_short_term_memory_with_auto_index reads the next index
AutoIndex ==
    /\ auto = None
    /\ \E t \in DOMAIN db.tasks :
          LET s == db.tasks[t].session
          IN  Numbered("agentMems", <<AgentMem(s, t, get_next_sub_seq_index(db, s, t))>>)

\* seq_index is None: create_user_short_term_memory reads it, and ..._from_list reads
\* one for each memory of its list, before it inserts any of them
UserIndex ==
    \/ /\ auto = None
       /\ \E s \in DOMAIN db.sessions : \E t \in TasksOf(s) :
             Numbered("userMems", <<UserMem(s, t, get_next_seq_index(db, s))>>)
    \/ /\ auto # None /\ auto.table = "userMems" /\ Len(auto.rows) = 1
       /\ LET row == auto.rows[1]
          IN  Numbered("userMems",
                  Append(auto.rows,
                         [row EXCEPT !.seq_index = get_next_seq_index(db, row.session)]))

\* the memories are inserted, which fails when their task has been deleted
AutoInsert ==
    /\ auto # None /\ Room(Len(auto.rows))
    /\ \/ /\ auto.table = "agentMems"
          /\ db' = create_agent_short_term_memory(db, auto.rows[1]).db
       \/ /\ auto.table = "userMems" /\ Len(auto.rows) = 1
          /\ db' = create_user_short_term_memory(db, auto.rows[1]).db
       \/ /\ auto.table = "userMems"
          /\ db' = create_user_short_term_memories_from_list(db, auto.rows).db
    /\ auto' = None

StoreNext == \/ SessionCall \/ TaskCall \/ ConfigCall
             \/ UserMsgCall \/ AgentMsgCall
             \/ UserMemCall \/ AgentMemCall
             \/ AutoIndex \/ UserIndex \/ AutoInsert

StoreSpec == StoreInit /\ [][StoreNext]_storeVars

-----------------------------------------------------------------------------
(* Properties *)

(* The database is a record of tables whose ids have been given out, and   *)
(* whose rows have the columns and values of their dataclasses.            *)
TypeOK ==
    /\ DOMAIN db = Tables \cup {"next"}
    /\ db.next \in 1..MaxId + 1
    /\ \A t \in Tables : DOMAIN db[t] \subseteq 1..db.next - 1
    /\ \A t \in DOMAIN Rows : \A i \in DOMAIN db[t] : db[t][i] \in Rows[t]

(* Whatever is deleted in whatever order, no row is left that refers to a  *)
(* row that is gone, and a row and its task are of one session (and the    *)
(* tables keep their types).                                               *)
RowsHaveParents ==
    /\ TypeOK
    /\ \A t \in Tables : \A i \in DOMAIN db[t] : KeysHold(db, db[t][i])
    /\ \A t \in TaskTables : \A i \in DOMAIN db[t] :
          db[t][i].task # None => db.tasks[db[t][i].task].session = db[t][i].session

(* The queries tell one story of the same rows: what a listing by session, *)
(* by status, by owner or by page answers is what the row by row queries   *)
(* answer, and a next index is above every index it counts.                *)
QueriesAgree ==
    \A s \in Ids :
       /\ session_exists(db, s) <=> \E u \in Users : s \in get_sessions_by_user_id(db, u)
       /\ \A st \in TaskStates :
             /\ check_session_has_task_with_status(db, s, st)
                   <=> get_tasks_by_session_and_status(db, s, st) # {}
             /\ \A l \in get_tasks_by_session(db, s) :
                   {l[k] : k \in DOMAIN l} \cap {i \in Ids : get_task(db, i) # None
                                                   /\ db.tasks[i].status = st}
                      = get_tasks_by_session_and_status(db, s, st)
       /\ \A l \in get_user_messages_by_session(db, s) :
             /\ \A n \in 1..2 : \E P \in get_user_messages_by_session_with_limit(db, s, n) :
                   P = {l[k] : k \in DOMAIN l \cap 1..n}
             /\ \A k \in DOMAIN l : \A n \in 1..2 :
                   \A P \in get_user_messages_by_session_with_limit_and_seq_index(
                                db, s, n, db.userMsgs[l[k]].seq_index) :
                      P \subseteq {l[j] : j \in k + 1 .. Len(l)}
             /\ \A k \in DOMAIN l :
                   db.userMsgs[l[k]].seq_index < get_next_user_message_seq_index(db, s)
       /\ \A i \in Where(db, "userMems", "session", s) :
             db.userMems[i].seq_index < get_next_seq_index(db, s)
       /\ \A i \in Where(db, "agentMsgs", "task", s) :
             db.agentMsgs[i].sub_seq_index < get_next_agent_message_sub_seq_index(db, s)

RowsOf(d, s) == [t \in SessionTables |-> {<<i, d[t][i]>> : i \in Where(d, t, "session", s)}]

(* A call writes the rows of one session: no other session gains, loses or *)
(* changes a row by it.                                                    *)
OneSessionPerCall ==
    [][\A s, r \in DOMAIN db.sessions :
           s < r => \/ RowsOf(db', s) = RowsOf(db, s)
                    \/ RowsOf(db', r) = RowsOf(db, r)]_storeVars

=============================================================================
