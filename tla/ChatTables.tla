----------------------------- MODULE ChatTables -----------------------------
(***************************************************************************)
(* The tables of the chat: sessions, session tasks, user and agent         *)
(* messages, short term memories and session agent configurations, with    *)
(* the functions of api/chat/sql_stat and api/agent/sql_stat, under their  *)
(* own names.  Functions of two packages that share a name get the table's *)
(* name in theirs.  Each takes the database first.                         *)
(***************************************************************************)
EXTENDS Relations

TaskStatus == {"pending", "processing", "completed", "failed", "cancelled"}
UserMsgStatus == {"agent_working_for_user", "waiting_agent_ack_user",
                  "completed", "error"}
AgentMsgStatus == {"streaming", "stop", "completed", "error"}

\* NULL is the status of no task
ASSUME NullIsNoStatus == None \notin TaskStatus

(* The rows of each table, as its dataclasses read, create and update them. *)
U2ASession     == [user : Id, context_lock : BOOLEAN]
U2ASessionTask == [session : Id, user : Id, status : TaskStatus]
U2AUserMessage ==
    [user : Id, session : Id, seq_index : Nat, status : UserMsgStatus, task : Id \cup {None}]
U2AAgentMessage ==
    [user : Id, session : Id, sub_seq_index : Nat, status : AgentMsgStatus,
     task : Id \cup {None}]
UserShortTermMemory ==
    [user : Id, session : Id, seq_index : Nat, task : Id \cup {None}]
AgentShortTermMemory ==
    [user : Id, session : Id, sub_seq_index : Nat, task : Id \cup {None}]

\* a configuration, a JSON object, is a number
U2ASessionAgentConfig == [session : Id, config : Nat]

-----------------------------------------------------------------------------
(* u2a_sessions *)

\* context_lock takes its default whatever the caller passes
insert_session(db, user) ==
    Insert(db, "sessions", [user |-> user, context_lock |-> FALSE])

update_session_fields(db, id, fields) == UpdateFields(db, "sessions", id, fields, 3)

session_exists(db, id) == id \in DOMAIN db.sessions

get_session(db, id) == Row(db, "sessions", id)

get_sessions_by_user_id(db, user) == Where(db, "sessions", "user", user)

get_session_field(db, id, name) == FieldName(db, "sessions", id, name)

get_session_fields(db, id, names) == Fields(db, "sessions", id, names, 4)

get_context_lock(db, id) ==
    IF session_exists(db, id) THEN db.sessions[id].context_lock ELSE None

update_context_lock(db, id, held) ==
    AnyRow(Change(db, "sessions", {id}, [context_lock |-> held]))

delete_session(db, id) == AnyRow(Delete(db, "sessions", {id}))

-----------------------------------------------------------------------------
(* u2a_session_tasks *)

insert_task(db, session, user, status) ==
    Insert(db, "tasks", [session |-> session, user |-> user, status |-> status])

update_task_fields(db, id, fields) == UpdateFields(db, "tasks", id, fields, 3)

update_task_status(db, id, status) ==
    AnyRow(Change(db, "tasks", {id}, [status |-> status]))

task_exists(db, id) == id \in DOMAIN db.tasks

get_task(db, id) == Row(db, "tasks", id)

\* ORDER BY created_at, which the id stands for
ByAge(S) == Sorted(S, [i \in S |-> i])

get_tasks_by_session(db, session) == ByAge(Where(db, "tasks", "session", session))

get_tasks_by_session_and_status(db, session, status) ==
    Where(db, "tasks", "session", session) \cap Where(db, "tasks", "status", status)

get_tasks_by_user(db, user) == ByAge(Where(db, "tasks", "user", user))

get_task_field(db, id, name) == FieldName(db, "tasks", id, name)

get_task_fields(db, id, names) == Fields(db, "tasks", id, names, 4)

delete_task(db, id) == AnyRow(Delete(db, "tasks", {id}))

delete_tasks_by_session(db, session) ==
    AnyRow(Delete(db, "tasks", Where(db, "tasks", "session", session)))

check_session_has_task_with_status(db, session, status) ==
    \E i \in DOMAIN db.tasks : db.tasks[i].session = session /\ db.tasks[i].status = status

-----------------------------------------------------------------------------
(* u2a_user_messages *)

insert_user_message(db, user, session, seq, status, task) ==
    Insert(db, "userMsgs", [user |-> user, session |-> session, seq_index |-> seq,
                            status |-> status, task |-> task])

\* "or 0" never applies: COALESCE leaves no NULL
get_next_user_message_seq_index(db, session) ==
    NextIndex(db, "userMsgs", "seq_index", Where(db, "userMsgs", "session", session))

update_user_message_fields(db, id, fields) == UpdateFields(db, "userMsgs", id, fields, 3)

check_user_message_exists(db, id) == id \in DOMAIN db.userMsgs

get_user_message_by_id(db, id) == Row(db, "userMsgs", id)

Falling(l) == [k \in DOMAIN l |-> l[Len(l) + 1 - k]]

\* ORDER BY seq_index DESC
get_user_messages_by_session(db, session) ==
    {Falling(l) : l \in Sorted(Where(db, "userMsgs", "session", session),
                               Column(db, "userMsgs", "seq_index"))}

get_user_messages_by_session_with_limit(db, session, limit) ==
    Pages(Where(db, "userMsgs", "session", session),
          Column(db, "userMsgs", "seq_index"), limit)

\* mutant: <= for <, the last message of a page opens the next one
PageFromItself(db, session, limit, max_seq_index) ==
    Pages({i \in Where(db, "userMsgs", "session", session) :
              db.userMsgs[i].seq_index <= max_seq_index},
          Column(db, "userMsgs", "seq_index"), limit)

get_user_messages_by_session_with_limit_and_seq_index(db, session, limit, max_seq_index) ==
    Pages({i \in Where(db, "userMsgs", "session", session) :
              db.userMsgs[i].seq_index < max_seq_index},
          Column(db, "userMsgs", "seq_index"), limit)

get_user_messages_by_user(db, user) == ByAge(Where(db, "userMsgs", "user", user))

get_user_message_field(db, id, name) == FieldName(db, "userMsgs", id, name)

get_user_message_fields(db, id, names) == Fields(db, "userMsgs", id, names, 4)

delete_user_message(db, id) == AnyRow(Delete(db, "userMsgs", {id}))

\* mutant: no WHERE session_id
DeleteOfAnySession(db, session) == AnyRow(Delete(db, "userMsgs", DOMAIN db.userMsgs))

delete_user_messages_by_session(db, session) ==
    AnyRow(Delete(db, "userMsgs", Where(db, "userMsgs", "session", session)))

\* with no ids nothing is asked of the database
update_user_message_status_by_ids(db, ids, status) ==
    Change(db, "userMsgs", ids, [status |-> status])

update_user_message_session_task_by_ids(db, ids, task) ==
    Change(db, "userMsgs", ids, [task |-> task])

-----------------------------------------------------------------------------
(* u2a_agent_messages *)

insert_agent_message(db, row) == Insert(db, "agentMsgs", row)

insert_agent_messages_batch(db, columns) == InsertColumns(db, "agentMsgs", columns)

insert_agent_messages_from_list(db, rows) ==
    IF rows = <<>> THEN Returns(db, <<>>)
    ELSE insert_agent_messages_batch(db, Columns(rows))

get_next_agent_message_sub_seq_index(db, task) ==
    NextIndex(db, "agentMsgs", "sub_seq_index", Where(db, "agentMsgs", "task", task))

update_agent_message_fields(db, id, fields) == UpdateFields(db, "agentMsgs", id, fields, 3)

check_agent_message_exists(db, id) == id \in DOMAIN db.agentMsgs

get_agent_message_by_id(db, id) == Row(db, "agentMsgs", id)

get_agent_messages_by_session(db, session) ==
    Sorted(Where(db, "agentMsgs", "session", session),
           Column(db, "agentMsgs", "sub_seq_index"))

get_agent_messages_by_session_task(db, task) ==
    Sorted(Where(db, "agentMsgs", "task", task), Column(db, "agentMsgs", "sub_seq_index"))

get_agent_messages_by_user(db, user) == ByAge(Where(db, "agentMsgs", "user", user))

get_agent_message_field(db, id, name) == FieldName(db, "agentMsgs", id, name)

get_agent_message_fields(db, id, names) == Fields(db, "agentMsgs", id, names, 4)

delete_agent_message(db, id) == AnyRow(Delete(db, "agentMsgs", {id}))

delete_agent_messages_by_session(db, session) ==
    AnyRow(Delete(db, "agentMsgs", Where(db, "agentMsgs", "session", session)))

delete_agent_messages_by_session_task(db, task) ==
    AnyRow(Delete(db, "agentMsgs", Where(db, "agentMsgs", "task", task)))

update_agent_message_status_by_ids(db, ids, status) ==
    Change(db, "agentMsgs", ids, [status |-> status])

update_agent_message_session_task_by_ids(db, ids, task) ==
    Change(db, "agentMsgs", ids, [task |-> task])

-----------------------------------------------------------------------------
(* u2a_user_short_term_memory *)

\* a seq_index of None is read before, in transactions of their own: UserIndex of ChatStore
create_user_short_term_memory(db, row) == Insert(db, "userMems", row)

create_user_short_term_memories_batch(db, columns) == InsertColumns(db, "userMems", columns)

create_user_short_term_memories_from_list(db, rows) ==
    IF rows = <<>> THEN Returns(db, <<>>)
    ELSE create_user_short_term_memories_batch(db, Columns(rows))

get_user_short_term_memory_by_id(db, id) == Row(db, "userMems", id)

get_user_short_term_memories_by_session(db, session) ==
    Sorted(Where(db, "userMems", "session", session), Column(db, "userMems", "seq_index"))

get_user_short_term_memories_by_user(db, user) == ByAge(Where(db, "userMems", "user", user))

\* the columns' names are bound as parameters, which SQL does not accept
update_user_short_term_memory(db, id, fields) ==
    IF DOMAIN fields = {} THEN Returns(db, FALSE) ELSE Raises(db)

update_user_memory_session_task_by_ids(db, ids, task) ==
    Change(db, "userMems", ids, [task |-> task])

delete_user_short_term_memory(db, id) == AnyRow(Delete(db, "userMems", {id}))

delete_user_short_term_memories_by_session(db, session) ==
    Delete(db, "userMems", Where(db, "userMems", "session", session))

delete_user_short_term_memories_by_session_task(db, task) ==
    Delete(db, "userMems", Where(db, "userMems", "task", task))

user_memory_exists(db, id) == id \in DOMAIN db.userMems

get_next_seq_index(db, session) ==
    NextIndex(db, "userMems", "seq_index", Where(db, "userMems", "session", session))

-----------------------------------------------------------------------------
(* u2a_agent_short_term_memory *)

create_agent_short_term_memory(db, row) == Insert(db, "agentMems", row)

create_agent_short_term_memories_batch(db, columns) == InsertColumns(db, "agentMems", columns)

create_agent_short_term_memories_from_list(db, rows) ==
    IF rows = <<>> THEN Returns(db, <<>>)
    ELSE create_agent_short_term_memories_batch(db, Columns(rows))

get_agent_short_term_memory_by_id(db, id) == Row(db, "agentMems", id)

\* no ORDER BY
get_agent_short_term_memories_by_session(db, session) ==
    Where(db, "agentMems", "session", session)

get_agent_short_term_memories_by_session_task(db, task) ==
    Sorted(Where(db, "agentMems", "task", task), Column(db, "agentMems", "sub_seq_index"))

get_agent_short_term_memories_by_agent(db, user) == ByAge(Where(db, "agentMems", "user", user))

update_agent_short_term_memory(db, id, fields) ==
    IF DOMAIN fields = {} THEN Returns(db, FALSE) ELSE Raises(db)

update_agent_memory_session_task_by_ids(db, ids, task) ==
    Change(db, "agentMems", ids, [task |-> task])

delete_agent_short_term_memory(db, id) == AnyRow(Delete(db, "agentMems", {id}))

delete_agent_short_term_memories_by_session(db, session) ==
    Delete(db, "agentMems", Where(db, "agentMems", "session", session))

delete_agent_short_term_memories_by_session_task(db, task) ==
    Delete(db, "agentMems", Where(db, "agentMems", "task", task))

agent_memory_exists(db, id) == id \in DOMAIN db.agentMems

get_next_sub_seq_index(db, session, task) ==
    NextIndex(db, "agentMems", "sub_seq_index",
              Where(db, "agentMems", "session", session)
                 \cap Where(db, "agentMems", "task", task))

-----------------------------------------------------------------------------
(* u2a_session_agent_config: nothing keeps a session to one row *)

insert_session_config(db, session, config) ==
    Insert(db, "configs", [session |-> session, config |-> config])

get_session_config(db, id) == Row(db, "configs", id)

\* result.first() of an unordered query
get_session_config_by_session_id(db, session) ==
    LET rows == Where(db, "configs", "session", session)
    IN  IF rows = {} THEN {None} ELSE {db.configs[i] : i \in rows}

update_session_config(db, id, config) ==
    AnyRow(Change(db, "configs", {id}, [config |-> config]))

update_session_config_by_session_id(db, session, config) ==
    AnyRow(Change(db, "configs", Where(db, "configs", "session", session),
                  [config |-> config]))

query_session_config_fields(db, id, names) ==
    IF names = <<>> THEN Failure ELSE Fields(db, "configs", id, names, 4)

delete_session_config(db, id) == AnyRow(Delete(db, "configs", {id}))

delete_session_config_by_session_id(db, session) ==
    AnyRow(Delete(db, "configs", Where(db, "configs", "session", session)))

session_config_exists(db, id) == id \in DOMAIN db.configs

session_config_exists_by_session_id(db, session) ==
    Where(db, "configs", "session", session) # {}

=============================================================================
