---------------------------- MODULE AccountTables ----------------------------
(***************************************************************************)
(* The other tables that refer to the users: the accounts themselves, the  *)
(* items of their file spaces, and the sessions and tasks between agents,  *)
(* with the functions of api/authentication, api/user_space/file_system    *)
(* and api/agent/tools/a2a_chat_task that are a statement PostgreSQL       *)
(* accepts.                                                                *)
(***************************************************************************)
EXTENDS Relations

(* The rows of each table, as its dataclasses read, create and update them. *)
SimpleUser(names, hashes) ==
    [user_name : names, is_deleted : BOOLEAN, hashed_password : hashes, salt : Nat]

FileSystemItemType == {"file", "folder"}
FileSystemItem(paths) ==
    [user : Id, file_path : paths, item_type : FileSystemItemType, is_encrypted : BOOLEAN]

A2ASession     == [userA : Id, userB : Id]
A2ASessionTask ==
    [a2aSession : Id,
     status : {"pending", "processing", "completed", "failed", "cancelled"}]

-----------------------------------------------------------------------------
(* simple_users: accounts are marked as deleted, never removed *)

\* mutant: the name of a deleted account is free again
NameTakenByLive(db, name, but) ==
    \E u \in DOMAIN db.users \ {but} : db.users[u].user_name = name /\ ~db.users[u].is_deleted

\* UNIQUE (user_name), of deleted accounts too
NameTaken(db, name, but) == \E u \in DOMAIN db.users \ {but} : db.users[u].user_name = name

insert_user(db, name, hashed, salt) ==
    IF NameTaken(db, name, None) THEN Raises(db)
    ELSE Insert(db, "users", [user_name |-> name, is_deleted |-> FALSE,
                              hashed_password |-> hashed, salt |-> salt])

\* the only update that does not look at is_deleted
update_user_fields(db, id, fields) ==
    IF /\ id \in DOMAIN db.users
       /\ "user_name" \in DOMAIN fields
       /\ NameTaken(db, fields.user_name, id)
    THEN Raises(db)
    ELSE UpdateFields(db, "users", id, fields, 4)

Live(db, id) == id \in DOMAIN db.users /\ ~db.users[id].is_deleted

user_exists(db, id) == Live(db, id)

Named(db, name) == {u \in DOMAIN db.users : Live(db, u) /\ db.users[u].user_name = name}

get_user_id_by_name(db, name) ==
    IF Named(db, name) = {} THEN None ELSE CHOOSE u \in Named(db, name) : TRUE

get_user_by_username(db, name) ==
    IF Named(db, name) = {} THEN None
    ELSE db.users[CHOOSE u \in Named(db, name) : TRUE]

get_user(db, id) == IF Live(db, id) THEN db.users[id] ELSE None

get_user_field(db, id, name) == IF Live(db, id) THEN name ELSE None

get_user_fields(db, id, names) ==
    IF names # <<>> /\ Len(names) <= 4 /\ ~Live(db, id) THEN None
    ELSE Fields(db, "users", id, names, 4)

delete_user(db, id) ==
    IF Live(db, id) THEN AnyRow(Change(db, "users", {id}, [is_deleted |-> TRUE]))
    ELSE Returns(db, FALSE)

-----------------------------------------------------------------------------
(* user_file_system, with UNIQUE (user_id, file_path) *)

PathTaken(db, user, path, but) ==
    \E i \in DOMAIN db.files \ {but} : db.files[i].user = user /\ db.files[i].file_path = path

insert_file_system_item(db, user, path, type) ==
    IF PathTaken(db, user, path, None) THEN Raises(db)
    ELSE Insert(db, "files", [user |-> user, file_path |-> path, item_type |-> type,
                              is_encrypted |-> FALSE])

query_file_system_item_by_id(db, id) == Row(db, "files", id)

query_file_system_items_by_user(db, user) == Where(db, "files", "user", user)

query_file_system_items_by_path(db, user, path) ==
    Where(db, "files", "user", user) \cap Where(db, "files", "file_path", path)

query_file_system_items_by_type(db, user, type) ==
    Where(db, "files", "user", user) \cap Where(db, "files", "item_type", type)

update_file_system_item_path(db, id, path) ==
    IF id \in DOMAIN db.files /\ PathTaken(db, db.files[id].user, path, id)
    THEN Raises(db)
    ELSE AnyRow(Change(db, "files", {id}, [file_path |-> path]))

\* a full update: the path, the type and the flag must all be given
update_file_system_item(db, id, path, type, encrypted) ==
    IF path = None \/ type = None \/ encrypted = None THEN Raises(db)
    ELSE IF id \in DOMAIN db.files /\ PathTaken(db, db.files[id].user, path, id)
    THEN Raises(db)
    ELSE AnyRow(Change(db, "files", {id}, [file_path |-> path, item_type |-> type,
                                           is_encrypted |-> encrypted]))

update_file_system_item_encryption(db, id, encrypted) ==
    AnyRow(Change(db, "files", {id}, [is_encrypted |-> encrypted]))

delete_file_system_item_by_id(db, id) == AnyRow(Delete(db, "files", {id}))

delete_file_system_items_by_user(db, user) ==
    Delete(db, "files", query_file_system_items_by_user(db, user))

delete_file_system_items_by_path(db, user, path) ==
    Delete(db, "files", query_file_system_items_by_path(db, user, path))

-----------------------------------------------------------------------------
(* a2a_sessions *)

insert_a2a_session(db, userA, userB) ==
    Insert(db, "a2aSessions", [userA |-> userA, userB |-> userB])

update_a2a_session_fields(db, id, fields) == UpdateFields(db, "a2aSessions", id, fields, 3)

a2a_session_exists(db, id) == id \in DOMAIN db.a2aSessions

get_a2a_session(db, id) == Row(db, "a2aSessions", id)

get_sessions_by_user_a_id(db, user) == Where(db, "a2aSessions", "userA", user)

get_sessions_by_user_b_id(db, user) == Where(db, "a2aSessions", "userB", user)

get_a2a_sessions_by_user_id(db, user) ==
    {i \in DOMAIN db.a2aSessions :
        user \in {db.a2aSessions[i].userA, db.a2aSessions[i].userB}}

get_a2a_session_field(db, id, name) == FieldName(db, "a2aSessions", id, name)

get_a2a_session_fields(db, id, names) == Fields(db, "a2aSessions", id, names, 5)

delete_a2a_session(db, id) == AnyRow(Delete(db, "a2aSessions", {id}))

-----------------------------------------------------------------------------
(* a2a_session_tasks *)

\* priority and proactive_side take the defaults of the dataclass
insert_a2a_task(db, session, status) ==
    Insert(db, "a2aTasks",
           [a2aSession |-> session,
            status |-> IF status = None THEN "pending" ELSE status])

update_a2a_task_fields(db, id, fields) == UpdateFields(db, "a2aTasks", id, fields, 3)

update_a2a_task_status(db, id, status) ==
    AnyRow(Change(db, "a2aTasks", {id}, [status |-> status]))

a2a_task_exists(db, id) == id \in DOMAIN db.a2aTasks

get_a2a_task(db, id) == Row(db, "a2aTasks", id)

\* the rows are made without their proactive_side: one row and it raises
Listed(rows) == IF rows = {} THEN {} ELSE Failure

get_a2a_tasks_by_session(db, session) == Listed(Where(db, "a2aTasks", "a2aSession", session))

get_a2a_tasks_by_session_and_status(db, session, status) ==
    Listed(Where(db, "a2aTasks", "a2aSession", session)
              \cap Where(db, "a2aTasks", "status", status))

get_a2a_tasks_by_status(db, status) == Listed(Where(db, "a2aTasks", "status", status))

get_a2a_task_field(db, id, name) == FieldName(db, "a2aTasks", id, name)

get_a2a_task_fields(db, id, names) == Fields(db, "a2aTasks", id, names, 4)

delete_a2a_task(db, id) == AnyRow(Delete(db, "a2aTasks", {id}))

delete_a2a_tasks_by_session(db, session) ==
    AnyRow(Delete(db, "a2aTasks", Where(db, "a2aTasks", "a2aSession", session)))

check_a2a_session_has_task_with_status(db, session, status) ==
    \E i \in DOMAIN db.a2aTasks :
        db.a2aTasks[i].a2aSession = session /\ db.a2aTasks[i].status = status

=============================================================================
