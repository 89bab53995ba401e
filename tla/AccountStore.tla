----------------------------- MODULE AccountStore -----------------------------
(***************************************************************************)
(* Accounts, the sign-in of one browser, and the tables that refer to an   *)
(* account: the items of its file space and its sessions with other        *)
(* agents.  Every call of AccountTables is one transaction.                *)
(*                                                                         *)
(* A token names an account and the time it ends; the browser keeps one    *)
(* in the auth_token cookie, and a client may send one it kept as Bearer.  *)
(* A hash stands for the password and the salt it was made from; a salt is *)
(* fresh, so the time of its making stands for it.                         *)
(***************************************************************************)
EXTENDS AccountTables

CONSTANTS
    MaxId, MaxNow,          \* bounds: ids given out, clock
    Names, Passwords, Paths,
    Short, Long             \* 15 minutes and REMEMBER_ME_EXPIRE_DAYS

ASSUME BoundsAreNat == MaxId \in Nat /\ MaxNow \in Nat

ASSUME NullIsNoRow == None \notin SimpleUser(Names, Passwords \X Nat)

ASSUME LifetimesOrdered == Short \in Nat /\ Long \in Nat /\ Short < Long

VARIABLES
    db,
    now,
    cookie,     \* the auth_token cookie, or None
    header,     \* the Bearer token of an API client, or None
    answered    \* the account the last request was answered for, or Refused

vars == <<db, now, cookie, header, answered>>

Refused == Failure
Ids == 1..MaxId
Room == db.next <= MaxId

Init == /\ db = EmptyDb /\ now = 0
        /\ cookie = None /\ header = None /\ answered = Refused

Do(call) == db' = call.db /\ UNCHANGED <<now, cookie, header, answered>>

-----------------------------------------------------------------------------
(* SimpleUserDB *)

hash_password_with_salt(password, salt) == <<password, salt>>

verify_password_with_salt(password, salt, hashed) == hashed = <<password, salt>>

\* mutant: the password is hashed with a new salt that is not kept
HashOnly(uuid, name, password) ==
    LET hash == IF password = None THEN NoRows
                ELSE [hashed_password |-> hash_password_with_salt(password, now)]
        rename == IF name = None THEN NoRows ELSE [user_name |-> name]
    IN  update_user_fields(db, uuid, Over(rename, hash))

\* the fields that are given, in one statement
update_user(uuid, name, password) ==
    LET hash == IF password = None THEN NoRows
                ELSE [hashed_password |-> hash_password_with_salt(password, now),
                      salt |-> now]
        rename == IF name = None THEN NoRows ELSE [user_name |-> name]
    IN  update_user_fields(db, uuid, Over(rename, hash))

sign_up ==
    \E name \in Names, password \in Passwords :
        Room /\ Do(insert_user(db, name, hash_password_with_salt(password, now), now))

UpdateUser ==
    \E u \in Ids, name \in Names \cup {None}, password \in Passwords \cup {None} :
        Do(update_user(u, name, password))

DeleteUser == \E u \in Ids : Do(delete_user(db, u))

-----------------------------------------------------------------------------
(* Signing in *)

create_access_token(sub, life) == [sub |-> sub, exp |-> now + life]

authenticate_user(name, password) ==
    LET user == get_user_by_username(db, name)
    IN  IF user # None /\ verify_password_with_salt(password, user.salt, user.hashed_password)
        THEN get_user_id_by_name(db, name) ELSE None

login ==
    \E name \in Names, password \in Passwords, rememberMe \in BOOLEAN :
        LET user == authenticate_user(name, password)
        IN  /\ user # None
            /\ cookie' = create_access_token(user, IF rememberMe THEN Long ELSE Short)
            /\ UNCHANGED <<db, now, header, answered>>

\* jwt.decode refuses a token that has ended
get_current_user_from_token(token) ==
    IF token = None THEN None
    ELSE IF token.exp < now THEN None
    ELSE IF get_user(db, token.sub) = None THEN None ELSE token.sub

\* the cookie first, the Bearer token when the cookie is refused
get_current_user ==
    LET user == get_current_user_from_token(cookie)
    IN  IF user # None THEN user ELSE get_current_user_from_token(header)

\* mutant: the token is enough, as in get_current_user_id
TokenIsEnough ==
    IF cookie # None /\ cookie.exp >= now THEN cookie.sub ELSE Refused

get_current_active_user == IF get_current_user = None THEN Refused ELSE get_current_user

\* any endpoint that depends on get_current_active_user
Request ==
    /\ answered' = get_current_active_user
    /\ UNCHANGED <<db, now, cookie, header>>

refresh_token ==
    /\ answered' = get_current_active_user
    /\ cookie' = IF answered' = Refused THEN cookie
                 ELSE create_access_token(answered', Short)
    /\ UNCHANGED <<db, now, header>>

logout == cookie' = None /\ UNCHANGED <<db, now, header, answered>>

\* an API client keeps the token it was given; external
KeepToken == cookie # None /\ header' = cookie /\ UNCHANGED <<db, now, cookie, answered>>

Tick == now < MaxNow /\ now' = now + 1 /\ UNCHANGED <<db, cookie, header, answered>>

-----------------------------------------------------------------------------
(* Files and agent to agent sessions *)

Users == DOMAIN db.users

FileCall ==
    \/ \E u \in Users, p \in Paths, type \in {"file", "folder"} :
            Room /\ Do(insert_file_system_item(db, u, p, type))
    \/ \E i \in Ids, p \in Paths : Do(update_file_system_item_path(db, i, p))
    \/ \E i \in Ids, p \in Paths : Do(update_file_system_item(db, i, p, "file", FALSE))
    \/ \E i \in Ids : Do(update_file_system_item_encryption(db, i, TRUE))
    \/ \E i \in Ids : Do(delete_file_system_item_by_id(db, i))
    \/ \E u \in Users : Do(delete_file_system_items_by_user(db, u))
    \/ \E u \in Users, p \in Paths : Do(delete_file_system_items_by_path(db, u, p))

A2ACall ==
    \/ \E a, b \in Users : Room /\ Do(insert_a2a_session(db, a, b))
    \/ \E i, u \in Ids : Do(update_a2a_session_fields(db, i, [userB |-> u]))
    \/ \E i \in Ids : Do(delete_a2a_session(db, i))
    \/ \E s \in Ids : Room /\ Do(insert_a2a_task(db, s, None))
    \/ \E i \in Ids : Do(update_a2a_task_fields(db, i, [status |-> "processing"]))
    \/ \E i \in Ids : Do(update_a2a_task_status(db, i, "completed"))
    \/ \E i \in Ids : Do(delete_a2a_task(db, i))
    \/ \E s \in Ids : Do(delete_a2a_tasks_by_session(db, s))

Next == \/ sign_up \/ UpdateUser \/ DeleteUser
        \/ login \/ Request \/ refresh_token \/ logout \/ KeepToken \/ Tick
        \/ FileCall \/ A2ACall

Spec == Init /\ [][Next]_vars

-----------------------------------------------------------------------------
(* Properties *)

(* The rows of the tables have the columns and values of their             *)
(* dataclasses, and tokens are of accounts and of bounded life.            *)
Rows == [users |-> SimpleUser(Names, Passwords \X Nat), files |-> FileSystemItem(Paths),
         a2aSessions |-> A2ASession, a2aTasks |-> A2ASessionTask]
TypeOK ==
    /\ db.next \in 1..MaxId + 1 /\ now \in 0..MaxNow
    /\ \A t \in Tables : DOMAIN db[t] \subseteq 1..db.next - 1
    /\ \A t \in DOMAIN Rows : \A i \in DOMAIN db[t] : db[t][i] \in Rows[t]
    /\ cookie # None => cookie.sub \in Users /\ cookie.exp <= now + Long
    /\ header # None => header.sub \in Users /\ header.exp <= now + Long
    /\ answered \in Users \cup {Refused}

(* A user name belongs to one account for ever, deleted or not, a path of  *)
(* an account to one item, and no row refers to one that is gone, in       *)
(* whatever order accounts, items and sessions come, move and go (and the  *)
(* tables keep their types).                                               *)
KeysKept ==
    /\ TypeOK
    /\ \A u, v \in Users : db.users[u].user_name = db.users[v].user_name => u = v
    /\ \A i, j \in DOMAIN db.files :
          /\ db.files[i].user = db.files[j].user
          /\ db.files[i].file_path = db.files[j].file_path
          => i = j
    /\ \A t \in Tables : \A i \in DOMAIN db[t] : KeysHold(db, db[t][i])

(* The hash and the salt of an account stay of one password: after any     *)
(* updates there is a password its owner can sign in with, and only one    *)
(* (up to bcrypt, which looks at the first 72 bytes of password + salt).   *)
OnePassword ==
    \A u \in Users : Live(db, u) =>
        Cardinality({p \in Passwords :
            authenticate_user(db.users[u].user_name, p) = u}) = 1

(* An account that is deleted stays deleted, and no request is answered    *)
(* for it any more, whatever tokens were given out for it before.          *)
DeletedIsOut ==
    [][\A u \in Users : ~Live(db, u) =>
          /\ ~Live(db, u)'
          /\ answered' # answered => answered' # u]_vars

=============================================================================
