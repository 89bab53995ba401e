----------------------------- MODULE ChatHistory -----------------------------
(***************************************************************************)
(* What a client is shown of a session while it is being written: the      *)
(* endpoints that send messages, start the answer to the waiting ones,     *)
(* delete the session, tell whether a task is active and read the history, *)
(* whole or page by page.  Every statement is a transaction of its own, so *)
(* a reader's statements fall between those of senders and of background   *)
(* tasks.  The locking of process_pending_messages and the agent's work    *)
(* are in SessionTask and AgentTurn: here one request at a time is inside  *)
(* the lock, and a task is the statements its coroutine ends with.         *)
(***************************************************************************)
EXTENDS ChatDatabase

CONSTANTS
    Senders,
    MaxMsgs, MaxTasks,      \* bounds: user messages, tasks
    MaxAnswers,             \* bound: agent messages of a task
    Limits                  \* the page sizes clients ask for

ASSUME BoundsPositive == {MaxMsgs, MaxTasks, MaxAnswers} \cup Limits \subseteq Nat \ {0}

VARIABLES
    snd,        \* sender -> where it is in send_message, with the index it read
    proc,       \* the request inside process_pending_messages
    run,        \* task -> where its coroutine is, with its messages
    client      \* the reader

historyVars == <<db, snd, proc, run, client>>

User == 1
Session == 2

Idle == [pc |-> "idle"]
Mine(s) == s \in get_sessions_by_user_id(db, User)

HistoryInit ==
    /\ db = insert_session(Insert(EmptyDb, "users", [is_deleted |-> FALSE]).db, User).db
    /\ snd = [s \in Senders |-> Idle]
    /\ proc = Idle
    /\ run = NoRows
    /\ client = Idle

-----------------------------------------------------------------------------
(* send_message *)

Sending == {s \in Senders : snd[s] # Idle}

\* the session is checked, then the index is read: were the session deleted
\* in between, the insert would fail as it does when it is deleted later
SendIndex(s) ==
    /\ snd[s] = Idle
    /\ Cardinality(DOMAIN db.userMsgs) + Cardinality(Sending) < MaxMsgs
    /\ Mine(Session)
    /\ snd' = [snd EXCEPT ![s] = [pc |-> "insert",
                                  seq |-> get_next_user_message_seq_index(db, Session)]]
    /\ UNCHANGED <<db, proc, run, client>>

\* fails when the session has been deleted
SendInsert(s) ==
    /\ snd[s].pc = "insert"
    /\ db' = insert_user_message(db, User, Session, snd[s].seq,
                                 "waiting_agent_ack_user", None).db
    /\ snd' = [snd EXCEPT ![s] = Idle]
    /\ UNCHANGED <<proc, run, client>>

-----------------------------------------------------------------------------
(* process_pending_messages, inside the lock *)

collect_pending_messages ==
    {i \in Where(db, "userMsgs", "session", Session) :
        db.userMsgs[i].status = "waiting_agent_ack_user"}

\* the session and its running tasks are checked first; inside the lock no
\* other request can start one before the messages are read
ProcCollect ==
    /\ proc = Idle /\ Cardinality(DOMAIN run) < MaxTasks
    /\ Mine(Session)
    /\ get_tasks_by_session_and_status(db, Session, "processing") = {}
    /\ collect_pending_messages # {}
    /\ proc' = [pc |-> "task", msgs |-> collect_pending_messages]
    /\ UNCHANGED <<db, snd, run, client>>

create_session_task_record(d) == insert_task(d, Session, User, "processing")

ProcTask ==
    /\ proc.pc = "task"
    /\ LET made == create_session_task_record(db)
       IN  /\ db' = made.db
           /\ proc' = IF made.ret = Failure THEN Idle
                      ELSE [pc |-> "link", msgs |-> proc.msgs, task |-> made.ret]
    /\ UNCHANGED <<snd, run, client>>

ProcLink ==
    /\ proc.pc = "link"
    /\ LET linked == update_user_message_session_task_by_ids(db, proc.msgs, proc.task)
       IN  /\ db' = linked.db
           /\ proc' = IF linked.ret = Failure THEN Idle ELSE [proc EXCEPT !.pc = "mark"]
    /\ UNCHANGED <<snd, run, client>>

ProcMark ==
    /\ proc.pc = "mark"
    /\ db' = update_user_message_status_by_ids(db, proc.msgs, "agent_working_for_user").db
    /\ run' = [t \in DOMAIN run \cup {proc.task} |->
                   IF t = proc.task THEN [pc |-> "agent", msgs |-> proc.msgs] ELSE run[t]]
    /\ proc' = Idle
    /\ UNCHANGED <<snd, client>>

-----------------------------------------------------------------------------
(* The end of session_chat_task.  Its memories are in SessionTask. *)

At(t, pc) == t \in DOMAIN run /\ run[t].pc = pc
Goto(t, pc) == run' = [run EXCEPT ![t].pc = pc]

Answer(t, n) ==
    [k \in 1..n |-> [user |-> User, session |-> Session, sub_seq_index |-> k - 1,
                     status |-> "completed", task |-> t]]

\* a deleted session, or an error of the database, sends it to "failed"
RunMessages(t) ==
    /\ At(t, "agent")
    /\ \E n \in 0..MaxAnswers :
          LET r == insert_agent_messages_from_list(db, Answer(t, n))
          IN  /\ db' = r.db
              /\ Goto(t, IF r.ret = Failure THEN "failed" ELSE "status")
    /\ UNCHANGED <<snd, proc, client>>

RunFails(t) ==
    /\ At(t, "agent") \/ At(t, "status") \/ At(t, "messages")
    /\ Goto(t, "failed")
    /\ UNCHANGED <<db, snd, proc, client>>

\* a cancelled task writes the same rows, with its own status
RunStatus(t) ==
    /\ At(t, "status")
    /\ db' = update_task_status(db, t, "completed").db
    /\ Goto(t, "messages")
    /\ UNCHANGED <<snd, proc, client>>

RunAcknowledge(t) ==
    /\ At(t, "messages")
    /\ db' = update_user_message_status_by_ids(db, run[t].msgs, "completed").db
    /\ Goto(t, "ended")
    /\ UNCHANGED <<snd, proc, client>>

\* the handler of exceptions: the status, the messages, the roll back
RunFailed(t) ==
    \/ /\ At(t, "failed")
       /\ db' = update_task_status(db, t, "failed").db
       /\ Goto(t, "error")
       /\ UNCHANGED <<snd, proc, client>>
    \/ /\ At(t, "error")
       /\ db' = update_user_message_status_by_ids(db, run[t].msgs, "error").db
       /\ Goto(t, "rollback")
       /\ UNCHANGED <<snd, proc, client>>
    \/ /\ At(t, "rollback")
       /\ db' = delete_agent_messages_by_session_task(db, t).db
       /\ Goto(t, "ended")
       /\ UNCHANGED <<snd, proc, client>>

-----------------------------------------------------------------------------
(* delete_session_api *)

\* the session is the user's: between the check and the statement it can
\* only be deleted by another request
DeleteSession ==
    /\ Mine(Session)
    /\ db' = delete_session(db, Session).db
    /\ UNCHANGED <<snd, proc, run, client>>

-----------------------------------------------------------------------------
(* get_session_active_task, by a client that will read the history next *)

ActivePending ==
    /\ client = Idle /\ Mine(Session)
    /\ client' = [pc |-> "active", tasks |-> Where(db, "tasks", "session", Session),
                  active |-> get_tasks_by_session_and_status(db, Session, "pending")]
    /\ UNCHANGED <<db, snd, proc, run>>

\* what the client asks the history for next
History(limit, max, settled, seen, had) ==
    [pc |-> "page", limit |-> limit, max |-> max, settled |-> settled,
     seen |-> seen, had |-> had]

\* mutant: the processing tasks are not asked for
PendingOnly ==
    /\ client.pc = "active"
    /\ client' = IF client.active # {} THEN Idle
                 ELSE History(None, None, client.tasks, <<>>, {})
    /\ UNCHANGED <<db, snd, proc, run>>

\* told that no task is active, the client reads the whole history
ActiveProcessing ==
    /\ client.pc = "active"
    /\ LET all == client.active
                     \cup get_tasks_by_session_and_status(db, Session, "processing")
       IN  client' = IF all # {} THEN Idle
                     ELSE History(None, None, client.tasks, <<>>, {})
    /\ UNCHANGED <<db, snd, proc, run>>

-----------------------------------------------------------------------------
(* get_session_messages_history *)

\* a client that pages back from the newest message; external
AskNewest(n) ==
    /\ client = Idle /\ Mine(Session)
    /\ client' = History(n, None, {}, <<>>, {})
    /\ UNCHANGED <<db, snd, proc, run>>

\* the rows the request selects
Selected ==
    IF client.limit = None THEN {Where(db, "userMsgs", "session", Session)}
    ELSE IF client.max = None
    THEN get_user_messages_by_session_with_limit(db, Session, client.limit)
    ELSE get_user_messages_by_session_with_limit_and_seq_index(
            db, Session, client.limit, client.max)

Groups(page) == {page[i].task : i \in DOMAIN page}
Group(page, t) == {i \in DOMAIN page : page[i].task = t}
SeqIndex(page) == [i \in DOMAIN page |-> page[i].seq_index]

task_max_seq_index(page) ==
    [t \in Groups(page) |->
        CHOOSE n \in {page[i].seq_index : i \in Group(page, t)} :
            \A i \in Group(page, t) : page[i].seq_index <= n]

\* mutant: the tasks in any order
AnyOrder(page) == Sorted(Groups(page) \ {None}, [t \in Groups(page) |-> 0])

\* the tasks by their last message, the messages of no task after them
sorted_session_task_ids(page) == Sorted(Groups(page) \ {None}, task_max_seq_index(page))

\* of a row of the page, what it is grouped and ordered by
HistoryPage ==
    /\ client.pc = "page"
    /\ \E P \in Selected :
          LET page == [i \in P |-> [task |-> db.userMsgs[i].task,
                                    seq_index |-> db.userMsgs[i].seq_index]]
          IN  \E order \in sorted_session_task_ids(page) :
                 client' =
                    [pc |-> "groups", limit |-> client.limit, max |-> client.max,
                     settled |-> client.settled, seen |-> client.seen,
                     had |-> IF client.limit # None /\ client.max = None
                             THEN Where(db, "userMsgs", "session", Session)
                             ELSE client.had,
                     page |-> page, items |-> <<>>,
                     todo |-> order \o IF None \in Groups(page) THEN <<None>> ELSE <<>>]
    /\ UNCHANGED <<db, snd, proc, run>>

Items(role, l) == [k \in DOMAIN l |-> [role |-> role, id |-> l[k]]]

\* one group: its user messages, and its task's agent messages, read now
HistoryGroup ==
    /\ client.pc = "groups" /\ client.todo # <<>>
    /\ LET t == Head(client.todo)
       IN  \E mine \in Sorted(Group(client.page, t), SeqIndex(client.page)),
              theirs \in IF t = None THEN {<<>>}
                         ELSE get_agent_messages_by_session_task(db, t) :
              client' = [client EXCEPT !.todo = Tail(@),
                                       !.items = @ \o Items("user", mine)
                                                   \o Items("assistant", theirs),
                                       !.seen = @ \o mine]
    /\ UNCHANGED <<db, snd, proc, run>>

Answered == client.pc = "groups" /\ client.todo = <<>>

\* the next page is below the lowest message of this one; external
AskOlder ==
    /\ Answered /\ client.limit # None /\ DOMAIN client.page # {}
    /\ client' = LET seqs == {client.page[i].seq_index : i \in DOMAIN client.page}
                 IN  History(client.limit, CHOOSE n \in seqs : \A m \in seqs : n <= m,
                             {}, client.seen, client.had)
    /\ UNCHANGED <<db, snd, proc, run>>

Leave == Answered /\ client' = Idle /\ UNCHANGED <<db, snd, proc, run>>

HistoryNext ==
    \/ \E s \in Senders : SendIndex(s) \/ SendInsert(s)
    \/ ProcCollect \/ ProcTask \/ ProcLink \/ ProcMark
    \/ \E t \in DOMAIN run : \/ RunMessages(t) \/ RunFails(t) \/ RunStatus(t)
                             \/ RunAcknowledge(t) \/ RunFailed(t)
    \/ DeleteSession
    \/ ActivePending \/ ActiveProcessing
    \/ \E n \in Limits : AskNewest(n)
    \/ HistoryPage \/ HistoryGroup \/ AskOlder \/ Leave

HistorySpec == HistoryInit /\ [][HistoryNext]_historyVars

-----------------------------------------------------------------------------
(* Properties *)

\* no two messages of the session were given one index by senders that
\* read it at the same time, and the session is there
InSequence ==
    /\ session_exists(db, Session)
    /\ \A i, j \in DOMAIN db.userMsgs :
          db.userMsgs[i].seq_index = db.userMsgs[j].seq_index => i = j

(* The history lists a user's messages in the order of their index, though *)
(* it is put together task by task and the messages of no task come last:  *)
(* a task takes all the messages that wait, so tasks do not interleave.    *)
HistoryAscends ==
    Answered /\ InSequence =>
        LET index == SeqIndex(client.page)
        IN  \A i, j \in DOMAIN client.items :
                /\ i < j
                /\ client.items[i].role = "user" /\ client.items[j].role = "user"
                => index[client.items[i].id] < index[client.items[j].id]

(* A client that pages back sees no message twice, and when a page is      *)
(* empty it has seen every message there was when it began, whatever was   *)
(* sent and answered meanwhile.                                            *)
PagesComplete ==
    Answered /\ InSequence /\ client.limit # None =>
        /\ \A i, j \in DOMAIN client.seen : client.seen[i] = client.seen[j] => i = j
        /\ DOMAIN client.page = {} =>
              client.had \subseteq {client.seen[k] : k \in DOMAIN client.seen}

(* A client that is told that no task is active finds in the history it    *)
(* reads next all that the tasks it asked about have answered: a task      *)
(* leaves "processing" after its agent messages are there.                 *)
SettledIsComplete ==
    Answered /\ session_exists(db, Session) =>
        \A t \in client.settled :
           db.tasks[t].status = "completed" =>
              Where(db, "agentMsgs", "task", t)
                 \subseteq {client.items[k].id : k \in DOMAIN client.items}

=============================================================================
