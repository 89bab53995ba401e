# IDIOT in TLA+

Specifications, model-checking configurations and machine-checked proofs for
the backend in `api/`: a chat service in which a user talks to an LLM agent in
sessions, the agent calls tools, tools ask the user back, and files live half in
PostgreSQL and half in S3. Everything runs as coroutines in one or more worker
processes that share PostgreSQL, Redis and S3 and nothing else.

    tlc -workers 2 -config session_faults.cfg MCSessionTask
    tlapm SessionTask_proofs.tla

Line numbers in this document and in the comments are those of the source.

## 1. Inventory

### Components, their state and their operations

| component | code | state | operations | module |
|---|---|---|---|---|
| session tasks | `app/chat/*.py`, `chat/chat_task.py`, `redis/pubsub.py` | five tables, the pre-processing lock, the subscriptions to cancel channels | send a message, process the pending ones, cancel a task, delete a session, the background run | `SessionTask` |
| distributed lock | `redis/distributed_lock.py` | a Redis key with a TTL, a watchdog per holder | acquire, renew, release | `DistributedLock`, contract `LeaseLock` |
| human in the loop | `human_in_loop/*`, `redis/human_in_loop.py` | two Redis streams per task, their TTLs, the TTL deamon | open and close the streams, interrupt, notify, poll, respond | `HumanInLoop` |
| user file system | `user_space/file_system`, `s3_FS` | rows, S3 objects, a lock per path | open for reading or writing, save, move, delete, create folders | `UserFiles` |
| agent loop | `agent/base_agent.py`, `agent/strategy` | the conversation, memories and rows of one run | rounds of an LLM call, its chunks and the tools it asks for; cancellation | `AgentTurn` |
| stream of the answer | `chat/base_processor.py`, `chat/streaming_processor.py`, `chat/stream_listener.py`, `app/chat/listen_to_session_streaming.py` | a queue per run, a Redis stream per task, a generator per connection | push, add, expire, drain; connect, read, reconnect | `AgentTurn`, contract `AnswerStream` |
| session history | `app/chat/session_message_history.py`, `app/chat/sessions.py` | none of its own | read the history or a page of it, ask for an active task | `ChatHistory` |
| chat data layer | `chat/sql_stat/*`, `agent/sql_stat/*` | seven tables with foreign keys | one transaction per function | `ChatTables`, `ChatDatabase`, `ChatStore` |
| accounts and authentication | `authentication/*` | the accounts table, the cookie | sign up, log in, refresh, log out, check a request | `AccountTables`, `AccountStore` |
| file and agent-to-agent tables | `user_space/file_system/sql_stat`, `agent/tools/a2a_chat_task/sql_stat` | three tables | one transaction per function | `AccountTables`, `AccountStore` |
| graceful shutdown | `app/graceful_shutdown.py` | context variables | wrap a task | its effect is in `SessionTask` and `HumanInLoop` |
| load balancer | `load_balance` | service registry | select, call, retry | the retries are in `AgentTurn` |
| the rest | role strategies update, agent-to-agent worker, chunking, vector and graph databases, LLM clients, prompt templates, Celery, logging, graph executor, WebSocket worker | | | not modelled, see section 8 |

### How they interact

* `process_pending_messages` takes the distributed lock of the session, creates a
  task row and starts `session_chat_task`, which lives on in the worker after the
  response.
* `session_chat_task` subscribes to its cancel channel, opens the human-in-the-loop
  streams, runs the agent and writes the outcome. `cancel_session_task` reaches it
  only through Redis pub/sub, which forgets what nobody listens to.
* The agent pushes what it says and does into a queue; a coroutine moves it to a
  Redis stream; clients of `/chat/streaming` read that stream in any worker.
* Tools call `interrupt` and `notification` on the human-in-the-loop streams; the
  user's devices reach them through `/hil/poll` and `/hil/respond`, in any worker.
* The user file system takes one distributed lock per path. Its only users in the
  application are the role tools, which open and save; move and delete are an
  API without a caller yet.
* Every function of a `sql_stat` package opens a connection and commits by itself.
  There is no transaction that spans two calls, hence every awaited statement is
  one atomic step and anything may happen between two of them.

### What is hard

Concurrent requests on one session; a coroutine that outlives the request that
started it; a status flipped before the work it announces is finished; rollbacks by
further autocommitted statements that can fail themselves; leases that run out under
a slow holder; cancellations that come too early, too late or twice; several readers
with private cursors on one stream; clients that lose a connection with an entry on
its way; histories put together from several statements while they are written;
streams that vanish and come back; records that are read before the lock that should
protect them; S3 and PostgreSQL disagreeing after a failure in between; workers that
die at any point. `PROJECT.json` lists every such place with its line and the
properties that watch it, or, where no property would notice (because the code
gives no guarantee there, or because the place is the named exception of a property),
a note that says so. Section 5 collects these places.

### What makes each component correct

* Session tasks: one task in processing per session; a message belongs to one task;
  the memory of a session is the sequence of its answered tasks, and a run sees all of
  it; the tables agree with the final status; a task leaves processing; a deleted
  session leaves nothing.
* Lock: a client that renews is alone; latecomers disturb nobody; a key is never stuck.
* Human in the loop: answers reach their own question, none is passed over, a
  question that waits can be answered, a device sees everything once, an interrupt
  ends, no stream stays.
* Files: clients of one path never overlap; what was read at the open holds until the
  save; no version is lost; what is listed can be read.
* Agent turn: every call of a tool has its answer in the memory; what is kept is what
  was streamed; no tool starts after a cancellation; a client gets every entry once
  and in order however often it reconnects; the turn and every listener end.
* Data layer: no row refers to a row that is gone; queries of one table agree; a call
  stays within its session. Accounts: names are unique, one password opens an
  account, a deleted account is answered no more.
* History: it ascends, its pages are complete, and it holds the answers of tasks the
  client knows to be settled.

## 2. Modules

    LeaseLock  <----refined by----  DistributedLock      (key, TTL, watchdog)
        ^  ^
        |  +---- FileLease (one per path) ----  UserFiles
        +---- SessionLease (one per session) ----  SessionTask

    AnswerStream  <----refined by----  AgentTurn         (queue, stream, clients)

    Relations  <--extended by--  ChatTables  <--  ChatDatabase  <--  ChatStore    (all calls, any order)
               |                                               <--  ChatHistory  (handlers as programs)
               +--  AccountTables  <--  AccountStore

    HumanInLoop                      MC<module>: instance for TLC
                                     <module>_proofs: theorems

    Relations_proofs  <--extended by--  AccountStore_proofs
                                        Chat_proofs (also of ChatStore and ChatHistory)

`SessionTask` and `UserFiles` use an abstract lock, a variable with a holder. That is
justified in two halves: both are shown to treat it as `LeaseLock` permits
(`SessionLease`, `FileLease`), and `DistributedLock` is shown to implement `LeaseLock`
(`LeaseSpec`). `LeaseLock` counts a client whose renewal failed as one that has left:
nobody else is harmed by it, but what it does afterwards to sessions and files is
outside the two models.

`SessionTask` gives the agent one step between reading the memory and writing the
records; `AgentTurn` is that step in full. It takes the cancel event over from there
(`CancelArrives` is `RunSubscribe` and `CancelPublish` seen from inside) and hands the
outcome back (`Record`).

### SessionTask

| actor (code) | state | actions |
|---|---|---|
| `send_message` | `sendPc` | `SendReadSeq`, `SendInsert` |
| `process_pending_messages` | `reqPc`, `reqSession`, `reqPend`, `reqTask`, `reqResp` | `ReqAcquire`, `ReqGetSession`, `ReqCheckProcessing`, `ReqCollect`, `ReqInsertTask`, `ReqLinkMessages`, `ReqMarkMessages`, `ReqRelease`, `ReqSpawn`; faults `ReqAcquireFault`, `ReqFault`, `ReqReleaseFault` |
| `session_chat_task` | `runPc`, `runPend`, `runSeen`, `runSeq`, `runOut`, `runSaid` | `RunEnter` ... `RunSetMessages`; the exception handlers `RunFailStatus` ... `RunDeleteAgentMsgs`; `RunFault` |
| `cancel_session_task`, pub/sub | `cancelPc`, `cancelTask`, `subscribed`, `cancelEvent` | `CancelCheck`, `CancelPublish`, `RunSubscribe`, `RunAgentCancelled` |
| `delete_session` | `sessionState` | `DeleteSession`, with the cascade of the foreign keys |
| lock, workers | `lock` | `LockExpire`, `Crash(R, T)` |

The tables are functions from row ids to columns (`msgStatus`, `taskStatus`, ...);
`userMem`, `agentMem`, `agentMsgs` hold one row per task and kind, plus the `seq_index`
where the order matters. `runSaid` holds the tasks whose agent returned something to keep: an
answer whose stream ends without a finish_reason leaves the agent's two lists empty, for
which their inserts issue no statement (`InsertList`), and its task completes without
agent memory or message. Task ids are numbers in the order of their creation, as
uuidv7 ids are. The text of messages, the title and the answer stream are left out.
`Raise` is the try statement of `__session_chat_task`: where an exception goes
depends on where it is raised, and an exception inside a handler goes nowhere.

### DistributedLock and LeaseLock

Time is discrete: `ttl` is the life the key has left, `age` the time since a client
last set or renewed it. `Tick` lets a due renewal be at most `MaxLag` late, which is what the
code's 20 s of 30 s leave room for (`DistributedLockAssumption`: `Interval + MaxLag <
TTL`). Release is two steps (`StopWatch`, then the Lua compare-and-delete), a renewal
under way when the watchdog is cancelled still arrives (`LateRenew`), a `SET` whose
reply is lost leaves a key without a client (`AcquireFault`), a failing renewal ends the
watchdog for good (`RenewFault`). `LeaseLock` is the contract: a key is given when
it is free and taken only from an owner that is no longer working.

### HumanInLoop

One action per Redis command of the context (`Enter`, six commands; `Refresh`; `Exit`),
of `__interrupt` (`CheckSend`, `CheckRecv`, `SendRequest`, `TakeAnswer`,
`DeleteAnswer`, `SkipOthers`, `TimeOut`, `CancelWait`), of `notification`, of
`/hil/respond` (`RespondRead`, `RespondAck`, `RespondWrite`) and of `/hil/poll`.
`callOut` is what `interrupt` tells its caller, `out` what the task it started comes to:
they differ, which is one of the findings. A stream is a set of entries with
increasing ids, an existence bit and a TTL bit.

### UserFiles

`rows` maps a row (named by the writer that inserted it) to its path, `object` a
path to the version stored under it (named by the writer that saved it), `lock` a
path to its holder. Writers and readers lock first and look afterwards (`Open`,
`WriterQuery`, ..., `Record`, `Release`); movers and deleters look first (`LookUp`) and lock
afterwards (`Enter`). Options of an open (`create_if_missing`, `create_directories`) are
nondeterministic. Folders are rows without an object and without a lock.

### AgentTurn and AnswerStream

| code | state | actions |
|---|---|---|
| `AgentBase.__run`, `MainAgent`'s callbacks | `pc`, `iteration`, `chunks`, `indices`, `batch`, `mem`, `rows` | `CallAnswers`, `CallRaises`; `ChunkDelta`, `ChunkStop`, `ChunksEnd`, `ChunkCancelled`, `ChunkToolCalls`; `ToolsComplete`, `ToolsRaise` |
| `LOAD_BLANCER.execute` | `attempt` | `CallLimited` |
| the end of `__session_chat_task` | `outcome`, `status` | `Record`, `RecordFault`, `DrainAndStop` |
| cancel channel, worker | `cancelEvent` | `CancelArrives`, `Crash` |
| `StreamingProcessor` | `pushed`, `handled`, `lost`, `processor`, `stream`, `exists` | `Process`, `StreamExpires` |
| `u2a_msg_stream_generator` and its client | `conn`, `got`, `currentId`, `checks`, `reads`, `connects` | `Connect`, `Disconnect`, `NoStream`, `ReadNext`, `ReadNothing` |

The loop suspends in the LLM call, at each chunk and while tools run: those are its
actions, and everything a callback does in between (announcing, numbering rows,
appending memories) belongs to the action. A tool call is its round and its index; a
message is its type and what it is about. `pushed` keeps the whole queue, of which
`handled` are done. `AnswerStream` says what a listener may rely on: an answer that only
grows, given to every reader once and in order.

### Relations, ChatTables, AccountTables

The database is one value, a record of tables, each a function from ids to rows.
`Relations` holds what SQL gives to all tables: inserts that keep foreign keys, updates
with a row count, cascades and ON DELETE SET NULL, the functions that take a list of
column names, ORDER BY as the set of lists it allows and LIMIT as the set of pages.
`ChatTables` and `AccountTables` define the functions of the `sql_stat` packages under
their own names on top of it, and the row types of their dataclasses. An id stands for
`created_at` too, because ids are uuidv7.

Two behaviours of the code are kept although they look like slips: the single-field getters
bind the column's name as a value and answer with that name (`FieldName`), and the update
functions of both memories bind column names and always raise.

`ChatDatabase` declares the database as a variable and says what rows its tables hold.
`ChatStore` and `ChatHistory` share it, so that what is proved of a call for any caller
(the sound tables of `ChatStore`) can be used of a handler in `ChatHistory`.

`ChatStore` and `AccountStore` let every function be called at any time with any rows, by
any number of callers, under the one rule the handlers keep: a call names rows of one
session. A `seq_index` is an argument the caller may have read long ago (`Indices`); the
functions that number rows themselves, with auto_index or because `seq_index` is None, read it in
a transaction of its own before each insert (`auto`, `AutoIndex`, `UserIndex`, `AutoInsert`).
`AccountStore` adds one browser (its cookie), one API client (its Bearer token) and the
clock that ends tokens.

### ChatHistory

The handlers that write a history (`send_message`, the inside of
`process_pending_messages`, the end of a task with its rollback, `delete_session_api`)
and one client that reads it, written as programs over `ChatTables`: an action is a statement.
`HistoryPage` and `HistoryGroup` are `get_session_messages_history`: the page is read
once, the agent messages task by task.

## 3. Plan

Done: `SessionTask`, `DistributedLock` with `LeaseLock`, `HumanInLoop`, `UserFiles`;
then `AgentTurn` with `AnswerStream`, the data layer (`Relations`, `ChatTables`,
`AccountTables`, their stores) and `ChatHistory`.

Runs are kept to a dozen in all, one per question.

Theorems: each safety property that a passing run checks is proved, and so are the
refinements. What is left is liveness, which stays with TLC.

## 4. Runs

| run | instance | what it shows |
|---|---|---|
| `session_faults` | 1 session, 2 messages, 2 requests, 1 cancellation, 2 tasks, 1 fault | `TypeOK`, `AtMostOneProcessing`, `NoMessageTwice`, `MemoryOrdered`, `RecordsMatchStatus`, `SingleFaultRecovered`, `ContextComplete`, `SessionLease` when any one awaited call raises |
| `session_live` | 1 message, 2 requests, 1 cancellation, deletion, 1 crash, fair | `DeletedLeavesNothing`, `TaskTerminates` |
| `session_memory_race` | 2 tasks, 1 fault | violation: `MemoryReadsConsistent` |
| `lock_faults` | 2 clients, TTL 4, interval 2, lag 1, one fault of each kind, 1 crash, fair | `TypeOK`, `OnlyHolderOrTime`, `KeyFreed`, `LeaseSpec` |
| `hil_answers` | 2 interrupts, 2 responders, 1 device, no fault, fair | `AnswersRight`, `StillAnswerable`, `StreamsVanish`, `InterruptEnds` |
| `hil_faults` | 1 interrupt in 2 rounds, a notification, an empty answer, 1 fault, 1 crash | `TypeOK`, `PollsExact` |
| `hil_caller` | 1 interrupt, 1 responder | violation: `CallerGetsAnswer` |
| `files` | 2 files in a folder of a folder, 2 writers, a reader, a mover, a deleter, 1 failure or crash | `TypeOK`, `SnapshotHolds`, `ListedIsReadable`, `VersionsKept`, `FileLease` |
| `agent_turn` | 2 rounds, 2 tool calls per round (one names no tool), 1 retry, 1 listener with 2 connections, 1 lost XADD, crash, fair | `TypeOK`, `CallsAnswered`, `RowsMatchStream`, `NoToolAfterCancel`, `StreamSpec`, `TurnEnds` |
| `store` | an account with two sessions and a task, 2 more ids, every call in any order | `RowsHaveParents`, `QueriesAgree`, `OneSessionPerCall` |
| `accounts` | 3 rows in all, 2 names, 2 passwords, 2 paths, 1 tick | `KeysKept`, `OnePassword`, `DeletedIsOut` |
| `history` | 2 senders, 3 messages, 2 tasks of at most 1 answer, pages of 2, a deletion | `HistoryAscends`, `PagesComplete`, `SettledIsComplete` |

Every property of a passing run has a mutant of the code (listed in
`PROJECT.json`, defined next to what it mutates) under which the run finds it violated.

### Bounds, and why they are enough

Every bound is a constant. An actor makes one call, so the sets of actors bound the
calls. Sessions, streams of different tasks and locks of different paths share nothing,
so one session and one pair of streams are enough; files need two, for a move. Two
requests are what it takes to race for the lock, to find the other's task and to start after
a failed one. One fault reaches every handler; a second fault would only be one inside a
handler, where the code promises nothing (`SingleFaultRecovered` says for which places
this already holds for one). Two files, two writers and one each of the others are
enough for every pair that meets on a source or a target. The lock's numbers keep the code's
relations: an interval and a lag shorter than the TTL.

`agent_turn`: two rounds are one that asks for tools and one that may not; two indices
give a known and an unknown call in both orders; one chunk before the last is enough for a
cancellation before, between and after. `MaxConnects = 2` is one reconnection, and
`MaxChecks = MaxReads = 2` lets each counter of the listener be reset once. The message whose
XADD may fail is `stream_end` (`LossyTypes`), the one a listener waits for; a lost
other message only shortens the stream.

`store`: `MaxId = 6` leaves room for two rows beside the account, its sessions and a
task, hence for every pair of rows of two tables; what a third row could change is an
order, and orders are in `history`. `MaxIndex = 1` lets a caller bring an index that is
taken and one that leaves a gap. `Locks = {FALSE}`: the functions can set
a session's `context_lock`, but no caller in the repository does and no property reads it; the
theorems are about both values. `accounts`: three rows are two accounts and a row of
one, or one account and two rows; short sign-ins (`Short = 0`) end within the clock,
long ones do not. `history`: three messages and pages of two are two pages, of which
the second may be short, with two tasks to group them by.

The theorems of section 6 do not depend on any bound.

`CHECK_DEADLOCK FALSE` stands where calls are finite: when all actors are done
the system rests. The lock's runs keep the check, time never stops; so do `store` and
`accounts`, where calls may be repeated for ever.

### Fairness

`SessionTask` and `HumanInLoop` have one weak fairness over the disjunction of all steps
of ready coroutines and of Redis' expiry (`Runs`): the event loop goes on as long
as something is ready, with no promise whose turn it is. It is the weakest that
excludes a system that stops, it suffices because every actor makes finitely many steps, and
it is what asyncio gives. It covers the end of the agent's work: the
LLM stops calling tools and every streamed answer ends. The code sets no limit to the
rounds (`base_agent.py:269`), so this is an assumption about the LLM, and `TaskTerminates`
says what follows from it. Nothing is
assumed of users, cancellations, faults or crashes. `DistributedLock` has weak fairness per
client and for time. `AgentTurn` has weak fairness for the turn, the processing coroutine
and each listener's generator: three coroutines, each of which the event loop resumes when
its await is over; that an LLM call, a tool or a blocking XREAD comes back, with a result
or an error, is the assumption behind it. Its limit on rounds is a bound of the model, for the reason
given above. `UserFiles`, the stores and `ChatHistory` state only safety.

## 5. Findings

* `session_memory_race`: the handler of a failed run sets the task to failed
  (`chat_task.py:368`) before it deletes the run's memories (`:379`, `:381`). The next task
  may start in between and read the agent memory of a task whose user memory is gone,
  which `query_short_term_memory` (`:97`) takes for corruption: a healthy task fails.
* `hil_caller`: `set_following_task_for_graceful_shutdown_timeout` resets its token on a
  new `ContextVar`, which raises `ValueError`: `interrupt` raises while its task goes on,
  sends the question, and swallows the answer.

Where the code gives no guarantee, the properties name the case as an exception, and a change
for the worse there would go unnoticed by them: the places at which one fault is not
recovered (`SingleFaultRecovered`), the client that goes on after its renewal failed
(`LeaseSpec`), the empty answer (`AnswersRight`), a crash while the streams are opened
(`StreamsVanish`, whose run has none), stale moves and objects without a base version
(`SnapshotHolds`, `ListedIsReadable`, `VersionsKept`), a message that never reaches the Redis
stream (`RowsMatchStream`, which is about the queue), shared indexes (`HistoryAscends`,
`PagesComplete`). The list below describes these cases.

Met while reading, without a run of their own:

* For the same reason `process_pending_messages` starts the task and answers 500. Every
  call makes a `ContextVar` of its own (`graceful_shutdown.py:21`), so a mark is never
  found again and shutdown waits for nothing.
* `/hil/respond` deletes the question before it writes the answer (`router.py:98`); if
  the write fails both are gone. `StillAnswerable` is therefore checked without faults.
* `seq_index` of user messages is read and used in two statements (`send_message.py:57`),
  so two messages may share one, although `U2AUserMsg.sql:1` means it to order them. A page
  that ends between two such messages leaves one out: `HistoryAscends` and `PagesComplete`
  are stated for histories without a duplicate, which `InSequence` says.
* The pending messages of a batch are given to the agent newest first (`ORDER BY seq_index
  DESC`).
* A failed task's agent messages are shown between its status and its rollback:
  `SettledIsComplete` speaks of completed tasks.
* `delete_session_api` turns its own 404 into a 500.
* The lock calls itself reentrant (`distributed_lock.py:17`); acquiring it twice raises
  (`:85`).
* An answer that is empty is read, skipped and never returned (`interrupt.py:155`);
  `AnswersRight` excepts it.
* Writers that come after a context's exit create its streams again; they carry a TTL
  and vanish (`StreamsVanish`). A worker that dies while it opens the streams can
  leave one without (`context.py:44`). If the exit's `DEL` fails, the deamon is not
  cancelled and refreshes the streams for ever (`context.py:67`).
* Folders are created without a lock (`create_dir.py:57`): of two writers that need the
  same folder one fails on the unique index.
* Moving, deleting or listing a folder fails on every call: `LIKE ... ESCAPE "\"`
  (`FileSystem.sql:43`) names a column in PostgreSQL.
* A move or delete acts on a row it read before it had the lock (`move.py:65`,
  `delete.py:63`), and a move locks the source only (`move.py:110`).
  `ListedIsReadable`, `SnapshotHolds` and `VersionsKept` name these cases as their
  only exceptions. One of them came from the proof and is out of the run's reach, which has
  one mover: a first move looks up a file at `a`; a second takes it to `b`, and a third back
  to `a`; while the first, which now has the lock of `a`, deletes the object there, the third
  still has to say in the row that the file is back. What is then listed at `a` has no object,
  although no call failed and the first move acted on the row it meant to.
* S3 transfers block the event loop (`file_object.py:115`); one that takes longer than the
  lease lets the file's lock lapse, because the watchdog stands still too.
* `/user_exists` (`app/auth/token.py:60`) calls the name of a deleted account free, but the
  unique index keeps it: signing up with such a name raises. Refreshing
  replaces a 30-day sign-in by a 15-minute one (`token.py:73`). `get_current_user_id` trusts
  the token alone; nothing depends on it, and `DeletedIsOut` is what would break.
* Code that fails before it changes anything is listed in section 8.

## 6. Proofs

Each `_proofs` module is checked by TLAPS with no assumption besides the named `ASSUME` of
its specification: `SessionTaskAssumption`, `DistributedLockAssumption` (`Interval +
MaxLag < TTL`, 20 s of 30 s in the code), `HumanInLoopAssumption`, `UserFilesAssumption`
and `AgentTurnAssumption` are about distinct ids, natural numbers and the tree of folders;
the stores assume that their bounds are numbers, of which `ChatStore`'s leaves room for the
rows of `StoreInit` (`BoundsAreNat`, `RoomForInit`), that its callers' indexes are numbers and
the locks they set Booleans (`InputsAreValues`), that statuses are those of the CHECK
constraints (`StatesAreStatuses`), and that NULL is no id, status or row and an exception no
id or list of them (`NoneAndFailure`, `NullIsNoStatus`, `NullIsNoRow`, `FailureIsNoList`).
`ChatHistory` assumes that its bounds and the page sizes are positive (`BoundsPositive`).

* `SessionTask_proofs`, on locks: `TypeCorrect`, `LockProtectsAlways`, `OneTaskPerSession`,
  `LocksAreLeases`. `AtMostOneProcessing` is not inductive: whether an insert keeps it
  depends on what the request knows. The invariant adds that a request between acquire and
  release is the holder of its session's lock, and that between its check and its
  insert no task of the session is in processing (`LockProtects`). Only the holder inserts;
  every other step takes tasks out of processing or leaves them (`FewerProcessing`), so the
  knowledge lasts. `OutcomeKnown` is needed for the types alone: the status written
  at the end is the one the agent's step chose.
* `SessionTask_proofs`, on records: `NoMessageGivenTwice`, `DeletedStaysEmpty`, `MemoryInOrder`,
  `RecordsAgree`, `OneFaultRecovered`, `ContextIsComplete`, on two invariants. `RecordsAgree` says that a task that
  ended has kept what its agent returned, nothing included, and the memories of exactly its
  batch, or, when it failed, none of either. `RInv` says
  who owns what: a run has one request behind it, a row's session lives, a message of a batch
  that has a task either left its waiting status or has that task still in processing, and task
  ids are handed out when nothing of their session runs (`Succession`). Hence a request that has
  just seen its session idle cannot collect a message of an earlier batch. `MInv` says what
  the place of a run tells of its memories: a run about to insert holds an index above every row of
  its session (`SeqsKnown`), which no other run can spoil because it is alone. The bounds on
  `faults` are part of the statements: with two failures the second may hit the handler of the
  first, where the code promises nothing, and with one failure the memory a task reads may be
  half rolled back (the first finding of section 5). `SingleFaultRecovered` and
  `RecordsMatchStatus` are proved up to one failure, `ContextComplete` (which itself speaks
  of none) for sessions nobody deletes.
* `DistributedLock_proofs`: `TypeCorrect`, `HealthyHolderAloneAlways`,
  `OnlyHolderOrTimeAlways`, `LockIsLease`. The invariant ties the life of the key to
  the time since its last renewal (`Leased`: a client that renews owns the key and `ttl +
  age >= TTL`); since `age` stays at or below `Interval + MaxLag`, the key outlives every
  renewal. `LockIsLease` holds whatever renewals fail: a client that lost its watchdog is
  no holder of the lease.
* `HumanInLoop_proofs`: `TypeCorrect`, `AnswersMatchAlways`, `NoAnswerSkipped`, and both
  together as `AnswersRightAlways`. Entry ids grow and
  are unique on the receive stream, readers stay behind the next id, an answer on
  the stream was posted by its responder, and an interrupt before its wait has read nothing.
  Steps on the streams either remove entries or add one at the end (`RedisSteps`),
  which keeps the proof to one lemma per invariant and kind of step. `PollsExactAlways`
  is the same for the send stream, where the invariant speaks of every entry on the stream
  or ever shown (`Seen`), because a stream may vanish and come back between two polls.
  `StillAnswerableWithoutFaults`: from its sending on a question is on the send stream, in the
  hands of a responder, or answered on the other stream (`Outstanding`), as long as the
  context is open and both streams live (`ContextLive`).
* `UserFiles_proofs`: `TypeCorrect`, `HolderAtWorkAlways`, `FilesAreLeases`. `LockSteps` maps
  every one of the specification's actions to one of seven things it can do to the locks; the
  invariant and the refinement are proved about those. `SnapshotAlways`, `ListedAlways` and
  `VersionsAlways` share one invariant (`FInv`), about paths and rows at once: a path has one
  row; the row a client read is where it read it, deleted, or where a move put it
  (`RowsTraced`); what a move copied stands until somebody works on the target (`CopyHolds`);
  and a row without its object has somebody at work on it, or its excuse
  (`LossExplained`). An excuse must last, which is where the case of three moves appeared.
* `AgentTurn_proofs`: `ReadersAheadAlways`, `StreamIsAnswer`. The refinement of
  `AnswerStream` rests on one fact, that an open connection reads on from where its client
  is (`ReadersAhead`): `Connect` establishes it from `Last-Event-ID`, `Continue` moves both
  sides by one, and `Leave` gives it up. The turn's own actions leave stream and clients
  alone (`TurnKeepsReaders`). Nothing about the messages is needed, so the result holds
  for any rounds, tools, losses and number of clients and reconnections.
  `TypeCorrect`, `NoToolAfterCancelAlways`, `TurnKeptAlways`, `CallsAlwaysAnswered` and
  `RowsAlwaysMatch` are about the turn. Their invariant `TurnKept` compares what was
  announced with what is remembered: until the end is announced, the calls on the
  queue are those of the memory followed by those under way (`Pending`), and the texts and
  responses on it are the rows. Memory and queue are flattened lists, so the proof
  rests on lemmas about `FlattenSeq` and `SelectSeq` of a concatenation.
* `Relations_proofs` has the lemmas on the operators of `Relations` that proofs about tables
  need: what an insert, a batch and an update leave in each table (`InsertEffect`,
  `InsertAllEffect`, `ColumnsAreRows`, `ChangeEffect`), what a deletion takes along
  (`DeleteEffect`), that each of them keeps the foreign keys (`InsertKeys`, `ChangeKeys`,
  `RemoveKeys`), that `MAX + 1` is above all rows (`NextIndexAbove`), and what an ordered list
  and a page of it hold (`SeqsAreLists`, `FirstPage`, `OlderPage`), and that there is one
  (`SomeOrder`).
* `Chat_proofs`, on `ChatStore`: `RowsHaveParentsAlways`, `CallsStayInSession`, `QueriesAgreeAlways`.
  The tables are sound (`ChatSound`) if ids were given out, keys hold, rows have their types,
  and a row and its task are of one session. What a call does is said once for all of them
  (`Call`): it leaves sound tables, writes rows of one session, and gives a task neither
  another session nor an id used before. Inserts, updates and cascades are such calls
  (`InsertAllIsCall`, `ChangeIsCall`, `DropTasksIsCall`, `DropSessionIsCall`), and so is every
  function (`SessionCalls` ... `AgentMemCalls`). `ChatSound` is not inductive because of the
  caller that reads an index in one transaction and inserts in the next: in between its task may
  be deleted. `AutoSound` says that the ids of its rows' task were given out, so that no task of
  another session can take them (`OfItsTask`); the insert then either fails or finds the task of
  its session (`NumberedSound`).
* `Chat_proofs`, on `ChatHistory`: `HistoryIsSound`, and from it `HistoryIsInOrder`,
  `PagesMissNothing`, `SettledTasksAreShown` and `HistoryAnswers`. The properties speak of a finished answer, which
  a client put together from many statements; the inductive invariant `HInv` says what holds
  at every statement. Of the writers: indexes have no gap and later messages have higher ones while no two
  share one (`Indexed`); the messages without a task are the latest, and those of an earlier task
  are earlier (`MsgsSound`), because the request inside the lock collects all that wait and links
  all it collected to the newest task (`ProcSound`); a task is processing until its coroutine has
  written its agent messages, and no coroutine shares its messages (`RunSound`). Of the reader:
  the rows of its page still have the index they were read with (`PageSound`), each task it was
  told is settled is shown in full or yet to come (`SettledSound`), what it has seen lies above
  the page or in a group that had its turn, and what it wants below (`PagingSound`), and the
  items are in order, before those of the groups to come (`OrderSound`). Writers and
  reader meet in one relation, `Keeps`: messages keep their index, and a task that is
  not processing stays so and gets no agent message. Every writer's step is shown to keep
  `Writers` and to be such a step (`WriterStep`), and a reader relies on nothing else
  (`ReaderStays`), which makes one proof per action instead of one per pair. All of it holds while the session exists;
  the order and the pages are proved, as they are checked, for sessions in which no two messages
  share an index now: that they never did before follows, because messages are not renumbered
  (`OutOfSequence`). That the tasks, ordered by their last message, do not interleave is
  `GroupsFollow`; that a page has no hole is `PageRows`. TLC checked `HInv` on the instance of
  `history`, its types apart, before it was proved. A query answers with any list or page its set allows
  (`Sorted`, `Pages`), so that an ordering by a column that is not unique stays
  nondeterministic; `HistoryAnswers` says that the history never meets an empty such set
  (`SomeOrder`, `SomePage`).
* `AccountStore_proofs`: `SoundAlways`, `KeysAlwaysKept`, `OnePasswordAlways`,
  `DeletedStaysOut`. One invariant, `AccountsSound`, says that ids were given out once,
  foreign keys hold, no two rows clash in a name or a path, and every hash was made with the
  salt beside it; inserts and updates keep it if the row they leave fits
  (`InsertFollows`, `ChangeFollows`). A request is answered for an account
  that is live (`AnsweredIsLive`), so what is left for the last theorem is that no call brings
  a deleted account back: not an insert, because ids are new; not an update, because no caller
  but `delete_user` names the flag; not a call on another table (`OtherTableFollows`).

Induction over numbers or the length of a list goes by sets: a set of numbers that
contains 0 and the successor of each of its members contains all (`Induction` in
`AgentTurn_proofs`, from the well-foundedness of `<`).

Only model-checked:

* Liveness, which is outside TLAPS' reach: `TaskTerminates`, `KeyFreed`, `StreamsVanish`,
  `InterruptEnds`, `TurnEnds`.

## 7. Abstractions worth knowing

* A faulty call raises before it has an effect, except where a lost reply matters
  to a property: the lock's `SET` and its release.
* A crash takes any set of the actors at once; what they wrote stays. In `AgentTurn` it
  takes the turn and its processing coroutine, which share a worker.
* Calls of boto3 block the event loop (`file_object.py:115`): other coroutines of
  that worker stand still, which the interleavings of the model include; the lock's watchdog
  does too, which the lag of a renewal bounds.
* A move and a delete are given a path of a file; a folder's ends at its first query.
* A provider ends its response after the chunk with a finish_reason. Texts, arguments and
  results of tools are left out, and so are the prompts by which strategies differ.
* An exception of one tool ends the run after all of its batch are done; the exception of
  asyncio.wait for a batch of unknown tools only is `ChunkToolCalls`' second case.
* The key of the answer's stream expires only after the turn: every XADD and the TTL deamon
  renew it.
* Hashes stand for the password and salt they are made from, which makes them injective.
  bcrypt looks at the first 72 bytes of `password + salt` only: two passwords that agree in
  their first 72 bytes open the same account, and `OnePassword` is up to
  that. A salt stands for the time of its making, a JWT for its subject and expiry.
* In `ChatHistory` one request at a time is inside `process_pending_messages`, which
  `AtMostOneProcessing` and `LockProtects` justify. The memories are in `SessionTask`.
* Foreign keys, cascades, CHECK and UNIQUE constraints are modelled as the `.sql` files
  declare them; titles, contents, timestamps and the `updated_at` triggers are not.

## 8. Not modelled

Because there is no behaviour to model, the code failing before it changes anything:

* Role strategies update. The tool reads a file object opened for writing, which raises
  `ValueError` (`file_object.py:167`, called from `constructor.py:48` outside its `try`), so the
  background pipeline behind it (`constructor.py:73`) is never started.
* The agent-to-agent tool and worker. The tool's constructor calls `set_source_user_id`,
  which does not exist, and creates a task with a field its dataclass spells `parmas`; the
  query the worker polls with builds rows without `proactive_side` and raises on the first;
  nothing starts the worker, which pops its pool while iterating it (`worker.py:44`). The
  statements of side messages and memories bind a table name and are syntax errors. The
  tables of sessions and tasks, which work, are in `AccountTables`.
* The graph executor. `graph_core.py` does not compile (line 403), so nothing that imports it
  can be imported.
* Folder operations of the file system's SQL (`ESCAPE "\"`), its batch insert (an untyped
  `unnest`), and the queries with an expanding parameter inside `ANY`.
* The Celery task class, whose constructor raises, and the WebSocket worker, which is
  deprecated and not imported.

Because nothing uses it: `RedLock` (`distributed_lock.py:217`).

Because it keeps no state a property is about: document chunking, the Weaviate and Neo4j
clients, LLM clients, prompt templates, JSON extraction, the SQL loader, path helpers and logging are I/O or
text processing without a protocol. The load balancer's registry and strategies choose an
instance; only the number of attempts matters to a turn. Graceful shutdown marks tasks it
never finds again (section 5). Single queries of the data layer that count or list for a page
(`get_session_task_status_counts`, `check_session_has_task_with_statuses`, the list of
sessions and its titles) and the functions that create tables are left out.
