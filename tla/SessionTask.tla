---------------------------- MODULE SessionTask ----------------------------
(***************************************************************************)
(* The life of a chat session task: users send messages to a session, a    *)
(* process_pending_messages request collects the waiting ones under a      *)
(* Redis lock and starts a background session_chat_task, which reads the   *)
(* session's short-term memory, runs the agent, and writes memory,         *)
(* messages and statuses back, one autocommitted SQL statement at a time.  *)
(* A second request, a cancellation, a deletion of the session, a failing  *)
(* statement or the death of a worker may fall between any two statements. *)
(*                                                                         *)
(* The lock is abstract here (a holder or None); DistributedLock models    *)
(* its implementation on Redis.                                            *)
(***************************************************************************)
EXTENDS Naturals, Sequences, FiniteSets

CONSTANTS
    Sessions,    \* session ids
    Deletable,   \* the sessions whose owner may delete them
    Msgs,        \* user messages, each the work of one send_message request
    Reqs,        \* process_pending_messages requests
    Cancels,     \* cancel_session_task requests
    MaxTasks,    \* bound: how many session tasks are ever created
    MaxFaults,   \* bound: how many awaited calls raise
    MaxCrashes,  \* bound: how often a worker process dies
    None         \* no holder, no task

ASSUME SessionTaskAssumption ==
    /\ Deletable \subseteq Sessions
    /\ IsFiniteSet(Msgs)
    /\ {MaxTasks, MaxFaults, MaxCrashes} \subseteq Nat
    /\ None \notin Sessions \cup Reqs \cup Nat

Tasks == 1 .. MaxTasks   \* uuidv7 ids, increasing in time

VARIABLES
    \* the PostgreSQL tables
    sessionState, msgStatus, msgSession, msgTask, msgSeq,
    taskStatus, taskSession, userMem, agentMem, agentMsgs,
    \* Redis: the pre-processing lock, the cancellation channels' subscribers
    lock, subscribed,
    \* the send_message requests
    sendPc,
    \* the process_pending_messages requests
    reqPc, reqSession, reqPend, reqTask, reqResp,
    \* the session_chat_task coroutines
    runPc, runPend, runSeen, runSeq, runOut, runSaid, cancelEvent,
    \* the cancel_session_task requests
    cancelPc, cancelTask,
    \* bounds
    faults, crashes

msgTable  == <<msgStatus, msgSession, msgTask, msgSeq>>
taskTable == <<taskStatus, taskSession>>
memory    == <<userMem, agentMem, agentMsgs>>
reqVars   == <<reqPc, reqSession, reqPend, reqTask, reqResp>>
runVars   == <<runPc, runPend, runSeen, runSeq, runOut, runSaid>>
cancelVars == <<subscribed, cancelEvent, cancelPc, cancelTask>>
bounds    == <<faults, crashes>>

vars == <<sessionState, msgTable, taskTable, memory, lock, sendPc, reqVars,
          runVars, cancelVars, bounds>>

-----------------------------------------------------------------------------
(* Rows and queries *)

TaskRow(t) == taskStatus[t] \notin {"absent", "deleted"}
MsgRow(m)  == msgStatus[m] \notin {"absent", "deleted"}

\* get_tasks_by_session_and_status(s, "processing")
Processing(s) == {t \in Tasks : taskSession[t] = s /\ taskStatus[t] = "processing"}

\* mutant: the + 1 forgotten
NextSeqRepeats(S) == IF S = {} THEN 0 ELSE CHOOSE n \in S : \A k \in S : k <= n

\* COALESCE(MAX(seq_index), -1) + 1
NextSeq(S) == IF S = {} THEN 0 ELSE 1 + CHOOSE n \in S : \A k \in S : k <= n

NextMsgSeq(s) == NextSeq({msgSeq[m] : m \in {x \in Msgs : MsgRow(x) /\ msgSession[x] = s}})

MemOf(s) == {row \in userMem : taskSession[row.task] = s}
NextMemSeq(s) == NextSeq({row.seq : row \in MemOf(s)})
UserTasks(s)  == {row.task : row \in MemOf(s)}
AgentTasks(s) == {t \in agentMem : taskSession[t] = s}

\* the waiting messages of s in the order the query returns: seq_index DESC,
\* messages with equal seq_index in any order
Waiting(s) == {m \in Msgs : msgSession[m] = s /\ msgStatus[m] = "waiting_agent_ack_user"}
Listings(S) ==
    {p \in [1 .. Cardinality(S) -> S] :
        /\ \A m \in S : \E i \in DOMAIN p : p[i] = m
        /\ \A i, j \in DOMAIN p : i < j => msgSeq[p[i]] >= msgSeq[p[j]]}

InPend(m, p) == \E i \in DOMAIN p : p[i] = m

\* update_user_message_status_by_ids: the rows that still exist
SetStatus(p, st) ==
    msgStatus' = [m \in Msgs |-> IF InPend(m, p) /\ MsgRow(m) THEN st ELSE msgStatus[m]]

\* update_task_status: no row, no change, no error
SetTaskStatus(t, st) ==
    taskStatus' = IF TaskRow(t) THEN [taskStatus EXCEPT ![t] = st] ELSE taskStatus

-----------------------------------------------------------------------------
Init ==
    /\ sessionState = [s \in Sessions |-> "absent"]
    /\ msgStatus = [m \in Msgs |-> "absent"]
    /\ msgSession = [m \in Msgs |-> None]
    /\ msgTask = [m \in Msgs |-> None]
    /\ msgSeq = [m \in Msgs |-> 0]
    /\ taskStatus = [t \in Tasks |-> "absent"]
    /\ taskSession = [t \in Tasks |-> None]
    /\ userMem = {} /\ agentMem = {} /\ agentMsgs = {}
    /\ lock = [s \in Sessions |-> None]
    /\ subscribed = {} /\ cancelEvent = {}
    /\ sendPc = [m \in Msgs |-> "idle"]
    /\ reqPc = [r \in Reqs |-> "idle"]
    /\ reqSession = [r \in Reqs |-> None]
    /\ reqPend = [r \in Reqs |-> <<>>]
    /\ reqTask = [r \in Reqs |-> None]
    /\ reqResp = [r \in Reqs |-> "none"]
    /\ runPc = [t \in Tasks |-> "none"]
    /\ runPend = [t \in Tasks |-> <<>>]
    /\ runSeen = [t \in Tasks |-> {}]
    /\ runSeq = [t \in Tasks |-> 0]
    /\ runOut = [t \in Tasks |-> "none"] /\ runSaid = {}
    /\ cancelPc = [c \in Cancels |-> "idle"]
    /\ cancelTask = [c \in Cancels |-> None]
    /\ faults = 0 /\ crashes = 0

-----------------------------------------------------------------------------
(* send_message *)

\* the session is found or created, and the next seq_index is read
SendReadSeq(m, s) ==
    /\ sendPc[m] = "idle"
    /\ sessionState[s] \in {"absent", "live"}
    /\ sessionState' = [sessionState EXCEPT ![s] = "live"]
    /\ msgSession' = [msgSession EXCEPT ![m] = s]
    /\ msgSeq' = [msgSeq EXCEPT ![m] = NextMsgSeq(s)]
    /\ sendPc' = [sendPc EXCEPT ![m] = "insert"]
    /\ UNCHANGED <<msgStatus, msgTask, taskTable, memory, lock, reqVars, runVars,
                   cancelVars, bounds>>

\* the row is inserted with the seq_index read before; the foreign key refuses
\* it when the session is gone
SendInsert(m) ==
    /\ sendPc[m] = "insert"
    /\ sendPc' = [sendPc EXCEPT ![m] = "done"]
    /\ msgStatus' = IF sessionState[msgSession[m]] = "live"
                    THEN [msgStatus EXCEPT ![m] = "waiting_agent_ack_user"]
                    ELSE msgStatus
    /\ UNCHANGED <<sessionState, msgSession, msgTask, msgSeq, taskTable, memory,
                   lock, reqVars, runVars, cancelVars, bounds>>

-----------------------------------------------------------------------------
(* process_pending_messages *)

ReqUnchanged == UNCHANGED <<sessionState, memory, sendPc, runVars, cancelVars, bounds>>

\* mutant: the lock is taken whoever holds it
ReqAcquireAlways(r, s) ==
    /\ reqPc[r] = "idle"
    /\ sessionState[s] # "absent"
    /\ lock' = [lock EXCEPT ![s] = r]
    /\ reqSession' = [reqSession EXCEPT ![r] = s]
    /\ reqPc' = [reqPc EXCEPT ![r] = "get_session"]
    /\ UNCHANGED <<msgTable, taskTable, reqPend, reqTask, reqResp>>
    /\ ReqUnchanged

\* enter the lock of the session
ReqAcquire(r, s) ==
    /\ reqPc[r] = "idle"
    /\ sessionState[s] # "absent"
    /\ lock[s] = None
    /\ lock' = [lock EXCEPT ![s] = r]
    /\ reqSession' = [reqSession EXCEPT ![r] = s]
    /\ reqPc' = [reqPc EXCEPT ![r] = "get_session"]
    /\ UNCHANGED <<msgTable, taskTable, reqPend, reqTask, reqResp>>
    /\ ReqUnchanged

\* acquiring raises: 500 at once; the key may have been stored all the same
ReqAcquireFault(r, s) ==
    /\ faults < MaxFaults
    /\ reqPc[r] = "idle"
    /\ sessionState[s] # "absent"
    /\ \/ UNCHANGED lock
       \/ lock[s] = None /\ lock' = [lock EXCEPT ![s] = r]
    /\ reqPc' = [reqPc EXCEPT ![r] = "done"]
    /\ reqResp' = [reqResp EXCEPT ![r] = "500"]
    /\ faults' = faults + 1
    /\ UNCHANGED <<sessionState, msgTable, taskTable, memory, sendPc, reqSession, reqPend,
                   reqTask, runVars, cancelVars, crashes>>

Proceed(r, pc) == reqPc' = [reqPc EXCEPT ![r] = pc] /\ UNCHANGED reqResp

\* leave the body with an HTTP error; __aexit__ still releases the lock
Refuse(r, code) ==
    /\ reqPc' = [reqPc EXCEPT ![r] = "release"]
    /\ reqResp' = [reqResp EXCEPT ![r] = code]

ReqGetSession(r) ==
    /\ reqPc[r] = "get_session"
    /\ \/ sessionState[reqSession[r]] = "live" /\ Proceed(r, "check")
       \/ sessionState[reqSession[r]] # "live" /\ Refuse(r, "404")
    /\ UNCHANGED <<msgTable, taskTable, lock, reqSession, reqPend, reqTask>>
    /\ ReqUnchanged

\* mutant: the 409 forgotten
ReqCheckNothing(r) ==
    /\ reqPc[r] = "check"
    /\ reqPc' = [reqPc EXCEPT ![r] = "collect"]
    /\ UNCHANGED <<msgTable, taskTable, lock, reqSession, reqPend, reqTask, reqResp>>
    /\ ReqUnchanged

ReqCheckProcessing(r) ==
    /\ reqPc[r] = "check"
    /\ \/ Processing(reqSession[r]) = {} /\ Proceed(r, "collect")
       \/ Processing(reqSession[r]) # {} /\ Refuse(r, "409")
    /\ UNCHANGED <<msgTable, taskTable, lock, reqSession, reqPend, reqTask>>
    /\ ReqUnchanged

ReqCollect(r) ==
    /\ reqPc[r] = "collect"
    /\ \E p \in Listings(Waiting(reqSession[r])) :
        /\ reqPend' = [reqPend EXCEPT ![r] = p]
        /\ \/ p # <<>> /\ Proceed(r, "insert")
           \/ p = <<>> /\ Refuse(r, "204")
    /\ UNCHANGED <<msgTable, taskTable, lock, reqSession, reqTask>>
    /\ ReqUnchanged

\* create_session_task_record: the row is born "processing"
ReqInsertTask(r) ==
    /\ reqPc[r] = "insert"
    /\ \/ /\ sessionState[reqSession[r]] = "live"
          /\ \E t \in Tasks :
              /\ taskStatus[t] = "absent"
              /\ \A u \in 1 .. t - 1 : taskStatus[u] # "absent"
              /\ taskStatus' = [taskStatus EXCEPT ![t] = "processing"]
              /\ taskSession' = [taskSession EXCEPT ![t] = reqSession[r]]
              /\ reqTask' = [reqTask EXCEPT ![r] = t]
          /\ Proceed(r, "link")
       \/ /\ sessionState[reqSession[r]] # "live"
          /\ Refuse(r, "500")
          /\ UNCHANGED <<taskTable, reqTask>>
    /\ UNCHANGED <<msgTable, lock, reqSession, reqPend>>
    /\ ReqUnchanged

\* update_user_message_session_task_by_ids
ReqLinkMessages(r) ==
    /\ reqPc[r] = "link"
    /\ msgTask' = [m \in Msgs |-> IF InPend(m, reqPend[r]) /\ MsgRow(m)
                                  THEN reqTask[r] ELSE msgTask[m]]
    /\ reqPc' = [reqPc EXCEPT ![r] = "mark"]
    /\ UNCHANGED <<msgStatus, msgSession, msgSeq, taskTable, lock, reqSession,
                   reqPend, reqTask, reqResp>>
    /\ ReqUnchanged

\* mutant: the messages stay waiting
ReqMarkNothing(r) ==
    /\ reqPc[r] = "mark"
    /\ reqPc' = [reqPc EXCEPT ![r] = "release"]
    /\ UNCHANGED <<msgTable, taskTable, lock, reqSession, reqPend, reqTask, reqResp>>
    /\ ReqUnchanged

ReqMarkMessages(r) ==
    /\ reqPc[r] = "mark"
    /\ SetStatus(reqPend[r], "agent_working_for_user")
    /\ reqPc' = [reqPc EXCEPT ![r] = "release"]
    /\ UNCHANGED <<msgSession, msgTask, msgSeq, taskTable, lock, reqSession,
                   reqPend, reqTask, reqResp>>
    /\ ReqUnchanged

\* __aexit__ of the lock: compare-and-delete
ReqRelease(r) ==
    /\ reqPc[r] = "release"
    /\ lock' = [lock EXCEPT ![reqSession[r]] = IF @ = r THEN None ELSE @]
    /\ reqPc' = [reqPc EXCEPT ![r] = IF reqResp[r] = "none" THEN "spawn" ELSE "done"]
    /\ UNCHANGED <<msgTable, taskTable, reqSession, reqPend, reqTask, reqResp>>
    /\ ReqUnchanged

\* asyncio.create_task, then the exit of set_following_task_for_graceful_shutdown
\* resets the token on another ContextVar object: a ValueError, hence a 500
ReqSpawn(r) ==
    /\ reqPc[r] = "spawn"
    /\ runPc' = [runPc EXCEPT ![reqTask[r]] = "enter"]
    /\ runPend' = [runPend EXCEPT ![reqTask[r]] = reqPend[r]]
    /\ reqPc' = [reqPc EXCEPT ![r] = "done"]
    /\ reqResp' = [reqResp EXCEPT ![r] = "500"]
    /\ UNCHANGED <<sessionState, msgTable, taskTable, memory, lock, sendPc,
                   reqSession, reqPend, reqTask, runSeen, runSeq, runOut,
                   runSaid, cancelVars, bounds>>

\* an awaited call of the body raises: 500 after the lock is released
ReqFault(r) ==
    /\ faults < MaxFaults
    /\ reqPc[r] \in {"get_session", "check", "collect", "insert", "link", "mark"}
    /\ faults' = faults + 1
    /\ Refuse(r, "500")
    /\ UNCHANGED <<sessionState, msgTable, taskTable, memory, lock, sendPc,
                   reqSession, reqPend, reqTask, runVars, cancelVars, crashes>>

\* the release itself raises: 500, nothing is spawned, the key waits for its TTL
ReqReleaseFault(r) ==
    /\ faults < MaxFaults
    /\ reqPc[r] = "release"
    /\ faults' = faults + 1
    /\ reqPc' = [reqPc EXCEPT ![r] = "done"]
    /\ reqResp' = [reqResp EXCEPT ![r] = "500"]
    /\ UNCHANGED <<sessionState, msgTable, taskTable, memory, lock, sendPc,
                   reqSession, reqPend, reqTask, runVars, cancelVars, crashes>>

\* the TTL of a lock whose holder is gone runs out
LockExpire(s) ==
    /\ lock[s] # None
    /\ reqPc[lock[s]] \in {"done", "dead"}
    /\ lock' = [lock EXCEPT ![s] = None]
    /\ UNCHANGED <<sessionState, msgTable, taskTable, memory, sendPc, reqVars,
                   runVars, cancelVars, bounds>>
-----------------------------------------------------------------------------
(* session_chat_task *)

RunUnchanged == UNCHANGED <<sessionState, lock, sendPc, reqVars, bounds>>

Advance(t, pc) == runPc' = [runPc EXCEPT ![t] = pc]

\* mutant: no generic handler
RaiseUncaught(t) == Advance(t, "exited")

\* an exception in the try body goes to the generic handler; one raised in the
\* handler of a cancellation is caught by nobody
Raise(t) == Advance(t, IF runOut[t] = "cancelled" THEN "exited" ELSE "x_status")

\* the streaming processor and the HIL streams are entered
RunEnter(t) ==
    /\ runPc[t] = "enter"
    /\ Advance(t, "read_user_mem")
    /\ UNCHANGED <<msgTable, taskTable, memory, runPend, runSeen, runSeq, runOut,
                   runSaid, cancelVars>>
    /\ RunUnchanged

\* the background subscription to session_task_canceling:{t} takes effect
RunSubscribe(t) ==
    /\ runPc[t] \notin {"none", "enter", "exited", "dead"}
    /\ t \notin subscribed
    /\ subscribed' = subscribed \cup {t}
    /\ UNCHANGED <<msgTable, taskTable, memory, runVars, cancelEvent, cancelPc, cancelTask>>
    /\ RunUnchanged

\* query_short_term_memory, first query: the user memory
RunReadUserMem(t) ==
    /\ runPc[t] = "read_user_mem"
    /\ runSeen' = [runSeen EXCEPT ![t] = UserTasks(taskSession[t])]
    /\ Advance(t, "read_agent_mem")
    /\ UNCHANGED <<msgTable, taskTable, memory, runPend, runSeq, runOut, runSaid, cancelVars>>
    /\ RunUnchanged

\* second query, and the check that every agent memory has its user memory
RunReadAgentMem(t) ==
    /\ runPc[t] = "read_agent_mem"
    /\ \/ AgentTasks(taskSession[t]) \subseteq runSeen[t] /\ Advance(t, "agent")
       \/ ~ AgentTasks(taskSession[t]) \subseteq runSeen[t] /\ Raise(t)
    /\ UNCHANGED <<msgTable, taskTable, memory, runPend, runSeen, runSeq, runOut,
                   runSaid, cancelVars>>
    /\ RunUnchanged

\* mutant: the outcome is not recorded
RunAgentFinishSilent(t) ==
    /\ runPc[t] = "agent"
    /\ Advance(t, "next_seq")
    /\ UNCHANGED <<msgTable, taskTable, memory, runPend, runSeen, runSeq, runOut,
                   runSaid, cancelVars>>
    /\ RunUnchanged

\* mutant: the status is written before the memories
RunAgentFinishMarks(t) ==
    /\ runPc[t] = "agent"
    /\ runOut' = [runOut EXCEPT ![t] = "completed"]
    /\ runSaid' = runSaid \cup {t}
    /\ SetTaskStatus(t, "completed")
    /\ Advance(t, "next_seq")
    /\ UNCHANGED <<msgTable, taskSession, memory, runPend, runSeen, runSeq, cancelVars>>
    /\ RunUnchanged

\* the agent loop ends by itself; its lists are empty when the first response
\* ended without a finish_reason, else both have something (AgentTurn)
RunAgentFinish(t) ==
    /\ runPc[t] = "agent"
    /\ runOut' = [runOut EXCEPT ![t] = "completed"]
    /\ runSaid' \in {runSaid, runSaid \cup {t}}
    /\ Advance(t, "next_seq")
    /\ UNCHANGED <<msgTable, taskTable, memory, runPend, runSeen, runSeq, cancelVars>>
    /\ RunUnchanged

\* mutant: the cancelled run returns at once
RunAgentCancelReturns(t) ==
    /\ runPc[t] = "agent"
    /\ t \in cancelEvent
    /\ runOut' = [runOut EXCEPT ![t] = "cancelled"]
    /\ runSaid' = runSaid \cup {t}
    /\ Advance(t, "exited")
    /\ UNCHANGED <<msgTable, taskTable, memory, runPend, runSeen, runSeq, cancelVars>>
    /\ RunUnchanged

\* a streamed chunk arrives while the cancel event is set: what there is of the
\* answer is returned
RunAgentCancelled(t) ==
    /\ runPc[t] = "agent"
    /\ t \in cancelEvent
    /\ runOut' = [runOut EXCEPT ![t] = "cancelled"]
    /\ runSaid' = runSaid \cup {t}
    /\ Advance(t, "next_seq")
    /\ UNCHANGED <<msgTable, taskTable, memory, runPend, runSeen, runSeq, cancelVars>>
    /\ RunUnchanged

RunNextSeq(t) ==
    /\ runPc[t] = "next_seq"
    /\ runSeq' = [runSeq EXCEPT ![t] = NextMemSeq(taskSession[t])]
    /\ Advance(t, "ins_user")
    /\ UNCHANGED <<msgTable, taskTable, memory, runPend, runSeen, runOut, runSaid, cancelVars>>
    /\ RunUnchanged

\* mutant: no foreign key
InsertUnchecked(t, next, change) ==
    /\ change
    /\ Advance(t, next)
    /\ UNCHANGED <<msgTable, taskTable, runPend, runSeen, runSeq, runOut, runSaid, cancelVars>>
    /\ RunUnchanged

\* an insert succeeds while the session and task rows it refers to exist
Insert(t, next, change) ==
    /\ \/ sessionState[taskSession[t]] = "live" /\ change /\ Advance(t, next)
       \/ sessionState[taskSession[t]] # "live" /\ Raise(t) /\ UNCHANGED memory
    /\ UNCHANGED <<msgTable, taskTable, runPend, runSeen, runSeq, runOut, runSaid, cancelVars>>
    /\ RunUnchanged

\* what the agent returned; for an empty list no statement is issued, which
\* no foreign key can refuse
InsertList(t, next, change) ==
    \/ t \in runSaid /\ Insert(t, next, change)
    \/ /\ t \notin runSaid
       /\ Advance(t, next)
       /\ UNCHANGED <<msgTable, taskTable, memory, runPend, runSeen, runSeq, runOut, runSaid,
                      cancelVars>>
       /\ RunUnchanged

RunInsertUserMem(t) ==
    /\ runPc[t] = "ins_user"
    /\ Insert(t, "ins_agent",
              /\ userMem' = userMem \cup
                    {[task |-> t, seq |-> runSeq[t] + i - 1, msg |-> runPend[t][i]] :
                        i \in DOMAIN runPend[t]}
              /\ UNCHANGED <<agentMem, agentMsgs>>)

RunInsertAgentMem(t) ==
    /\ runPc[t] = "ins_agent"
    /\ InsertList(t, "ins_msgs",
                  agentMem' = agentMem \cup {t} /\ UNCHANGED <<userMem, agentMsgs>>)

RunInsertAgentMsgs(t) ==
    /\ runPc[t] = "ins_msgs"
    /\ InsertList(t, "set_status",
                  agentMsgs' = agentMsgs \cup {t} /\ UNCHANGED <<userMem, agentMem>>)

\* "completed" or "cancelled": from here on the session accepts another task
RunSetStatus(t) ==
    /\ runPc[t] = "set_status"
    /\ SetTaskStatus(t, runOut[t])
    /\ Advance(t, "set_msgs")
    /\ UNCHANGED <<msgTable, taskSession, memory, runPend, runSeen, runSeq, runOut,
                   runSaid, cancelVars>>
    /\ RunUnchanged

RunSetMessages(t) ==
    /\ runPc[t] = "set_msgs"
    /\ SetStatus(runPend[t], "completed")
    /\ Advance(t, "exited")
    /\ UNCHANGED <<msgSession, msgTask, msgSeq, taskTable, memory, runPend, runSeen,
                   runSeq, runOut, runSaid, cancelVars>>
    /\ RunUnchanged

\* the generic handler: the statuses first, the rollback of the memory after
RunFailStatus(t) ==
    /\ runPc[t] = "x_status"
    /\ SetTaskStatus(t, "failed")
    /\ Advance(t, "x_msgs")
    /\ UNCHANGED <<msgTable, taskSession, memory, runPend, runSeen, runSeq, runOut,
                   runSaid, cancelVars>>
    /\ RunUnchanged

RunFailMessages(t) ==
    /\ runPc[t] = "x_msgs"
    /\ SetStatus(runPend[t], "error")
    /\ Advance(t, "x_del_user")
    /\ UNCHANGED <<msgSession, msgTask, msgSeq, taskTable, memory, runPend, runSeen,
                   runSeq, runOut, runSaid, cancelVars>>
    /\ RunUnchanged

RunDeleteUserMem(t) ==
    /\ runPc[t] = "x_del_user"
    /\ userMem' = {row \in userMem : row.task # t}
    /\ Advance(t, "x_del_agent")
    /\ UNCHANGED <<msgTable, taskTable, agentMem, agentMsgs, runPend, runSeen, runSeq,
                   runOut, runSaid, cancelVars>>
    /\ RunUnchanged

\* mutant: the agent memory survives the rollback
RunDeleteNoAgentMem(t) ==
    /\ runPc[t] = "x_del_agent"
    /\ Advance(t, "x_del_msgs")
    /\ UNCHANGED <<msgTable, taskTable, memory, runPend, runSeen, runSeq, runOut,
                   runSaid, cancelVars>>
    /\ RunUnchanged

RunDeleteAgentMem(t) ==
    /\ runPc[t] = "x_del_agent"
    /\ agentMem' = agentMem \ {t}
    /\ Advance(t, "x_del_msgs")
    /\ UNCHANGED <<msgTable, taskTable, userMem, agentMsgs, runPend, runSeen, runSeq,
                   runOut, runSaid, cancelVars>>
    /\ RunUnchanged

RunDeleteAgentMsgs(t) ==
    /\ runPc[t] = "x_del_msgs"
    /\ agentMsgs' = agentMsgs \ {t}
    /\ Advance(t, "exited")
    /\ UNCHANGED <<msgTable, taskTable, userMem, agentMem, runPend, runSeen, runSeq,
                   runOut, runSaid, cancelVars>>
    /\ RunUnchanged

\* an awaited call raises: before the try block the coroutine dies, inside the
\* generic handler it ends, inside the try body the handler takes over
RunFault(t) ==
    /\ faults < MaxFaults
    /\ faults' = faults + 1
    /\ \/ runPc[t] = "enter" /\ Advance(t, "dead")
       \/ /\ runPc[t] \in {"x_status", "x_msgs", "x_del_user", "x_del_agent", "x_del_msgs"}
          /\ Advance(t, "exited")
       \/ /\ runPc[t] \in {"read_user_mem", "read_agent_mem", "agent", "next_seq", "ins_user",
                           "ins_agent", "ins_msgs", "set_status", "set_msgs"}
          /\ runPc[t] \in {"ins_agent", "ins_msgs"} => t \in runSaid
          /\ Raise(t)
    /\ UNCHANGED <<sessionState, msgTable, taskTable, memory, lock, sendPc, reqVars,
                   runPend, runSeen, runSeq, runOut, runSaid, cancelVars, crashes>>

-----------------------------------------------------------------------------
(* cancel_session_task, delete_session, the death of a worker *)

CancelCheck(c, t) ==
    /\ cancelPc[c] = "idle"
    /\ taskStatus[t] = "processing"
    /\ cancelTask' = [cancelTask EXCEPT ![c] = t]
    /\ cancelPc' = [cancelPc EXCEPT ![c] = "publish"]
    /\ UNCHANGED <<sessionState, msgTable, taskTable, memory, lock, sendPc, reqVars,
                   runVars, subscribed, cancelEvent, bounds>>

\* fire and forget: without a subscriber the message is gone
CancelPublish(c) ==
    /\ cancelPc[c] = "publish"
    /\ cancelEvent' = cancelEvent \cup ({cancelTask[c]} \cap subscribed)
    /\ cancelPc' = [cancelPc EXCEPT ![c] = "done"]
    /\ UNCHANGED <<sessionState, msgTable, taskTable, memory, lock, sendPc, reqVars,
                   runVars, subscribed, cancelTask, bounds>>

\* one DELETE; the foreign keys cascade to the messages, tasks and memories.
\* Nothing asks whether a task of the session is still running.
DeleteSession(s) ==
    /\ s \in Deletable
    /\ sessionState[s] = "live"
    /\ sessionState' = [sessionState EXCEPT ![s] = "deleted"]
    /\ msgStatus' = [m \in Msgs |-> IF MsgRow(m) /\ msgSession[m] = s
                                    THEN "deleted" ELSE msgStatus[m]]
    /\ taskStatus' = [t \in Tasks |-> IF TaskRow(t) /\ taskSession[t] = s
                                      THEN "deleted" ELSE taskStatus[t]]
    /\ userMem' = userMem \ MemOf(s)
    /\ agentMem' = {t \in agentMem : taskSession[t] # s}
    /\ agentMsgs' = {t \in agentMsgs : taskSession[t] # s}
    /\ UNCHANGED <<msgSession, msgTask, msgSeq, taskSession, lock, sendPc, reqVars,
                   runVars, cancelVars, bounds>>

\* a worker dies with the requests R and the background tasks T it hosts
Crash(R, T) ==
    /\ crashes < MaxCrashes
    /\ crashes' = crashes + 1
    /\ R # {} \/ T # {}
    /\ \A r \in R : reqPc[r] \notin {"idle", "done", "dead"}
    /\ \A t \in T : runPc[t] \notin {"none", "exited", "dead"}
    /\ reqPc' = [r \in Reqs |-> IF r \in R THEN "dead" ELSE reqPc[r]]
    /\ runPc' = [t \in Tasks |-> IF t \in T THEN "dead" ELSE runPc[t]]
    /\ UNCHANGED <<sessionState, msgTable, taskTable, memory, lock, sendPc, reqSession,
                   reqPend, reqTask, reqResp, runPend, runSeen, runSeq, runOut,
                   runSaid, cancelVars, faults>>

-----------------------------------------------------------------------------
ReqStep(r) ==
    \/ ReqGetSession(r) \/ ReqCheckProcessing(r) \/ ReqCollect(r) \/ ReqInsertTask(r)
    \/ ReqLinkMessages(r) \/ ReqMarkMessages(r) \/ ReqRelease(r) \/ ReqSpawn(r)

RunStep(t) ==
    \/ RunEnter(t) \/ RunReadUserMem(t) \/ RunReadAgentMem(t)
    \/ RunAgentFinish(t) \/ RunNextSeq(t)
    \/ RunInsertUserMem(t) \/ RunInsertAgentMem(t) \/ RunInsertAgentMsgs(t)
    \/ RunSetStatus(t) \/ RunSetMessages(t)
    \/ RunFailStatus(t) \/ RunFailMessages(t)
    \/ RunDeleteUserMem(t) \/ RunDeleteAgentMem(t) \/ RunDeleteAgentMsgs(t)

Next ==
    \/ \E m \in Msgs : SendInsert(m) \/ \E s \in Sessions : SendReadSeq(m, s)
    \/ \E r \in Reqs : \/ \E s \in Sessions : ReqAcquire(r, s) \/ ReqAcquireFault(r, s)
                       \/ ReqStep(r) \/ ReqFault(r) \/ ReqReleaseFault(r)
    \/ \E s \in Sessions : LockExpire(s) \/ DeleteSession(s)
    \/ \E t \in Tasks : RunStep(t) \/ RunSubscribe(t) \/ RunAgentCancelled(t) \/ RunFault(t)
    \/ \E c \in Cancels : CancelPublish(c) \/ \E t \in Tasks : CancelCheck(c, t)
    \/ \E R \in SUBSET Reqs, T \in SUBSET Tasks : Crash(R, T)

Spec == Init /\ [][Next]_vars

\* the event loop runs on: a ready coroutine advances (the agent loop ends) or
\* Redis expires a key, with no promise which comes first; users, faults and
\* crashes owe nothing
Runs ==
    \/ \E r \in Reqs : ReqStep(r)
    \/ \E t \in Tasks : RunStep(t)
    \/ \E s \in Sessions : LockExpire(s)

FairSpec == Spec /\ WF_vars(Runs)

-----------------------------------------------------------------------------
(* Properties *)

TablesTyped ==
    /\ sessionState \in [Sessions -> {"absent", "live", "deleted"}]
    /\ msgStatus \in [Msgs -> {"absent", "waiting_agent_ack_user", "agent_working_for_user",
                               "completed", "error", "deleted"}]
    /\ msgSession \in [Msgs -> Sessions \cup {None}]
    /\ msgTask \in [Msgs -> Tasks \cup {None}]
    /\ taskStatus \in [Tasks -> {"absent", "processing", "completed", "failed", "cancelled", "deleted"}]
    /\ taskSession \in [Tasks -> Sessions \cup {None}]
    /\ agentMem \subseteq Tasks /\ agentMsgs \subseteq Tasks
    /\ lock \in [Sessions -> Reqs \cup {None}]

RequestsTyped ==
    /\ reqPc \in [Reqs -> {"idle", "get_session", "check", "collect", "insert", "link", "mark",
                           "release", "spawn", "done", "dead"}]
    /\ reqSession \in [Reqs -> Sessions \cup {None}]
    /\ reqPend \in [Reqs -> Seq(Msgs)]
    /\ reqTask \in [Reqs -> Tasks \cup {None}]
    /\ reqResp \in [Reqs -> {"none", "204", "404", "409", "500"}]

RunsTyped ==
    /\ runPc \in [Tasks -> {"none", "enter", "read_user_mem", "read_agent_mem", "agent", "next_seq",
                            "ins_user", "ins_agent", "ins_msgs", "set_status", "set_msgs",
                            "x_status", "x_msgs", "x_del_user", "x_del_agent", "x_del_msgs",
                            "exited", "dead"}]
    /\ runPend \in [Tasks -> Seq(Msgs)]
    /\ runOut \in [Tasks -> {"none", "completed", "cancelled"}]
    /\ runSaid \subseteq Tasks

CallersTyped ==
    /\ sendPc \in [Msgs -> {"idle", "insert", "done"}]
    /\ subscribed \subseteq Tasks /\ cancelEvent \subseteq Tasks
    /\ cancelPc \in [Cancels -> {"idle", "publish", "done"}]
    /\ cancelTask \in [Cancels -> Tasks \cup {None}]

\* Every variable holds a value of its kind, the statuses those of the columns'
\* CHECK constraints.
TypeOK == TablesTyped /\ RequestsTyped /\ RunsTyped /\ CallersTyped

\* A session never has two tasks in status processing, whatever requests race,
\* fail or die between the check (process_pending_messages.py:109) and the
\* insert (:131).
AtMostOneProcessing ==
    \A t, u \in Tasks :
        /\ taskStatus[t] = "processing" /\ taskStatus[u] = "processing"
        /\ taskSession[t] = taskSession[u]
        => t = u

\* From entering the lock to leaving it a request is its holder, and what it
\* read under the lock stays true until it acts on it: no task of its session
\* starts between its check for one (:109) and its insert of one (:131).
Holding == {"get_session", "check", "collect", "insert", "link", "mark", "release"}
LockProtects ==
    \A r \in Reqs :
        /\ reqPc[r] \in Holding => lock[reqSession[r]] = r
        /\ reqPc[r] \in {"collect", "insert"} => Processing(reqSession[r]) = {}

\* No message is ever given to two tasks: the batches of the requests that
\* created a task are disjoint, even when a request fails or dies between the
\* insert of its task and the update of its messages.
NoMessageTwice ==
    \A r, q \in Reqs :
        r # q /\ reqTask[r] # None /\ reqTask[q] # None
        => \A m \in Msgs : ~(InPend(m, reqPend[r]) /\ InPend(m, reqPend[q]))

\* The user memory of a session lists its tasks in the order they ran and no
\* two rows share a seq_index, although the index is read in one statement
\* (chat_task.py:282) and used in a later one (:296).
MemoryOrdered ==
    \A a, b \in userMem :
        taskSession[a.task] = taskSession[b.task] =>
            /\ a.task < b.task => a.seq < b.seq
            /\ a.task = b.task /\ a # b => a.seq # b.seq

Batch(t) == {m \in Msgs : InPend(m, runPend[t])}
BatchStatus(t, st) == \A m \in Msgs : InPend(m, runPend[t]) => msgStatus[m] = st

\* When the coroutine of a task has ended, the tables agree with the task's
\* status. A completed or cancelled task has the user memory of exactly the
\* messages of its batch, and agent memories and messages exactly when its agent
\* returned some (an answer whose stream broke off without a finish_reason has
\* none and completes all the same); a completed one has acknowledged its
\* messages. A failed task has left none, and its messages are in error.
Remembered(t) == {row.msg : row \in {x \in userMem : x.task = t}}
RecordsMatchStatus ==
    \A t \in Tasks : runPc[t] = "exited" =>
        LET kept   == /\ Remembered(t) = Batch(t)
                      /\ t \in agentMem <=> t \in runSaid
                      /\ t \in agentMsgs <=> t \in runSaid
            erased == Remembered(t) = {} /\ t \notin agentMem \cup agentMsgs
        IN  /\ taskStatus[t] = "completed" => kept /\ BatchStatus(t, "completed")
            /\ taskStatus[t] = "cancelled" => kept
            /\ taskStatus[t] = "failed" => erased /\ BatchStatus(t, "error")

\* A task left in processing with nobody to finish it blocks its session for
\* good. One failing call may leave one only at three places: in the request,
\* before the try block of the run, or in the handler of a cancellation;
\* everywhere else the run still reaches a final status.
Orphan(t) ==
    /\ taskStatus[t] = "processing"
    /\ runPc[t] \in {"none", "exited", "dead"}
    /\ \A r \in Reqs : reqTask[r] = t => reqPc[r] \in {"done", "dead"}
SingleFaultRecovered ==
    \A t \in Tasks : Orphan(t) =>
        runPc[t] \in {"none", "dead"} \/ runOut[t] = "cancelled"

\* The context a run gives its agent is exactly the memory of the tasks of the
\* session that were answered before it, as long as no call has failed (and no
\* session is deleted).
ContextComplete ==
    faults = 0 => \A t \in Tasks : runPc[t] = "agent" =>
        runSeen[t] = {u \in 1 .. t - 1 : /\ taskSession[u] = taskSession[t]
                                         /\ taskStatus[u] \in {"completed", "cancelled"}}

\* The check of query_short_term_memory (chat_task.py:96), "Agent记忆中存在task_id
\* ..., 但在User记忆中找不到对应的task", never fires: the two queries of a run see
\* no agent memory without its user memory.
MemoryReadsConsistent ==
    \A t \in Tasks : runPc[t] = "read_agent_mem" =>
        AgentTasks(taskSession[t]) \subseteq runSeen[t]

\* A deleted session leaves no row behind, even though its task keeps running
\* and writing after the deletion.
DeletedLeavesNothing ==
    \A s \in Sessions : sessionState[s] = "deleted" =>
        /\ \A m \in Msgs : msgSession[m] = s => ~MsgRow(m)
        /\ \A t \in Tasks : taskSession[t] = s =>
            /\ ~TaskRow(t)
            /\ t \notin agentMem \cup agentMsgs
            /\ \A row \in userMem : row.task # t

\* Towards the lock of its session the program behaves as LeaseLock allows, the
\* contract DistributedLock is shown to keep: a key is taken when it is free,
\* and freed by its holder or, by TTL, under nobody.
Holders(s) == {r \in Reqs : reqSession[r] = s /\ reqPc[r] \in Holding}

Lease(s) == INSTANCE LeaseLock WITH
    Clients <- Reqs, owner <- lock[s], holding <- Holders(s)

SessionLease ==
    /\ \A s \in Sessions : Lease(s)!Init
    /\ [][\A s \in Sessions : Lease(s)!Next \/ UNCHANGED <<lock[s], Holders(s)>>]_vars

\* Every task that was created leaves processing, with its session deleted or
\* not, unless the worker of the request that created it or of its coroutine
\* dies (no fault).
Killed(t) == runPc[t] = "dead" \/ \E r \in Reqs : reqTask[r] = t /\ reqPc[r] = "dead"
TaskTerminates ==
    \A t \in Tasks : taskStatus[t] = "processing" ~> taskStatus[t] # "processing" \/ Killed(t)
=============================================================================
