------------------------------- MODULE AgentTurn -------------------------------
(***************************************************************************)
(* One turn of the agent and the stream its answer travels on:              *)
(*   - the loop of AgentBase.__run with the callbacks of MainAgent: rounds   *)
(*     of an LLM call, its chunks, and the tools the answer asks for;        *)
(*   - the queue of the StreamingProcessor and the coroutine that empties    *)
(*     it into a Redis stream;                                               *)
(*   - the clients of /chat/streaming, which read the stream, lose their     *)
(*     connection and come back with the id of the last event they saw;      *)
(*   - the end of __session_chat_task, which announces the end of the answer *)
(*     and then records the turn.                                            *)
(*                                                                         *)
(* A coroutine runs from one suspension to the next without being disturbed, *)
(* and pushing to the queue does not suspend. The loop suspends in the LLM   *)
(* call, at each chunk and while tools run: these are the actions.           *)
(* The content of texts, arguments and results is left out. A provider is    *)
(* assumed to end its response after the chunk with a finish_reason.         *)
(***************************************************************************)
EXTENDS Integers, Sequences, FiniteSets, SequencesExt

CONSTANTS
    Clients,       \* listeners of the answer
    MaxIterations, \* LLM calls in which the model may ask for tools, plus one
    MaxChunks,     \* chunks before the one with the finish_reason
    MaxIndex,      \* tool calls in one response
    NoTool,        \* indices of the calls that name no tool there is
    MaxRetries,    \* ServiceConfig.max_retries
    MaxChecks,     \* max_stream_existence_check_retries
    MaxReads,      \* max_read_retries
    MaxConnects,   \* connections per client
    LossyTypes,    \* types of the messages whose XADD may fail
    MaxLost        \* XADDs that fail

ASSUME AgentTurnAssumption ==
    /\ {MaxIterations, MaxChecks, MaxReads} \subseteq Nat \ {0}
    /\ NoTool \subseteq 1..MaxIndex
    /\ {MaxChunks, MaxIndex, MaxRetries, MaxConnects, MaxLost} \subseteq Nat

VARIABLES
    pc,          \* where the turn is
    iteration,
    attempt,     \* LimitExceededErrors of this LLM call
    chunks,      \* chunks of this response so far
    indices,     \* indices of its tool call deltas
    batch,       \* the tool calls being executed
    mem,         \* _new_memories
    rows,        \* _new_agent_messages_create
    cancelEvent,
    outcome,     \* how the agent's run ended
    status       \* status of the task in the database

VARIABLES
    pushed,      \* every message put into the queue
    handled,     \* how many of them the processor is done with
    lost,        \* the ones whose XADD failed
    processor,   \* the processing coroutine is there
    stream,      \* entries of the Redis stream, an entry's id is its position
    exists       \* the stream's key is there

VARIABLES
    conn,        \* client -> state of its connection
    got,         \* client -> the events it received
    currentId,   \* client -> the id its generator reads after
    checks,      \* stream_check_count of its generator
    reads,       \* read_count of its generator
    connects     \* connections it has opened

localVars  == <<attempt, chunks, indices, batch>>
turnVars   == <<localVars, iteration, mem, rows>>
endVars    == <<outcome, status>>
queueVars  == <<handled, lost, processor, stream, exists>>
clientVars == <<conn, got, currentId, checks, reads, connects>>
vars == <<pc, turnVars, cancelEvent, endVars, pushed, queueVars, clientVars>>

Calls == [iter : 1..MaxIterations, index : 1..MaxIndex]
Known(c) == c.index \notin NoTool

\* StreamingMessage: the type, and the round or the tool call it is about.
TextTypes == {"text_msg_begin", "text_msg_delta", "text_msg_end"}
EndTypes  == {"stream_end", "stream_end_exception"}
Message ==
    [type : TextTypes, of : 1..MaxIterations]
      \cup [type : {"tool_call"}, of : Calls]
      \cup [type : {"tool_response"}, of : Calls, result : {"ok", "link", "none"}]
      \cup [type : EndTypes]

Text(t, i)      == [type |-> t, of |-> i]
ToolCall(c)     == [type |-> "tool_call", of |-> c]
ToolResponse(c, r) == [type |-> "tool_response", of |-> c, result |-> r]
End(t)          == [type |-> t]

\* A memory is an assistant message with its tool calls, or the answer to a call.
Memory ==
    [role : {"assistant"}, calls : Seq(Calls)]
      \cup [role : {"tool"}, calls : {<<>>}, call : Calls]
Row == [seq : Nat, type : {"text"}, of : 1..MaxIterations]
         \cup [seq : Nat, type : {"tool_call", "session_link"}, of : Calls]

TypeOK ==
    /\ pc \in {"call", "chunks", "tools", "record", "drain", "exited", "dead"}
    /\ iteration \in 1..MaxIterations
    /\ attempt \in 0..MaxRetries
    /\ chunks \in 0..MaxChunks
    /\ indices \subseteq 1..MaxIndex
    /\ batch \in Seq(Calls)
    /\ mem \in Seq(Memory)
    /\ rows \in Seq(Row)
    /\ cancelEvent \in BOOLEAN
    /\ outcome \in {"none", "completed", "cancelled", "failed"}
    /\ status \in {"processing", "completed", "cancelled", "failed"}
    /\ pushed \in Seq(Message)
    /\ handled \in 0..Len(pushed)
    /\ lost \subseteq 1..handled
    /\ processor \in BOOLEAN
    /\ stream \in Seq(Message)
    /\ exists \in BOOLEAN
    /\ conn \in [Clients -> {"off", "open", "ended", "gone"}]
    /\ got \in [Clients -> Seq(Message)]
    /\ currentId \in [Clients -> 0..Len(stream)]
    /\ checks \in [Clients -> 0..MaxChecks]
    /\ reads \in [Clients -> 0..MaxReads]
    /\ connects \in [Clients -> 0..MaxConnects]

Init ==
    /\ pc = "call" /\ iteration = 1 /\ attempt = 0
    /\ chunks = 0 /\ indices = {} /\ batch = <<>>
    /\ mem = <<>> /\ rows = <<>>
    /\ cancelEvent = FALSE
    /\ outcome = "none" /\ status = "processing"
    /\ pushed = <<>> /\ handled = 0 /\ lost = {} /\ processor = TRUE
    /\ stream = <<>> /\ exists = FALSE
    /\ conn = [c \in Clients |-> "off"]
    /\ got = [c \in Clients |-> <<>>]
    /\ currentId = [c \in Clients |-> 0]
    /\ checks = [c \in Clients |-> 0]
    /\ reads = [c \in Clients |-> 0]
    /\ connects = [c \in Clients |-> 0]
-----------------------------------------------------------------------------
(* Queue *)

\* push_message and the push_..._msg methods: put_nowait of one or several messages.
Push(ms) == pushed' = pushed \o ms

\* The variables of a response and of the tools it asked for are gone. (A run that
\* ends also resets cancelEvent in the model: nobody looks at it any more.)
Forget ==
    /\ attempt' = 0 /\ chunks' = 0 /\ indices' = {} /\ batch' = <<>>

\* An exception leaves the run: __session_chat_task's handler announces the end, and
\* what the run collected is dropped.
Raise(ms) ==
    /\ Push(Append(ms, End("stream_end_exception")))
    /\ outcome' = "failed"
    /\ pc' = "record"
    /\ Forget /\ cancelEvent' = FALSE
    /\ mem' = <<>> /\ rows' = <<>>
    /\ UNCHANGED iteration

\* The loop ends: on_agent_complete, and the end of the answer.
Complete(ms) ==
    /\ Push(Append(ms, End("stream_end")))
    /\ outcome' = "completed"
    /\ pc' = "record"
    /\ Forget /\ cancelEvent' = FALSE
    /\ UNCHANGED iteration
-----------------------------------------------------------------------------
(* The LLM call, LOAD_BLANCER.execute *)

\* A response begins: its chunks follow.
CallAnswers ==
    /\ pc = "call"
    /\ Push(<<Text("text_msg_begin", iteration)>>)
    /\ pc' = "chunks"
    /\ Forget
    /\ UNCHANGED <<iteration, mem, rows, cancelEvent, endVars, queueVars, clientVars>>

\* Mutant: one retry too many.
CallLimitedOnceMore ==
    /\ pc = "call"
    /\ attempt <= MaxRetries
    /\ attempt' = attempt + 1
    /\ UNCHANGED <<pc, chunks, indices, batch, iteration, mem, rows, pushed, outcome>>
    /\ UNCHANGED <<cancelEvent, status, queueVars, clientVars>>

\* LimitExceededError: sleep and try the next instance, up to max_retries times.
\* Nobody looks at the cancel event meanwhile.
CallLimited ==
    /\ pc = "call"
    /\ \/ /\ attempt < MaxRetries
          /\ attempt' = attempt + 1
          /\ UNCHANGED <<pc, chunks, indices, batch, iteration, mem, rows, cancelEvent, pushed, outcome>>
       \/ /\ attempt = MaxRetries
          /\ Raise(<<>>)
    /\ UNCHANGED <<status, queueVars, clientVars>>

\* Any other exception of the call or of the response: not retried.
CallRaises ==
    /\ pc \in {"call", "chunks"}
    /\ Raise(<<>>)
    /\ UNCHANGED <<status, queueVars, clientVars>>
-----------------------------------------------------------------------------
(* The chunks of a response *)

\* Mutant: the cancel event is not looked at.
ChunkAnyway == pc = "chunks"

\* A chunk arrives, and the response is not cancelled.
Chunk ==
    /\ pc = "chunks"
    /\ ~cancelEvent

\* A chunk with text, with tool call deltas for the calls in ds, or both.
ChunkDelta(ds) ==
    /\ Chunk
    /\ chunks < MaxChunks
    /\ ds # {} => iteration < MaxIterations
    /\ chunks' = chunks + 1
    /\ indices' = indices \cup ds
    /\ Push(<<Text("text_msg_delta", iteration)>>) \/ (ds # {} /\ UNCHANGED pushed)
    /\ UNCHANGED <<pc, attempt, batch, iteration, mem, rows, cancelEvent, endVars,
                   queueVars, clientVars>>

\* _new_agent_msg_sub_seq_index_counter numbers the rows as they are added.
Numbered(rs) ==
    rows \o [k \in 1..Len(rs) |->
                [seq |-> Len(rows) + k - 1, type |-> rs[k].type, of |-> rs[k].of]]

\* on_generate_complete: a row for the text of the response.
WithText == Numbered(<<[type |-> "text", of |-> iteration]>>)

\* on_create_assistant_memory.
Assistant(calls) == [role |-> "assistant", calls |-> calls]

\* finish_reason other than tool_calls: the answer is complete.
ChunkStop ==
    /\ Chunk
    /\ rows' = WithText
    /\ mem' = Append(mem, Assistant(<<>>))
    /\ Complete(<<Text("text_msg_end", iteration)>>)
    /\ UNCHANGED <<status, queueVars, clientVars>>

\* The response ends without a finish_reason: nothing is recorded of it.
ChunksEnd ==
    /\ pc = "chunks"
    /\ Complete(<<>>)
    /\ UNCHANGED <<mem, rows, status, queueVars, clientVars>>

\* A chunk of a cancelled response: what came before is recorded as the answer.
ChunkCancelled ==
    /\ pc = "chunks"
    /\ cancelEvent
    /\ rows' = WithText
    /\ mem' = Append(mem, Assistant(<<>>))
    /\ Push(<<Text("text_msg_delta", iteration), Text("text_msg_end", iteration),
              End("stream_end_exception")>>)
    /\ outcome' = "cancelled"
    /\ pc' = "record"
    /\ Forget /\ cancelEvent' = FALSE
    /\ UNCHANGED <<iteration, status, queueVars, clientVars>>
-----------------------------------------------------------------------------
(* Tool calls, _execute_tool_calls *)

\* _parse_tool_calls_robust: the deltas of one index make one call, in the order
\* of the indices.
ParseToolCalls ==
    LET n == Cardinality(indices)
        order == CHOOSE o \in [1..n -> indices] : \A i, j \in 1..n : i < j => o[i] < o[j]
    IN  [k \in 1..n |-> [iter |-> iteration, index |-> order[k]]]

\* on_tool_calls_start_batch
Announce(calls) == [k \in 1..Len(calls) |-> ToolCall(calls[k])]

\* finish_reason tool_calls: the text is recorded, the calls are announced, a task
\* is started for each tool there is. Arguments that are no JSON raise before the
\* announcement, and asyncio.wait raises when there is no task to wait for.
ChunkToolCalls ==
    /\ Chunk
    /\ iteration < MaxIterations
    /\ LET text == <<Text("text_msg_end", iteration)>>
           announced == text \o Announce(ParseToolCalls)
       IN  \/ /\ indices # {}
              /\ Raise(text)
           \/ /\ indices \subseteq NoTool
              /\ Raise(announced)
           \/ /\ ~(indices \subseteq NoTool)
              /\ Push(announced)
              /\ batch' = ParseToolCalls
              /\ rows' = WithText
              /\ pc' = "tools"
              /\ UNCHANGED <<attempt, chunks, indices, iteration, mem, cancelEvent, outcome>>
    /\ UNCHANGED <<status, queueVars, clientVars>>

\* What the tasks of a batch come to: a result, a result that links a session, or an
\* exception; "none" where there is no task. Nobody looks at them before all are done.
Results ==
    {res \in [1..Len(batch) -> {"ok", "link", "raised", "none"}] :
        \A k \in 1..Len(batch) : res[k] = "none" <=> ~Known(batch[k])}

\* on_tool_calls_complete_batch, for the first n calls
Responses(res, n) == [k \in 1..n |-> ToolResponse(batch[k], res[k])]

\* Mutant: the row of the linked session takes the place of the row of the call.
CallRowsLinkOnly(c, r) ==
    CASE r = "ok"   -> <<[type |-> "tool_call", of |-> c]>>
      [] r = "link" -> <<[type |-> "session_link", of |-> c]>>
      [] r = "none" -> <<>>

\* on_tool_call_complete: a row for a call, another one for the session it links.
CallRows(c, r) ==
    LET row(t) == [type |-> t, of |-> c]
    IN  CASE r = "ok"   -> <<row("tool_call")>>
          [] r = "link" -> <<row("tool_call"), row("session_link")>>
          [] r = "none" -> <<>>

\* Mutant: no answer for a call whose tool there is not.
KnownToolMemories ==
    LET known == SelectSeq(batch, Known)
    IN  [k \in 1..Len(known) |-> [role |-> "tool", calls |-> <<>>, call |-> known[k]]]

\* The answers to the calls, also to those whose tool there is not.
ToolMemories == [k \in 1..Len(batch) |-> [role |-> "tool", calls |-> <<>>, call |-> batch[k]]]

\* All tasks are done and none raised: responses, rows, memories, next round.
ToolsComplete ==
    /\ pc = "tools"
    /\ \E res \in Results :
          /\ \A k \in 1..Len(batch) : res[k] # "raised"
          /\ Push(Responses(res, Len(batch)))
          /\ rows' = Numbered(FlattenSeq([k \in 1..Len(batch) |-> CallRows(batch[k], res[k])]))
    /\ mem' = Append(mem, Assistant(batch)) \o ToolMemories
    /\ pc' = "call"
    /\ iteration' = iteration + 1
    /\ Forget
    /\ UNCHANGED <<cancelEvent, endVars, queueVars, clientVars>>

\* A task raised: on_tool_calls_complete_batch asks for its result while it pushes
\* the responses, and the run ends there.
ToolsRaise ==
    /\ pc = "tools"
    /\ \E res \in Results, n \in 1..Len(batch) :
          /\ res[n] = "raised"
          /\ \A k \in 1..Len(batch) : res[k] = "raised" => n <= k
          /\ Raise(Responses(res, n - 1))
    /\ UNCHANGED <<status, queueVars, clientVars>>
-----------------------------------------------------------------------------
(* The end of __session_chat_task *)

\* The cancel channel delivers: subscribe_to_event sets the event.
CancelArrives ==
    /\ pc \in {"call", "chunks", "tools"}
    /\ ~cancelEvent
    /\ cancelEvent' = TRUE
    /\ UNCHANGED <<pc, turnVars, endVars, pushed, queueVars, clientVars>>

\* Memories, messages and statuses are written (or, after an exception, deleted).
Record ==
    /\ pc = "record"
    /\ status' = outcome
    /\ pc' = "drain"
    /\ UNCHANGED <<turnVars, cancelEvent, outcome, pushed, queueVars, clientVars>>

\* A statement fails. In the try block it ends in the handler, which announces the
\* end a second time; in a handler it leaves the function.
RecordFault ==
    /\ pc = "record"
    /\ \/ /\ outcome = "completed"
          /\ Raise(<<>>)
       \/ /\ outcome # "completed"
          /\ pc' = "drain"
          /\ UNCHANGED <<turnVars, cancelEvent, pushed, outcome>>
    /\ UNCHANGED <<status, queueVars, clientVars>>

\* __aexit__: join the queue, then stop the processing coroutine.
DrainAndStop ==
    /\ pc = "drain"
    /\ handled = Len(pushed)
    /\ processor' = FALSE
    /\ pc' = "exited"
    /\ UNCHANGED <<turnVars, cancelEvent, endVars, pushed, handled, lost, stream, exists,
                   clientVars>>

\* The worker dies.
Crash ==
    /\ pc \notin {"exited", "dead"}
    /\ processor' = FALSE
    /\ pc' = "dead"
    /\ UNCHANGED <<turnVars, cancelEvent, endVars, pushed, handled, lost, stream, exists,
                   clientVars>>
-----------------------------------------------------------------------------
(* The processing coroutine: one message of the queue, XADD, task_done *)

Process ==
    /\ processor
    /\ handled < Len(pushed)
    /\ handled' = handled + 1
    /\ \/ /\ stream' = Append(stream, pushed[handled + 1])
          /\ exists' = TRUE
          /\ UNCHANGED lost
       \/ /\ pushed[handled + 1].type \in LossyTypes
          /\ Cardinality(lost) < MaxLost
          /\ lost' = lost \cup {handled + 1}
          /\ UNCHANGED <<stream, exists>>
    /\ UNCHANGED <<pc, turnVars, cancelEvent, endVars, pushed, processor, clientVars>>

\* The key's time to live: refreshed by every XADD and by TTL_deamon while the turn
\* runs, so it ends only after the turn.
StreamExpires ==
    /\ exists
    /\ ~processor
    /\ exists' = FALSE
    /\ UNCHANGED <<pc, turnVars, cancelEvent, endVars, pushed, handled, lost, processor, stream,
                   clientVars>>
-----------------------------------------------------------------------------
(* A client of /chat/streaming *)

\* Mutant: the generator starts from the beginning whatever Last-Event-ID says.
ConnectFromStart(c) ==
    /\ conn[c] \in {"off", "gone"}
    /\ connects[c] < MaxConnects
    /\ status = "processing"
    /\ conn' = [conn EXCEPT ![c] = "open"]
    /\ connects' = [connects EXCEPT ![c] = @ + 1]
    /\ currentId' = [currentId EXCEPT ![c] = 0]
    /\ UNCHANGED <<checks, reads>>
    /\ UNCHANGED <<pc, turnVars, cancelEvent, endVars, pushed, queueVars, got>>

\* chat_streaming accepts a task in processing; the generator starts after
\* Last-Event-ID, the id of the last event the client received.
Connect(c) ==
    /\ conn[c] \in {"off", "gone"}
    /\ connects[c] < MaxConnects
    /\ status = "processing"
    /\ conn' = [conn EXCEPT ![c] = "open"]
    /\ connects' = [connects EXCEPT ![c] = @ + 1]
    /\ currentId' = [currentId EXCEPT ![c] = Len(got[c])]
    /\ checks' = [checks EXCEPT ![c] = 0]
    /\ reads' = [reads EXCEPT ![c] = 0]
    /\ UNCHANGED <<pc, turnVars, cancelEvent, endVars, pushed, queueVars, got>>

\* The generator of c goes on with these counters, or leaves its connection so.
Continue(c, id, n, r) ==
    /\ currentId' = [currentId EXCEPT ![c] = id]
    /\ checks' = [checks EXCEPT ![c] = n]
    /\ reads' = [reads EXCEPT ![c] = r]
    /\ UNCHANGED conn
Leave(c, how) ==
    /\ conn' = [conn EXCEPT ![c] = how]
    /\ currentId' = [currentId EXCEPT ![c] = 0]
    /\ checks' = [checks EXCEPT ![c] = 0]
    /\ reads' = [reads EXCEPT ![c] = 0]

Disconnect(c) ==
    /\ conn[c] = "open"
    /\ Leave(c, "off")
    /\ UNCHANGED <<pc, turnVars, cancelEvent, endVars, pushed, queueVars, got, connects>>

\* Mutant: the check for the stream is repeated without counting.
NoStreamUncounted(c) ==
    /\ conn[c] = "open"
    /\ ~exists
    /\ Continue(c, currentId[c], checks[c], reads[c])
    /\ UNCHANGED <<pc, turnVars, cancelEvent, endVars, pushed, queueVars, got, connects>>

\* u2a_msg_stream_generator: there is no stream (yet, or any more).
NoStream(c) ==
    /\ conn[c] = "open"
    /\ ~exists
    /\ \/ /\ checks[c] + 1 < MaxChecks
          /\ Continue(c, currentId[c], checks[c] + 1, reads[c])
       \/ /\ checks[c] + 1 >= MaxChecks
          /\ Leave(c, "gone")
    /\ UNCHANGED <<pc, turnVars, cancelEvent, endVars, pushed, queueVars, got, connects>>

\* xread returns the next entry and it is yielded: the client receives it, or its
\* connection is gone by now. The generator ends after a stream_end.
ReadNext(c) ==
    /\ conn[c] = "open"
    /\ exists
    /\ currentId[c] < Len(stream)
    /\ LET m == stream[currentId[c] + 1]
       IN  \/ /\ got' = [got EXCEPT ![c] = Append(@, m)]
              /\ \/ m.type \notin EndTypes /\ Continue(c, currentId[c] + 1, 0, 0)
                 \/ m.type \in EndTypes /\ Leave(c, "ended")
           \/ /\ Leave(c, "off")
              /\ UNCHANGED got
    /\ UNCHANGED <<pc, turnVars, cancelEvent, endVars, pushed, queueVars, connects>>

\* xread blocks in vain.
ReadNothing(c) ==
    /\ conn[c] = "open"
    /\ exists
    /\ currentId[c] >= Len(stream)
    /\ \/ /\ reads[c] + 1 < MaxReads
          /\ Continue(c, currentId[c], 0, reads[c] + 1)
       \/ /\ reads[c] + 1 >= MaxReads
          /\ Leave(c, "gone")
    /\ UNCHANGED <<pc, turnVars, cancelEvent, endVars, pushed, queueVars, got, connects>>
-----------------------------------------------------------------------------
Turn ==
    \/ CallAnswers \/ CallLimited \/ CallRaises
    \/ ChunkStop \/ ChunksEnd \/ ChunkCancelled \/ ChunkToolCalls
    \/ \E ds \in SUBSET (1..MaxIndex) : ChunkDelta(ds)
    \/ ToolsComplete \/ ToolsRaise
    \/ Record \/ RecordFault \/ DrainAndStop

Listen(c) == NoStream(c) \/ ReadNext(c) \/ ReadNothing(c)

Next ==
    \/ Turn \/ Process \/ CancelArrives \/ Crash \/ StreamExpires
    \/ \E c \in Clients : Connect(c) \/ Disconnect(c) \/ Listen(c)

Spec == Init /\ [][Next]_vars

\* The event loop runs its coroutines; providers and tools answer, be it with an
\* error. Nothing is assumed of clients, of cancelling, or of failures.
Fairness ==
    /\ WF_vars(Turn)
    /\ WF_vars(Process)
    /\ \A c \in Clients : WF_vars(Listen(c))

FairSpec == Spec /\ Fairness
-----------------------------------------------------------------------------
(* Properties *)

Recorded == outcome \in {"completed", "cancelled"}

\* The calls that messages announce, in their order.
CallsOf(m) == IF m.type = "tool_call" THEN <<m.of>> ELSE <<>>
CallsIn(ms) == FlattenSeq([k \in 1..Len(ms) |-> CallsOf(ms[k])])

\* Every tool call that was announced on the stream of a turn whose results are kept
\* is in the new memories with its own answer, in the order of the announcement: the
\* provider refuses a conversation in which a call is not followed by its answer.
CallsAnswered ==
    /\ \A k \in 1..Len(mem) : \A j \in 1..Len(mem[k].calls) :
          /\ k + j <= Len(mem)
          /\ mem[k + j] = [role |-> "tool", calls |-> <<>>, call |-> mem[k].calls[j]]
    /\ Recorded =>
          CallsIn(pushed) = FlattenSeq([k \in 1..Len(mem) |-> mem[k].calls])

\* The rows, but for their numbers, that messages stand for, in their order: a text
\* that ended, and a tool response that had a result, followed by its link.
RowsOf(m) ==
    LET row(t) == [type |-> t, of |-> m.of]
    IN  IF m.type = "text_msg_end" THEN <<row("text")>>
        ELSE IF m.type # "tool_response" THEN <<>>
        ELSE CASE m.result = "ok"   -> <<row("tool_call")>>
               [] m.result = "link" -> <<row("tool_call"), row("session_link")>>
               [] m.result = "none" -> <<>>
RowsIn(ms) == FlattenSeq([k \in 1..Len(ms) |-> RowsOf(ms[k])])

\* The end is the end, whatever goes wrong while the turn is recorded: nothing but
\* another end follows the first one. And what the user saw is what is kept: the rows
\* of a completed or cancelled turn are numbered from 0 without a gap, and they are, in
\* the order of the stream, the texts that ended and the tool responses that had a
\* result, each followed by its link.
RowsMatchStream ==
    /\ \A i, j \in 1..Len(pushed) :
          i < j /\ pushed[i].type \in EndTypes => pushed[j].type \in EndTypes
    /\ Recorded =>
          /\ \A k \in 1..Len(rows) : rows[k].seq = k - 1
          /\ RowsIn(pushed) = [k \in 1..Len(rows) |-> [type |-> rows[k].type, of |-> rows[k].of]]

\* Once the user has cancelled, no further tool is started: the batch that runs is the
\* last one, whatever the model goes on to ask for.
NoToolAfterCancel ==
    [][cancelEvent => \A k \in (Len(pushed) + 1)..Len(pushed') : pushed'[k].type # "tool_call"]_vars

\* A client that loses its connection, even while an entry is on its way, and comes back
\* with the id of the last event it received, is given every entry once and in order.
Answer == INSTANCE AnswerStream
            WITH Readers <- Clients, answer <- stream, received <- got
StreamSpec == Answer!Spec

\* The turn ends, or its worker dies, and no listener listens for ever.
TurnEnds ==
    /\ <>(pc \in {"exited", "dead"})
    /\ \A c \in Clients : conn[c] = "open" ~> conn[c] # "open"
=============================================================================
