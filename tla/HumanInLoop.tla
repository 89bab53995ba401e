----------------------------- MODULE HumanInLoop -----------------------------
(***************************************************************************)
(* Questions to the user while a session task runs. The task opens a pair  *)
(* of Redis streams (HILMessageStreamContext); its tools put requests on   *)
(* the send stream and wait for answers on the receive stream              *)
(* (interrupt), or put notifications there (notification). The user's      *)
(* devices poll the send stream and post answers (/hil/poll, /hil/respond).*)
(*                                                                         *)
(* One pair of streams: the streams of two tasks share nothing. Every      *)
(* Redis command is a step of its own; a stream exists apart from its      *)
(* entries, because XDEL leaves an empty stream behind.                    *)
(***************************************************************************)
EXTENDS Naturals, Sequences, FiniteSets

CONSTANTS
    Calls,        \* interrupt() calls, each with its own msg_id
    Cancellable,  \* those that were passed a cancel_event
    Notes,        \* notification() calls
    Responders,   \* /hil/respond requests
    EmptyAnswers, \* those whose msg is "" or {}
    Pollers,      \* devices that poll, each one poll at a time
    Opening,      \* the _init entry of a stream
    TimeoutRetry, \* timeout_retry of interrupt()
    MaxFaults,    \* bound: how many Redis commands raise
    MaxCrashes    \* bound: how often the task's worker process dies

ASSUME HumanInLoopAssumption ==
    /\ Cancellable \subseteq Calls
    /\ EmptyAnswers \subseteq Responders
    /\ Calls \cap Notes = {}
    /\ Opening \notin Calls \cup Notes \cup Responders
    /\ TimeoutRetry \in Nat \ {0}
    /\ {MaxFaults, MaxCrashes} \subseteq Nat

VARIABLES
    \* Redis: entries, existence, whether the key carries a TTL, next entry id
    stream, exists, ttl, nextId,
    \* the context, its step while it opens the streams, its TTL_deamon
    ctxPc, ctxStep, deamon,
    \* interrupt() itself, and the __interrupt task it creates
    callOut, pc, startId, retries, out, answer, cancelSet,
    \* notification()
    notePc,
    \* /hil/respond: the call answered, the entry XREAD found
    respPc, respCall,
    \* /hil/poll: the entries the device received, in order
    pollPc, got,
    \* bounds
    faults, crashes

redis    == <<stream, exists, ttl, nextId>>
ctxVars  == <<ctxPc, ctxStep, deamon>>
callVars == <<callOut, pc, startId, retries, out, answer, cancelSet>>
respVars == <<respPc, respCall>>
pollVars == <<pollPc, got>>
bounds   == <<faults, crashes>>
vars     == <<redis, ctxVars, callVars, notePc, respVars, pollVars, bounds>>

Dirs == {"send", "recv"}

-----------------------------------------------------------------------------
(* Redis *)

Xadd(d, what) ==
    /\ stream' = [stream EXCEPT ![d] = @ \cup {[id |-> nextId[d], what |-> what]}]
    /\ nextId' = [nextId EXCEPT ![d] = @ + 1]
    /\ exists' = [exists EXCEPT ![d] = TRUE]
    /\ UNCHANGED ttl

Without(d, what) == {e \in stream[d] : e.what # what}
Xdel(d, what) ==
    /\ stream' = [stream EXCEPT ![d] = Without(d, what)]
    /\ UNCHANGED <<exists, ttl, nextId>>

\* mutant: the EXPIRE after the XADD forgotten
ExpireNothing(d) == UNCHANGED redis

\* mutant: the key is taken to be there
ExpireBlindly(d) ==
    /\ ttl' = [ttl EXCEPT ![d] = TRUE]
    /\ UNCHANGED <<stream, exists, nextId>>

\* EXPIRE of a key that is gone does nothing
Expire(d) ==
    /\ ttl' = [ttl EXCEPT ![d] = exists[d]]
    /\ UNCHANGED <<stream, exists, nextId>>

\* the stream's entries after position i
After(d, i) == {e \in stream[d] : e.id > i}
IsFirst(e, S) == e \in S /\ \A f \in S : e.id <= f.id
IsLast(e, S)  == e \in S /\ \A f \in S : f.id <= e.id

\* a key whose TTL nobody refreshes lapses; the opening takes milliseconds
\* and the deamon refreshes at 0.8 of the TTL
Lapse(d) ==
    /\ ttl[d] /\ ctxPc # "enter" /\ deamon # "running"
    /\ stream' = [stream EXCEPT ![d] = {}]
    /\ exists' = [exists EXCEPT ![d] = FALSE]
    /\ ttl' = [ttl EXCEPT ![d] = FALSE]
    /\ UNCHANGED <<nextId, ctxVars, callVars, notePc, respVars, pollVars, bounds>>

Fault == faults < MaxFaults /\ faults' = faults + 1 /\ UNCHANGED crashes

-----------------------------------------------------------------------------
Init ==
    /\ stream = [d \in Dirs |-> {}]
    /\ exists = [d \in Dirs |-> FALSE]
    /\ ttl = [d \in Dirs |-> FALSE]
    /\ nextId = [d \in Dirs |-> 1]
    /\ ctxPc = "enter" /\ ctxStep = 1 /\ deamon = "none"
    /\ callOut = [c \in Calls |-> "none"]
    /\ pc = [c \in Calls |-> "none"]
    /\ startId = [c \in Calls |-> 0]
    /\ retries = [c \in Calls |-> 0]
    /\ out = [c \in Calls |-> "none"]
    /\ answer = [c \in Calls |-> Opening]
    /\ cancelSet = {}
    /\ notePc = [n \in Notes |-> "idle"]
    /\ respPc = [r \in Responders |-> "idle"]
    /\ respCall = [r \in Responders |-> Opening]
    /\ pollPc = [p \in Pollers |-> "idle"]
    /\ got = [p \in Pollers |-> <<>>]
    /\ faults = 0 /\ crashes = 0

-----------------------------------------------------------------------------
(* HILMessageStreamContext *)

EnterSteps == <<[op |-> "add", dir |-> "send"], [op |-> "add", dir |-> "recv"],
                [op |-> "del", dir |-> "send"], [op |-> "del", dir |-> "recv"],
                [op |-> "expire", dir |-> "send"], [op |-> "expire", dir |-> "recv"]>>

\* __aenter__, one command at a time; after the last the deamon starts
Enter ==
    /\ ctxPc = "enter"
    /\ LET step == EnterSteps[ctxStep] IN
       \/ step.op = "add" /\ Xadd(step.dir, Opening)
       \/ step.op = "del" /\ Xdel(step.dir, Opening)
       \/ step.op = "expire" /\ Expire(step.dir)
    /\ \/ ctxStep < Len(EnterSteps) /\ ctxStep' = ctxStep + 1 /\ UNCHANGED <<ctxPc, deamon>>
       \/ ctxStep = Len(EnterSteps) /\ ctxPc' = "open" /\ deamon' = "running" /\ UNCHANGED ctxStep
    /\ UNCHANGED <<callVars, notePc, respVars, pollVars, bounds>>

\* a raising __aenter__ is not followed by __aexit__
EnterFault ==
    /\ ctxPc = "enter" /\ Fault
    /\ ctxPc' = "failed"
    /\ UNCHANGED <<redis, ctxStep, deamon, callVars, notePc, respVars, pollVars>>

\* TTL_deamon refreshes both keys in one transaction
Refresh ==
    /\ deamon = "running"
    /\ ttl' = exists
    /\ UNCHANGED <<stream, exists, nextId, ctxVars, callVars, notePc, respVars, pollVars, bounds>>

\* an exception ends the deamon, and nobody awaits it
DeamonFault ==
    /\ deamon = "running" /\ Fault
    /\ deamon' = "dead"
    /\ UNCHANGED <<redis, ctxPc, ctxStep, callVars, notePc, respVars, pollVars>>

\* __aexit__, whatever still waits: both keys go in one transaction, then the
\* deamon is cancelled
Exit ==
    /\ ctxPc = "open"
    /\ stream' = [d \in Dirs |-> {}]
    /\ exists' = [d \in Dirs |-> FALSE]
    /\ ttl' = [d \in Dirs |-> FALSE]
    /\ ctxPc' = "closed" /\ deamon' = "cancelled"
    /\ UNCHANGED <<nextId, ctxStep, callVars, notePc, respVars, pollVars, bounds>>

\* a raising delete skips deamon.cancel()
ExitFault ==
    /\ ctxPc = "open" /\ Fault
    /\ ctxPc' = "failed"
    /\ UNCHANGED <<redis, ctxStep, deamon, callVars, notePc, respVars, pollVars>>

-----------------------------------------------------------------------------
(* interrupt *)

\* leaving set_following_task_for_graceful_shutdown_timeout resets a token with
\* another ContextVar, which raises ValueError
CallRaises(c) == callOut' = [callOut EXCEPT ![c] = "ValueError"]

\* interrupt creates the __interrupt task, then raises; the task goes on
Interrupt(c) ==
    /\ ctxPc = "open" /\ pc[c] = "none"
    /\ pc' = [pc EXCEPT ![c] = "check_send"]
    /\ CallRaises(c)
    /\ UNCHANGED <<redis, ctxVars, startId, retries, out, answer, cancelSet, notePc,
                   respVars, pollVars, bounds>>

SetCancel(c) ==
    /\ pc[c] \notin {"none", "end"} /\ c \in Cancellable \ cancelSet
    /\ cancelSet' = cancelSet \cup {c}
    /\ UNCHANGED <<redis, ctxVars, callOut, pc, startId, retries, out, answer, notePc,
                   respVars, pollVars, bounds>>

Ends(c, how) ==
    /\ pc' = [pc EXCEPT ![c] = "end"]
    /\ out' = [out EXCEPT ![c] = how]

\* the top of the outer loop: out of retries, or the first EXISTS
CheckSend(c) ==
    /\ pc[c] = "check_send"
    /\ \/ retries[c] >= TimeoutRetry /\ Ends(c, "cancelled")
       \/ retries[c] < TimeoutRetry /\ ~exists["send"] /\ Ends(c, "missing")
       \/ /\ retries[c] < TimeoutRetry /\ exists["send"]
          /\ pc' = [pc EXCEPT ![c] = "check_recv"] /\ UNCHANGED out
    /\ UNCHANGED <<redis, ctxVars, callOut, startId, retries, answer, cancelSet, notePc,
                   respVars, pollVars, bounds>>

\* mutant: every timeout sends the request again
ResendAlways(c) == "add"

\* the request is sent in the first round only
NextAfterCheck(c) == IF retries[c] = 0 THEN "add" ELSE "wait"

CheckRecv(c) ==
    /\ pc[c] = "check_recv"
    /\ \/ ~exists["recv"] /\ Ends(c, "missing") /\ UNCHANGED startId
       \/ /\ exists["recv"] /\ UNCHANGED out
          /\ pc' = [pc EXCEPT ![c] = NextAfterCheck(c)]
          /\ startId' = [startId EXCEPT ![c] = 0]
    /\ UNCHANGED <<redis, ctxVars, callOut, retries, answer, cancelSet, notePc,
                   respVars, pollVars, bounds>>

SendRequest(c) ==
    /\ \/ pc[c] = "add" /\ Xadd("send", c) /\ pc' = [pc EXCEPT ![c] = "expire"]
       \/ pc[c] = "expire" /\ Expire("send") /\ pc' = [pc EXCEPT ![c] = "wait"]
    /\ UNCHANGED <<ctxVars, callOut, startId, retries, out, answer, cancelSet, notePc,
                   respVars, pollVars, bounds>>

Unread(c) == After("recv", startId[c])

\* mutant: the msg_id is not compared
AnyAnswer(c, e) == e.what \in Responders
\* the entry answers c
Answers(c, e) == e.what \in Responders /\ respCall[e.what] = c

Mine(c) == {e \in Unread(c) : Answers(c, e)}

\* recv_task is done: XREAD returned everything after start_id, and the first
\* entry with this msg_id holds content
TakeAnswer(c) ==
    /\ pc[c] = "wait"
    /\ \E e \in stream["recv"] :
          /\ IsFirst(e, Mine(c)) /\ e.what \notin EmptyAnswers
          /\ answer' = [answer EXCEPT ![c] = e.what]
    /\ pc' = [pc EXCEPT ![c] = "xdel"]
    /\ UNCHANGED <<redis, ctxVars, callOut, startId, retries, out, cancelSet, notePc,
                   respVars, pollVars, bounds>>

DeleteAnswer(c) ==
    /\ pc[c] = "xdel"
    /\ Xdel("recv", answer[c])
    /\ Ends(c, "returned")
    /\ UNCHANGED <<ctxVars, callOut, startId, retries, answer, cancelSet, notePc,
                   respVars, pollVars, bounds>>

\* the next XREAD starts after e: an answer with falsy content, or the last
\* entry read when none was for c
ReadUpTo(c, e) ==
    \/ IsFirst(e, Mine(c)) /\ e.what \in EmptyAnswers
    \/ Mine(c) = {} /\ IsLast(e, Unread(c))

SkipOthers(c) ==
    /\ pc[c] = "wait"
    /\ \E e \in stream["recv"] :
          /\ ReadUpTo(c, e)
          /\ startId' = [startId EXCEPT ![c] = e.id]
    /\ UNCHANGED <<redis, ctxVars, callOut, pc, retries, out, answer, cancelSet, notePc,
                   respVars, pollVars, bounds>>

\* mutant: a round that times out starts waiting again
TimeOutWaitsOn(c) == pc[c] = "wait" /\ UNCHANGED vars

\* timeout_task is done, recv_task is pending or had nothing for c
TimeOut(c) ==
    /\ pc[c] = "wait"
    /\ retries' = [retries EXCEPT ![c] = @ + 1]
    /\ pc' = [pc EXCEPT ![c] = "check_send"]
    /\ UNCHANGED <<redis, ctxVars, callOut, startId, out, answer, cancelSet, notePc,
                   respVars, pollVars, bounds>>

\* cancel_task is done; with recv_task done too either may come first in done
CancelWait(c) ==
    /\ pc[c] = "wait" /\ c \in cancelSet
    /\ Ends(c, "cancelled")
    /\ UNCHANGED <<redis, ctxVars, callOut, startId, retries, answer, cancelSet, notePc,
                   respVars, pollVars, bounds>>

InterruptFault(c) ==
    /\ pc[c] \notin {"none", "end"} /\ Fault
    /\ Ends(c, "error")
    /\ UNCHANGED <<redis, ctxVars, callOut, startId, retries, answer, cancelSet, notePc,
                   respVars, pollVars>>

-----------------------------------------------------------------------------
(* notification *)

Notify(n) ==
    /\ \/ /\ notePc[n] = "idle" /\ ctxPc = "open" /\ UNCHANGED redis
          /\ \/ exists["send"] /\ notePc' = [notePc EXCEPT ![n] = "add"]
             \/ ~exists["send"] /\ notePc' = [notePc EXCEPT ![n] = "missing"]
       \/ notePc[n] = "add" /\ Xadd("send", n) /\ notePc' = [notePc EXCEPT ![n] = "expire"]
       \/ notePc[n] = "expire" /\ Expire("send") /\ notePc' = [notePc EXCEPT ![n] = "done"]
    /\ UNCHANGED <<ctxVars, callVars, respVars, pollVars, bounds>>

NotifyFault(n) ==
    /\ notePc[n] \in {"add", "expire"} /\ Fault
    /\ notePc' = [notePc EXCEPT ![n] = "error"]
    /\ UNCHANGED <<redis, ctxVars, callVars, respVars, pollVars>>

\* the worker that runs the task dies with all its coroutines
Crash ==
    /\ crashes < MaxCrashes /\ crashes' = crashes + 1 /\ UNCHANGED faults
    /\ ctxPc \in {"enter", "open"}
    /\ ctxPc' = "failed" /\ deamon' = "dead"
    /\ pc' = [c \in Calls |-> IF pc[c] = "none" THEN "none" ELSE "end"]
    /\ notePc' = [n \in Notes |-> IF notePc[n] = "idle" THEN "idle" ELSE "done"]
    /\ UNCHANGED <<redis, ctxStep, callOut, startId, retries, out, answer, cancelSet,
                   respVars, pollVars>>

-----------------------------------------------------------------------------
(* /hil/respond, for a request some device has shown the user *)

Shown(c) == \E p \in Pollers : \E i \in DOMAIN got[p] : got[p][i].what = c
InSend(c) == \E e \in stream["send"] : e.what = c

\* mutant: the first entry of the stream is deleted, whatever it is
AckFirst(c) ==
    /\ stream' = [stream EXCEPT !["send"] = {e \in @ : \E f \in @ : f.id < e.id}]
    /\ UNCHANGED <<exists, ttl, nextId>>
Ack(c) == Xdel("send", c)

\* ack_message: XREAD finds the request or the answer is refused (404)
RespondRead(r, c) ==
    /\ respPc[r] = "idle" /\ Shown(c)
    /\ respCall' = [respCall EXCEPT ![r] = c]
    /\ \/ InSend(c) /\ respPc' = [respPc EXCEPT ![r] = "ack"]
       \/ ~InSend(c) /\ respPc' = [respPc EXCEPT ![r] = "refused"]
    /\ UNCHANGED <<redis, ctxVars, callVars, notePc, pollVars, bounds>>

\* ack_message deletes the entry, though another responder may have done so
RespondAck(r) ==
    /\ respPc[r] = "ack"
    /\ Ack(respCall[r])
    /\ respPc' = [respPc EXCEPT ![r] = "check"]
    /\ UNCHANGED <<ctxVars, callVars, notePc, respCall, pollVars, bounds>>

\* send_response_with_params: EXISTS, XADD, EXPIRE
RespondWrite(r) ==
    /\ \/ /\ respPc[r] = "check" /\ UNCHANGED redis
          /\ \/ exists["recv"] /\ respPc' = [respPc EXCEPT ![r] = "add"]
             \/ ~exists["recv"] /\ respPc' = [respPc EXCEPT ![r] = "refused"]
       \/ respPc[r] = "add" /\ Xadd("recv", r) /\ respPc' = [respPc EXCEPT ![r] = "expire"]
       \/ respPc[r] = "expire" /\ Expire("recv") /\ respPc' = [respPc EXCEPT ![r] = "done"]
    /\ UNCHANGED <<ctxVars, callVars, notePc, respCall, pollVars, bounds>>

RespondFault(r) ==
    /\ respPc[r] \in {"ack", "check", "add", "expire"} /\ Fault
    /\ respPc' = [respPc EXCEPT ![r] = "failed"]
    /\ UNCHANGED <<redis, ctxVars, callVars, notePc, respCall, pollVars>>

-----------------------------------------------------------------------------
(* /hil/poll *)

\* the redis_last_id the device sends back
LastId(p) == IF got[p] = <<>> THEN 0 ELSE got[p][Len(got[p])].id

\* mutant: the newest entry is returned
IsNewest(e, p) == IsLast(e, After("send", LastId(p)))

\* XREAD with count=1
IsNext(e, p) == IsFirst(e, After("send", LastId(p)))

\* a device polls; without the stream it stops
PollStart(p) ==
    /\ pollPc[p] = "idle"
    /\ ctxPc = "enter" => exists["send"]   \* else 204, and the device asks again
    /\ \/ exists["send"] /\ pollPc' = [pollPc EXCEPT ![p] = "read"]
       \/ ~exists["send"] /\ pollPc' = [pollPc EXCEPT ![p] = "stopped"]
    /\ UNCHANGED <<redis, ctxVars, callVars, notePc, respVars, got, bounds>>

\* one entry is returned; an _init entry cannot be parsed and is read again
PollRead(p) ==
    /\ pollPc[p] = "read"
    /\ \E e \in stream["send"] :
          /\ IsNext(e, p) /\ e.what # Opening
          /\ got' = [got EXCEPT ![p] = Append(@, e)]
    /\ pollPc' = [pollPc EXCEPT ![p] = "idle"]
    /\ UNCHANGED <<redis, ctxVars, callVars, notePc, respVars, bounds>>

\* the poll's timeout, or an error, which is swallowed: the device polls again
PollTimeout(p) ==
    /\ pollPc[p] = "read"
    /\ pollPc' = [pollPc EXCEPT ![p] = "idle"]
    /\ UNCHANGED <<redis, ctxVars, callVars, notePc, respVars, got, bounds>>

-----------------------------------------------------------------------------
InterruptStep(c) ==
    CheckSend(c) \/ CheckRecv(c) \/ SendRequest(c) \/ TakeAnswer(c) \/ DeleteAnswer(c)
    \/ SkipOthers(c) \/ TimeOut(c) \/ CancelWait(c)
RespondStep(r) == RespondAck(r) \/ RespondWrite(r)

Context == Enter \/ EnterFault \/ Refresh \/ DeamonFault \/ Exit \/ ExitFault \/ Crash
Tools == \/ \E c \in Calls : Interrupt(c) \/ SetCancel(c) \/ InterruptStep(c) \/ InterruptFault(c)
         \/ \E n \in Notes : Notify(n) \/ NotifyFault(n)
User == \/ \E r \in Responders : (\E c \in Calls : RespondRead(r, c)) \/ RespondStep(r) \/ RespondFault(r)
        \/ \E p \in Pollers : PollStart(p) \/ PollRead(p) \/ PollTimeout(p)

Next == Context \/ Tools \/ User \/ \E d \in Dirs : Lapse(d)

Spec == Init /\ [][Next]_vars

\* the event loop runs on: ready coroutines advance, sleeping ones wake, the
\* agent ends and leaves the context, Redis expires keys. No coroutine is
\* promised its turn before the others; users need not act.
Runs ==
    \/ Enter \/ Exit \/ (\E d \in Dirs : Lapse(d))
    \/ (\E c \in Calls : InterruptStep(c)) \/ (\E n \in Notes : Notify(n))
    \/ \E r \in Responders : RespondStep(r)

FairSpec == Spec /\ WF_vars(Runs)

-----------------------------------------------------------------------------
(* Properties *)

PcStates == {"none", "check_send", "check_recv", "add", "expire", "wait", "xdel", "end"}
RespStates == {"idle", "ack", "check", "add", "expire", "done", "refused", "failed"}
SendEntries == [id : Nat, what : Calls \cup Notes \cup {Opening}]
RecvEntries == [id : Nat, what : Responders \cup {Opening}]

RedisTyped ==
    /\ stream \in [Dirs -> SUBSET (SendEntries \cup RecvEntries)]
    /\ stream["send"] \subseteq SendEntries /\ stream["recv"] \subseteq RecvEntries
    /\ exists \in [Dirs -> BOOLEAN] /\ ttl \in [Dirs -> BOOLEAN]
    /\ nextId \in [Dirs -> Nat \ {0}]
ContextTyped ==
    /\ ctxPc \in {"enter", "open", "closed", "failed"}
    /\ ctxStep \in 1 .. 6
    /\ deamon \in {"none", "running", "dead", "cancelled"}
CallsTyped ==
    /\ callOut \in [Calls -> {"none", "ValueError"}]
    /\ pc \in [Calls -> PcStates]
    /\ startId \in [Calls -> Nat] /\ retries \in [Calls -> Nat]
    /\ out \in [Calls -> {"none", "returned", "missing", "cancelled", "error"}]
    /\ answer \in [Calls -> Responders \cup {Opening}]
    /\ cancelSet \subseteq Cancellable
    /\ notePc \in [Notes -> {"idle", "add", "expire", "done", "missing", "error"}]
UsersTyped ==
    /\ respPc \in [Responders -> RespStates]
    /\ respCall \in [Responders -> Calls \cup {Opening}]
    /\ pollPc \in [Pollers -> {"idle", "read", "stopped"}]
    /\ got \in [Pollers -> Seq(SendEntries)]
    /\ faults \in Nat /\ crashes \in Nat

\* Types; a key that does not exist has neither entries nor a TTL.
TypeOK ==
    /\ RedisTyped /\ ContextTyped /\ CallsTyped /\ UsersTyped
    /\ \A d \in Dirs : ~exists[d] => stream[d] = {} /\ ~ttl[d]

\* Several interrupts read one receive stream: what an interrupt returns was
\* posted for its own request (interrupt.py:64-72, 155-158).
AnswersMatch ==
    \A c \in Calls : pc[c] = "xdel" \/ out[c] = "returned" =>
        answer[c] \in Responders /\ respCall[answer[c]] = c

\* The read position of a waiting interrupt never passes an answer with content
\* that is for it, though it skips other interrupts' answers and the streams
\* may be deleted and written again (interrupt.py:131-160).
AnswersAhead ==
    \A c \in Calls, e \in stream["recv"] :
        pc[c] = "wait" /\ Answers(c, e) /\ e.what \notin EmptyAnswers => e.id > startId[c]

\* While an interrupt waits in an open context, the user can still answer it,
\* is answering it, or has: /hil/respond deletes the request before it writes
\* the answer (router.py:98-101).
StillAnswerable ==
    \A c \in Calls : ctxPc = "open" /\ pc[c] = "wait" =>
        \/ InSend(c)
        \/ \E r \in Responders : respCall[r] = c /\ respPc[r] \in {"check", "add"}
        \/ \E e \in stream["recv"] : Answers(c, e)

\* A device is shown no request or notification twice, in whatever rounds the
\* interrupts are (long_poll_worker.py:114-165, interrupt.py:117), and misses
\* none that is still there: an entry before its last id was shown.
PolledOnce(p) == \A i, j \in DOMAIN got[p] : i # j => got[p][i].what # got[p][j].what
PolledAll(p) ==
    \A e \in stream["send"] :
        e.id <= LastId(p) /\ e.what # Opening => \E i \in DOMAIN got[p] : got[p][i] = e
PollsExact == \A p \in Pollers : PolledOnce(p) /\ PolledAll(p)

\* The interrupt's caller gets the answer the interrupt returned,
\* docs "Human In The Loop.rst":98.
CallerGetsAnswer == \A c \in Calls : out[c] = "returned" => callOut[c] # "ValueError"

\* Whatever is written after the exit, the streams vanish for good.
StreamsVanish == <>[](\A d \in Dirs : ~exists[d])

\* What an interrupt takes is its own answer, and it passes over none of its own.
AnswersRight == AnswersMatch /\ AnswersAhead

\* Every interrupt comes to an end, answered or not (interrupt.py:104-105).
InterruptEnds == \A c \in Calls : pc[c] # "none" ~> pc[c] = "end"
=============================================================================
