-------------------------- MODULE HumanInLoop_proofs --------------------------
(***************************************************************************)
(* HumanInLoop for any number of interrupts, notifications, answers and    *)
(* devices, any timeout_retry, and any number of faults and crashes.       *)
(***************************************************************************)
EXTENDS HumanInLoop, TLAPS

-----------------------------------------------------------------------------
(* What a step does to Redis *)

Sendable   == Calls \cup Notes \cup {Opening}
Receivable == Responders \cup {Opening}

\* Entries and keys go, by XDEL, DEL or expiry; no TTL is lost but with its key.
Shrinks ==
    /\ stream' \in [Dirs -> SUBSET (SendEntries \cup RecvEntries)]
    /\ \A d \in Dirs : stream'[d] \subseteq stream[d]
    /\ exists' \in [Dirs -> BOOLEAN] /\ ttl' \in [Dirs -> BOOLEAN]
    /\ \A d \in Dirs : ~exists'[d] => stream'[d] = {} /\ ~ttl'[d]
    /\ UNCHANGED nextId

RedisStep ==
    \/ Shrinks
    \/ \E x \in Sendable : Xadd("send", x)
    \/ \E x \in Receivable : Xadd("recv", x)

LEMMA RedisSteps == TypeOK /\ [Next]_vars => RedisStep
<1> SUFFICES ASSUME TypeOK, [Next]_vars PROVE RedisStep
  OBVIOUS
<1> USE DEF TypeOK, RedisTyped, Dirs
<1>1. ASSUME UNCHANGED redis PROVE RedisStep
  BY <1>1 DEF RedisStep, Shrinks, redis
<1>2. ASSUME NEW d \in Dirs, NEW x, Xdel(d, x) PROVE RedisStep
  <2>1. stream'[d] \subseteq stream[d] /\ \A b \in Dirs \ {d} : stream'[b] = stream[b]
    BY <1>2 DEF Xdel, Without
  <2>2. stream' \in [Dirs -> SUBSET (SendEntries \cup RecvEntries)]
    BY <1>2 DEF Xdel, Without
  <2> QED
    BY <1>2, <2>1, <2>2 DEF Xdel, RedisStep, Shrinks
<1>3. ASSUME NEW d \in Dirs, Expire(d) PROVE RedisStep
  BY <1>3 DEF Expire, RedisStep, Shrinks
<1>4. CASE Enter
  <2>1. PICK step \in [op : {"add", "del", "expire"}, dir : Dirs] :
          \/ Xadd(step.dir, Opening) \/ Xdel(step.dir, Opening) \/ Expire(step.dir)
    BY <1>4 DEF Enter, EnterSteps, ContextTyped
  <2> QED
    BY <1>2, <1>3, <2>1 DEF RedisStep, Sendable, Receivable
<1>5. CASE Refresh
  BY <1>5 DEF Refresh, RedisStep, Shrinks
<1>6. CASE Exit
  BY <1>6 DEF Exit, RedisStep, Shrinks
<1>7. ASSUME NEW d \in Dirs, Lapse(d) PROVE RedisStep
  BY <1>7 DEF Lapse, RedisStep, Shrinks
<1>8. ASSUME NEW c \in Calls, SendRequest(c) PROVE RedisStep
  BY <1>3, <1>8 DEF SendRequest, RedisStep, Sendable
<1>9. ASSUME NEW c \in Calls, DeleteAnswer(c) PROVE RedisStep
  BY <1>2, <1>9 DEF DeleteAnswer
<1>10. ASSUME NEW n \in Notes, Notify(n) PROVE RedisStep
  BY <1>1, <1>3, <1>10 DEF Notify, RedisStep, Sendable
<1>11. ASSUME NEW r \in Responders, RespondAck(r) PROVE RedisStep
  BY <1>2, <1>11 DEF RespondAck, Ack
<1>12. ASSUME NEW r \in Responders, RespondWrite(r) PROVE RedisStep
  BY <1>1, <1>3, <1>12 DEF RespondWrite, RedisStep, Receivable
<1>13. CASE EnterFault \/ DeamonFault \/ ExitFault \/ Crash
  BY <1>1, <1>13 DEF EnterFault, DeamonFault, ExitFault, Crash
<1>14. ASSUME NEW c \in Calls,
              \/ Interrupt(c) \/ SetCancel(c) \/ InterruptFault(c) \/ CheckSend(c)
              \/ CheckRecv(c) \/ TakeAnswer(c) \/ SkipOthers(c) \/ TimeOut(c) \/ CancelWait(c)
       PROVE  RedisStep
  BY <1>1, <1>14 DEF Interrupt, SetCancel, InterruptFault, CheckSend, CheckRecv, TakeAnswer,
     SkipOthers, TimeOut, CancelWait
<1>15. ASSUME NEW n \in Notes, NotifyFault(n) PROVE RedisStep
  BY <1>1, <1>15 DEF NotifyFault
<1>16. ASSUME NEW r \in Responders, RespondFault(r) \/ \E c \in Calls : RespondRead(r, c)
       PROVE  RedisStep
  BY <1>1, <1>16 DEF RespondFault, RespondRead
<1>17. ASSUME NEW p \in Pollers, PollStart(p) \/ PollRead(p) \/ PollTimeout(p) PROVE RedisStep
  BY <1>1, <1>17 DEF PollStart, PollRead, PollTimeout
<1>18. CASE UNCHANGED vars
  BY <1>1, <1>18 DEF vars
<1> QED
  BY <1>4, <1>5, <1>6, <1>7, <1>8, <1>9, <1>10, <1>11, <1>12, <1>13, <1>14, <1>15, <1>16,
     <1>17, <1>18 DEF Next, Context, Tools, User, InterruptStep, RespondStep

-----------------------------------------------------------------------------
(* Types *)

LEMMA RedisTypedStep ==
    ASSUME TypeOK, RedisStep
    PROVE  RedisTyped' /\ \A d \in Dirs : ~exists'[d] => stream'[d] = {} /\ ~ttl'[d]
<1> USE DEF TypeOK, RedisTyped, Dirs
<1>1. CASE Shrinks
  BY <1>1 DEF Shrinks
<1>2. ASSUME NEW x \in Sendable, Xadd("send", x)
      PROVE  RedisTyped' /\ \A d \in Dirs : ~exists'[d] => stream'[d] = {} /\ ~ttl'[d]
  <2>1. [id |-> nextId["send"], what |-> x] \in SendEntries
    BY <1>2 DEF SendEntries, Sendable
  <2> QED
    BY <1>2, <2>1 DEF Xadd
<1>3. ASSUME NEW x \in Receivable, Xadd("recv", x)
      PROVE  RedisTyped' /\ \A d \in Dirs : ~exists'[d] => stream'[d] = {} /\ ~ttl'[d]
  <2>1. [id |-> nextId["recv"], what |-> x] \in RecvEntries
    BY <1>3 DEF RecvEntries, Receivable
  <2> QED
    BY <1>3, <2>1 DEF Xadd
<1> QED
  BY <1>1, <1>2, <1>3 DEF RedisStep

LEMMA ContextTypedStep == TypeOK /\ [Next]_vars => ContextTyped'
<1> SUFFICES ASSUME TypeOK, [Next]_vars PROVE ContextTyped'
  OBVIOUS
<1> USE DEF TypeOK, ContextTyped
<1>1. CASE Enter
  BY <1>1 DEF Enter, EnterSteps
<1>2. CASE EnterFault \/ Refresh \/ DeamonFault \/ Exit \/ ExitFault \/ Crash
  BY <1>2 DEF EnterFault, Refresh, DeamonFault, Exit, ExitFault, Crash, ctxVars
<1>3. CASE Tools \/ User \/ (\E d \in Dirs : Lapse(d)) \/ UNCHANGED vars
  BY <1>3 DEF Tools, User, Lapse, vars, ctxVars, InterruptStep, RespondStep, Interrupt,
     SetCancel, InterruptFault, CheckSend, CheckRecv, SendRequest, TakeAnswer, DeleteAnswer,
     SkipOthers, TimeOut, CancelWait, Notify, NotifyFault, RespondRead, RespondAck,
     RespondWrite, RespondFault, PollStart, PollRead, PollTimeout
<1> QED
  BY <1>1, <1>2, <1>3 DEF Next, Context

LEMMA CallsTypedStep == TypeOK /\ [Next]_vars => CallsTyped'
<1> SUFFICES ASSUME TypeOK, [Next]_vars PROVE CallsTyped'
  OBVIOUS
<1> USE DEF TypeOK, CallsTyped, PcStates
<1>1. ASSUME NEW c \in Calls, Interrupt(c) \/ SetCancel(c) \/ InterruptFault(c) PROVE CallsTyped'
  BY <1>1 DEF Interrupt, CallRaises, SetCancel, InterruptFault, Ends
<1>2. ASSUME NEW c \in Calls, CheckSend(c) \/ CheckRecv(c) \/ SendRequest(c) PROVE CallsTyped'
  BY <1>2 DEF CheckSend, CheckRecv, NextAfterCheck, SendRequest, Ends
<1>3. ASSUME NEW c \in Calls, TakeAnswer(c) PROVE CallsTyped'
  <2>1. PICK e \in stream["recv"] : e.what \in Responders /\ answer' = [answer EXCEPT ![c] = e.what]
    BY <1>3 DEF TakeAnswer, IsFirst, Mine, Answers
  <2> QED
    BY <1>3, <2>1 DEF TakeAnswer
<1>4. ASSUME NEW c \in Calls, SkipOthers(c) PROVE CallsTyped'
  <2>1. PICK e \in stream["recv"] : startId' = [startId EXCEPT ![c] = e.id]
    BY <1>4 DEF SkipOthers
  <2>2. e.id \in Nat
    BY <2>1 DEF RedisTyped, RecvEntries
  <2> QED
    BY <1>4, <2>1, <2>2 DEF SkipOthers
<1>5. ASSUME NEW c \in Calls, TimeOut(c) \/ CancelWait(c) \/ DeleteAnswer(c) PROVE CallsTyped'
  BY <1>5 DEF TimeOut, CancelWait, DeleteAnswer, Ends
<1>6. ASSUME NEW n \in Notes, Notify(n) \/ NotifyFault(n) PROVE CallsTyped'
  BY <1>6 DEF Notify, NotifyFault, callVars
<1>7. CASE Crash
  BY <1>7 DEF Crash
<1>8. CASE \/ Enter \/ EnterFault \/ Refresh \/ DeamonFault \/ Exit \/ ExitFault \/ User
           \/ (\E d \in Dirs : Lapse(d)) \/ UNCHANGED vars
  BY <1>8 DEF Enter, EnterFault, Refresh, DeamonFault, Exit, ExitFault, User, RespondStep,
     RespondRead, RespondAck, RespondWrite, RespondFault, PollStart, PollRead, PollTimeout,
     Lapse, vars, callVars
<1> QED
  BY <1>1, <1>2, <1>3, <1>4, <1>5, <1>6, <1>7, <1>8 DEF Next, Context, Tools, InterruptStep

LEMMA UsersTypedStep == TypeOK /\ [Next]_vars => UsersTyped'
<1> SUFFICES ASSUME TypeOK, [Next]_vars PROVE UsersTyped'
  OBVIOUS
<1> USE DEF TypeOK, UsersTyped, RespStates
<1>1. ASSUME NEW r \in Responders, NEW c \in Calls, RespondRead(r, c) PROVE UsersTyped'
  BY <1>1 DEF RespondRead, pollVars, bounds
<1>2. ASSUME NEW r \in Responders, RespondStep(r) \/ RespondFault(r) PROVE UsersTyped'
  BY <1>2 DEF RespondStep, RespondAck, RespondWrite, RespondFault, Fault, pollVars, bounds
<1>3. ASSUME NEW p \in Pollers, PollStart(p) \/ PollTimeout(p) PROVE UsersTyped'
  BY <1>3 DEF PollStart, PollTimeout, respVars, bounds
<1>4. ASSUME NEW p \in Pollers, PollRead(p) PROVE UsersTyped'
  <2>1. PICK e \in SendEntries : got' = [got EXCEPT ![p] = Append(@, e)]
    BY <1>4 DEF PollRead, RedisTyped
  <2> QED
    BY <1>4, <2>1 DEF PollRead, respVars, bounds
<1>5. CASE Context
  BY <1>5 DEF Context, Enter, EnterFault, Refresh, DeamonFault, Exit, ExitFault, Crash, Fault,
     respVars, pollVars, bounds
<1>6. CASE Tools
  BY <1>6 DEF Tools, InterruptStep, Interrupt, SetCancel, InterruptFault, CheckSend, CheckRecv,
     SendRequest, TakeAnswer, DeleteAnswer, SkipOthers, TimeOut, CancelWait, Notify,
     NotifyFault, Fault, respVars, pollVars, bounds
<1>7. CASE (\E d \in Dirs : Lapse(d)) \/ UNCHANGED vars
  BY <1>7 DEF Lapse, vars, respVars, pollVars, bounds
<1> QED
  BY <1>1, <1>2, <1>3, <1>4, <1>5, <1>6, <1>7 DEF Next, User

LEMMA InitTyped == Init => TypeOK
  BY HumanInLoopAssumption DEF Init, TypeOK, RedisTyped, ContextTyped, CallsTyped, UsersTyped,
     PcStates, RespStates, Dirs, SendEntries, RecvEntries

LEMMA TypeOKStep == TypeOK /\ [Next]_vars => TypeOK'
  BY RedisSteps, RedisTypedStep, ContextTypedStep, CallsTypedStep, UsersTypedStep DEF TypeOK

\* Every variable keeps its type; a missing key has no entries and no TTL.
THEOREM TypeCorrect == Spec => []TypeOK
  BY InitTyped, TypeOKStep, PTL DEF Spec

-----------------------------------------------------------------------------
(* The receive stream *)

\* Entry ids grow and are not used twice, and no reader is ahead of the stream.
RecvIds ==
    /\ \A e \in stream["recv"] : 0 < e.id /\ e.id < nextId["recv"]
    /\ \A e, f \in stream["recv"] : e.id = f.id => e = f
    /\ \A c \in Calls : startId[c] < nextId["recv"]

\* The first wait reads from the start of the stream.
FreshStart == \A c \in Calls : pc[c] \in {"add", "expire"} => startId[c] = 0

\* An answer that was written, or taken, belongs to a /hil/respond under way,
\* which keeps the call it answers.
Posted ==
    /\ \A e \in stream["recv"] : e.what \in Responders => respPc[e.what] # "idle"
    /\ \A c \in Calls : answer[c] \in Responders => respPc[answer[c]] # "idle"

RInv == TypeOK /\ RecvIds /\ FreshStart /\ Posted /\ AnswersMatch /\ AnswersAhead

\* Entries are added at the stream's end, one at a time.
LEMMA NewAtEnd ==
    TypeOK /\ [Next]_vars =>
        /\ nextId["recv"] \in Nat \ {0} /\ nextId["recv"] <= nextId'["recv"]
        /\ \A e \in stream'["recv"] :
              e \in stream["recv"] \/ (e.id = nextId["recv"] /\ e.id < nextId'["recv"])
        /\ \A e, f \in stream'["recv"] \ stream["recv"] : e = f
  BY RedisSteps, TypeOKStep DEF RedisStep, Shrinks, Xadd, TypeOK, RedisTyped, Dirs

\* A read position stays, returns to the start, or moves to an entry.
LEMMA StartMoves ==
    TypeOK /\ [Next]_vars =>
        \A c \in Calls : startId'[c] = startId[c] \/ startId'[c] = 0
                         \/ \E e \in stream["recv"] : startId'[c] = e.id
<1> SUFFICES ASSUME TypeOK, [Next]_vars
             PROVE  \A c \in Calls : startId'[c] = startId[c] \/ startId'[c] = 0
                       \/ \E e \in stream["recv"] : startId'[c] = e.id
  OBVIOUS
<1>1. ASSUME NEW c \in Calls, SkipOthers(c)
      PROVE  \A d \in Calls : startId'[d] = startId[d] \/ \E e \in stream["recv"] : startId'[d] = e.id
  BY <1>1 DEF SkipOthers, TypeOK, CallsTyped
<1>2. ASSUME NEW c \in Calls, CheckRecv(c)
      PROVE  \A d \in Calls : startId'[d] = startId[d] \/ startId'[d] = 0
  BY <1>2 DEF CheckRecv, TypeOK, CallsTyped
<1>3. CASE UNCHANGED startId
  BY <1>3
<1> QED
  BY <1>1, <1>2, <1>3 DEF Next, Context, Tools, User, InterruptStep, RespondStep, Enter,
     EnterFault, Refresh, DeamonFault, Exit, ExitFault, Crash, Interrupt, SetCancel,
     InterruptFault, CheckSend, SendRequest, TakeAnswer, DeleteAnswer, TimeOut, CancelWait,
     Notify, NotifyFault, RespondRead, RespondAck, RespondWrite, RespondFault, PollStart,
     PollRead, PollTimeout, Lapse, vars, callVars

LEMMA RecvIdsStep == RInv /\ [Next]_vars => RecvIds'
<1> SUFFICES ASSUME RInv, [Next]_vars PROVE RecvIds'
  OBVIOUS
<1> USE NewAtEnd, StartMoves DEF RInv, RecvIds
<1>1. TypeOK'
  BY TypeOKStep
<1>4. \A e \in stream["recv"] : e.id \in Nat
  BY DEF TypeOK, RedisTyped, RecvEntries
<1>5. \A c \in Calls : startId[c] \in Nat /\ startId'[c] \in Nat /\ nextId'["recv"] \in Nat
  BY <1>1 DEF TypeOK, CallsTyped, RedisTyped, Dirs
<1>6. \A e \in stream'["recv"] : 0 < e.id /\ e.id < nextId'["recv"]
  <2> SUFFICES ASSUME NEW e \in stream'["recv"] PROVE 0 < e.id /\ e.id < nextId'["recv"]
    OBVIOUS
  <2>1. CASE e \in stream["recv"]
    BY <1>1, <1>4, <2>1 DEF TypeOK, RedisTyped, Dirs
  <2>2. CASE e \notin stream["recv"]
    BY <2>2
  <2> QED
    BY <2>1, <2>2
<1>7. \A e, f \in stream'["recv"] : e.id = f.id => e = f
  <2> SUFFICES ASSUME NEW e \in stream'["recv"], NEW f \in stream'["recv"], e.id = f.id PROVE e = f
    OBVIOUS
  <2>1. CASE e \in stream["recv"] /\ f \in stream["recv"]
    BY <2>1
  <2>2. CASE e \notin stream["recv"] /\ f \notin stream["recv"]
    BY <2>2
  <2>3. CASE e \in stream["recv"] /\ f \notin stream["recv"]
    BY <1>4, <2>3
  <2>4. CASE e \notin stream["recv"] /\ f \in stream["recv"]
    BY <1>4, <2>4
  <2> QED
    BY <2>1, <2>2, <2>3, <2>4
<1>8. \A c \in Calls : startId'[c] < nextId'["recv"]
  <2> SUFFICES ASSUME NEW c \in Calls PROVE startId'[c] < nextId'["recv"]
    OBVIOUS
  <2>1. startId'[c] < nextId["recv"]
    BY <1>4, <1>5
  <2> QED
    BY <1>5, <2>1
<1> QED
  BY <1>6, <1>7, <1>8

LEMMA FreshStartStep == RInv /\ [Next]_vars => FreshStart'
<1> SUFFICES ASSUME RInv, [Next]_vars PROVE FreshStart'
  OBVIOUS
<1> USE DEF RInv, FreshStart, TypeOK, CallsTyped
<1>1. ASSUME NEW c \in Calls, CheckRecv(c) \/ SendRequest(c) PROVE FreshStart'
  BY <1>1 DEF CheckRecv, NextAfterCheck, SendRequest, Ends
<1>2. ASSUME NEW c \in Calls, SkipOthers(c) PROVE FreshStart'
  BY <1>2 DEF SkipOthers
<1>3. ASSUME NEW c \in Calls,
             \/ Interrupt(c) \/ SetCancel(c) \/ InterruptFault(c) \/ CheckSend(c)
             \/ TakeAnswer(c) \/ DeleteAnswer(c) \/ TimeOut(c) \/ CancelWait(c)
      PROVE  FreshStart'
  BY <1>3 DEF Interrupt, SetCancel, InterruptFault, CheckSend, TakeAnswer, DeleteAnswer,
     TimeOut, CancelWait, Ends
<1>4. CASE Crash
  BY <1>4 DEF Crash
<1>5. CASE UNCHANGED callVars
  BY <1>5 DEF callVars
<1> QED
  BY <1>1, <1>2, <1>3, <1>4, <1>5 DEF Next, Context, Tools, User, InterruptStep, RespondStep,
     Enter, EnterFault, Refresh, DeamonFault, Exit, ExitFault, Notify, NotifyFault,
     RespondRead, RespondAck, RespondWrite, RespondFault, PollStart, PollRead, PollTimeout,
     Lapse, vars

\* A /hil/respond request never starts again and keeps its call.
LEMMA RespondKeeps ==
    TypeOK /\ [Next]_vars =>
        \A r \in Responders : respPc[r] # "idle" => respPc'[r] # "idle" /\ respCall'[r] = respCall[r]
<1> SUFFICES ASSUME TypeOK, [Next]_vars, NEW r \in Responders, respPc[r] # "idle"
             PROVE  respPc'[r] # "idle" /\ respCall'[r] = respCall[r]
  OBVIOUS
<1> USE DEF TypeOK, UsersTyped
<1>1. ASSUME NEW q \in Responders, NEW c \in Calls, RespondRead(q, c)
      PROVE  respPc'[r] # "idle" /\ respCall'[r] = respCall[r]
  BY <1>1 DEF RespondRead
<1>2. ASSUME NEW q \in Responders, RespondStep(q) \/ RespondFault(q)
      PROVE  respPc'[r] # "idle" /\ respCall'[r] = respCall[r]
  BY <1>2 DEF RespondStep, RespondAck, RespondWrite, RespondFault
<1>3. CASE UNCHANGED respVars
  BY <1>3 DEF respVars
<1> QED
  BY <1>1, <1>2, <1>3 DEF Next, Context, Tools, User, InterruptStep, Enter, EnterFault,
     Refresh, DeamonFault, Exit, ExitFault, Crash, Interrupt, SetCancel, InterruptFault,
     CheckSend, CheckRecv, SendRequest, TakeAnswer, DeleteAnswer, SkipOthers, TimeOut,
     CancelWait, Notify, NotifyFault, PollStart, PollRead, PollTimeout, Lapse, vars

\* Only a /hil/respond request writes an answer, its own.
LEMMA RecvNew ==
    TypeOK /\ [Next]_vars =>
        \A e \in stream'["recv"] : e \in stream["recv"] \/ e.what = Opening
                                    \/ (e.what \in Responders /\ respPc[e.what] = "add")
<1> SUFFICES ASSUME TypeOK, [Next]_vars
             PROVE  \A e \in stream'["recv"] : e \in stream["recv"] \/ e.what = Opening
                       \/ (e.what \in Responders /\ respPc[e.what] = "add")
  OBVIOUS
<1> USE DEF TypeOK, RedisTyped, Dirs
<1>1. CASE Shrinks
  BY <1>1 DEF Shrinks
<1>2. ASSUME NEW x, Xadd("send", x) PROVE stream'["recv"] = stream["recv"]
  BY <1>2 DEF Xadd
<1>3. CASE Enter
  <2>1. CASE \E d \in Dirs : Xadd(d, Opening)
    BY <2>1 DEF Xadd
  <2>2. CASE \E d \in Dirs : Xdel(d, Opening) \/ Expire(d)
    BY <2>2 DEF Xdel, Without, Expire
  <2> QED
    BY <1>3, <2>1, <2>2 DEF Enter, EnterSteps, ContextTyped
<1>4. ASSUME NEW r \in Responders, RespondWrite(r)
      PROVE  \A e \in stream'["recv"] : e \in stream["recv"]
                \/ (e.what \in Responders /\ respPc[e.what] = "add")
  <2>1. CASE Xadd("recv", r) /\ respPc[r] = "add"
    BY <2>1 DEF Xadd
  <2>2. CASE UNCHANGED stream
    BY <2>2
  <2> QED
    BY <1>4, <2>1, <2>2 DEF RespondWrite, Expire, redis
<1>5. ASSUME NEW r \in Responders, RespondAck(r) PROVE stream'["recv"] = stream["recv"]
  BY <1>5 DEF RespondAck, Ack, Xdel
<1>6. ASSUME NEW c \in Calls, SendRequest(c) PROVE stream'["recv"] = stream["recv"]
  BY <1>6 DEF SendRequest, Xadd, Expire
<1>7. ASSUME NEW n \in Notes, Notify(n) PROVE stream'["recv"] = stream["recv"]
  BY <1>7 DEF Notify, Xadd, Expire, redis
<1>8. ASSUME NEW c \in Calls, DeleteAnswer(c) PROVE stream'["recv"] \subseteq stream["recv"]
  BY <1>8 DEF DeleteAnswer, Xdel, Without
<1>9. CASE Exit \/ Refresh \/ \E d \in Dirs : Lapse(d)
  BY <1>9 DEF Exit, Refresh, Lapse
<1>10. CASE UNCHANGED redis
  BY <1>10 DEF redis
<1> QED
  BY <1>3, <1>4, <1>5, <1>6, <1>7, <1>8, <1>9, <1>10 DEF Next, Context, Tools, User,
     InterruptStep, RespondStep, EnterFault, DeamonFault, ExitFault, Crash, Interrupt,
     SetCancel, InterruptFault, CheckSend, CheckRecv, TakeAnswer, SkipOthers, TimeOut,
     CancelWait, NotifyFault, RespondRead, RespondFault, PollStart, PollRead, PollTimeout, vars

\* c holds an answer only if it held it before.
Untaken(c) == pc'[c] = "xdel" \/ out'[c] = "returned" => pc[c] = "xdel" \/ out[c] = "returned"

\* An interrupt takes an answer from the stream, one that is for it.
LEMMA AnswerTaken ==
    TypeOK /\ [Next]_vars =>
        \A c \in Calls : \/ answer'[c] = answer[c] /\ Untaken(c)
                         \/ \E e \in stream["recv"] : Answers(c, e) /\ answer'[c] = e.what
<1> SUFFICES ASSUME TypeOK, [Next]_vars, NEW c \in Calls
             PROVE  \/ answer'[c] = answer[c] /\ Untaken(c)
                    \/ \E e \in stream["recv"] : Answers(c, e) /\ answer'[c] = e.what
  OBVIOUS
<1> USE DEF TypeOK, CallsTyped, Untaken
<1>1. ASSUME NEW d \in Calls, TakeAnswer(d)
      PROVE  \/ answer'[c] = answer[c] /\ Untaken(c)
             \/ \E e \in stream["recv"] : Answers(c, e) /\ answer'[c] = e.what
  <2>1. PICK e \in stream["recv"] : Answers(d, e) /\ answer' = [answer EXCEPT ![d] = e.what]
    BY <1>1 DEF TakeAnswer, IsFirst, Mine
  <2>2. pc' = [pc EXCEPT ![d] = "xdel"]
    BY <1>1 DEF TakeAnswer
  <2>3. UNCHANGED out
    BY <1>1 DEF TakeAnswer
  <2> QED
    BY <2>1, <2>2, <2>3
<1>2. ASSUME NEW d \in Calls,
             \/ Interrupt(d) \/ SetCancel(d) \/ InterruptFault(d) \/ CheckSend(d)
             \/ CheckRecv(d) \/ SendRequest(d) \/ DeleteAnswer(d) \/ SkipOthers(d)
             \/ TimeOut(d) \/ CancelWait(d)
      PROVE  answer'[c] = answer[c] /\ Untaken(c)
  BY <1>2 DEF Interrupt, SetCancel, InterruptFault, CheckSend, CheckRecv, NextAfterCheck,
     SendRequest, DeleteAnswer, SkipOthers, TimeOut, CancelWait, Ends
<1>3. CASE Crash
  BY <1>3 DEF Crash
<1>4. CASE UNCHANGED callVars
  BY <1>4 DEF callVars
<1> QED
  BY <1>1, <1>2, <1>3, <1>4 DEF Next, Context, Tools, User, InterruptStep, RespondStep,
     Enter, EnterFault, Refresh, DeamonFault, Exit, ExitFault, Notify, NotifyFault,
     RespondRead, RespondAck, RespondWrite, RespondFault, PollStart, PollRead, PollTimeout,
     Lapse, vars

LEMMA PostedStep == RInv /\ [Next]_vars => Posted'
<1> SUFFICES ASSUME RInv, [Next]_vars PROVE Posted'
  OBVIOUS
<1> USE DEF RInv, Posted
<1>1. \A e \in stream'["recv"] : e.what \in Responders => respPc'[e.what] # "idle"
  BY RecvNew, RespondKeeps, HumanInLoopAssumption
<1>2. \A c \in Calls : answer'[c] \in Responders => respPc'[answer'[c]] # "idle"
  BY AnswerTaken, RespondKeeps DEF Answers
<1> QED
  BY <1>1, <1>2

LEMMA AnswersMatchStep == RInv /\ [Next]_vars => AnswersMatch'
<1> SUFFICES ASSUME RInv, [Next]_vars, NEW c \in Calls, pc'[c] = "xdel" \/ out'[c] = "returned"
             PROVE  answer'[c] \in Responders /\ respCall'[answer'[c]] = c
  BY DEF AnswersMatch
<1> USE DEF RInv, Posted
<1>1. CASE answer'[c] = answer[c] /\ Untaken(c)
  BY <1>1, RespondKeeps DEF AnswersMatch, Untaken
<1>2. CASE \E e \in stream["recv"] : Answers(c, e) /\ answer'[c] = e.what
  BY <1>2, RespondKeeps DEF Answers
<1> QED
  BY <1>1, <1>2, AnswerTaken

\* Where a waiting interrupt reads on.
LEMMA WaitStarts ==
    TypeOK /\ FreshStart /\ [Next]_vars =>
        \A c \in Calls : pc'[c] = "wait" =>
            \/ startId'[c] = 0
            \/ pc[c] = "wait" /\ startId'[c] = startId[c]
            \/ SkipOthers(c)
<1> SUFFICES ASSUME TypeOK, FreshStart, [Next]_vars, NEW c \in Calls, pc'[c] = "wait"
             PROVE  startId'[c] = 0 \/ (pc[c] = "wait" /\ startId'[c] = startId[c]) \/ SkipOthers(c)
  OBVIOUS
<1> USE DEF TypeOK, CallsTyped, FreshStart
<1>1. ASSUME NEW d \in Calls, CheckRecv(d) \/ SendRequest(d)
      PROVE  startId'[c] = 0 \/ (pc[c] = "wait" /\ startId'[c] = startId[c])
  BY <1>1 DEF CheckRecv, NextAfterCheck, SendRequest, Ends
<1>2. ASSUME NEW d \in Calls, d # c, SkipOthers(d) PROVE pc[c] = "wait" /\ startId'[c] = startId[c]
  BY <1>2 DEF SkipOthers
<1>3. ASSUME NEW d \in Calls,
             \/ Interrupt(d) \/ SetCancel(d) \/ InterruptFault(d) \/ CheckSend(d)
             \/ TakeAnswer(d) \/ DeleteAnswer(d) \/ TimeOut(d) \/ CancelWait(d)
      PROVE  pc[c] = "wait" /\ startId'[c] = startId[c]
  BY <1>3 DEF Interrupt, SetCancel, InterruptFault, CheckSend, TakeAnswer, DeleteAnswer,
     TimeOut, CancelWait, Ends
<1>4. CASE Crash
  BY <1>4 DEF Crash
<1>5. CASE UNCHANGED callVars
  BY <1>5 DEF callVars
<1> QED
  BY <1>1, <1>2, <1>3, <1>4, <1>5 DEF Next, Context, Tools, User, InterruptStep, RespondStep,
     Enter, EnterFault, Refresh, DeamonFault, Exit, ExitFault, Notify, NotifyFault,
     RespondRead, RespondAck, RespondWrite, RespondFault, PollStart, PollRead, PollTimeout,
     Lapse, vars

LEMMA AnswersAheadStep == RInv /\ [Next]_vars => AnswersAhead'
<1> SUFFICES ASSUME RInv, [Next]_vars, NEW c \in Calls, NEW e \in stream'["recv"],
                    pc'[c] = "wait", Answers(c, e)', e.what \notin EmptyAnswers
             PROVE  e.id > startId'[c]
  BY DEF AnswersAhead
<1> USE DEF RInv
<1>1. /\ RecvIds' /\ TypeOK'
      /\ startId'[c] \in Nat /\ startId[c] \in Nat /\ e.id \in Nat /\ e.id > 0
      /\ \A f \in stream["recv"] : f.id \in Nat
  BY RecvIdsStep, TypeOKStep DEF RecvIds, TypeOK, CallsTyped, RedisTyped, RecvEntries
<1>2. CASE e \notin stream["recv"]
  <2>1. startId'[c] < nextId["recv"]
    BY StartMoves, NewAtEnd, <1>1 DEF RecvIds
  <2> QED
    BY NewAtEnd, <1>1, <1>2, <2>1
<1>3. CASE e \in stream["recv"]
  <2>1. Answers(c, e)
    BY <1>3, RespondKeeps DEF Answers, Posted
  <2>2. CASE startId'[c] = 0
    BY <1>1, <2>2
  <2>3. CASE pc[c] = "wait" /\ startId'[c] = startId[c]
    BY <1>3, <2>1, <2>3 DEF AnswersAhead
  <2>4. CASE SkipOthers(c)
    <3>1. e \in Mine(c)
      BY <1>1, <1>3, <2>1, <2>4 DEF SkipOthers, AnswersAhead, Mine, Unread, After
    <3>2. PICK f \in stream["recv"] : ReadUpTo(c, f) /\ startId' = [startId EXCEPT ![c] = f.id]
      BY <2>4 DEF SkipOthers
    <3>3. IsFirst(f, Mine(c)) /\ f.what \in EmptyAnswers
      BY <3>1, <3>2 DEF ReadUpTo
    <3>4. f.id <= e.id /\ f # e
      BY <3>1, <3>3 DEF IsFirst
    <3>5. f.id # e.id
      BY <1>3, <3>4 DEF RecvIds
    <3> QED
      BY <1>1, <3>2, <3>4, <3>5 DEF TypeOK, CallsTyped
  <2> QED
    BY <2>2, <2>3, <2>4, WaitStarts
<1> QED
  BY <1>2, <1>3

LEMMA RInvAlways == Spec => []RInv
<1>1. Init => RInv
  <2> SUFFICES ASSUME Init PROVE RInv
    OBVIOUS
  <2>1. TypeOK
    BY InitTyped
  <2>2. stream["recv"] = {} /\ nextId["recv"] = 1 /\ \A c \in Calls : startId[c] = 0
    BY DEF Init, Dirs
  <2>3. Opening \notin Responders /\ \A c \in Calls : answer[c] = Opening
    BY HumanInLoopAssumption DEF Init
  <2>4. \A c \in Calls : pc[c] = "none" /\ out[c] = "none"
    BY DEF Init
  <2> QED
    BY <2>1, <2>2, <2>3, <2>4 DEF RInv, RecvIds, FreshStart, Posted, AnswersMatch, AnswersAhead
<1>2. RInv /\ [Next]_vars => RInv'
  BY TypeOKStep, RecvIdsStep, FreshStartStep, PostedStep, AnswersMatchStep, AnswersAheadStep
     DEF RInv
<1> QED
  BY <1>1, <1>2, PTL DEF Spec

\* What an interrupt returns was posted for its own request, however many
\* interrupts share the stream.
THEOREM AnswersMatchAlways == Spec => []AnswersMatch
<1>1. RInv => AnswersMatch
  BY DEF RInv
<1> QED
  BY <1>1, RInvAlways, PTL

\* No waiting interrupt reads past an answer with content that is for it, even
\* when the streams lapse or are deleted and written again.
THEOREM NoAnswerSkipped == Spec => []AnswersAhead
<1>1. RInv => AnswersAhead
  BY DEF RInv
<1> QED
  BY <1>1, RInvAlways, PTL

\* Both together: what an interrupt takes is its own answer, and it passes over
\* none of its own.
THEOREM AnswersRightAlways == Spec => []AnswersRight
<1>1. AnswersMatch /\ AnswersAhead => AnswersRight
  BY DEF AnswersRight
<1> QED
  BY <1>1, AnswersMatchAlways, NoAnswerSkipped, PTL

-----------------------------------------------------------------------------
(* The send stream and what the devices were shown of it *)

\* Every entry that is on the send stream or was shown to a device.
Seen == stream["send"] \cup UNION {{got[p][i] : i \in DOMAIN got[p]} : p \in Pollers}

\* The request or notification is not sent yet.
CallUnsent(c) == retries[c] = 0 /\ pc[c] \in {"none", "check_send", "check_recv", "add"}
NoteUnsent(n) == notePc[n] \in {"idle", "add"}

\* Ids are not used twice, and a request or notification is sent once.
SeenIds ==
    /\ \A e \in Seen : 0 < e.id /\ e.id < nextId["send"]
    /\ \A e, f \in Seen : e.id = f.id => e = f
SeenOnce ==
    /\ \A e, f \in Seen : e.what = f.what /\ e.what # Opening => e = f
    /\ \A e \in Seen : /\ e.what \in Calls => ~ CallUnsent(e.what)
                       /\ e.what \in Notes => ~ NoteUnsent(e.what)
    /\ \A c \in Calls : pc[c] = "add" => retries[c] = 0

\* A device is shown entries in the order of their ids, never an _init entry.
ShownInOrder ==
    \A p \in Pollers :
        /\ \A i, j \in DOMAIN got[p] : i < j => got[p][i].id < got[p][j].id
        /\ \A i \in DOMAIN got[p] : got[p][i].what # Opening

SInv == TypeOK /\ SeenIds /\ SeenOnce /\ ShownInOrder /\ \A p \in Pollers : PolledAll(p)

-----------------------------------------------------------------------------
(* Without a fault, a request that was sent is on its way to an answer. *)

\* The context is opened before any call, with both streams, which live as long
\* as it is open and nothing failed.
ContextLive ==
    /\ ctxPc = "enter" => /\ \A c \in Calls : pc[c] = "none"
                          /\ ctxStep > 1 => exists["send"]
                          /\ ctxStep > 2 => exists["recv"]
    /\ ctxPc = "open" /\ faults = 0 => deamon = "running" /\ exists["send"] /\ exists["recv"]

SentOff(c) == pc[c] \in {"expire", "wait"} \/ (pc[c] \in {"check_send", "check_recv"} /\ retries[c] > 0)
Pending(c) ==
    \/ InSend(c)
    \/ \E r \in Responders : respCall[r] = c /\ respPc[r] \in {"check", "add"}
    \/ \E e \in stream["recv"] : Answers(c, e)
Outstanding == ctxPc = "open" /\ faults = 0 => \A c \in Calls : SentOff(c) => Pending(c)

\* A call that did not start has not timed out.
Unstarted == \A c \in Calls : pc[c] = "none" => retries[c] = 0

OInv == RInv /\ ContextLive /\ Unstarted /\ Outstanding

-----------------------------------------------------------------------------
(* Every entry is shown once. *)

\* The send stream shrinks, or gets an _init entry, a request or a notification
\* from its sender; the devices are shown one entry at a time.
Sends(x) ==
    /\ Xadd("send", x) /\ UNCHANGED got
    /\ \/ x = Opening
       \/ x \in Calls /\ pc[x] = "add" /\ pc' = [pc EXCEPT ![x] = "expire"]
                      /\ UNCHANGED <<retries, notePc>>
       \/ x \in Notes /\ notePc[x] = "add" /\ notePc' = [notePc EXCEPT ![x] = "expire"]
                      /\ UNCHANGED <<pc, retries>>
SendStep ==
    \/ \E x \in Sendable : Sends(x)
    \/ stream'["send"] \subseteq stream["send"] /\ nextId'["send"] = nextId["send"] /\ UNCHANGED got
    \/ UNCHANGED <<stream, nextId, pc, retries, notePc>> /\ \E p \in Pollers : PollRead(p)

LEMMA SendSteps == TypeOK /\ [Next]_vars => SendStep
<1> SUFFICES ASSUME TypeOK, [Next]_vars PROVE SendStep
  OBVIOUS
<1> USE DEF TypeOK, RedisTyped, Dirs
<1> DEFINE Less == stream'["send"] \subseteq stream["send"] /\ nextId'["send"] = nextId["send"]
                   /\ UNCHANGED got
<1>1. CASE Enter
  <2>1. CASE Xadd("send", Opening)
    BY <1>1, <2>1 DEF Enter, Sends, SendStep, Sendable, pollVars
  <2>2. CASE Xadd("recv", Opening) \/ \E d \in Dirs : Xdel(d, Opening) \/ Expire(d)
    <3>1. Less
      BY <1>1, <2>2 DEF Enter, Xadd, Xdel, Without, Expire, pollVars
    <3> QED
      BY <3>1 DEF SendStep
  <2> QED
    BY <1>1, <2>1, <2>2 DEF Enter, EnterSteps, ContextTyped
<1>2. ASSUME NEW c \in Calls, SendRequest(c) PROVE SendStep
  <2>1. CASE pc[c] = "add"
    <3>1. Sends(c)
      BY <1>2, <2>1 DEF SendRequest, Sends, pollVars
    <3> QED
      BY <3>1 DEF SendStep, Sendable
  <2>2. CASE Expire("send")
    <3>1. Less
      BY <1>2, <2>2 DEF SendRequest, Expire, pollVars
    <3> QED
      BY <3>1 DEF SendStep
  <2> QED
    BY <1>2, <2>1, <2>2 DEF SendRequest
<1>3. ASSUME NEW n \in Notes, Notify(n) PROVE SendStep
  <2>1. CASE notePc[n] = "add"
    <3>1. Sends(n)
      BY <1>3, <2>1 DEF Notify, Sends, pollVars, callVars
    <3> QED
      BY <3>1 DEF SendStep, Sendable
  <2>2. CASE Expire("send") \/ UNCHANGED redis
    <3>1. Less
      BY <1>3, <2>2 DEF Notify, Expire, pollVars, redis
    <3> QED
      BY <3>1 DEF SendStep
  <2> QED
    BY <1>3, <2>1, <2>2 DEF Notify
<1>4. ASSUME NEW r \in Responders, RespondStep(r) PROVE Less
  BY <1>4 DEF RespondStep, RespondAck, RespondWrite, Ack, Xdel, Without, Xadd, Expire, redis, pollVars
<1>5. ASSUME NEW c \in Calls, DeleteAnswer(c) PROVE Less
  BY <1>5 DEF DeleteAnswer, Xdel, pollVars
<1>6. CASE Exit \/ Refresh \/ \E d \in Dirs : Lapse(d)
  <2>1. Less
    BY <1>6 DEF Exit, Refresh, Lapse, pollVars
  <2> QED
    BY <2>1 DEF SendStep
<1>7. CASE UNCHANGED <<redis, got>>
  <2>1. Less
    BY <1>7 DEF redis
  <2> QED
    BY <2>1 DEF SendStep
<1>8. ASSUME NEW p \in Pollers, PollRead(p) PROVE SendStep
  BY <1>8 DEF PollRead, SendStep, redis, callVars
<1> QED
  BY <1>1, <1>2, <1>3, <1>4, <1>5, <1>6, <1>7, <1>8 DEF SendStep, Next, Context, Tools, User,
     InterruptStep, EnterFault, DeamonFault, ExitFault, Crash, Interrupt,
     SetCancel, InterruptFault, CheckSend, CheckRecv, TakeAnswer, SkipOthers, TimeOut,
     CancelWait, NotifyFault, RespondRead, RespondFault, PollStart, PollTimeout, vars, pollVars

\* What is sent or past sending never becomes unsent again.
LEMMA UnsentBefore ==
    TypeOK /\ [Next]_vars =>
        /\ \A c \in Calls : CallUnsent(c)' => CallUnsent(c)
        /\ \A n \in Notes : NoteUnsent(n)' => NoteUnsent(n)
        /\ (\A c \in Calls : pc[c] = "add" => retries[c] = 0) =>
               \A c \in Calls : pc'[c] = "add" => retries'[c] = 0
<1> SUFFICES ASSUME TypeOK, [Next]_vars
             PROVE  /\ \A c \in Calls : CallUnsent(c)' => CallUnsent(c)
                    /\ \A n \in Notes : NoteUnsent(n)' => NoteUnsent(n)
                    /\ (\A c \in Calls : pc[c] = "add" => retries[c] = 0) =>
                           \A c \in Calls : pc'[c] = "add" => retries'[c] = 0
  OBVIOUS
<1> USE DEF TypeOK, CallsTyped, CallUnsent, NoteUnsent
<1>1. ASSUME NEW c \in Calls, Interrupt(c) \/ SetCancel(c) \/ InterruptFault(c) \/ InterruptStep(c)
      PROVE  /\ UNCHANGED notePc
             /\ \A d \in Calls : CallUnsent(d)' => CallUnsent(d)
             /\ (\A d \in Calls : pc[d] = "add" => retries[d] = 0) =>
                    \A d \in Calls : pc'[d] = "add" => retries'[d] = 0
  <2>1. ASSUME NEW l, pc' = [pc EXCEPT ![c] = l], UNCHANGED <<retries, notePc>>,
               \/ l \notin {"none", "check_send", "check_recv", "add"}
               \/ pc[c] \in {"none", "check_send", "check_recv"} /\ (l = "add" => retries[c] = 0)
        PROVE  /\ \A d \in Calls : CallUnsent(d)' => CallUnsent(d)
               /\ (\A d \in Calls : pc[d] = "add" => retries[d] = 0) =>
                      \A d \in Calls : pc'[d] = "add" => retries'[d] = 0
    BY <2>1
  <2>2. CASE TimeOut(c)
    BY <2>2 DEF TimeOut
  <2>3. CASE SetCancel(c) \/ SkipOthers(c)
    BY <2>3 DEF SetCancel, SkipOthers
  <2>4. CASE Interrupt(c) \/ CheckSend(c) \/ CheckRecv(c)
    BY <2>1, <2>4 DEF Interrupt, CheckSend, CheckRecv, NextAfterCheck, Ends
  <2>5. CASE InterruptFault(c) \/ SendRequest(c) \/ TakeAnswer(c) \/ DeleteAnswer(c) \/ CancelWait(c)
    BY <2>1, <2>5 DEF InterruptFault, SendRequest, TakeAnswer, DeleteAnswer, CancelWait, Ends
  <2> QED
    BY <1>1, <2>2, <2>3, <2>4, <2>5 DEF InterruptStep
<1>2. ASSUME NEW n \in Notes, Notify(n) \/ NotifyFault(n)
      PROVE  UNCHANGED <<pc, retries>> /\ \A m \in Notes : NoteUnsent(m)' => NoteUnsent(m)
  BY <1>2 DEF Notify, NotifyFault, callVars
<1>3. CASE Crash
  BY <1>3 DEF Crash
<1>4. CASE UNCHANGED <<pc, retries, notePc>>
  BY <1>4
<1> QED
  BY <1>1, <1>2, <1>3, <1>4 DEF Next, Context, Tools, User, RespondStep, Enter,
     EnterFault, Refresh, DeamonFault, Exit, ExitFault, RespondRead, RespondAck, RespondWrite,
     RespondFault, PollStart, PollRead, PollTimeout, Lapse, vars, callVars

LEMMA SeenIs ==
    \A e : e \in Seen <=> \/ e \in stream["send"]
                          \/ \E p \in Pollers : \E i \in DOMAIN got[p] : got[p][i] = e
BY DEF Seen

\* Beyond what was seen comes at most the entry being sent.
LEMMA SeenNext ==
    ASSUME TypeOK, SendStep
    PROVE  \/ Seen' \subseteq Seen /\ nextId'["send"] = nextId["send"]
           \/ \E x \in Sendable : /\ Sends(x) /\ nextId'["send"] = nextId["send"] + 1
                                  /\ Seen' \subseteq Seen \cup {[id |-> nextId["send"], what |-> x]}
<1> USE DEF TypeOK, RedisTyped, Dirs
<1>0. /\ \A e : e \in Seen <=> \/ e \in stream["send"]
                               \/ \E p \in Pollers : \E i \in DOMAIN got[p] : got[p][i] = e
      /\ \A e : e \in Seen' <=> \/ e \in stream'["send"]
                                \/ \E p \in Pollers : \E i \in DOMAIN got'[p] : got'[p][i] = e
  <2>1. (\A e : e \in Seen <=> \/ e \in stream["send"]
                               \/ \E p \in Pollers : \E i \in DOMAIN got[p] : got[p][i] = e)'
    BY SeenIs, PTL
  <2> QED
    BY <2>1, SeenIs
<1>1. ASSUME NEW x \in Sendable, Sends(x)
      PROVE  /\ nextId'["send"] = nextId["send"] + 1
             /\ Seen' \subseteq Seen \cup {[id |-> nextId["send"], what |-> x]}
  <2>1. /\ stream'["send"] = stream["send"] \cup {[id |-> nextId["send"], what |-> x]}
        /\ nextId'["send"] = nextId["send"] + 1 /\ got' = got
    BY <1>1 DEF Sends, Xadd
  <2> QED
    BY <1>0, <2>1
<1>2. ASSUME stream'["send"] \subseteq stream["send"], UNCHANGED got PROVE Seen' \subseteq Seen
  BY <1>0, <1>2
<1>3. ASSUME NEW p \in Pollers, PollRead(p), UNCHANGED stream PROVE Seen' \subseteq Seen
  <2>1. PICK e \in stream["send"] : got' = [got EXCEPT ![p] = Append(@, e)]
    BY <1>3 DEF PollRead
  <2>2. got[p] \in Seq(SendEntries) /\ e \in SendEntries
    BY <2>1 DEF UsersTyped
  <2>3. \A i \in DOMAIN got'[p] : got'[p][i] = e \/ (i \in DOMAIN got[p] /\ got'[p][i] = got[p][i])
    BY <2>1, <2>2 DEF UsersTyped
  <2>4. \A q \in Pollers \ {p} : got'[q] = got[q]
    BY <2>1 DEF UsersTyped
  <2> QED
    BY <1>0, <1>3, <2>1, <2>3, <2>4
<1> QED
  BY <1>1, <1>2, <1>3 DEF SendStep

LEMMA SeenTyped ==
    TypeOK => Seen \subseteq SendEntries
<1> SUFFICES ASSUME TypeOK, NEW e \in Seen PROVE e \in SendEntries
  OBVIOUS
<1>1. ASSUME NEW p \in Pollers, NEW i \in DOMAIN got[p] PROVE got[p][i] \in SendEntries
  <2>1. got[p] \in Seq(SendEntries)
    BY DEF TypeOK, UsersTyped
  <2> QED
    BY <1>1, <2>1
<1> QED
  BY <1>1, SeenIs DEF TypeOK, RedisTyped

LEMMA SeenIdsStep == SInv /\ [Next]_vars => SeenIds'
<1> SUFFICES ASSUME SInv, [Next]_vars PROVE SeenIds'
  OBVIOUS
<1>1. nextId["send"] \in Nat /\ \A e \in Seen : e.id \in Nat
  BY SeenTyped DEF SInv, TypeOK, RedisTyped, SendEntries, Dirs
<1>2. nextId["send"] > 0
  BY DEF SInv, TypeOK, RedisTyped, Dirs
<1>3. CASE Seen' \subseteq Seen /\ nextId'["send"] = nextId["send"]
  BY <1>3 DEF SInv, SeenIds
<1>4. ASSUME NEW x, nextId'["send"] = nextId["send"] + 1,
             Seen' \subseteq Seen \cup {[id |-> nextId["send"], what |-> x]}
      PROVE  SeenIds'
  BY <1>1, <1>2, <1>4 DEF SInv, SeenIds
<1> QED
  BY <1>3, <1>4, SeenNext, SendSteps DEF SInv

LEMMA SeenOnceStep == SInv /\ [Next]_vars => SeenOnce'
<1> SUFFICES ASSUME SInv, [Next]_vars PROVE SeenOnce'
  OBVIOUS
<1> USE HumanInLoopAssumption
<1>1. /\ SeenOnce /\ TypeOK /\ \A c \in Calls : pc'[c] = "add" => retries'[c] = 0
      /\ \A c \in Calls : CallUnsent(c)' => CallUnsent(c)
      /\ \A n \in Notes : NoteUnsent(n)' => NoteUnsent(n)
  BY UnsentBefore DEF SInv, SeenOnce
<1>2. CASE Seen' \subseteq Seen
  BY <1>1, <1>2 DEF SeenOnce
<1>3. ASSUME NEW x \in Sendable, Sends(x),
             Seen' \subseteq Seen \cup {[id |-> nextId["send"], what |-> x]}
      PROVE  SeenOnce'
  <2>1. CASE x = Opening
    BY <1>1, <1>3, <2>1 DEF SeenOnce
  <2>2. CASE x \in Calls
    <3>1. pc[x] = "add" /\ pc' = [pc EXCEPT ![x] = "expire"]
      BY <1>3, <2>2 DEF Sends
    <3>2. CallUnsent(x) /\ ~ CallUnsent(x)'
      BY <1>1, <2>2, <3>1 DEF SeenOnce, CallUnsent, TypeOK, CallsTyped
    <3>3. \A e \in Seen : e.what # x
      BY <1>1, <2>2, <3>2 DEF SeenOnce
    <3>4. \A e \in Seen' : e \in Seen \/ (e.what = x /\ e = [id |-> nextId["send"], what |-> x])
      BY <1>3
    <3>5. \A e, f \in Seen' : e.what = f.what /\ e.what # Opening => e = f
      BY <1>1, <3>3, <3>4 DEF SeenOnce
    <3>6. \A e \in Seen' : /\ e.what \in Calls => ~ CallUnsent(e.what)'
                           /\ e.what \in Notes => ~ NoteUnsent(e.what)'
      BY <1>1, <2>2, <3>2, <3>4 DEF SeenOnce
    <3> QED
      BY <1>1, <3>5, <3>6 DEF SeenOnce
  <2>3. CASE x \in Notes
    <3>1. notePc[x] = "add" /\ notePc' = [notePc EXCEPT ![x] = "expire"]
      BY <1>3, <2>3 DEF Sends
    <3>2. NoteUnsent(x) /\ ~ NoteUnsent(x)'
      BY <1>1, <2>3, <3>1 DEF NoteUnsent, TypeOK, CallsTyped
    <3>3. \A e \in Seen : e.what # x
      BY <1>1, <2>3, <3>2 DEF SeenOnce
    <3>4. \A e \in Seen' : e \in Seen \/ (e.what = x /\ e = [id |-> nextId["send"], what |-> x])
      BY <1>3
    <3>5. \A e, f \in Seen' : e.what = f.what /\ e.what # Opening => e = f
      BY <1>1, <3>3, <3>4 DEF SeenOnce
    <3>6. \A e \in Seen' : /\ e.what \in Calls => ~ CallUnsent(e.what)'
                           /\ e.what \in Notes => ~ NoteUnsent(e.what)'
      BY <1>1, <2>3, <3>2, <3>4 DEF SeenOnce
    <3> QED
      BY <1>1, <3>5, <3>6 DEF SeenOnce
  <2> QED
    BY <2>1, <2>2, <2>3 DEF Sendable
<1> QED
  BY <1>2, <1>3, SeenNext, SendSteps DEF SInv

\* A device's last id is the largest it was shown, and not ahead of the stream.
LEMMA LastIdIs ==
    ASSUME SInv, NEW p \in Pollers
    PROVE  /\ LastId(p) \in Nat /\ LastId(p) < nextId["send"]
           /\ \A i \in DOMAIN got[p] : got[p][i] \in SendEntries /\ got[p][i].id <= LastId(p)
<1>1. got[p] \in Seq(SendEntries) /\ nextId["send"] \in Nat \ {0}
  BY DEF SInv, TypeOK, UsersTyped, RedisTyped, Dirs
<1>2. CASE got[p] = <<>>
  BY <1>1, <1>2 DEF LastId
<1>3. CASE got[p] # <<>>
  <2>1. Len(got[p]) \in DOMAIN got[p] /\ DOMAIN got[p] = 1 .. Len(got[p]) /\ Len(got[p]) \in Nat
    BY <1>1, <1>3
  <2>2. \A i \in DOMAIN got[p] : got[p][i] \in SendEntries /\ got[p][i].id \in Nat
    <3> SUFFICES ASSUME NEW i \in DOMAIN got[p] PROVE got[p][i] \in SendEntries /\ got[p][i].id \in Nat
      OBVIOUS
    <3>1. got[p][i] \in SendEntries
      BY <1>1
    <3> QED
      BY <3>1 DEF SendEntries
  <2>3. \A i \in DOMAIN got[p] : got[p][i].id <= got[p][Len(got[p])].id
    <3> SUFFICES ASSUME NEW i \in DOMAIN got[p] PROVE got[p][i].id <= got[p][Len(got[p])].id
      OBVIOUS
    <3>1. CASE i = Len(got[p])
      BY <2>2, <3>1
    <3>2. CASE i < Len(got[p])
      BY <2>1, <2>2, <3>2 DEF SInv, ShownInOrder
    <3> QED
      BY <2>1, <3>1, <3>2
  <2>4. got[p][Len(got[p])] \in Seen
    BY <2>1, SeenIs
  <2>5. got[p][Len(got[p])].id < nextId["send"]
    BY <2>4 DEF SInv, SeenIds
  <2> QED
    BY <1>1, <1>3, <2>1, <2>2, <2>3, <2>5 DEF LastId
<1> QED
  BY <1>2, <1>3

\* What a device is shown is the next entry of the stream.
LEMMA ShownStep ==
    ASSUME SInv, NEW p \in Pollers, PollRead(p)
    PROVE  \E e \in stream["send"] :
              /\ IsNext(e, p) /\ e.what # Opening /\ e \in SendEntries
              /\ got'[p] = Append(got[p], e) /\ got' = [got EXCEPT ![p] = Append(got[p], e)]
              /\ DOMAIN got'[p] = DOMAIN got[p] \cup {Len(got[p]) + 1}
              /\ DOMAIN got[p] = 1 .. Len(got[p]) /\ Len(got[p]) \in Nat
              /\ got'[p][Len(got[p]) + 1] = e
              /\ \A i \in DOMAIN got[p] : got'[p][i] = got[p][i]
<1>1. PICK e \in stream["send"] :
          /\ IsNext(e, p) /\ e.what # Opening
          /\ got' = [got EXCEPT ![p] = Append(got[p], e)]
  BY DEF PollRead
<1>2. got[p] \in Seq(SendEntries) /\ e \in SendEntries /\ got'[p] = Append(got[p], e)
  BY <1>1 DEF SInv, TypeOK, UsersTyped, RedisTyped
<1>3. /\ DOMAIN got'[p] = DOMAIN got[p] \cup {Len(got[p]) + 1}
      /\ DOMAIN got[p] = 1 .. Len(got[p]) /\ Len(got[p]) \in Nat
      /\ got'[p][Len(got[p]) + 1] = e
      /\ \A i \in DOMAIN got[p] : got'[p][i] = got[p][i]
  <2>1. \A s \in Seq(SendEntries) :
            /\ DOMAIN Append(s, e) = DOMAIN s \cup {Len(s) + 1}
            /\ DOMAIN s = 1 .. Len(s) /\ Len(s) \in Nat
            /\ Append(s, e)[Len(s) + 1] = e
            /\ \A i \in DOMAIN s : Append(s, e)[i] = s[i]
    BY <1>2
  <2> QED
    BY <1>2, <2>1
<1> QED
  BY <1>1, <1>2, <1>3

LEMMA ShownInOrderStep == SInv /\ [Next]_vars => ShownInOrder'
<1> SUFFICES ASSUME SInv, [Next]_vars PROVE ShownInOrder'
  OBVIOUS
<1>1. CASE UNCHANGED got
  BY <1>1 DEF SInv, ShownInOrder
<1>2. ASSUME NEW q \in Pollers, PollRead(q), NEW p \in Pollers
      PROVE  /\ \A i, j \in DOMAIN got'[p] : i < j => got'[p][i].id < got'[p][j].id
             /\ \A i \in DOMAIN got'[p] : got'[p][i].what # Opening
  <2>0. /\ \A i, j \in DOMAIN got[p] : i < j => got[p][i].id < got[p][j].id
        /\ \A i \in DOMAIN got[p] : got[p][i].what # Opening
    BY DEF SInv, ShownInOrder
  <2>1. PICK e \in stream["send"] :
              /\ IsNext(e, q) /\ e.what # Opening /\ e \in SendEntries
              /\ got'[q] = Append(got[q], e) /\ got' = [got EXCEPT ![q] = Append(got[q], e)]
              /\ DOMAIN got'[q] = DOMAIN got[q] \cup {Len(got[q]) + 1}
              /\ DOMAIN got[q] = 1 .. Len(got[q]) /\ Len(got[q]) \in Nat
              /\ got'[q][Len(got[q]) + 1] = e
              /\ \A i \in DOMAIN got[q] : got'[q][i] = got[q][i]
    BY <1>2, ShownStep
  <2>2. CASE p # q
    <3>1. got'[p] = got[p]
      BY <2>1, <2>2 DEF SInv, TypeOK, UsersTyped
    <3> QED
      BY <2>0, <3>1
  <2>3. CASE p = q
    <3>1. /\ LastId(p) \in Nat
          /\ \A i \in DOMAIN got[p] : got[p][i] \in SendEntries /\ got[p][i].id <= LastId(p)
      BY LastIdIs
    <3>2. e.id > LastId(p) /\ e.id \in Nat
      BY <2>1, <2>3 DEF IsNext, IsFirst, After, SendEntries
    <3>3. \A i \in DOMAIN got[p] : got[p][i].id \in Nat /\ got[p][i].id < e.id
      BY <3>1, <3>2 DEF SendEntries
    <3>4. \A i \in DOMAIN got'[p] : got'[p][i].what # Opening
      BY <2>0, <2>1, <2>3
    <3>5. ASSUME NEW i \in DOMAIN got'[p], NEW j \in DOMAIN got'[p], i < j
          PROVE  got'[p][i].id < got'[p][j].id
      <4>1. i \in DOMAIN got[p]
        BY <2>1, <2>3, <3>5
      <4>2. CASE j \in DOMAIN got[p]
        BY <2>0, <2>1, <2>3, <3>5, <4>1, <4>2
      <4>3. CASE j = Len(got[p]) + 1
        BY <2>1, <2>3, <3>3, <4>1, <4>3
      <4> QED
        BY <2>1, <2>3, <4>2, <4>3
    <3> QED
      BY <3>4, <3>5
  <2> QED
    BY <2>2, <2>3
<1> QED
  BY <1>1, <1>2, SendSteps DEF SInv, SendStep, Sends, ShownInOrder

LEMMA PolledAllStep == SInv /\ [Next]_vars => \A p \in Pollers : PolledAll(p)'
<1> SUFFICES ASSUME SInv, [Next]_vars, NEW p \in Pollers PROVE PolledAll(p)'
  OBVIOUS
<1>1. /\ PolledAll(p) /\ SeenIds /\ stream["send"] \subseteq Seen
      /\ nextId["send"] \in Nat /\ stream["send"] \subseteq SendEntries
  BY SeenIs DEF SInv, TypeOK, RedisTyped, Dirs
<1>2. /\ LastId(p) \in Nat /\ LastId(p) < nextId["send"]
  BY LastIdIs
<1>3. CASE stream'["send"] \subseteq stream["send"] /\ UNCHANGED got
  BY <1>1, <1>3 DEF PolledAll, LastId
<1>4. ASSUME NEW x, Sends(x) PROVE PolledAll(p)'
  <2>1. /\ stream'["send"] = stream["send"] \cup {[id |-> nextId["send"], what |-> x]}
        /\ got' = got
    BY <1>4 DEF Sends, Xadd, SInv, TypeOK, RedisTyped, Dirs
  <2>2. \A e \in stream'["send"] : e \in stream["send"] \/ e.id = nextId["send"]
    BY <2>1
  <2>3. LastId(p)' = LastId(p)
    BY <2>1 DEF LastId
  <2>4. \A e \in stream'["send"] : e.id <= LastId(p) => e \in stream["send"]
    BY <1>2, <1>1, <2>2
  <2> QED
    BY <1>1, <2>1, <2>3, <2>4 DEF PolledAll
<1>5. ASSUME NEW q \in Pollers, PollRead(q), UNCHANGED stream PROVE PolledAll(p)'
  <2>1. PICK e \in stream["send"] :
              /\ IsNext(e, q) /\ e.what # Opening /\ e \in SendEntries
              /\ got'[q] = Append(got[q], e) /\ got' = [got EXCEPT ![q] = Append(got[q], e)]
              /\ DOMAIN got'[q] = DOMAIN got[q] \cup {Len(got[q]) + 1}
              /\ DOMAIN got[q] = 1 .. Len(got[q]) /\ Len(got[q]) \in Nat
              /\ got'[q][Len(got[q]) + 1] = e
              /\ \A i \in DOMAIN got[q] : got'[q][i] = got[q][i]
    BY <1>5, ShownStep
  <2>2. CASE p # q
    <3>1. got'[p] = got[p]
      BY <2>1, <2>2 DEF SInv, TypeOK, UsersTyped
    <3> QED
      BY <1>1, <1>5, <3>1 DEF PolledAll, LastId
  <2>3. CASE p = q
    <3>1. LastId(p)' = e.id
      BY <2>1, <2>3 DEF LastId
    <3>2. ASSUME NEW f \in stream["send"], f.id <= e.id, f.what # Opening
          PROVE  \E i \in DOMAIN got'[p] : got'[p][i] = f
      <4>1. f.id \in Nat /\ e.id \in Nat
        BY <1>1 DEF SendEntries
      <4>2. CASE f.id <= LastId(p)
        <5>1. PICK i \in DOMAIN got[p] : got[p][i] = f
          BY <1>1, <3>2, <4>2 DEF PolledAll
        <5> QED
          BY <2>1, <2>3, <5>1
      <4>3. CASE f.id > LastId(p)
        <5>1. e.id <= f.id
          BY <2>1, <2>3, <4>3 DEF IsNext, IsFirst, After
        <5>2. f = e
          BY <1>1, <3>2, <4>1, <5>1 DEF SeenIds
        <5> QED
          BY <2>1, <2>3, <5>2
      <4> QED
        BY <1>2, <4>1, <4>2, <4>3
    <3> QED
      BY <1>5, <3>1, <3>2 DEF PolledAll
  <2> QED
    BY <2>2, <2>3
<1> QED
  BY <1>3, <1>4, <1>5, SendSteps DEF SInv, SendStep

LEMMA SInvAlways == Spec => []SInv
<1>1. Init => SInv
  <2> SUFFICES ASSUME Init PROVE SInv
    OBVIOUS
  <2>1. TypeOK
    BY InitTyped
  <2>2. stream["send"] = {} /\ \A p \in Pollers : got[p] = <<>> /\ DOMAIN got[p] = {}
    BY DEF Init, Dirs
  <2>3. Seen = {}
    BY <2>2 DEF Seen
  <2>4. \A c \in Calls : pc[c] = "none"
    BY DEF Init
  <2> QED
    BY <2>1, <2>2, <2>3, <2>4 DEF SInv, SeenIds, SeenOnce, ShownInOrder, PolledAll
<1>2. SInv /\ [Next]_vars => SInv'
  BY TypeOKStep, SeenIdsStep, SeenOnceStep, ShownInOrderStep, PolledAllStep DEF SInv
<1> QED
  BY <1>1, <1>2, PTL DEF Spec

\* No device is shown a request or notification twice, and none misses one that
\* is still on the stream, in whatever rounds the interrupts are and however often
\* the streams lapse.
THEOREM PollsExactAlways == Spec => []PollsExact
<1>1. SInv => PollsExact
  <2> SUFFICES ASSUME SInv, NEW p \in Pollers PROVE PolledOnce(p)
    BY DEF SInv, PollsExact
  <2>1. ASSUME NEW i \in DOMAIN got[p], NEW j \in DOMAIN got[p], i < j
        PROVE  got[p][i].what # got[p][j].what
    <3>1. got[p][i] \in Seen /\ got[p][j] \in Seen
      BY <2>1, SeenIs
    <3>2. got[p][i].id < got[p][j].id /\ got[p][i].what # Opening
      BY <2>1 DEF SInv, ShownInOrder
    <3>3. got[p][i].id \in Nat /\ got[p][j].id \in Nat
      BY <3>1, SeenTyped DEF SInv, SendEntries
    <3>4. got[p][i] # got[p][j]
      BY <3>2, <3>3
    <3> QED
      BY <3>1, <3>2, <3>4 DEF SInv, SeenOnce
  <2>2. DOMAIN got[p] \subseteq Nat
    BY DEF SInv, TypeOK, UsersTyped
  <2> QED
    BY <2>1, <2>2 DEF PolledOnce
<1> QED
  BY <1>1, SInvAlways, PTL

-----------------------------------------------------------------------------
(* Without a fault, a waiting interrupt can be answered. *)

\* Faults are only counted up.
LEMMA FaultsGrow == TypeOK /\ [Next]_vars => (faults' = 0 => faults = 0)
<1> SUFFICES ASSUME TypeOK, [Next]_vars PROVE faults' = 0 => faults = 0
  OBVIOUS
<1>1. CASE Fault
  BY <1>1 DEF Fault, TypeOK, UsersTyped
<1>2. CASE UNCHANGED faults
  BY <1>2
<1> QED
  BY <1>1, <1>2 DEF Next, Context, Tools, User, InterruptStep, RespondStep, Enter,
     EnterFault, Refresh, DeamonFault, Exit, ExitFault, Crash, Interrupt, SetCancel,
     InterruptFault, CheckSend, CheckRecv, SendRequest, TakeAnswer, DeleteAnswer, SkipOthers,
     TimeOut, CancelWait, Notify, NotifyFault, RespondRead, RespondAck, RespondWrite,
     RespondFault, PollStart, PollRead, PollTimeout, Lapse, vars, bounds

LEMMA ContextLiveStep == TypeOK /\ ContextLive /\ [Next]_vars => ContextLive'
<1> SUFFICES ASSUME TypeOK, ContextLive, [Next]_vars PROVE ContextLive'
  OBVIOUS
<1> USE DEF ContextLive, TypeOK, RedisTyped, ContextTyped, Dirs
<1>0. faults' = 0 => faults = 0
  BY FaultsGrow
<1>1. CASE Enter
  <2>1. \/ ctxStep = 1 /\ Xadd("send", Opening)
        \/ ctxStep = 2 /\ Xadd("recv", Opening)
        \/ ctxStep \in 3 .. 6 /\ exists' = exists
    <3> DEFINE step == EnterSteps[ctxStep]
    <3>1. \/ step.op = "add" /\ Xadd(step.dir, Opening)
          \/ step.op = "del" /\ Xdel(step.dir, Opening)
          \/ step.op = "expire" /\ Expire(step.dir)
      BY <1>1 DEF Enter
    <3>2. /\ ctxStep = 1 => step.op = "add" /\ step.dir = "send"
          /\ ctxStep = 2 => step.op = "add" /\ step.dir = "recv"
          /\ ctxStep \in 3 .. 6 => step.op # "add"
      BY DEF EnterSteps
    <3> HIDE DEF step
    <3> QED
      BY <3>1, <3>2 DEF Xdel, Expire
  <2>2. /\ ctxPc = "enter" /\ UNCHANGED <<pc, faults>>
        /\ \/ ctxStep < 6 /\ ctxStep' = ctxStep + 1 /\ UNCHANGED <<ctxPc, deamon>>
           \/ ctxStep = 6 /\ ctxPc' = "open" /\ deamon' = "running"
    BY <1>1 DEF Enter, EnterSteps, callVars, bounds
  <2> QED
    BY <2>1, <2>2 DEF Xadd
<1>2. ASSUME \A d \in Dirs : exists[d] => exists'[d], UNCHANGED <<ctxVars, pc>> PROVE ContextLive'
  BY <1>0, <1>2 DEF ctxVars
<1>3. ASSUME ctxPc' \notin {"enter", "open"} PROVE ContextLive'
  BY <1>3
<1>4. CASE EnterFault \/ Exit \/ ExitFault \/ Crash
  BY <1>3, <1>4 DEF EnterFault, Exit, ExitFault, Crash
<1>5. CASE DeamonFault
  BY <1>5 DEF DeamonFault, Fault, UsersTyped, callVars, redis
<1>6. ASSUME NEW d \in Dirs, Lapse(d) PROVE ContextLive'
  BY <1>6 DEF Lapse, ctxVars, bounds
<1>7. ASSUME NEW c \in Calls,
             \/ Interrupt(c) \/ SetCancel(c) \/ InterruptFault(c) \/ InterruptStep(c)
      PROVE  ContextLive'
  <2>1. /\ \A d \in Dirs : exists[d] => exists'[d]
        /\ UNCHANGED ctxVars
    BY <1>7 DEF Interrupt, SetCancel, InterruptFault, InterruptStep, CheckSend, CheckRecv, SendRequest,
       TakeAnswer, DeleteAnswer, SkipOthers, TimeOut, CancelWait, Xadd, Xdel, Expire, redis
  <2>2. ctxPc # "enter"
    <3>1. CASE Interrupt(c)
      BY <3>1 DEF Interrupt
    <3>2. CASE pc[c] # "none"
      BY <3>2
    <3> QED
      BY <1>7, <3>1, <3>2 DEF SetCancel, InterruptFault, InterruptStep, CheckSend, CheckRecv,
         SendRequest, TakeAnswer, DeleteAnswer, SkipOthers, TimeOut, CancelWait
  <2> QED
    BY <1>0, <2>1, <2>2 DEF ctxVars
<1>8. CASE \E n \in Notes : Notify(n) \/ NotifyFault(n)
  BY <1>2, <1>8 DEF Notify, NotifyFault, Xadd, Expire, redis, callVars
<1>9. CASE \E r \in Responders : (\E c \in Calls : RespondRead(r, c)) \/ RespondStep(r) \/ RespondFault(r)
  BY <1>2, <1>9 DEF RespondRead, RespondStep, RespondAck, RespondWrite, RespondFault, Ack, Xdel, Xadd,
     Expire, redis, callVars
<1>10. CASE Refresh \/ \E p \in Pollers : PollStart(p) \/ PollRead(p) \/ PollTimeout(p)
  BY <1>2, <1>10 DEF Refresh, PollStart, PollRead, PollTimeout, redis, callVars
<1>11. CASE UNCHANGED vars
  BY <1>2, <1>11 DEF vars, redis, callVars
<1> QED
  BY <1>1, <1>4, <1>5, <1>6, <1>7, <1>8, <1>9, <1>10, <1>11 DEF Next, Context, Tools, User, Dirs

\* An open context without a fault stays so, or is left.
Serving == ctxPc = "open" /\ faults = 0

\* A pending request stays pending as long as its context serves and its answer is
\* not taken.
LEMMA PendingOn ==
    ASSUME OInv, [Next]_vars, Serving, Serving', NEW c \in Calls, pc[c] # "xdel", Pending(c)
    PROVE  Pending(c)'
<1> USE DEF OInv, RInv, TypeOK, RedisTyped, Dirs, Serving
<1>0. exists["recv"] /\ respCall \in [Responders -> Calls \cup {Opening}] /\ deamon = "running"
      /\ respPc = [r \in Responders |-> respPc[r]]
  BY DEF ContextLive, UsersTyped
<1>1. ASSUME UNCHANGED <<respPc, respCall>>, stream["send"] \subseteq stream'["send"],
             stream["recv"] \subseteq stream'["recv"]
      PROVE  Pending(c)'
  BY <1>1 DEF Pending, InSend, Answers
<1>2. CASE Enter \/ Exit \/ EnterFault \/ ExitFault \/ Crash \/ \E d \in Dirs : Lapse(d)
  BY <1>0, <1>2 DEF Enter, Exit, EnterFault, ExitFault, Crash, Lapse, ctxVars
<1>3. CASE Refresh \/ DeamonFault
  BY <1>1, <1>3 DEF Refresh, DeamonFault, redis, respVars
<1>4. ASSUME NEW d \in Calls, DeleteAnswer(d) PROVE Pending(c)'
  <2>1. /\ pc[d] = "xdel" /\ d # c /\ UNCHANGED <<respPc, respCall>>
        /\ stream'["send"] = stream["send"] /\ stream'["recv"] = Without("recv", answer[d])
    BY <1>4 DEF DeleteAnswer, Xdel, respVars
  <2>2. respCall[answer[d]] = d
    BY <2>1 DEF AnswersMatch
  <2>3. \A e \in stream["recv"] : Answers(c, e) => e \in stream'["recv"]
    BY <2>1, <2>2 DEF Answers, Without
  <2> QED
    BY <2>1, <2>3 DEF Pending, InSend, Answers
<1>5. ASSUME NEW d \in Calls,
             \/ Interrupt(d) \/ SetCancel(d) \/ InterruptFault(d) \/ CheckSend(d) \/ CheckRecv(d)
             \/ SendRequest(d) \/ TakeAnswer(d) \/ SkipOthers(d) \/ TimeOut(d) \/ CancelWait(d)
      PROVE  Pending(c)'
  BY <1>1, <1>5 DEF Interrupt, SetCancel, InterruptFault, CheckSend, CheckRecv, SendRequest,
     TakeAnswer, SkipOthers, TimeOut, CancelWait, Xadd, Expire, redis, respVars
<1>6. CASE \E n \in Notes : Notify(n) \/ NotifyFault(n)
  BY <1>1, <1>6 DEF Notify, NotifyFault, Xadd, Expire, redis, respVars
<1>7. ASSUME NEW r \in Responders, NEW d \in Calls, RespondRead(r, d) PROVE Pending(c)'
  BY <1>0, <1>7 DEF RespondRead, Pending, InSend, Answers, Posted, redis
<1>8. ASSUME NEW r \in Responders, RespondAck(r) PROVE Pending(c)'
  <2>1. /\ respPc' = [respPc EXCEPT ![r] = "check"] /\ respPc[r] = "ack" /\ UNCHANGED respCall
        /\ stream'["send"] = Without("send", respCall[r]) /\ stream'["recv"] = stream["recv"]
    BY <1>8 DEF RespondAck, Ack, Xdel
  <2>2. CASE respCall[r] = c
    BY <1>0, <2>1, <2>2 DEF Pending
  <2>3. CASE respCall[r] # c
    BY <1>0, <2>1, <2>3 DEF Pending, InSend, Answers, Without
  <2> QED
    BY <2>2, <2>3
<1>9. ASSUME NEW r \in Responders, RespondWrite(r) PROVE Pending(c)'
  <2>1. CASE respPc[r] = "check"
    <3>1. respPc' = [respPc EXCEPT ![r] = "add"] /\ UNCHANGED <<stream, respCall>>
      BY <1>0, <1>9, <2>1 DEF RespondWrite, redis
    <3> QED
      BY <1>0, <3>1 DEF Pending, InSend, Answers
  <2>2. CASE respPc[r] = "add"
    <3>1. /\ respPc' = [respPc EXCEPT ![r] = "expire"] /\ UNCHANGED respCall
          /\ stream'["send"] = stream["send"]
          /\ stream'["recv"] = stream["recv"] \cup {[id |-> nextId["recv"], what |-> r]}
      BY <1>9, <2>2 DEF RespondWrite, Xadd
    <3>2. CASE respCall[r] = c
      <4> DEFINE e == [id |-> nextId["recv"], what |-> r]
      <4>1. e.what = r /\ e \in stream'["recv"]
        BY <3>1
      <4>2. respCall'[r] = c
        BY <3>1, <3>2
      <4> HIDE DEF e
      <4>3. \E f \in stream'["recv"] : f.what \in Responders /\ respCall'[f.what] = c
        BY <4>1, <4>2
      <4> QED
        BY <4>3 DEF Pending, Answers
    <3>3. CASE respCall[r] # c
      BY <1>0, <3>1, <3>3 DEF Pending, InSend, Answers
    <3> QED
      BY <3>2, <3>3
  <2>3. CASE respPc[r] = "expire"
    <3>1. respPc' = [respPc EXCEPT ![r] = "done"] /\ UNCHANGED <<stream, respCall>>
      BY <1>9, <2>3 DEF RespondWrite, Expire
    <3> QED
      BY <1>0, <2>3, <3>1 DEF Pending, InSend, Answers
  <2> QED
    BY <1>9, <2>1, <2>2, <2>3 DEF RespondWrite
<1>10. CASE \E r \in Responders : RespondFault(r)
  BY <1>10 DEF RespondFault, Fault, UsersTyped
<1>11. CASE UNCHANGED <<redis, respVars>>
  BY <1>1, <1>11 DEF redis, respVars
<1> QED
  BY <1>2, <1>3, <1>4, <1>5, <1>6, <1>7, <1>8, <1>9, <1>10, <1>11 DEF Next, Context, Tools, User,
     InterruptStep, RespondStep, PollStart, PollRead, PollTimeout, vars

\* A request is off when it was before, or is put on the send stream now.
LEMMA SentOffStep ==
    ASSUME TypeOK, Unstarted, [Next]_vars, NEW c \in Calls, SentOff(c)'
    PROVE  (SentOff(c) /\ pc[c] # "xdel") \/ InSend(c)'
<1> USE DEF TypeOK, RedisTyped, CallsTyped, Dirs, SentOff
<1>1. ASSUME NEW d \in Calls,
             Interrupt(d) \/ SetCancel(d) \/ InterruptFault(d) \/ InterruptStep(d)
      PROVE  (SentOff(c) /\ pc[c] # "xdel") \/ InSend(c)'
  <2>1. CASE c # d
    <3>1. pc'[c] = pc[c] /\ retries'[c] = retries[c]
      BY <1>1, <2>1 DEF Interrupt, SetCancel, InterruptFault, InterruptStep, CheckSend, CheckRecv,
         SendRequest, TakeAnswer, DeleteAnswer, SkipOthers, TimeOut, CancelWait, Ends
    <3> QED
      BY <3>1
  <2>2. CASE c = d /\ pc[c] = "add" /\ SendRequest(c)
    <3>1. [id |-> nextId["send"], what |-> c] \in stream'["send"]
      BY <2>2 DEF SendRequest, Xadd
    <3> QED
      BY <3>1 DEF InSend
  <2>3. CASE c = d /\ ~ (pc[c] = "add" /\ SendRequest(c))
    <3>1. CASE SendRequest(c)
      BY <2>3, <3>1 DEF SendRequest
    <3>2. CASE SetCancel(c) \/ SkipOthers(c)
      BY <3>2 DEF SetCancel, SkipOthers
    <3>3. CASE TimeOut(c)
      BY <3>3 DEF TimeOut
    <3>4. CASE CheckSend(c)
      BY <3>4 DEF CheckSend, Ends
    <3>5. CASE CheckRecv(c)
      <4>1. /\ pc[c] = "check_recv" /\ retries' = retries
            /\ pc'[c] = "end" \/ pc'[c] = NextAfterCheck(c)
        BY <3>5 DEF CheckRecv, Ends
      <4> QED
        BY <4>1 DEF NextAfterCheck
    <3>6. CASE InterruptFault(c) \/ TakeAnswer(c) \/ DeleteAnswer(c) \/ CancelWait(c)
      BY <3>6 DEF InterruptFault, TakeAnswer, DeleteAnswer, CancelWait, Ends
    <3>7. CASE Interrupt(c)
      <4>1. pc[c] = "none" /\ pc'[c] = "check_send" /\ retries'[c] = retries[c]
        BY <3>7 DEF Interrupt
      <4> QED
        BY <4>1 DEF Unstarted
    <3> QED
      BY <1>1, <2>3, <3>1, <3>2, <3>3, <3>4, <3>5, <3>6, <3>7 DEF InterruptStep
  <2> QED
    BY <2>1, <2>2, <2>3
<1>2. CASE Crash
  BY <1>2 DEF Crash
<1>3. CASE UNCHANGED <<pc, retries>>
  BY <1>3
<1> QED
  BY <1>1, <1>2, <1>3 DEF Next, Context, Tools, User, RespondStep, Enter, EnterFault, Refresh,
     DeamonFault, Exit, ExitFault, Notify, NotifyFault, RespondRead, RespondAck, RespondWrite,
     RespondFault, PollStart, PollRead, PollTimeout, Lapse, vars, callVars

LEMMA UnstartedStep == TypeOK /\ Unstarted /\ [Next]_vars => Unstarted'
<1> SUFFICES ASSUME TypeOK, Unstarted, [Next]_vars PROVE Unstarted'
  OBVIOUS
<1> USE DEF TypeOK, CallsTyped, Unstarted
<1>1. ASSUME NEW d \in Calls, Interrupt(d) \/ InterruptFault(d) PROVE Unstarted'
  BY <1>1 DEF Interrupt, InterruptFault, Ends
<1>2. ASSUME NEW d \in Calls, CheckSend(d) \/ CheckRecv(d) PROVE Unstarted'
  BY <1>2 DEF CheckSend, CheckRecv, NextAfterCheck, Ends
<1>3. ASSUME NEW d \in Calls, TakeAnswer(d) \/ DeleteAnswer(d) \/ TimeOut(d) \/ CancelWait(d)
      PROVE  Unstarted'
  BY <1>3 DEF TakeAnswer, DeleteAnswer, TimeOut, CancelWait, Ends
<1>4. ASSUME NEW d \in Calls, SendRequest(d) PROVE Unstarted'
  BY <1>4 DEF SendRequest
<1>5. CASE Crash
  BY <1>5 DEF Crash
<1>6. CASE UNCHANGED <<pc, retries>>
  BY <1>6
<1> QED
  BY <1>1, <1>2, <1>3, <1>4, <1>5, <1>6 DEF Next, Context, Tools, User, RespondStep, Enter,
     EnterFault, Refresh, InterruptStep, SetCancel, SkipOthers,
     DeamonFault, Exit, ExitFault, Notify, NotifyFault, RespondRead, RespondAck, RespondWrite,
     RespondFault, PollStart, PollRead, PollTimeout, Lapse, vars, callVars

\* Sending and answering keep every request in reach.
LEMMA OutstandingStep == OInv /\ [Next]_vars => Outstanding'
<1> SUFFICES ASSUME OInv, [Next]_vars, Serving', NEW c \in Calls, SentOff(c)' PROVE Pending(c)'
  BY DEF Outstanding, Serving
<1>1. CASE InSend(c)'
  BY <1>1 DEF Pending
<1>2. CASE SentOff(c) /\ pc[c] # "xdel"
  <2>1. faults = 0
    BY FaultsGrow DEF OInv, RInv, Serving
  <2>2. ctxPc # "enter"
    BY <1>2 DEF OInv, ContextLive, SentOff
  <2>3. ctxPc = "open"
    BY <2>2 DEF Serving, Next, Context, Tools, User, InterruptStep, RespondStep, Enter, EnterFault,
       Refresh, DeamonFault, Exit, ExitFault, Crash, Interrupt, SetCancel, InterruptFault, CheckSend,
       CheckRecv, SendRequest, TakeAnswer, DeleteAnswer, SkipOthers, TimeOut, CancelWait, Notify,
       NotifyFault, RespondRead, RespondAck, RespondWrite, RespondFault, PollStart, PollRead,
       PollTimeout, Lapse, vars, ctxVars
  <2>4. Serving /\ Pending(c)
    BY <1>2, <2>1, <2>3 DEF Serving, OInv, Outstanding
  <2> QED
    BY <1>2, <2>4, PendingOn
<1> QED
  BY <1>1, <1>2, SentOffStep DEF OInv, RInv

LEMMA OInvAlways == Spec => []OInv
<1>1. Init => ContextLive /\ Unstarted /\ Outstanding
  BY DEF Init, ContextLive, Unstarted, Outstanding
<1>2. RInv /\ RInv' /\ ContextLive /\ Unstarted /\ Outstanding /\ [Next]_vars =>
          (ContextLive /\ Unstarted /\ Outstanding)'
  BY ContextLiveStep, UnstartedStep, OutstandingStep DEF OInv, RInv
<1>3. OInv <=> RInv /\ ContextLive /\ Unstarted /\ Outstanding
  BY DEF OInv
<1> QED
  BY <1>1, <1>2, <1>3, RInvAlways, PTL DEF Spec

\* As long as no Redis command has failed, every interrupt that waits in an open
\* context can still be answered, is being answered, or has been.
THEOREM StillAnswerableWithoutFaults == Spec => [](faults = 0 => StillAnswerable)
<1>1. OInv => (faults = 0 => StillAnswerable)
  BY DEF OInv, Outstanding, SentOff, Pending, StillAnswerable
<1> QED
  BY <1>1, OInvAlways, PTL
=============================================================================
