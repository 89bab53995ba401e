------------------------- MODULE SessionTask_proofs -------------------------
(***************************************************************************)
(* What holds of SessionTask for every number of sessions, messages,       *)
(* requests, tasks, faults and crashes: first of its locks, then of the    *)
(* rows it leaves in the tables: no message in two batches, nothing of a   *)
(* deleted session, memories in the order of their tasks, and rows that    *)
(* agree with the status of their task.                                    *)
(***************************************************************************)
EXTENDS SessionTask, FiniteSetTheorems, WellFoundedInduction, TLAPS

\* The batch a request collects is a sequence of messages.
LEMMA ListingIsSequence ==
    ASSUME NEW s, NEW p \in Listings(Waiting(s))
    PROVE  p \in Seq(Msgs)
<1>1. IsFiniteSet(Waiting(s))
  BY SessionTaskAssumption, FS_Subset DEF Waiting
<1>2. Cardinality(Waiting(s)) \in Nat
  BY <1>1, FS_CardinalityType
<1>3. p \in [1 .. Cardinality(Waiting(s)) -> Msgs]
  BY DEF Listings, Waiting
<1> QED
  BY <1>2, <1>3

\* A run past its agent loop knows how the loop ended.
AfterAgent == {"next_seq", "ins_user", "ins_agent", "ins_msgs", "set_status", "set_msgs"}
OutcomeKnown == \A t \in Tasks : runPc[t] \in AfterAgent => runOut[t] # "none"

SessionKnown == \A r \in Reqs : reqPc[r] \in Holding => reqSession[r] \in Sessions

\* The inductive invariant.
IInv == TypeOK /\ OutcomeKnown /\ SessionKnown /\ LockProtects /\ AtMostOneProcessing

\* Init establishes every part of it.
LEMMA InitIInv == Init => IInv
<1> SUFFICES ASSUME Init PROVE IInv
  OBVIOUS
<1>1. TypeOK
  BY SessionTaskAssumption DEF Init, TypeOK, TablesTyped, RequestsTyped, RunsTyped, CallersTyped
<1>2. OutcomeKnown /\ SessionKnown /\ LockProtects /\ AtMostOneProcessing
  BY DEF Init, OutcomeKnown, SessionKnown, LockProtects, AtMostOneProcessing, AfterAgent, Holding
<1> QED
  BY <1>1, <1>2 DEF IInv

\* Every step keeps the variables typed. Only RunSetStatus needs more than the
\* types: it writes the outcome its run recorded.
LEMMA TypeStep == IInv /\ [Next]_vars => TypeOK'
<1> SUFFICES ASSUME IInv, [Next]_vars PROVE TypeOK'
  OBVIOUS
<1> USE DEF IInv
<1>1. ASSUME NEW m \in Msgs, NEW s \in Sessions, SendReadSeq(m, s) PROVE TypeOK'
  BY <1>1 DEF TypeOK, TablesTyped, RequestsTyped, RunsTyped, CallersTyped,
     SendReadSeq, vars, msgTable, taskTable, memory, reqVars, runVars, cancelVars,
     bounds
<1>2. ASSUME NEW m \in Msgs, SendInsert(m) PROVE TypeOK'
  BY <1>2 DEF TypeOK, TablesTyped, RequestsTyped, RunsTyped, CallersTyped, SendInsert,
     vars, msgTable, taskTable, memory, reqVars, runVars, cancelVars, bounds
<1>3. ASSUME NEW r \in Reqs, NEW s \in Sessions, ReqAcquire(r, s) PROVE TypeOK'
  BY <1>3 DEF TypeOK, TablesTyped, RequestsTyped, RunsTyped, CallersTyped, ReqAcquire,
     ReqUnchanged, vars, msgTable, taskTable, memory, reqVars, runVars, cancelVars,
     bounds
<1>4. ASSUME NEW r \in Reqs, ReqGetSession(r) PROVE TypeOK'
  <2>1. RequestsTyped'
    BY <1>4 DEF TypeOK, RequestsTyped, ReqGetSession, Proceed, Refuse
  <2>2. TablesTyped' /\ RunsTyped' /\ CallersTyped'
    BY <1>4 DEF TypeOK, TablesTyped, RunsTyped, CallersTyped, ReqGetSession,
       ReqUnchanged, msgTable, taskTable, memory, runVars, cancelVars
  <2> QED
    BY <2>1, <2>2 DEF TypeOK
<1>5. ASSUME NEW r \in Reqs, ReqCheckProcessing(r) PROVE TypeOK'
  <2>1. RequestsTyped'
    BY <1>5 DEF TypeOK, RequestsTyped, ReqCheckProcessing, Proceed, Refuse
  <2>2. TablesTyped' /\ RunsTyped' /\ CallersTyped'
    BY <1>5 DEF TypeOK, TablesTyped, RunsTyped, CallersTyped, ReqCheckProcessing,
       ReqUnchanged, msgTable, taskTable, memory, runVars, cancelVars
  <2> QED
    BY <2>1, <2>2 DEF TypeOK
<1>6. ASSUME NEW r \in Reqs, ReqCollect(r) PROVE TypeOK'
  <2>1. RequestsTyped'
    <3>1. PICK p \in Listings(Waiting(reqSession[r])) :
             /\ reqPend' = [reqPend EXCEPT ![r] = p]
             /\ Proceed(r, "insert") \/ Refuse(r, "204")
             /\ UNCHANGED <<reqSession, reqTask>>
      BY <1>6 DEF ReqCollect
    <3>2. p \in Seq(Msgs)
      BY ListingIsSequence
    <3> QED
      BY <3>1, <3>2 DEF TypeOK, RequestsTyped, Proceed, Refuse
  <2>2. TablesTyped' /\ RunsTyped' /\ CallersTyped'
    BY <1>6 DEF TypeOK, TablesTyped, RunsTyped, CallersTyped, ReqCollect,
       ReqUnchanged, msgTable, taskTable, memory, runVars, cancelVars
  <2> QED
    BY <2>1, <2>2 DEF TypeOK
<1>7. ASSUME NEW r \in Reqs, ReqInsertTask(r) PROVE TypeOK'
  <2>1. RequestsTyped'
    <3>1. CASE sessionState[reqSession[r]] = "live"
      <4>1. PICK u \in Tasks : reqTask' = [reqTask EXCEPT ![r] = u]
        BY <1>7, <3>1 DEF TypeOK, ReqInsertTask
      <4>2. Proceed(r, "link") /\ UNCHANGED <<reqSession, reqPend>>
        BY <1>7, <3>1 DEF ReqInsertTask
      <4> QED
        BY <4>1, <4>2 DEF TypeOK, RequestsTyped, Proceed
    <3>2. CASE ~(sessionState[reqSession[r]] = "live")
      <4>1. Refuse(r, "500") /\ UNCHANGED <<reqSession, reqPend, reqTask>>
        BY <1>7, <3>2 DEF ReqInsertTask
      <4> QED
        BY <4>1 DEF TypeOK, RequestsTyped, Refuse
    <3> QED
      BY <3>1, <3>2
  <2>2. TablesTyped'
    <3>1. UNCHANGED <<sessionState, msgTable, memory, lock>>
      BY <1>7 DEF ReqInsertTask, ReqUnchanged
    <3>2. CASE UNCHANGED taskTable
      BY <3>1, <3>2 DEF TypeOK, TablesTyped, msgTable, taskTable, memory
    <3>3. CASE \E u \in Tasks :
                  /\ taskStatus' = [taskStatus EXCEPT ![u] = "processing"]
                  /\ taskSession' = [taskSession EXCEPT ![u] = reqSession[r]]
      BY <3>1, <3>3 DEF TypeOK, TablesTyped, RequestsTyped, msgTable, memory
    <3> QED
      BY <1>7, <3>2, <3>3 DEF ReqInsertTask
  <2>3. RunsTyped' /\ CallersTyped'
    BY <1>7 DEF TypeOK, RunsTyped, CallersTyped, ReqInsertTask, ReqUnchanged, runVars,
       cancelVars
  <2> QED
    BY <2>1, <2>2, <2>3 DEF TypeOK
<1>8. ASSUME NEW r \in Reqs, ReqLinkMessages(r) PROVE TypeOK'
  BY <1>8 DEF TypeOK, TablesTyped, RequestsTyped, RunsTyped, CallersTyped,
     ReqLinkMessages, ReqUnchanged, vars, msgTable, taskTable, memory, reqVars,
     runVars, cancelVars, bounds
<1>9. ASSUME NEW r \in Reqs, ReqMarkMessages(r) PROVE TypeOK'
  BY <1>9 DEF TypeOK, TablesTyped, RequestsTyped, RunsTyped, CallersTyped,
     ReqMarkMessages, SetStatus, ReqUnchanged, vars, msgTable, taskTable, memory,
     reqVars, runVars, cancelVars, bounds
<1>10. ASSUME NEW r \in Reqs, ReqRelease(r) PROVE TypeOK'
  BY <1>10 DEF TypeOK, TablesTyped, RequestsTyped, RunsTyped, CallersTyped,
     ReqRelease, ReqUnchanged, vars, msgTable, taskTable, memory, reqVars, runVars,
     cancelVars, bounds
<1>11. ASSUME NEW r \in Reqs, ReqSpawn(r) PROVE TypeOK'
  BY <1>11 DEF TypeOK, TablesTyped, RequestsTyped, RunsTyped, CallersTyped, ReqSpawn,
     vars, msgTable, taskTable, memory, reqVars, runVars, cancelVars, bounds
<1>12. ASSUME NEW r \in Reqs, ReqFault(r) PROVE TypeOK'
  BY <1>12 DEF TypeOK, TablesTyped, RequestsTyped, RunsTyped, CallersTyped, ReqFault,
     Refuse, vars, msgTable, taskTable, memory, reqVars, runVars, cancelVars, bounds
<1>13. ASSUME NEW r \in Reqs, ReqReleaseFault(r) PROVE TypeOK'
  BY <1>13 DEF TypeOK, TablesTyped, RequestsTyped, RunsTyped, CallersTyped,
     ReqReleaseFault, vars, msgTable, taskTable, memory, reqVars, runVars, cancelVars,
     bounds
<1>14. ASSUME NEW s \in Sessions, LockExpire(s) PROVE TypeOK'
  BY <1>14 DEF TypeOK, TablesTyped, RequestsTyped, RunsTyped, CallersTyped,
     LockExpire, vars, msgTable, taskTable, memory, reqVars, runVars, cancelVars,
     bounds
<1>15. ASSUME NEW t \in Tasks, RunEnter(t) PROVE TypeOK'
  BY <1>15 DEF TypeOK, TablesTyped, RequestsTyped, RunsTyped, CallersTyped, RunEnter,
     RunUnchanged, Advance, vars, msgTable, taskTable, memory, reqVars, runVars,
     cancelVars, bounds
<1>16. ASSUME NEW t \in Tasks, RunSubscribe(t) PROVE TypeOK'
  BY <1>16 DEF TypeOK, TablesTyped, RequestsTyped, RunsTyped, CallersTyped,
     RunSubscribe, RunUnchanged, vars, msgTable, taskTable, memory, reqVars, runVars,
     cancelVars, bounds
<1>17. ASSUME NEW t \in Tasks, RunReadUserMem(t) PROVE TypeOK'
  BY <1>17 DEF TypeOK, TablesTyped, RequestsTyped, RunsTyped, CallersTyped,
     RunReadUserMem, RunUnchanged, Advance, vars, msgTable, taskTable, memory,
     reqVars, runVars, cancelVars, bounds
<1>18. ASSUME NEW t \in Tasks, RunReadAgentMem(t) PROVE TypeOK'
  <2>1. RunsTyped'
    BY <1>18 DEF TypeOK, RunsTyped, RunReadAgentMem, Advance, Raise
  <2>2. TablesTyped' /\ RequestsTyped' /\ CallersTyped'
    BY <1>18 DEF TypeOK, TablesTyped, RequestsTyped, CallersTyped, RunReadAgentMem,
       RunUnchanged, msgTable, taskTable, memory, reqVars, cancelVars
  <2> QED
    BY <2>1, <2>2 DEF TypeOK
<1>19. ASSUME NEW t \in Tasks, RunAgentFinish(t) PROVE TypeOK'
  BY <1>19 DEF TypeOK, TablesTyped, RequestsTyped, RunsTyped, CallersTyped,
     RunAgentFinish, RunUnchanged, Advance, vars, msgTable, taskTable, memory,
     reqVars, runVars, cancelVars, bounds
<1>20. ASSUME NEW t \in Tasks, RunAgentCancelled(t) PROVE TypeOK'
  BY <1>20 DEF TypeOK, TablesTyped, RequestsTyped, RunsTyped, CallersTyped,
     RunAgentCancelled, RunUnchanged, Advance, vars, msgTable, taskTable, memory,
     reqVars, runVars, cancelVars, bounds
<1>21. ASSUME NEW t \in Tasks, RunNextSeq(t) PROVE TypeOK'
  BY <1>21 DEF TypeOK, TablesTyped, RequestsTyped, RunsTyped, CallersTyped,
     RunNextSeq, RunUnchanged, Advance, vars, msgTable, taskTable, memory, reqVars,
     runVars, cancelVars, bounds
<1>22. ASSUME NEW t \in Tasks, RunInsertUserMem(t) PROVE TypeOK'
  <2>1. RunsTyped'
    BY <1>22 DEF TypeOK, RunsTyped, RunInsertUserMem, Insert, InsertList, Advance, Raise
  <2>2. TablesTyped'
    BY <1>22 DEF TypeOK, TablesTyped, RunInsertUserMem, Insert, InsertList, RunUnchanged,
       msgTable, taskTable, memory
  <2>3. RequestsTyped' /\ CallersTyped'
    BY <1>22 DEF TypeOK, RequestsTyped, CallersTyped, RunInsertUserMem, Insert, InsertList,
       RunUnchanged, reqVars, cancelVars
  <2> QED
    BY <2>1, <2>2, <2>3 DEF TypeOK
<1>23. ASSUME NEW t \in Tasks, RunInsertAgentMem(t) PROVE TypeOK'
  <2>1. RunsTyped'
    BY <1>23 DEF TypeOK, RunsTyped, RunInsertAgentMem, Insert, InsertList, Advance, Raise
  <2>2. TablesTyped'
    BY <1>23 DEF TypeOK, TablesTyped, RunInsertAgentMem, Insert, InsertList, RunUnchanged,
       msgTable, taskTable, memory
  <2>3. RequestsTyped' /\ CallersTyped'
    BY <1>23 DEF TypeOK, RequestsTyped, CallersTyped, RunInsertAgentMem, Insert, InsertList,
       RunUnchanged, reqVars, cancelVars
  <2> QED
    BY <2>1, <2>2, <2>3 DEF TypeOK
<1>24. ASSUME NEW t \in Tasks, RunInsertAgentMsgs(t) PROVE TypeOK'
  <2>1. RunsTyped'
    BY <1>24 DEF TypeOK, RunsTyped, RunInsertAgentMsgs, Insert, InsertList, Advance, Raise
  <2>2. TablesTyped'
    BY <1>24 DEF TypeOK, TablesTyped, RunInsertAgentMsgs, Insert, InsertList, RunUnchanged,
       msgTable, taskTable, memory
  <2>3. RequestsTyped' /\ CallersTyped'
    BY <1>24 DEF TypeOK, RequestsTyped, CallersTyped, RunInsertAgentMsgs, Insert, InsertList,
       RunUnchanged, reqVars, cancelVars
  <2> QED
    BY <2>1, <2>2, <2>3 DEF TypeOK
<1>25. ASSUME NEW t \in Tasks, RunSetStatus(t) PROVE TypeOK'
  BY <1>25 DEF TypeOK, TablesTyped, RequestsTyped, RunsTyped, CallersTyped,
     RunSetStatus, RunUnchanged, Advance, SetTaskStatus, OutcomeKnown, AfterAgent,
     vars, msgTable, taskTable, memory, reqVars, runVars, cancelVars, bounds
<1>26. ASSUME NEW t \in Tasks, RunSetMessages(t) PROVE TypeOK'
  BY <1>26 DEF TypeOK, TablesTyped, RequestsTyped, RunsTyped, CallersTyped,
     RunSetMessages, RunUnchanged, Advance, SetStatus, vars, msgTable, taskTable,
     memory, reqVars, runVars, cancelVars, bounds
<1>27. ASSUME NEW t \in Tasks, RunFailStatus(t) PROVE TypeOK'
  BY <1>27 DEF TypeOK, TablesTyped, RequestsTyped, RunsTyped, CallersTyped,
     RunFailStatus, RunUnchanged, Advance, SetTaskStatus, vars, msgTable, taskTable,
     memory, reqVars, runVars, cancelVars, bounds
<1>28. ASSUME NEW t \in Tasks, RunFailMessages(t) PROVE TypeOK'
  BY <1>28 DEF TypeOK, TablesTyped, RequestsTyped, RunsTyped, CallersTyped,
     RunFailMessages, RunUnchanged, Advance, SetStatus, vars, msgTable, taskTable,
     memory, reqVars, runVars, cancelVars, bounds
<1>29. ASSUME NEW t \in Tasks, RunDeleteUserMem(t) PROVE TypeOK'
  BY <1>29 DEF TypeOK, TablesTyped, RequestsTyped, RunsTyped, CallersTyped,
     RunDeleteUserMem, RunUnchanged, Advance, vars, msgTable, taskTable, memory,
     reqVars, runVars, cancelVars, bounds
<1>30. ASSUME NEW t \in Tasks, RunDeleteAgentMem(t) PROVE TypeOK'
  BY <1>30 DEF TypeOK, TablesTyped, RequestsTyped, RunsTyped, CallersTyped,
     RunDeleteAgentMem, RunUnchanged, Advance, vars, msgTable, taskTable, memory,
     reqVars, runVars, cancelVars, bounds
<1>31. ASSUME NEW t \in Tasks, RunDeleteAgentMsgs(t) PROVE TypeOK'
  BY <1>31 DEF TypeOK, TablesTyped, RequestsTyped, RunsTyped, CallersTyped,
     RunDeleteAgentMsgs, RunUnchanged, Advance, vars, msgTable, taskTable, memory,
     reqVars, runVars, cancelVars, bounds
<1>32. ASSUME NEW t \in Tasks, RunFault(t) PROVE TypeOK'
  <2>1. RunsTyped'
    BY <1>32 DEF TypeOK, RunsTyped, RunFault, Advance, Raise
  <2>2. TablesTyped' /\ RequestsTyped' /\ CallersTyped'
    BY <1>32 DEF TypeOK, TablesTyped, RequestsTyped, CallersTyped, RunFault, msgTable,
       taskTable, memory, reqVars, cancelVars
  <2> QED
    BY <2>1, <2>2 DEF TypeOK
<1>33. ASSUME NEW c \in Cancels, NEW t \in Tasks, CancelCheck(c, t) PROVE TypeOK'
  BY <1>33 DEF TypeOK, TablesTyped, RequestsTyped, RunsTyped, CallersTyped,
     CancelCheck, vars, msgTable, taskTable, memory, reqVars, runVars, cancelVars,
     bounds
<1>34. ASSUME NEW c \in Cancels, CancelPublish(c) PROVE TypeOK'
  BY <1>34 DEF TypeOK, TablesTyped, RequestsTyped, RunsTyped, CallersTyped,
     CancelPublish, vars, msgTable, taskTable, memory, reqVars, runVars, cancelVars,
     bounds
<1>35. ASSUME NEW s \in Sessions, DeleteSession(s) PROVE TypeOK'
  BY <1>35 DEF TypeOK, TablesTyped, RequestsTyped, RunsTyped, CallersTyped,
     DeleteSession, vars, msgTable, taskTable, memory, reqVars, runVars, cancelVars,
     bounds
<1>36. ASSUME NEW R \in SUBSET Reqs, NEW T \in SUBSET Tasks, Crash(R, T) PROVE TypeOK'
  BY <1>36 DEF TypeOK, TablesTyped, RequestsTyped, RunsTyped, CallersTyped, Crash,
     vars, msgTable, taskTable, memory, reqVars, runVars, cancelVars, bounds
<1>38. ASSUME NEW r \in Reqs, NEW s \in Sessions, ReqAcquireFault(r, s) PROVE TypeOK'
  <2>1. TablesTyped'
    BY <1>38 DEF TypeOK, TablesTyped, ReqAcquireFault, msgTable, taskTable, memory
  <2>2. RequestsTyped' /\ RunsTyped' /\ CallersTyped'
    BY <1>38 DEF TypeOK, RequestsTyped, RunsTyped, CallersTyped, ReqAcquireFault, runVars,
       cancelVars
  <2> QED
    BY <2>1, <2>2 DEF TypeOK
<1>37. CASE UNCHANGED vars
  BY <1>37 DEF TypeOK, TablesTyped, RequestsTyped, RunsTyped, CallersTyped, vars, msgTable, taskTable, memory, reqVars, runVars, cancelVars, bounds
<1> QED
  BY <1>1, <1>2, <1>3, <1>4, <1>5, <1>6, <1>7, <1>8, <1>9, <1>10, <1>11, <1>12, <1>13,
     <1>14, <1>15, <1>16, <1>17, <1>18, <1>19, <1>20, <1>21, <1>22, <1>23, <1>24,
     <1>25, <1>26, <1>27, <1>28, <1>29, <1>30, <1>31, <1>32, <1>33, <1>34, <1>35,
     <1>36, <1>37, <1>38 DEF Next, ReqStep, RunStep

-----------------------------------------------------------------------------
\* The outcome is recorded by the very step that leaves the agent loop.
LEMMA OutcomeStep == IInv /\ [Next]_vars => OutcomeKnown'
<1> SUFFICES ASSUME IInv, [Next]_vars PROVE OutcomeKnown'
  OBVIOUS
<1> USE DEF IInv, TypeOK, RunsTyped, OutcomeKnown, AfterAgent
<1>1. CASE UNCHANGED <<runPc, runOut>>
  BY <1>1
<1>2. ASSUME NEW t \in Tasks, NEW pc, Advance(t, pc), UNCHANGED runOut,
             pc \notin AfterAgent \/ runPc[t] \in AfterAgent
      PROVE  OutcomeKnown'
  BY <1>2 DEF Advance
<1>3. ASSUME NEW r \in Reqs, ReqSpawn(r) PROVE OutcomeKnown'
  BY <1>3 DEF ReqSpawn
<1>4. ASSUME NEW t \in Tasks, RunAgentFinish(t) \/ RunAgentCancelled(t)
      PROVE  OutcomeKnown'
  BY <1>4 DEF RunAgentFinish, RunAgentCancelled, Advance
<1>5. ASSUME NEW t \in Tasks,
             RunEnter(t) \/ RunReadUserMem(t) \/ RunReadAgentMem(t) \/ RunNextSeq(t)
      PROVE  OutcomeKnown'
  BY <1>2, <1>5 DEF RunEnter, RunReadUserMem, RunReadAgentMem, RunNextSeq, Raise
<1>6. ASSUME NEW t \in Tasks,
             RunInsertUserMem(t) \/ RunInsertAgentMem(t) \/ RunInsertAgentMsgs(t)
      PROVE  OutcomeKnown'
  BY <1>2, <1>6 DEF RunInsertUserMem, RunInsertAgentMem, RunInsertAgentMsgs, Insert, InsertList,
     Raise
<1>7. ASSUME NEW t \in Tasks, RunSetStatus(t) \/ RunSetMessages(t) PROVE OutcomeKnown'
  BY <1>2, <1>7 DEF RunSetStatus, RunSetMessages
<1>8. ASSUME NEW t \in Tasks,
             \/ RunFailStatus(t) \/ RunFailMessages(t) \/ RunDeleteUserMem(t)
             \/ RunDeleteAgentMem(t) \/ RunDeleteAgentMsgs(t)
      PROVE  OutcomeKnown'
  BY <1>2, <1>8 DEF RunFailStatus, RunFailMessages, RunDeleteUserMem, RunDeleteAgentMem,
     RunDeleteAgentMsgs
<1>9. ASSUME NEW t \in Tasks, RunFault(t) PROVE OutcomeKnown'
  BY <1>2, <1>9 DEF RunFault, Raise
<1>10. ASSUME NEW R, NEW T, Crash(R, T) PROVE OutcomeKnown'
  BY <1>10 DEF Crash
<1>11. ASSUME NEW t \in Tasks, RunSubscribe(t) PROVE UNCHANGED <<runPc, runOut>>
  BY <1>11 DEF RunSubscribe, runVars
<1>12. ASSUME NEW m \in Msgs, SendInsert(m) \/ \E s \in Sessions : SendReadSeq(m, s)
       PROVE  UNCHANGED <<runPc, runOut>>
  BY <1>12 DEF SendInsert, SendReadSeq, runVars
<1>13. ASSUME NEW r \in Reqs,
              \/ \E s \in Sessions : ReqAcquire(r, s) \/ ReqAcquireFault(r, s)
              \/ ReqGetSession(r) \/ ReqCheckProcessing(r) \/ ReqCollect(r)
              \/ ReqInsertTask(r) \/ ReqLinkMessages(r) \/ ReqMarkMessages(r)
              \/ ReqRelease(r)
       PROVE  UNCHANGED <<runPc, runOut>>
  BY <1>13 DEF ReqAcquire, ReqAcquireFault, ReqGetSession, ReqCheckProcessing, ReqCollect, ReqInsertTask,
     ReqLinkMessages, ReqMarkMessages, ReqRelease, ReqUnchanged, runVars
<1>14. ASSUME NEW r \in Reqs, ReqFault(r) \/ ReqReleaseFault(r)
       PROVE  UNCHANGED <<runPc, runOut>>
  BY <1>14 DEF ReqFault, ReqReleaseFault, runVars
<1>15. ASSUME NEW s \in Sessions, LockExpire(s) \/ DeleteSession(s)
       PROVE  UNCHANGED <<runPc, runOut>>
  BY <1>15 DEF LockExpire, DeleteSession, runVars
<1>16. ASSUME NEW c \in Cancels, CancelPublish(c) \/ \E t \in Tasks : CancelCheck(c, t)
       PROVE  UNCHANGED <<runPc, runOut>>
  BY <1>16 DEF CancelPublish, CancelCheck, runVars
<1> QED
  BY <1>1, <1>3, <1>4, <1>5, <1>6, <1>7, <1>8, <1>9, <1>10, <1>11, <1>12, <1>13, <1>14,
     <1>15, <1>16 DEF Next, ReqStep, RunStep, vars, runVars

-----------------------------------------------------------------------------
\* What the lock protects: a request between its check and its insert is the
\* only one of its session there, so no task can have started meanwhile.
LockSafe == SessionKnown /\ LockProtects /\ AtMostOneProcessing
lockVars == <<lock, reqPc, reqSession, taskStatus, taskSession>>

\* A task that leaves processing, or stays out of it, disturbs nothing.
LEMMA FewerProcessing ==
    ASSUME IInv, UNCHANGED <<lock, reqPc, reqSession, taskSession>>,
           \A t \in Tasks : taskStatus'[t] = "processing" => taskStatus[t] = "processing"
    PROVE  LockSafe'
<1>1. SessionKnown'
  BY DEF IInv, SessionKnown
<1>2. LockProtects'
  BY DEF IInv, LockProtects, Processing
<1>3. AtMostOneProcessing'
  BY DEF IInv, AtMostOneProcessing
<1> QED
  BY <1>1, <1>2, <1>3 DEF LockSafe

\* A request that moves on among the places where it holds the lock.
LEMMA HolderMoves ==
    ASSUME IInv, NEW r \in Reqs, NEW pc, reqPc' = [reqPc EXCEPT ![r] = pc],
           UNCHANGED <<lock, reqSession, taskStatus, taskSession>>,
           pc \in Holding => reqPc[r] \in Holding,
           pc \in {"collect", "insert"} => Processing(reqSession[r]) = {}
    PROVE  LockSafe'
<1>1. SessionKnown'
  BY DEF IInv, TypeOK, RequestsTyped, SessionKnown
<1>2. LockProtects'
  BY DEF IInv, TypeOK, RequestsTyped, LockProtects, Processing
<1>3. AtMostOneProcessing'
  BY DEF IInv, AtMostOneProcessing
<1> QED
  BY <1>1, <1>2, <1>3 DEF LockSafe

LEMMA LockStep == IInv /\ [Next]_vars => LockSafe'
<1> SUFFICES ASSUME IInv, [Next]_vars PROVE LockSafe'
  OBVIOUS
<1>1. ASSUME UNCHANGED lockVars PROVE LockSafe'
  BY <1>1, FewerProcessing DEF lockVars
<1>2. ASSUME NEW r \in Reqs, NEW s \in Sessions, ReqAcquire(r, s) PROVE LockSafe'
  <2>1. \A q \in Reqs : q # r /\ reqPc[q] \in Holding => reqSession[q] # s
    BY <1>2, SessionTaskAssumption DEF ReqAcquire, IInv, LockProtects, SessionKnown
  <2>2. SessionKnown'
    BY <1>2 DEF ReqAcquire, IInv, TypeOK, RequestsTyped, SessionKnown
  <2>3. LockProtects'
    BY <1>2, <2>1 DEF ReqAcquire, taskTable, IInv, TypeOK, TablesTyped, RequestsTyped,
       SessionKnown, LockProtects, Processing
  <2>4. AtMostOneProcessing'
    BY <1>2 DEF ReqAcquire, taskTable, IInv, AtMostOneProcessing
  <2> QED
    BY <2>2, <2>3, <2>4 DEF LockSafe
<1>3. ASSUME NEW r \in Reqs, ReqGetSession(r) \/ ReqCheckProcessing(r) PROVE LockSafe'
  BY <1>3, HolderMoves DEF ReqGetSession, ReqCheckProcessing, Proceed, Refuse, taskTable,
     Holding
<1>4. ASSUME NEW r \in Reqs, ReqCollect(r) PROVE LockSafe'
  <2>1. Processing(reqSession[r]) = {}
    BY <1>4 DEF ReqCollect, IInv, LockProtects
  <2> QED
    BY <1>4, <2>1, HolderMoves DEF ReqCollect, Proceed, Refuse, taskTable, Holding
<1>5. ASSUME NEW r \in Reqs, ReqInsertTask(r) PROVE LockSafe'
  <2>1. reqPc[r] = "insert" /\ Processing(reqSession[r]) = {}
    BY <1>5 DEF ReqInsertTask, IInv, LockProtects
  <2>2. CASE reqPc' = [reqPc EXCEPT ![r] = "release"] /\ UNCHANGED taskTable
    BY <1>5, <2>1, <2>2, HolderMoves DEF ReqInsertTask, taskTable, Holding
  <2>3. ASSUME NEW t \in Tasks,
               taskStatus[t] = "absent",
               taskStatus' = [taskStatus EXCEPT ![t] = "processing"],
               taskSession' = [taskSession EXCEPT ![t] = reqSession[r]],
               reqPc' = [reqPc EXCEPT ![r] = "link"],
               UNCHANGED <<lock, reqSession>>
        PROVE  LockSafe'
    <3>1. SessionKnown'
      BY <2>1, <2>3 DEF IInv, TypeOK, RequestsTyped, SessionKnown, Holding
    <3>2. \A q \in Reqs : q # r /\ reqPc[q] \in {"collect", "insert"}
                          => reqSession[q] # reqSession[r]
      BY <2>1 DEF IInv, LockProtects, Holding
    <3>3. \A q \in Reqs : reqPc'[q] \in Holding => lock'[reqSession'[q]] = q
      BY <2>1, <2>3 DEF IInv, TypeOK, RequestsTyped, LockProtects, Holding
    <3>4. \A q \in Reqs : reqPc'[q] \in {"collect", "insert"}
                          => Processing(reqSession[q])' = {}
      BY <2>3, <3>2 DEF IInv, TypeOK, TablesTyped, RequestsTyped, LockProtects, Processing
    <3>5. AtMostOneProcessing'
      BY <2>1, <2>3 DEF IInv, TypeOK, TablesTyped, AtMostOneProcessing, Processing
    <3> QED
      BY <3>1, <3>3, <3>4, <3>5 DEF LockSafe, LockProtects
  <2> QED
    BY <1>5, <2>2, <2>3 DEF ReqInsertTask, Proceed, Refuse
<1>6. ASSUME NEW r \in Reqs, ReqLinkMessages(r) \/ ReqMarkMessages(r) PROVE LockSafe'
  BY <1>6, HolderMoves DEF ReqLinkMessages, ReqMarkMessages, taskTable, Holding
<1>7. ASSUME NEW r \in Reqs, ReqRelease(r) PROVE LockSafe'
  <2>1. SessionKnown'
    BY <1>7 DEF ReqRelease, IInv, TypeOK, RequestsTyped, SessionKnown, Holding
  <2>2. LockProtects'
    BY <1>7 DEF ReqRelease, taskTable, IInv, TypeOK, TablesTyped, RequestsTyped,
       SessionKnown, LockProtects, Processing, Holding
  <2>3. AtMostOneProcessing'
    BY <1>7 DEF ReqRelease, taskTable, IInv, AtMostOneProcessing
  <2> QED
    BY <2>1, <2>2, <2>3 DEF LockSafe
<1>8. ASSUME NEW r \in Reqs, ReqSpawn(r) \/ ReqFault(r) \/ ReqReleaseFault(r)
      PROVE  LockSafe'
  BY <1>8, HolderMoves DEF ReqSpawn, ReqFault, ReqReleaseFault, Refuse, taskTable, Holding
<1>9. ASSUME NEW s \in Sessions, LockExpire(s) PROVE LockSafe'
  <2>1. \A q \in Reqs : reqPc[q] \in Holding => reqSession[q] # s
    BY <1>9 DEF LockExpire, IInv, LockProtects, Holding
  <2>2. SessionKnown' /\ AtMostOneProcessing'
    BY <1>9 DEF LockExpire, reqVars, taskTable, IInv, SessionKnown, AtMostOneProcessing
  <2>3. LockProtects'
    BY <1>9, <2>1 DEF LockExpire, reqVars, taskTable, IInv, TypeOK, TablesTyped,
       SessionKnown, LockProtects, Processing
  <2> QED
    BY <2>2, <2>3 DEF LockSafe
<1>10. ASSUME NEW t \in Tasks, RunSetStatus(t) PROVE LockSafe'
  <2>1. runOut[t] # "processing"
    BY DEF IInv, TypeOK, RunsTyped
  <2> QED
    BY <1>10, <2>1, FewerProcessing DEF RunSetStatus, SetTaskStatus, RunUnchanged, reqVars,
       IInv, TypeOK, TablesTyped
<1>11. ASSUME NEW t \in Tasks, RunFailStatus(t) PROVE LockSafe'
  BY <1>11, FewerProcessing DEF RunFailStatus, SetTaskStatus, RunUnchanged, reqVars,
     IInv, TypeOK, TablesTyped
<1>12. ASSUME NEW s \in Sessions, DeleteSession(s) PROVE LockSafe'
  BY <1>12, FewerProcessing DEF DeleteSession, reqVars
<1>13. ASSUME NEW R, NEW T, Crash(R, T) PROVE LockSafe'
  <2>1. SessionKnown' /\ AtMostOneProcessing'
    BY <1>13 DEF Crash, taskTable, IInv, SessionKnown, AtMostOneProcessing, Holding
  <2>2. LockProtects'
    BY <1>13 DEF Crash, taskTable, IInv, LockProtects, Processing, Holding
  <2> QED
    BY <2>1, <2>2 DEF LockSafe
<1>20. ASSUME NEW r \in Reqs, NEW s \in Sessions, ReqAcquireFault(r, s) PROVE LockSafe'
  <2>1. \A q \in Reqs : reqPc'[q] \in Holding =>
          reqPc'[q] = reqPc[q] /\ lock'[reqSession[q]] = lock[reqSession[q]]
    BY <1>20, SessionTaskAssumption DEF ReqAcquireFault, IInv, TypeOK, TablesTyped,
       RequestsTyped, SessionKnown, LockProtects, Holding
  <2>2. SessionKnown'
    BY <1>20, <2>1 DEF ReqAcquireFault, IInv, SessionKnown
  <2>3. LockProtects'
    BY <1>20, <2>1 DEF ReqAcquireFault, taskTable, IInv, LockProtects, Processing, Holding
  <2>4. AtMostOneProcessing'
    BY <1>20 DEF ReqAcquireFault, taskTable, IInv, AtMostOneProcessing
  <2> QED
    BY <2>2, <2>3, <2>4 DEF LockSafe
<1>14. ASSUME NEW t \in Tasks,
              \/ RunEnter(t) \/ RunSubscribe(t) \/ RunReadUserMem(t) \/ RunReadAgentMem(t)
              \/ RunAgentFinish(t) \/ RunAgentCancelled(t) \/ RunNextSeq(t)
       PROVE  UNCHANGED lockVars
  BY <1>14 DEF RunEnter, RunSubscribe, RunReadUserMem, RunReadAgentMem, RunAgentFinish,
     RunAgentCancelled, RunNextSeq, RunUnchanged, reqVars, taskTable, lockVars
<1>15. ASSUME NEW t \in Tasks,
              \/ RunInsertUserMem(t) \/ RunInsertAgentMem(t) \/ RunInsertAgentMsgs(t)
              \/ RunFault(t)
       PROVE  UNCHANGED lockVars
  BY <1>15 DEF RunInsertUserMem, RunInsertAgentMem, RunInsertAgentMsgs, Insert, InsertList,
     RunFault,
     RunUnchanged, reqVars, taskTable, lockVars
<1>16. ASSUME NEW t \in Tasks,
              \/ RunSetMessages(t) \/ RunFailMessages(t) \/ RunDeleteUserMem(t)
              \/ RunDeleteAgentMem(t) \/ RunDeleteAgentMsgs(t)
       PROVE  UNCHANGED lockVars
  BY <1>16 DEF RunSetMessages, RunFailMessages, RunDeleteUserMem, RunDeleteAgentMem,
     RunDeleteAgentMsgs, RunUnchanged, reqVars, taskTable, lockVars
<1>17. ASSUME NEW m \in Msgs, SendInsert(m) \/ \E s \in Sessions : SendReadSeq(m, s)
       PROVE  UNCHANGED lockVars
  BY <1>17 DEF SendInsert, SendReadSeq, reqVars, taskTable, lockVars
<1>18. ASSUME NEW c \in Cancels, CancelPublish(c) \/ \E t \in Tasks : CancelCheck(c, t)
       PROVE  UNCHANGED lockVars
  BY <1>18 DEF CancelPublish, CancelCheck, reqVars, taskTable, lockVars
<1>19. CASE UNCHANGED vars
  BY <1>1, <1>19 DEF vars, reqVars, taskTable, lockVars
<1> QED
  BY <1>1, <1>2, <1>3, <1>4, <1>5, <1>6, <1>7, <1>8, <1>9, <1>10, <1>11, <1>12, <1>13,
     <1>14, <1>15, <1>16, <1>17, <1>18, <1>19, <1>20 DEF Next, ReqStep, RunStep

-----------------------------------------------------------------------------
LEMMA IInvAlways == Spec => []IInv
<1>1. IInv /\ [Next]_vars => IInv'
  BY TypeStep, OutcomeStep, LockStep DEF IInv, LockSafe
<1> QED
  BY InitIInv, <1>1, PTL DEF Spec

\* Every variable always holds a value of its kind; in particular no status
\* outside those the columns' CHECK constraints allow is ever written.
THEOREM TypeCorrect == Spec => []TypeOK
<1>1. IInv => TypeOK
  BY DEF IInv
<1> QED
  BY <1>1, IInvAlways, PTL

\* The lock of process_pending_messages does its work: its holder is alone
\* between the check for a running task and the insert of the new one.
THEOREM LockProtectsAlways == Spec => []LockProtects
<1>1. IInv => LockProtects
  BY DEF IInv
<1> QED
  BY <1>1, IInvAlways, PTL

\* For any number of sessions, messages, requests, faults and crashes a session
\* never has two tasks in status processing.
THEOREM OneTaskPerSession == Spec => []AtMostOneProcessing
<1>1. IInv => AtMostOneProcessing
  BY DEF IInv
<1> QED
  BY <1>1, IInvAlways, PTL

-----------------------------------------------------------------------------
\* Every step looks to the lock of a session like a step of LeaseLock.
LEMMA LeaseStep ==
    ASSUME IInv, [Next]_vars, NEW s \in Sessions
    PROVE  Lease(s)!Next \/ UNCHANGED <<lock[s], Holders(s)>>
<1> DEFINE Same == UNCHANGED <<lock[s], Holders(s)>>
<1> USE DEF IInv, TypeOK, TablesTyped, RequestsTyped, Holders, Holding
<1>1. ASSUME UNCHANGED <<lock, reqPc, reqSession>> PROVE Same
  BY <1>1
<1>2. ASSUME NEW r \in Reqs, NEW x \in Sessions, ReqAcquire(r, x)
      PROVE  Lease(s)!Enter(r) \/ Same
  <2>1. CASE x = s
    BY <1>2, <2>1 DEF ReqAcquire, Lease!Enter
  <2>2. CASE x # s
    BY <1>2, <2>2 DEF ReqAcquire
  <2> QED
    BY <2>1, <2>2
<1>3. ASSUME NEW r \in Reqs, NEW x \in Sessions, ReqAcquireFault(r, x)
      PROVE  Lease(s)!Leak(r) \/ Same
  BY <1>3 DEF ReqAcquireFault, Lease!Leak
<1>4. ASSUME NEW r \in Reqs, NEW pc, reqPc' = [reqPc EXCEPT ![r] = pc],
             UNCHANGED <<lock, reqSession>>, pc \in Holding <=> reqPc[r] \in Holding
      PROVE  Same
  BY <1>4
<1>5. ASSUME NEW r \in Reqs, ReqGetSession(r) \/ ReqCheckProcessing(r) PROVE Same
  BY <1>4, <1>5 DEF ReqGetSession, ReqCheckProcessing, Proceed, Refuse
<1>6. ASSUME NEW r \in Reqs, ReqCollect(r) \/ ReqInsertTask(r) PROVE Same
  BY <1>4, <1>6 DEF ReqCollect, ReqInsertTask, Proceed, Refuse
<1>7. ASSUME NEW r \in Reqs,
             ReqLinkMessages(r) \/ ReqMarkMessages(r) \/ ReqSpawn(r) \/ ReqFault(r)
      PROVE  Same
  BY <1>4, <1>7 DEF ReqLinkMessages, ReqMarkMessages, ReqSpawn, ReqFault, Refuse
<1>8. ASSUME NEW r \in Reqs, ReqRelease(r) PROVE Lease(s)!Release(r) \/ Same
  <2>1. CASE reqSession[r] = s
    BY <1>8, <2>1 DEF ReqRelease, Lease!Release
  <2>2. CASE reqSession[r] # s
    BY <1>8, <2>2 DEF ReqRelease
  <2> QED
    BY <2>1, <2>2
<1>9. ASSUME NEW r \in Reqs, ReqReleaseFault(r) PROVE Lease(s)!Leave({r})
  BY <1>9 DEF ReqReleaseFault, Refuse, Lease!Leave
<1>10. ASSUME NEW x \in Sessions, LockExpire(x) PROVE Lease(s)!Free \/ Same
  BY <1>10 DEF LockExpire, reqVars, Lease!Free
<1>11. ASSUME NEW R \in SUBSET Reqs, NEW T, Crash(R, T) PROVE Lease(s)!Leave(R)
  BY <1>11 DEF Crash, Lease!Leave
<1>12. ASSUME NEW t \in Tasks, RunStep(t) \/ RunSubscribe(t) \/ RunAgentCancelled(t) \/ RunFault(t)
       PROVE  UNCHANGED <<lock, reqPc, reqSession>>
  BY <1>12 DEF RunStep, RunEnter, RunSubscribe, RunReadUserMem, RunReadAgentMem, RunAgentFinish,
     RunAgentCancelled, RunNextSeq, Insert, InsertList, RunInsertUserMem, RunInsertAgentMem,
     RunInsertAgentMsgs, RunSetStatus, RunSetMessages, RunFailStatus, RunFailMessages,
     RunDeleteUserMem, RunDeleteAgentMem, RunDeleteAgentMsgs, RunFault, RunUnchanged, reqVars
<1>13. ASSUME NEW m \in Msgs, SendInsert(m) \/ \E x \in Sessions : SendReadSeq(m, x)
       PROVE  UNCHANGED <<lock, reqPc, reqSession>>
  BY <1>13 DEF SendInsert, SendReadSeq, reqVars
<1>14. ASSUME NEW c \in Cancels, CancelPublish(c) \/ \E t \in Tasks : CancelCheck(c, t)
       PROVE  UNCHANGED <<lock, reqPc, reqSession>>
  BY <1>14 DEF CancelPublish, CancelCheck, reqVars
<1>15. ASSUME NEW x \in Sessions, DeleteSession(x) PROVE UNCHANGED <<lock, reqPc, reqSession>>
  BY <1>15 DEF DeleteSession, reqVars
<1>16. CASE UNCHANGED vars
  BY <1>1, <1>16 DEF vars, reqVars
<1> QED
  BY <1>1, <1>2, <1>3, <1>5, <1>6, <1>7, <1>8, <1>9, <1>10, <1>11, <1>12, <1>13, <1>14,
     <1>15, <1>16 DEF Next, ReqStep, Lease!Next

\* The lock of every session is used within the contract that DistributedLock
\* is proved to keep (LockIsLease).
THEOREM LocksAreLeases == Spec => SessionLease
<1>1. Init => \A s \in Sessions : Lease(s)!Init
  BY DEF Init, Holders, Holding, Lease!Init
<1>2. IInv /\ [Next]_vars =>
        [\A s \in Sessions : Lease(s)!Next \/ UNCHANGED <<lock[s], Holders(s)>>]_vars
  BY LeaseStep
<1> QED
  BY <1>1, <1>2, IInvAlways, PTL DEF Spec, SessionLease

-----------------------------------------------------------------------------
(* The strengthenings, each a fact about one kind of row or place. *)

\* What the place of a request says of the task it created.
Before == {"idle", "get_session", "check", "collect", "insert"}
Marked(r) == reqPc[r] = "spawn" \/ (reqPc[r] = "release" /\ reqResp[r] = "none")
RequestOwns ==
    \A r \in Reqs :
        /\ reqPc[r] \in Before => reqTask[r] = None
        /\ reqPc[r] \in {"link", "mark", "spawn"} => reqTask[r] # None
        /\ reqPc[r] \in Before \cup {"link", "mark"} => reqResp[r] = "none"
        /\ Marked(r) => reqTask[r] # None
        /\ reqTask[r] # None =>
            /\ reqPend[r] # <<>>
            /\ reqSession[r] \in Sessions
            /\ taskStatus[reqTask[r]] # "absent"
            /\ taskSession[reqTask[r]] = reqSession[r]
        /\ reqPc[r] = "insert" => reqPend[r] # <<>>
OneRequestPerTask ==
    \A r, q \in Reqs : reqTask[r] # None /\ reqTask[r] = reqTask[q] => r = q
RunOwned ==
    \A t \in Tasks : runPc[t] # "none" =>
        \E r \in Reqs : reqTask[r] = t /\ reqPc[r] = "done" /\ runPend[t] = reqPend[r]

\* A row lives in a live session and refers to rows that exist.
MessagesLive ==
    \A m \in Msgs :
        /\ sendPc[m] # "done" => msgStatus[m] = "absent"
        /\ sendPc[m] # "idle" => msgSession[m] \in Sessions
        /\ MsgRow(m) => sessionState[msgSession[m]] = "live"
        /\ msgStatus[m] = "deleted" => sessionState[msgSession[m]] = "deleted"
TasksLive ==
    \A t \in Tasks :
        /\ taskStatus[t] # "absent" => taskSession[t] \in Sessions
        /\ TaskRow(t) => sessionState[taskSession[t]] = "live"
        /\ taskStatus[t] = "deleted" => sessionState[taskSession[t]] = "deleted"
        /\ taskStatus[t] = "absent" => runPc[t] = "none"
MemoriesLive ==
    /\ \A t \in agentMem \cup agentMsgs : TaskRow(t)
    /\ \A row \in userMem : row.task \in Tasks /\ TaskRow(row.task)

\* The batches: whose messages they hold, and why none is collected twice.
BatchesKnown ==
    \A r \in Reqs : \A m \in Msgs : InPend(m, reqPend[r]) =>
        /\ sendPc[m] = "done" /\ msgStatus[m] # "absent"
        /\ msgSession[m] = reqSession[r]
        /\ reqPc[r] \notin {"idle", "get_session", "check", "collect"}
        /\ reqTask[r] # None /\ msgStatus[m] = "waiting_agent_ack_user" =>
            /\ taskStatus[reqTask[r]] = "processing"
            /\ runPc[reqTask[r]] = "none"
            /\ ~ Marked(r)
NewBatchDisjoint ==
    \A r, q \in Reqs : reqPc[r] = "insert" /\ reqTask[q] # None
        => \A m \in Msgs : ~(InPend(m, reqPend[r]) /\ InPend(m, reqPend[q]))

\* Task ids are handed out in order, each when nothing of its session runs.
Succession ==
    \A t, u \in Tasks : t < u =>
        /\ taskStatus[t] = "absent" => taskStatus[u] = "absent"
        /\ taskStatus[u] # "absent" /\ taskSession[t] = taskSession[u]
           => taskStatus[t] # "processing"

\* What the place of a run says of its task's status and outcome.
Reading == {"enter", "read_user_mem", "read_agent_mem", "agent"}
Running == Reading \cup {"next_seq", "ins_user", "ins_agent", "ins_msgs", "set_status"}
RollingBack == {"x_msgs", "x_del_user", "x_del_agent", "x_del_msgs"}
StatusAt(t) ==
    /\ runPc[t] = "none" => taskStatus[t] \in {"absent", "processing", "deleted"}
    /\ runPc[t] \in Running => taskStatus[t] \in {"processing", "deleted"}
    /\ runPc[t] = "set_msgs" => taskStatus[t] \in {runOut[t], "deleted"}
    /\ runPc[t] = "x_status" => taskStatus[t] \in {"processing", "completed", "deleted"}
    /\ runPc[t] \in RollingBack => taskStatus[t] \in {"failed", "deleted"}
    /\ runPc[t] \in Reading \cup {"none"} => runOut[t] = "none"
    /\ runPc[t] \in RollingBack \cup {"x_status"} => runOut[t] # "cancelled"
    /\ taskStatus[t] \in {"completed", "cancelled"} => runOut[t] = taskStatus[t]
StatusAtPlace == \A t \in Tasks : StatusAt(t)

\* The notes of the runs, and the bound's counter.
NotesTyped ==
    /\ runSeq \in [Tasks -> Nat]
    /\ runSeen \in [Tasks -> SUBSET Tasks]
    /\ faults \in Nat
    /\ IsFiniteSet(userMem) /\ \A row \in userMem : row.seq \in Nat

\* User memory: rows are written once per task, numbered above all rows of
\* the session there are.
Unwritten == Reading \cup {"none", "next_seq", "ins_user"}
SeqsKnown ==
    /\ \A row \in userMem : runPc[row.task] \notin Unwritten
    /\ \A t \in Tasks : runPc[t] = "ins_user" /\ TaskRow(t) =>
        \A row \in MemOf(taskSession[t]) : row.seq < runSeq[t]

\* What the place of a run says of its memories and messages.
Recalls(t) == \E row \in userMem : row.task = t
MemKept(t)  == t \in agentMem <=> t \in runSaid
MsgsKept(t) == t \in agentMsgs <=> t \in runSaid
UserKept(t) == Recalls(t) /\ Remembered(t) = Batch(t)
Written(t) == UserKept(t) /\ MemKept(t) /\ MsgsKept(t)
Erased(t)  == ~ Recalls(t) /\ t \notin agentMem \cup agentMsgs
WrittenAt(t) ==
    /\ runPc[t] \in Unwritten \cup {"ins_agent"} => t \notin agentMem
    /\ runPc[t] \in Unwritten \cup {"ins_agent", "ins_msgs"} => t \notin agentMsgs
    /\ runPc[t] \in {"ins_agent", "ins_msgs", "set_status", "set_msgs"} => UserKept(t)
    /\ runPc[t] \in {"ins_msgs", "set_status", "set_msgs"} => MemKept(t)
    /\ runPc[t] \in {"set_status", "set_msgs"} => MsgsKept(t)
    /\ taskStatus[t] \in {"completed", "cancelled"} => Written(t)
ErasedAt(t) ==
    /\ runPc[t] \in {"x_del_user", "x_del_agent", "x_del_msgs"} => BatchStatus(t, "error")
    /\ runPc[t] \in {"x_del_agent", "x_del_msgs"} => ~ Recalls(t)
    /\ runPc[t] = "x_del_msgs" => t \notin agentMem

\* Without a fault no run fails, and what it read stays what is there to read.
Answered(t) == {u \in 1 .. t - 1 : /\ taskSession[u] = taskSession[t]
                                  /\ taskStatus[u] \in {"completed", "cancelled"}}
UndisturbedAt(t) ==
    faults = 0 =>
        /\ runPc[t] \notin RollingBack \cup {"x_status"}
        /\ taskStatus[t] # "failed"
        /\ t \in agentMem => Recalls(t)
        /\ runPc[t] \in {"read_agent_mem", "agent"} => runSeen[t] = Answered(t)

\* With one fault at most a run that fails gets through its handler.
EndedAt(t) ==
    faults <= 1 /\ runPc[t] = "exited" =>
        /\ taskStatus[t] = "processing" => runOut[t] = "cancelled"
        /\ taskStatus[t] = "completed" => BatchStatus(t, "completed")
        /\ taskStatus[t] = "failed" => Erased(t) /\ BatchStatus(t, "error")

RecordsAt(t) == WrittenAt(t) /\ ErasedAt(t) /\ UndisturbedAt(t) /\ EndedAt(t)
TaskRecords == \A t \in Tasks : TaskRow(t) => RecordsAt(t)

\* The inductive invariant, in the order its parts are established.
Owned == RequestOwns /\ OneRequestPerTask /\ RunOwned
Live  == MessagesLive /\ TasksLive /\ MemoriesLive
Batches == BatchesKnown /\ NewBatchDisjoint /\ NoMessageTwice
Placed == Succession /\ StatusAtPlace
RInv == IInv /\ Owned /\ Live /\ Batches /\ Placed

\* The second one, on top of the first.
MInv == NotesTyped /\ SeqsKnown /\ MemoryOrdered /\ TaskRecords

-----------------------------------------------------------------------------
(* Who changes what: the steps by actor, and what each actor leaves alone. *)

SendStep(m) == SendInsert(m) \/ \E s \in Sessions : SendReadSeq(m, s)
RequestStep(r) ==
    \/ \E s \in Sessions : ReqAcquire(r, s) \/ ReqAcquireFault(r, s)
    \/ ReqStep(r) \/ ReqFault(r) \/ ReqReleaseFault(r)
TaskStep(t) == RunStep(t) \/ RunSubscribe(t) \/ RunAgentCancelled(t) \/ RunFault(t)
CancelStep(c) == CancelPublish(c) \/ \E t \in Tasks : CancelCheck(c, t)

LEMMA SendFrame ==
    ASSUME NEW m \in Msgs, SendStep(m)
    PROVE  /\ UNCHANGED <<taskStatus, taskSession, userMem, agentMem, agentMsgs>>
           /\ UNCHANGED <<reqPc, reqSession, reqPend, reqTask, reqResp>>
           /\ UNCHANGED <<runPc, runPend, runSeen, runSeq, runOut, runSaid, faults>>
BY DEF SendStep, SendInsert, SendReadSeq, taskTable, memory, reqVars, runVars, bounds

LEMMA RequestFrame ==
    ASSUME NEW r \in Reqs, RequestStep(r)
    PROVE  /\ UNCHANGED <<sessionState, sendPc, msgSession, userMem, agentMem, agentMsgs>>
           /\ UNCHANGED <<runSeen, runSeq, runOut, runSaid>>
BY DEF RequestStep, ReqStep, ReqAcquire, ReqAcquireFault, ReqGetSession, ReqCheckProcessing,
   ReqCollect, ReqInsertTask, ReqLinkMessages, ReqMarkMessages, ReqRelease, ReqSpawn, ReqFault,
   ReqReleaseFault, ReqUnchanged, msgTable, memory, runVars

LEMMA TaskFrame ==
    ASSUME NEW t \in Tasks, TaskStep(t)
    PROVE  /\ UNCHANGED <<sessionState, sendPc, msgSession, taskSession, runPend>>
           /\ UNCHANGED <<reqPc, reqSession, reqPend, reqTask, reqResp>>
BY DEF TaskStep, RunStep, RunEnter, RunSubscribe, RunReadUserMem, RunReadAgentMem, RunAgentFinish,
   RunAgentCancelled, RunNextSeq, Insert, InsertList, RunInsertUserMem, RunInsertAgentMem,
   RunInsertAgentMsgs, RunSetStatus, RunSetMessages, RunFailStatus, RunFailMessages,
   RunDeleteUserMem, RunDeleteAgentMem, RunDeleteAgentMsgs, RunFault, RunUnchanged,
   msgTable, taskTable, reqVars, runVars

LEMMA ExpireFrame ==
    ASSUME NEW s \in Sessions, LockExpire(s)
    PROVE  UNCHANGED <<sessionState, msgTable, taskTable, memory, sendPc, reqVars, runVars, faults>>
BY DEF LockExpire, bounds

LEMMA CancelFrame ==
    ASSUME NEW c \in Cancels, CancelStep(c)
    PROVE  UNCHANGED <<sessionState, msgTable, taskTable, memory, sendPc, reqVars, runVars, faults>>
BY DEF CancelStep, CancelPublish, CancelCheck, bounds

LEMMA NextKinds ==
    ASSUME [Next]_vars
    PROVE  \/ \E m \in Msgs : SendStep(m)
           \/ \E r \in Reqs : RequestStep(r)
           \/ \E t \in Tasks : TaskStep(t)
           \/ \E s \in Sessions : DeleteSession(s)
           \/ \E R \in SUBSET Reqs, T \in SUBSET Tasks : Crash(R, T)
           \/ UNCHANGED <<sessionState, msgTable, taskTable, memory, sendPc, reqVars, runVars, faults>>
<1>1. CASE UNCHANGED vars
  BY <1>1 DEF vars, bounds
<1>2. ASSUME NEW c \in Cancels, CancelPublish(c) \/ \E t \in Tasks : CancelCheck(c, t)
      PROVE  CancelStep(c)
  BY <1>2 DEF CancelStep
<1> QED
  BY <1>1, <1>2, ExpireFrame, CancelFrame DEF Next, SendStep, RequestStep, TaskStep

-----------------------------------------------------------------------------
(* Rows and the session they live in. *)

\* update_user_message_status_by_ids neither makes nor destroys a row.
RowsRestamped ==
    \A m \in Msgs :
        \/ msgStatus'[m] = msgStatus[m]
        \/ MsgRow(m) /\ msgStatus'[m] \in {"agent_working_for_user", "completed", "error"}

LEMMA RestampedByRequest ==
    ASSUME TypeOK, NEW r \in Reqs, RequestStep(r) PROVE RowsRestamped
<1>1. CASE UNCHANGED msgStatus
  BY <1>1 DEF RowsRestamped
<1>2. CASE ReqMarkMessages(r)
  BY <1>2 DEF ReqMarkMessages, SetStatus, RowsRestamped
<1> QED
  BY <1>1, <1>2 DEF RequestStep, ReqStep, ReqAcquire, ReqAcquireFault, ReqGetSession,
     ReqCheckProcessing, ReqCollect, ReqInsertTask, ReqLinkMessages, ReqRelease, ReqSpawn,
     ReqFault, ReqReleaseFault, msgTable

LEMMA RestampedByTask ==
    ASSUME TypeOK, NEW t \in Tasks, TaskStep(t) PROVE RowsRestamped
<1>1. CASE UNCHANGED msgStatus
  BY <1>1 DEF RowsRestamped
<1>2. CASE RunSetMessages(t) \/ RunFailMessages(t)
  BY <1>2 DEF RunSetMessages, RunFailMessages, SetStatus, RowsRestamped
<1> QED
  BY <1>1, <1>2 DEF TaskStep, RunStep, RunEnter, RunSubscribe, RunReadUserMem, RunReadAgentMem,
     RunAgentFinish, RunAgentCancelled, RunNextSeq, Insert, InsertList, RunInsertUserMem,
     RunInsertAgentMem,
     RunInsertAgentMsgs, RunSetStatus, RunFailStatus, RunDeleteUserMem, RunDeleteAgentMem,
     RunDeleteAgentMsgs, RunFault, msgTable

LEMMA MessagesLiveStep == TypeOK /\ MessagesLive /\ [Next]_vars => MessagesLive'
<1> SUFFICES ASSUME TypeOK, MessagesLive, [Next]_vars PROVE MessagesLive'
  OBVIOUS
<1> USE DEF TypeOK, TablesTyped, CallersTyped, MessagesLive, MsgRow
<1>1. ASSUME NEW m \in Msgs, NEW s \in Sessions, SendReadSeq(m, s) PROVE MessagesLive'
  BY <1>1 DEF SendReadSeq
<1>2. ASSUME NEW m \in Msgs, SendInsert(m) PROVE MessagesLive'
  BY <1>2 DEF SendInsert
<1>3. CASE RowsRestamped /\ UNCHANGED <<sessionState, sendPc, msgSession>>
  BY <1>3 DEF RowsRestamped
<1>4. ASSUME NEW s \in Sessions, DeleteSession(s) PROVE MessagesLive'
  BY <1>4 DEF DeleteSession
<1>5. ASSUME NEW R, NEW T, Crash(R, T) PROVE MessagesLive'
  BY <1>5 DEF Crash, msgTable
<1>6. CASE UNCHANGED <<sessionState, msgTable, sendPc>>
  BY <1>6 DEF msgTable
<1> QED
  BY <1>1, <1>2, <1>3, <1>4, <1>5, <1>6, NextKinds, RequestFrame, TaskFrame, RestampedByRequest,
     RestampedByTask DEF SendStep

\* A run touches its own task only, and its status only while the row exists.
LEMMA TaskTouches ==
    ASSUME IInv, NEW t \in Tasks, TaskStep(t)
    PROVE  /\ runPc[t] # "none" /\ runPc'[t] # "none"
           /\ \A u \in Tasks \ {t} : runPc'[u] = runPc[u] /\ taskStatus'[u] = taskStatus[u]
           /\ \/ taskStatus'[t] = taskStatus[t]
              \/ /\ TaskRow(t)
                 /\ taskStatus'[t] \in {"completed", "failed", "cancelled"}
<1> USE DEF IInv, TypeOK, TablesTyped, RunsTyped
<1>1. CASE UNCHANGED taskStatus
  <2>1. ASSUME NEW pc, Advance(t, pc), runPc[t] # "none", pc # "none"
        PROVE  /\ runPc[t] # "none" /\ runPc'[t] # "none"
               /\ \A u \in Tasks \ {t} : runPc'[u] = runPc[u]
    BY <2>1 DEF Advance
  <2>2. runPc[t] # "none" /\ ((\E pc : pc # "none" /\ Advance(t, pc)) \/ UNCHANGED runPc)
    <3>1. CASE RunSubscribe(t) \/ RunAgentCancelled(t) \/ RunFault(t)
      BY <3>1 DEF RunSubscribe, RunAgentCancelled, RunFault, Raise, runVars
    <3>2. CASE RunStep(t)
      BY <3>2 DEF RunStep, RunEnter, RunReadUserMem, RunReadAgentMem, RunAgentFinish,
         RunNextSeq, Insert, InsertList, RunInsertUserMem, RunInsertAgentMem, RunInsertAgentMsgs,
         RunSetStatus, RunSetMessages, RunFailStatus, RunFailMessages, RunDeleteUserMem,
         RunDeleteAgentMem, RunDeleteAgentMsgs, Raise
    <3> QED
      BY <3>1, <3>2 DEF TaskStep
  <2> QED
    BY <1>1, <2>1, <2>2
<1>2. CASE RunSetStatus(t)
  BY <1>2 DEF RunSetStatus, SetTaskStatus, Advance, OutcomeKnown, AfterAgent
<1>3. CASE RunFailStatus(t)
  BY <1>3 DEF RunFailStatus, SetTaskStatus, Advance
<1> QED
  BY <1>1, <1>2, <1>3 DEF TaskStep, RunStep, RunEnter, RunSubscribe, RunReadUserMem,
     RunReadAgentMem, RunAgentFinish, RunAgentCancelled, RunNextSeq, Insert, InsertList,
     RunInsertUserMem,
     RunInsertAgentMem, RunInsertAgentMsgs, RunSetMessages, RunFailMessages, RunDeleteUserMem,
     RunDeleteAgentMem, RunDeleteAgentMsgs, RunFault, taskTable

\* A request touches the task table only to insert its task, and a run only to
\* spawn it.
Creates(r, t) ==
    /\ reqPc[r] = "insert"
    /\ sessionState[reqSession[r]] = "live"
    /\ taskStatus[t] = "absent"
    /\ \A u \in 1 .. t - 1 : taskStatus[u] # "absent"
    /\ taskStatus' = [taskStatus EXCEPT ![t] = "processing"]
    /\ taskSession' = [taskSession EXCEPT ![t] = reqSession[r]]
    /\ reqTask' = [reqTask EXCEPT ![r] = t]
    /\ reqPc' = [reqPc EXCEPT ![r] = "link"]
    /\ UNCHANGED <<reqResp, reqSession, reqPend, msgTable, runPc, runPend>>

LEMMA RequestTouches ==
    ASSUME NEW r \in Reqs, RequestStep(r)
    PROVE  \/ \E t \in Tasks : Creates(r, t)
           \/ ReqSpawn(r)
           \/ UNCHANGED <<taskStatus, taskSession, reqTask, runPc, runPend>>
<1>1. CASE ReqInsertTask(r)
  BY <1>1 DEF ReqInsertTask, Creates, Proceed, ReqUnchanged, taskTable, runVars
<1> QED
  BY <1>1 DEF RequestStep, ReqStep, ReqAcquire, ReqAcquireFault, ReqGetSession, ReqCheckProcessing,
     ReqCollect, ReqLinkMessages, ReqMarkMessages, ReqRelease, ReqFault, ReqReleaseFault,
     ReqUnchanged, taskTable, runVars

LEMMA TasksLiveStep == IInv /\ RequestOwns /\ TasksLive /\ [Next]_vars => TasksLive'
<1> SUFFICES ASSUME IInv, RequestOwns, TasksLive, [Next]_vars PROVE TasksLive'
  OBVIOUS
<1> USE DEF IInv, TypeOK, TablesTyped, RequestsTyped, RunsTyped, TasksLive, TaskRow
<1>1. ASSUME NEW m \in Msgs, SendStep(m) PROVE TasksLive'
  <2>1. sessionState' = sessionState \/ \E s \in Sessions :
            /\ sessionState[s] \in {"absent", "live"}
            /\ sessionState' = [sessionState EXCEPT ![s] = "live"]
    BY <1>1 DEF SendStep, SendInsert, SendReadSeq
  <2> QED
    BY <1>1, <2>1, SendFrame
<1>2. ASSUME NEW r \in Reqs, NEW t \in Tasks, Creates(r, t), UNCHANGED sessionState
      PROVE  TasksLive'
  <2>1. reqSession[r] \in Sessions
    BY <1>2 DEF Creates, SessionKnown, Holding
  <2> QED
    BY <1>2, <2>1 DEF Creates
<1>3. ASSUME NEW r \in Reqs, ReqSpawn(r) PROVE TasksLive'
  <2>1. reqTask[r] \in Tasks /\ taskStatus[reqTask[r]] # "absent"
    BY <1>3 DEF ReqSpawn, RequestOwns
  <2> QED
    BY <1>3, <2>1 DEF ReqSpawn, taskTable
<1>4. ASSUME NEW t \in Tasks, TaskStep(t) PROVE TasksLive'
  <2>1. /\ runPc[t] # "none" /\ runPc'[t] # "none"
        /\ \A u \in Tasks \ {t} : runPc'[u] = runPc[u] /\ taskStatus'[u] = taskStatus[u]
        /\ \/ taskStatus'[t] = taskStatus[t]
           \/ TaskRow(t) /\ taskStatus'[t] \in {"completed", "failed", "cancelled"}
    BY <1>4, TaskTouches
  <2>2. UNCHANGED <<sessionState, taskSession>>
    BY <1>4, TaskFrame
  <2> QED
    BY <2>1, <2>2
<1>5. ASSUME NEW s \in Sessions, DeleteSession(s) PROVE TasksLive'
  BY <1>5 DEF DeleteSession, runVars
<1>6. ASSUME NEW R \in SUBSET Reqs, NEW T \in SUBSET Tasks, Crash(R, T) PROVE TasksLive'
  BY <1>6 DEF Crash, taskTable
<1>7. CASE UNCHANGED <<sessionState, taskStatus, taskSession, runPc>>
  BY <1>7
<1>8. ASSUME NEW r \in Reqs, RequestStep(r) PROVE TasksLive'
  BY <1>2, <1>3, <1>7, <1>8, RequestFrame, RequestTouches
<1> HIDE DEF IInv, TasksLive
<1> QED
  BY <1>1, <1>4, <1>5, <1>6, <1>7, <1>8, NextKinds DEF taskTable, runVars

\* A run writes memories of its own task only, and only while the row exists.
LEMMA TaskWrites ==
    ASSUME TasksLive, NEW t \in Tasks, TaskStep(t)
    PROVE  /\ \A u \in agentMem' \cup agentMsgs' :
                  u \in agentMem \cup agentMsgs \/ (u = t /\ TaskRow(t))
           /\ \A row \in userMem' : row \in userMem \/ (row.task = t /\ TaskRow(t))
<1>1. CASE UNCHANGED <<userMem, agentMem, agentMsgs>>
  BY <1>1
<1>2. sessionState[taskSession[t]] = "live" /\ runPc[t] # "none" => TaskRow(t)
  BY DEF TasksLive, TaskRow
<1>3. CASE RunInsertUserMem(t)
  BY <1>2, <1>3 DEF RunInsertUserMem, Insert, InsertList, memory
<1>4. CASE RunInsertAgentMem(t) \/ RunInsertAgentMsgs(t)
  BY <1>2, <1>4 DEF RunInsertAgentMem, RunInsertAgentMsgs, Insert, InsertList, memory
<1>5. CASE RunDeleteUserMem(t) \/ RunDeleteAgentMem(t) \/ RunDeleteAgentMsgs(t)
  BY <1>5 DEF RunDeleteUserMem, RunDeleteAgentMem, RunDeleteAgentMsgs
<1> QED
  BY <1>1, <1>3, <1>4, <1>5 DEF TaskStep, RunStep, RunEnter, RunSubscribe, RunReadUserMem,
     RunReadAgentMem, RunAgentFinish, RunAgentCancelled, RunNextSeq, RunSetStatus,
     RunSetMessages, RunFailStatus, RunFailMessages, RunFault, memory

LEMMA MemoriesLiveStep ==
    IInv /\ TasksLive /\ MemoriesLive /\ [Next]_vars => MemoriesLive'
<1> SUFFICES ASSUME IInv, TasksLive, MemoriesLive, [Next]_vars PROVE MemoriesLive'
  OBVIOUS
<1>1. ASSUME UNCHANGED <<userMem, agentMem, agentMsgs>>,
             \A t \in Tasks : TaskRow(t) => TaskRow(t)'
      PROVE  MemoriesLive'
  BY <1>1 DEF MemoriesLive, IInv, TypeOK, TablesTyped
<1>2. ASSUME NEW m \in Msgs, SendStep(m) PROVE MemoriesLive'
  BY <1>1, <1>2, SendFrame DEF TaskRow
<1>3. ASSUME NEW r \in Reqs, RequestStep(r) PROVE MemoriesLive'
  <2>1. \A t \in Tasks : TaskRow(t) => TaskRow(t)'
    BY <1>3, RequestTouches DEF Creates, ReqSpawn, taskTable, TaskRow, IInv, TypeOK, TablesTyped
  <2> QED
    BY <1>1, <1>3, <2>1, RequestFrame
<1>4. ASSUME NEW t \in Tasks, TaskStep(t) PROVE MemoriesLive'
  <2>1. \A u \in Tasks : TaskRow(u) => TaskRow(u)'
    BY <1>4, TaskTouches DEF TaskRow
  <2>2. /\ \A u \in agentMem' \cup agentMsgs' :
               u \in agentMem \cup agentMsgs \/ (u = t /\ TaskRow(t))
        /\ \A row \in userMem' : row \in userMem \/ (row.task = t /\ TaskRow(t))
    BY <1>4, TaskWrites
  <2> QED
    BY <2>1, <2>2 DEF MemoriesLive, IInv, TypeOK, TablesTyped
<1>5. ASSUME NEW s \in Sessions, DeleteSession(s) PROVE MemoriesLive'
  BY <1>5 DEF DeleteSession, MemoriesLive, MemOf, TaskRow, IInv, TypeOK, TablesTyped
<1>6. CASE UNCHANGED <<taskTable, memory>>
  BY <1>1, <1>6 DEF taskTable, memory, TaskRow
<1> QED
  BY <1>2, <1>3, <1>4, <1>5, <1>6, NextKinds DEF Crash

\* Init establishes the parts about live rows, the steps keep them.
LEMMA InitLive == Init => Live
BY DEF Init, Live, MessagesLive, TasksLive, MemoriesLive, MsgRow, TaskRow

-----------------------------------------------------------------------------
(* Requests, the tasks they create, and the runs of these tasks. *)

LEMMA InitOwned == Init => Owned
BY DEF Init, Owned, RequestOwns, OneRequestPerTask, RunOwned, Before, Marked

\* A task once created keeps its session and never becomes absent again.
LEMMA CreatedForGood ==
    ASSUME IInv, [Next]_vars, NEW t \in Tasks, taskStatus[t] # "absent"
    PROVE  taskStatus'[t] # "absent" /\ taskSession'[t] = taskSession[t]
<1> USE DEF IInv, TypeOK, TablesTyped
<1>1. ASSUME NEW m \in Msgs, SendStep(m) PROVE UNCHANGED <<taskStatus, taskSession>>
  BY <1>1, SendFrame
<1>2. ASSUME NEW r \in Reqs, RequestStep(r)
      PROVE  taskStatus'[t] # "absent" /\ taskSession'[t] = taskSession[t]
  BY <1>2, RequestTouches DEF Creates, ReqSpawn, taskTable
<1>3. ASSUME NEW u \in Tasks, TaskStep(u)
      PROVE  taskStatus'[t] # "absent" /\ taskSession'[t] = taskSession[t]
  BY <1>3, TaskTouches, TaskFrame DEF TaskRow
<1>4. ASSUME NEW s \in Sessions, DeleteSession(s)
      PROVE  taskStatus'[t] # "absent" /\ taskSession'[t] = taskSession[t]
  BY <1>4 DEF DeleteSession, TaskRow
<1> QED
  BY <1>1, <1>2, <1>3, <1>4, NextKinds DEF Crash, taskTable

LEMMA RequestOwnsStep == IInv /\ RequestOwns /\ [Next]_vars => RequestOwns'
<1> SUFFICES ASSUME IInv, RequestOwns, [Next]_vars PROVE RequestOwns'
  OBVIOUS
<1> USE DEF IInv, TypeOK, TablesTyped, RequestsTyped, RequestOwns, Before, Marked
<1>0. \A t \in Tasks : taskStatus[t] # "absent" =>
          taskStatus'[t] # "absent" /\ taskSession'[t] = taskSession[t]
  BY CreatedForGood
<1>1. ASSUME UNCHANGED <<reqPc, reqSession, reqPend, reqTask, reqResp>> PROVE RequestOwns'
  BY <1>0, <1>1
<1>2. ASSUME NEW r \in Reqs, NEW s \in Sessions, ReqAcquire(r, s) \/ ReqAcquireFault(r, s)
      PROVE  RequestOwns'
  BY <1>0, <1>2 DEF ReqAcquire, ReqAcquireFault, ReqUnchanged
<1>3. ASSUME NEW r \in Reqs, ReqGetSession(r) \/ ReqCheckProcessing(r) PROVE RequestOwns'
  BY <1>0, <1>3 DEF ReqGetSession, ReqCheckProcessing, Proceed, Refuse
<1>4. ASSUME NEW r \in Reqs, ReqCollect(r) PROVE RequestOwns'
  BY <1>0, <1>4 DEF ReqCollect, Proceed, Refuse
<1>5. ASSUME NEW r \in Reqs, ReqInsertTask(r) PROVE RequestOwns'
  <2>1. reqSession[r] \in Sessions
    BY <1>5 DEF ReqInsertTask, SessionKnown, Holding
  <2>2. CASE Refuse(r, "500") /\ UNCHANGED <<reqSession, reqPend, reqTask>>
    BY <1>0, <1>5, <2>2 DEF Refuse, ReqInsertTask
  <2>3. ASSUME NEW t \in Tasks, Creates(r, t) PROVE RequestOwns'
    BY <1>0, <2>1, <2>3, SessionTaskAssumption DEF Creates, Tasks
  <2> QED
    BY <1>5, <2>2, <2>3 DEF ReqInsertTask, Creates, Proceed, ReqUnchanged, runVars
<1>6. ASSUME NEW r \in Reqs, ReqLinkMessages(r) \/ ReqMarkMessages(r) PROVE RequestOwns'
  BY <1>0, <1>6 DEF ReqLinkMessages, ReqMarkMessages
<1>7. ASSUME NEW r \in Reqs, ReqRelease(r) \/ ReqSpawn(r) PROVE RequestOwns'
  BY <1>0, <1>7 DEF ReqRelease, ReqSpawn
<1>8. ASSUME NEW r \in Reqs, ReqFault(r) \/ ReqReleaseFault(r) PROVE RequestOwns'
  BY <1>0, <1>8 DEF ReqFault, ReqReleaseFault, Refuse
<1>9. ASSUME NEW R \in SUBSET Reqs, NEW T \in SUBSET Tasks, Crash(R, T) PROVE RequestOwns'
  BY <1>0, <1>9 DEF Crash
<1>10. ASSUME NEW r \in Reqs, RequestStep(r) PROVE RequestOwns'
  BY <1>2, <1>3, <1>4, <1>5, <1>6, <1>7, <1>8, <1>10 DEF RequestStep, ReqStep
<1> HIDE DEF IInv, RequestOwns
<1> QED
  BY <1>1, <1>9, <1>10, NextKinds, SendFrame, TaskFrame DEF DeleteSession, reqVars

LEMMA OneRequestStep ==
    IInv /\ RequestOwns /\ OneRequestPerTask /\ [Next]_vars => OneRequestPerTask'
<1> SUFFICES ASSUME IInv, RequestOwns, OneRequestPerTask, [Next]_vars PROVE OneRequestPerTask'
  OBVIOUS
<1>1. CASE UNCHANGED reqTask
  BY <1>1 DEF OneRequestPerTask
<1>2. ASSUME NEW r \in Reqs, NEW t \in Tasks, Creates(r, t) PROVE OneRequestPerTask'
  <2>1. \A q \in Reqs : reqTask[q] # t
    BY <1>2, SessionTaskAssumption DEF Creates, RequestOwns, Tasks
  <2> QED
    BY <1>2, <2>1 DEF Creates, OneRequestPerTask, IInv, TypeOK, RequestsTyped
<1> QED
  BY <1>1, <1>2, NextKinds, RequestTouches, SendFrame, TaskFrame
     DEF ReqSpawn, DeleteSession, Crash, reqVars

LEMMA RunOwnedStep ==
    IInv /\ Owned /\ TasksLive /\ [Next]_vars => RunOwned'
<1> SUFFICES ASSUME IInv, Owned, TasksLive, [Next]_vars PROVE RunOwned'
  OBVIOUS
<1> USE DEF IInv, TypeOK, RequestsTyped, RunsTyped, RunOwned, Owned
<1>1. ASSUME UNCHANGED <<runPend, reqTask, reqPc, reqPend>>,
             \A t \in Tasks : runPc'[t] # "none" => runPc[t] # "none"
      PROVE  RunOwned'
  BY <1>1
<1>2. ASSUME NEW r \in Reqs, UNCHANGED <<runPc, runPend>>, reqPc[r] # "done",
             \A q \in Reqs \ {r} : /\ reqPc'[q] = reqPc[q] /\ reqTask'[q] = reqTask[q]
                                   /\ reqPend'[q] = reqPend[q]
      PROVE  RunOwned'
  <2> SUFFICES ASSUME NEW t \in Tasks, runPc'[t] # "none"
               PROVE  \E q \in Reqs : reqTask'[q] = t /\ reqPc'[q] = "done"
                                      /\ runPend'[t] = reqPend'[q]
    OBVIOUS
  <2>1. PICK q \in Reqs : reqTask[q] = t /\ reqPc[q] = "done" /\ runPend[t] = reqPend[q]
    BY <1>2
  <2> QED
    BY <1>2, <2>1
<1>3. ASSUME NEW r \in Reqs, ReqSpawn(r) PROVE RunOwned'
  <2>1. reqTask[r] \in Tasks /\ reqPc[r] = "spawn" /\ runPc[reqTask[r]] = "none"
    BY <1>3 DEF ReqSpawn, RequestOwns, OneRequestPerTask
  <2> QED
    BY <1>3, <2>1 DEF ReqSpawn
<1>4. ASSUME NEW r \in Reqs, RequestStep(r) PROVE RunOwned'
  <2>1. CASE ReqSpawn(r)
    BY <1>3, <2>1
  <2>2. CASE ~ ReqSpawn(r)
    <3>1. UNCHANGED <<runPc, runPend>> /\ reqPc[r] # "done"
      BY <1>4, <2>2 DEF RequestStep, ReqStep, ReqAcquire, ReqAcquireFault, ReqGetSession,
         ReqCheckProcessing, ReqCollect, ReqInsertTask, ReqLinkMessages, ReqMarkMessages,
         ReqRelease, ReqFault, ReqReleaseFault, ReqUnchanged, runVars
    <3>2. \A q \in Reqs \ {r} : /\ reqPc'[q] = reqPc[q] /\ reqTask'[q] = reqTask[q]
                                /\ reqPend'[q] = reqPend[q]
      BY <1>4, <2>2 DEF RequestStep, ReqStep, ReqAcquire, ReqAcquireFault, ReqGetSession,
         ReqCheckProcessing, ReqCollect, ReqInsertTask, ReqLinkMessages, ReqMarkMessages,
         ReqRelease, ReqFault, ReqReleaseFault, Proceed, Refuse
    <3> QED
      BY <1>2, <1>4, <3>1, <3>2
  <2> QED
    BY <2>1, <2>2
<1>5. ASSUME NEW t \in Tasks, TaskStep(t) PROVE RunOwned'
  <2>1. \A u \in Tasks : runPc'[u] # "none" => runPc[u] # "none"
    BY <1>5, TaskTouches
  <2> QED
    BY <1>1, <1>5, <2>1, TaskFrame
<1>6. ASSUME NEW R \in SUBSET Reqs, NEW T \in SUBSET Tasks, Crash(R, T) PROVE RunOwned'
  BY <1>6 DEF Crash
<1>7. CASE UNCHANGED <<reqVars, runVars>>
  BY <1>1, <1>7 DEF reqVars, runVars
<1>8. ASSUME NEW m \in Msgs, SendStep(m) PROVE RunOwned'
  BY <1>1, <1>8, SendFrame
<1> HIDE DEF IInv, RunOwned
<1> QED
  BY <1>4, <1>5, <1>6, <1>7, <1>8, NextKinds DEF DeleteSession

LEMMA OwnedStep == IInv /\ Owned /\ TasksLive /\ [Next]_vars => Owned'
BY RequestOwnsStep, OneRequestStep, RunOwnedStep DEF Owned

-----------------------------------------------------------------------------
(* Batches: a message that waits again is the business of the task that     *)
(* already has it, and that task keeps its session from taking another.     *)

LEMMA InitBatches == Init => Batches
BY DEF Init, Batches, BatchesKnown, NewBatchDisjoint, NoMessageTwice, InPend

\* A message of a batch that waits was waiting before.
LEMMA BatchesKept ==
    ASSUME IInv, BatchesKnown,
           UNCHANGED <<reqPend, reqSession, reqTask, sendPc, msgSession>>,
           RowsRestamped,
           \A r \in Reqs : reqPc'[r] \in {"idle", "get_session", "check", "collect"}
                           => reqPc[r] \in {"idle", "get_session", "check", "collect"},
           \A r \in Reqs : Marked(r)' => Marked(r),
           \A t \in Tasks : runPc[t] = "none" =>
               runPc'[t] = "none" /\ (taskStatus[t] = "processing" => taskStatus'[t] = "processing")
    PROVE  BatchesKnown'
<1> SUFFICES ASSUME NEW r \in Reqs, NEW m \in Msgs, InPend(m, reqPend[r])
             PROVE  /\ sendPc'[m] = "done" /\ msgStatus'[m] # "absent"
                    /\ msgSession'[m] = reqSession'[r]
                    /\ reqPc'[r] \notin {"idle", "get_session", "check", "collect"}
                    /\ reqTask'[r] # None /\ msgStatus'[m] = "waiting_agent_ack_user" =>
                        /\ taskStatus'[reqTask'[r]] = "processing"
                        /\ runPc'[reqTask'[r]] = "none"
                        /\ ~ Marked(r)'
  BY DEF BatchesKnown, InPend
<1>1. msgStatus'[m] # "absent" /\ (msgStatus'[m] = "waiting_agent_ack_user" => msgStatus'[m] = msgStatus[m])
  BY DEF BatchesKnown, RowsRestamped
<1> QED
  BY <1>1 DEF BatchesKnown, IInv, TypeOK, RequestsTyped

\* The messages of a listing are the ones it lists.
LEMMA ListedWaits ==
    ASSUME NEW s, NEW p \in Listings(Waiting(s)), NEW m \in Msgs, InPend(m, p)
    PROVE  m \in Waiting(s)
<1> DEFINE W == Waiting(s)
<1>1. p \in [1 .. Cardinality(W) -> W]
  BY DEF Listings
<1> HIDE DEF W
<1>2. \A i \in DOMAIN p : p[i] \in W
  BY <1>1
<1> QED
  BY <1>2 DEF InPend, W

LEMMA BatchesKnownStep ==
    IInv /\ Owned /\ Live /\ BatchesKnown /\ [Next]_vars => BatchesKnown'
<1> SUFFICES ASSUME IInv, Owned, Live, BatchesKnown, [Next]_vars PROVE BatchesKnown'
  OBVIOUS
<1> USE DEF IInv, TypeOK, TablesTyped, RequestsTyped, RunsTyped, CallersTyped
<1>1. ASSUME NEW m \in Msgs, SendStep(m) PROVE BatchesKnown'
  <2>1. \A r \in Reqs : \A x \in Msgs : InPend(x, reqPend[r]) =>
            sendPc'[x] = "done" /\ msgStatus'[x] = msgStatus[x] /\ msgSession'[x] = msgSession[x]
    BY <1>1 DEF SendStep, SendReadSeq, SendInsert, BatchesKnown
  <2>2. UNCHANGED <<reqPc, reqSession, reqPend, reqTask, reqResp, taskStatus, runPc>>
    BY <1>1, SendFrame
  <2> QED
    BY <2>1, <2>2 DEF BatchesKnown, Marked, InPend
<1>2. ASSUME NEW r \in Reqs, NEW s \in Sessions, ReqAcquire(r, s) \/ ReqAcquireFault(r, s)
      PROVE  BatchesKnown'
  <2>1. \A m \in Msgs : ~ InPend(m, reqPend[r])
    BY <1>2 DEF ReqAcquire, ReqAcquireFault, BatchesKnown
  <2>2. UNCHANGED <<reqPend, reqTask, sendPc, msgStatus, msgSession, taskStatus, runPc>>
    BY <1>2 DEF ReqAcquire, ReqAcquireFault, ReqUnchanged, msgTable, taskTable, runVars
  <2>3. \A q \in Reqs \ {r} :
            reqPc'[q] = reqPc[q] /\ reqSession'[q] = reqSession[q] /\ reqResp'[q] = reqResp[q]
    BY <1>2 DEF ReqAcquire, ReqAcquireFault
  <2> QED
    BY <2>1, <2>2, <2>3 DEF BatchesKnown, Marked, InPend
<1>3. ASSUME NEW r \in Reqs,
             \/ ReqGetSession(r) \/ ReqCheckProcessing(r) \/ ReqLinkMessages(r) \/ ReqRelease(r)
             \/ ReqFault(r) \/ ReqReleaseFault(r)
      PROVE  BatchesKnown'
  <2>1. /\ UNCHANGED <<reqPend, reqSession, reqTask, sendPc, msgStatus, msgSession, taskStatus, runPc>>
        /\ \A q \in Reqs \ {r} : reqPc'[q] = reqPc[q] /\ reqResp'[q] = reqResp[q]
    BY <1>3 DEF ReqGetSession, ReqCheckProcessing, ReqLinkMessages, ReqRelease, ReqFault,
       ReqReleaseFault, Proceed, Refuse, ReqUnchanged, msgTable, taskTable, runVars
  <2>2. /\ reqPc'[r] \in {"get_session", "check", "collect"} =>
               reqPc[r] \in {"get_session", "check", "collect"}
        /\ reqPc'[r] # "idle"
        /\ Marked(r)' => Marked(r)
    BY <1>3 DEF ReqGetSession, ReqCheckProcessing, ReqLinkMessages, ReqRelease, ReqFault,
       ReqReleaseFault, Proceed, Refuse, Marked
  <2>3. RowsRestamped
    BY <2>1 DEF RowsRestamped
  <2>4. \A q \in Reqs : Marked(q)' => Marked(q)
    BY <2>1, <2>2 DEF Marked
  <2> QED
    BY <2>1, <2>2, <2>3, <2>4, BatchesKept
<1>4. ASSUME NEW r \in Reqs, ReqCollect(r) PROVE BatchesKnown'
  <2>1. PICK p \in Listings(Waiting(reqSession[r])) : reqPend' = [reqPend EXCEPT ![r] = p]
    BY <1>4 DEF ReqCollect
  <2>2. \A m \in Msgs : InPend(m, p) => m \in Waiting(reqSession[r])
    BY <2>1, ListedWaits
  <2>3. \A m \in Msgs : InPend(m, p) =>
            sendPc[m] = "done" /\ msgStatus[m] # "absent" /\ msgSession[m] = reqSession[r]
    BY <2>2 DEF Waiting, Live, MessagesLive
  <2>4. /\ UNCHANGED <<reqSession, reqTask, sendPc, msgStatus, msgSession, taskStatus, runPc>>
        /\ reqTask[r] = None
        /\ reqPc'[r] \in {"insert", "release"}
        /\ \A q \in Reqs \ {r} : reqPc'[q] = reqPc[q] /\ reqResp'[q] = reqResp[q]
    BY <1>4 DEF ReqCollect, Proceed, Refuse, ReqUnchanged, msgTable, taskTable, runVars, Owned,
       RequestOwns, Before
  <2>5. \A m \in Msgs, q \in Reqs \ {r} : InPend(m, reqPend[q])' => InPend(m, reqPend[q])
    BY <2>1 DEF InPend
  <2>6. \A m \in Msgs : InPend(m, reqPend[r])' => InPend(m, p)
    BY <2>1 DEF InPend
  <2> QED
    BY <2>3, <2>4, <2>5, <2>6 DEF BatchesKnown, Marked
<1>5. ASSUME NEW r \in Reqs, NEW t \in Tasks, Creates(r, t), UNCHANGED <<sendPc>>
      PROVE  BatchesKnown'
  <2>1. runPc[t] = "none" /\ reqTask[r] = None
    BY <1>5 DEF Creates, Live, TasksLive, Owned, RequestOwns, Before
  <2>2. \A q \in Reqs : q # r /\ reqTask[q] # None => reqTask[q] # t
    BY <1>5 DEF Creates, Owned, RequestOwns
  <2> QED
    BY <1>5, <2>1, <2>2, SessionTaskAssumption DEF Creates, msgTable, BatchesKnown, Marked, InPend,
       Tasks
<1>6. ASSUME NEW r \in Reqs, ReqMarkMessages(r) PROVE BatchesKnown'
  <2>1. \A m \in Msgs : InPend(m, reqPend[r]) => msgStatus'[m] # "waiting_agent_ack_user"
    BY <1>6 DEF ReqMarkMessages, SetStatus, MsgRow
  <2>2. RowsRestamped
    BY <1>6, RestampedByRequest DEF RequestStep, ReqStep
  <2>3. /\ UNCHANGED <<reqPend, reqSession, reqTask, reqResp, sendPc, msgSession, taskStatus, runPc>>
        /\ reqPc[r] = "mark" /\ reqPc' = [reqPc EXCEPT ![r] = "release"]
    BY <1>6 DEF ReqMarkMessages, ReqUnchanged, taskTable, runVars
  <2>4. \A m \in Msgs : msgStatus'[m] \in {"absent", "waiting_agent_ack_user"}
                        => msgStatus'[m] = msgStatus[m]
    BY <2>2 DEF RowsRestamped
  <2>5. \A q \in Reqs \ {r} : reqPc'[q] = reqPc[q]
    BY <2>3
  <2>6. ASSUME NEW q \in Reqs \ {r}, NEW m \in Msgs, InPend(m, reqPend[q])
        PROVE  /\ sendPc'[m] = "done" /\ msgStatus'[m] # "absent"
               /\ msgSession'[m] = reqSession'[q]
               /\ reqPc'[q] \notin {"idle", "get_session", "check", "collect"}
               /\ reqTask'[q] # None /\ msgStatus'[m] = "waiting_agent_ack_user" =>
                   /\ taskStatus'[reqTask'[q]] = "processing"
                   /\ runPc'[reqTask'[q]] = "none"
                   /\ ~ Marked(q)'
    BY <2>3, <2>4, <2>5, <2>6 DEF BatchesKnown, Marked
  <2>7. ASSUME NEW m \in Msgs, InPend(m, reqPend[r])
        PROVE  /\ sendPc'[m] = "done" /\ msgStatus'[m] # "absent"
               /\ msgSession'[m] = reqSession'[r]
               /\ reqPc'[r] \notin {"idle", "get_session", "check", "collect"}
               /\ msgStatus'[m] # "waiting_agent_ack_user"
    BY <2>1, <2>3, <2>4, <2>7 DEF BatchesKnown
  <2> QED
    BY <2>3, <2>6, <2>7 DEF BatchesKnown, InPend
<1>7. ASSUME NEW r \in Reqs, ReqSpawn(r) PROVE BatchesKnown'
  <2>1. /\ Marked(r) /\ reqTask[r] \in Tasks
        /\ \A q \in Reqs : q # r /\ reqTask[q] # None => reqTask[q] # reqTask[r]
    BY <1>7 DEF ReqSpawn, Marked, Owned, RequestOwns, OneRequestPerTask
  <2> QED
    BY <1>7, <2>1 DEF ReqSpawn, msgTable, taskTable, BatchesKnown, Marked, InPend
<1>8. ASSUME NEW t \in Tasks, TaskStep(t) PROVE BatchesKnown'
  <2>1. \A u \in Tasks : runPc[u] = "none" =>
           runPc'[u] = "none" /\ taskStatus'[u] = taskStatus[u]
    BY <1>8, TaskTouches
  <2>2. RowsRestamped
    BY <1>8, RestampedByTask
  <2>3. UNCHANGED <<reqPend, reqSession, reqTask, reqPc, reqResp, sendPc, msgSession>>
    BY <1>8, TaskFrame
  <2> QED
    BY <2>1, <2>2, <2>3, BatchesKept DEF Marked
<1>9. ASSUME NEW s \in Sessions, DeleteSession(s) PROVE BatchesKnown'
  <2>1. /\ UNCHANGED <<reqPend, reqSession, reqTask, reqPc, reqResp, sendPc, msgSession, taskSession, runPc>>
        /\ \A m \in Msgs : /\ msgStatus'[m] = "absent" => msgStatus[m] = "absent"
                           /\ msgStatus'[m] = "waiting_agent_ack_user" =>
                                 msgStatus[m] = "waiting_agent_ack_user" /\ msgSession[m] # s
        /\ \A t \in Tasks : taskSession[t] # s => taskStatus'[t] = taskStatus[t]
    BY <1>9 DEF DeleteSession, reqVars, runVars, MsgRow
  <2> QED
    BY <2>1 DEF BatchesKnown, Marked, InPend, Owned, RequestOwns
<1>10. ASSUME NEW R \in SUBSET Reqs, NEW T \in SUBSET Tasks, Crash(R, T) PROVE BatchesKnown'
  <2>1. /\ RowsRestamped
        /\ UNCHANGED <<reqPend, reqSession, reqTask, reqResp, sendPc, msgSession, taskStatus>>
    BY <1>10 DEF Crash, RowsRestamped, msgTable, taskTable
  <2>2. /\ \A r \in Reqs : reqPc'[r] = reqPc[r] \/ reqPc'[r] = "dead"
        /\ \A t \in Tasks : runPc[t] = "none" => runPc'[t] = "none"
    BY <1>10 DEF Crash
  <2> QED
    BY <2>1, <2>2, BatchesKept DEF Marked
<1>11. CASE UNCHANGED <<sessionState, msgTable, taskTable, memory, sendPc, reqVars, runVars, faults>>
  BY <1>11, BatchesKept DEF msgTable, taskTable, reqVars, runVars, RowsRestamped, Marked
<1>12. ASSUME NEW r \in Reqs, RequestStep(r) PROVE BatchesKnown'
  <2>1. CASE ReqInsertTask(r)
    <3>1. CASE \E t \in Tasks : Creates(r, t)
      BY <1>5, <1>12, <3>1, RequestFrame
    <3>2. CASE ~ \E t \in Tasks : Creates(r, t)
      <4>1. /\ Refuse(r, "500")
            /\ UNCHANGED <<msgTable, taskTable, reqTask, reqSession, reqPend, runPc, sendPc>>
        BY <2>1, <3>2 DEF ReqInsertTask, Creates, Proceed, ReqUnchanged, runVars
      <4>2. \A q \in Reqs : Marked(q)' => Marked(q)
        BY <4>1 DEF Marked, Refuse
      <4> QED
        BY <4>1, <4>2, BatchesKept DEF Refuse, msgTable, taskTable, RowsRestamped
    <3> QED
      BY <3>1, <3>2
  <2> QED
    BY <1>2, <1>3, <1>4, <1>6, <1>7, <1>12, <2>1 DEF RequestStep, ReqStep
<1> HIDE DEF IInv
<1> QED
  BY <1>1, <1>8, <1>9, <1>10, <1>11, <1>12, NextKinds

\* The batch a request has just collected shares nothing with a batch that has
\* a task: the shared message would wait while that task is processing, but the
\* request has seen its session without such a task.
LEMMA CollectedIsNew ==
    ASSUME IInv, Owned, BatchesKnown, NEW r \in Reqs, reqPc[r] = "collect",
           NEW m \in Waiting(reqSession[r]), NEW q \in Reqs, reqTask[q] # None
    PROVE  ~ InPend(m, reqPend[q])
<1> SUFFICES ASSUME InPend(m, reqPend[q]) PROVE FALSE
  OBVIOUS
<1>1. /\ msgSession[m] = reqSession[r] /\ msgSession[m] = reqSession[q]
      /\ taskStatus[reqTask[q]] = "processing"
  BY DEF Waiting, BatchesKnown
<1>2. reqTask[q] \in Tasks /\ taskSession[reqTask[q]] = reqSession[r]
  BY <1>1 DEF Owned, RequestOwns, IInv, TypeOK, RequestsTyped
<1>3. Processing(reqSession[r]) = {}
  BY DEF IInv, LockProtects
<1> QED
  BY <1>1, <1>2, <1>3 DEF Processing

LEMMA NewBatchStep ==
    IInv /\ Owned /\ Batches /\ [Next]_vars => NewBatchDisjoint'
<1> SUFFICES ASSUME IInv, Owned, Batches, [Next]_vars,
                    NEW r \in Reqs, NEW q \in Reqs, reqPc'[r] = "insert", reqTask'[q] # None,
                    NEW m \in Msgs, InPend(m, reqPend'[r]), InPend(m, reqPend'[q])
             PROVE  FALSE
  BY DEF NewBatchDisjoint, InPend
<1> USE DEF IInv, TypeOK, RequestsTyped, Batches, NewBatchDisjoint
<1>1. CASE reqPc[r] = "insert" /\ UNCHANGED <<reqPend, reqTask>>
  BY <1>1
<1>2. ASSUME NEW x \in Reqs, NEW t \in Tasks, Creates(x, t) PROVE FALSE
  <2>1. reqPc[r] = "insert" /\ reqPc[x] = "insert" /\ r # x
    BY <1>2 DEF Creates
  <2>2. q = x
    BY <1>1, <1>2, <2>1 DEF Creates
  <2>3. reqSession[r] = reqSession[x]
    <3>1. InPend(m, reqPend[r]) /\ InPend(m, reqPend[x])
      BY <1>2, <2>2 DEF Creates
    <3> QED
      BY <3>1 DEF BatchesKnown
  <2> QED
    BY <2>1, <2>3 DEF LockProtects, Holding
<1>3. ASSUME NEW x \in Reqs, ReqCollect(x) PROVE FALSE
  <2>1. PICK p \in Listings(Waiting(reqSession[x])) : reqPend' = [reqPend EXCEPT ![x] = p]
    BY <1>3 DEF ReqCollect
  <2>2. UNCHANGED reqTask /\ reqPc[x] = "collect" /\ reqTask[x] = None
    BY <1>3 DEF ReqCollect, Owned, RequestOwns, Before
  <2>3. CASE x = r
    <3>1. m \in Waiting(reqSession[r])
      BY <2>1, <2>3, ListedWaits
    <3> QED
      BY <2>1, <2>2, <2>3, <3>1, CollectedIsNew
  <2>4. CASE x # r
    BY <1>1, <1>3, <2>1, <2>2, <2>4 DEF ReqCollect, Proceed, Refuse
  <2> QED
    BY <2>3, <2>4
<1>4. ASSUME NEW x \in Reqs, RequestStep(x) PROVE FALSE
  <2>1. CASE ReqSpawn(x)
    BY <1>1, <2>1 DEF ReqSpawn
  <2>2. CASE ReqCollect(x)
    BY <1>3, <2>2
  <2>3. CASE ~ ReqCollect(x) /\ ~ ReqSpawn(x) /\ UNCHANGED reqTask
    <3>1. UNCHANGED reqPend /\ reqPc[r] = "insert"
      BY <1>4, <2>3 DEF RequestStep, ReqStep, ReqAcquire, ReqAcquireFault, ReqGetSession,
         ReqCheckProcessing, ReqInsertTask, ReqLinkMessages, ReqMarkMessages,
         ReqRelease, ReqFault, ReqReleaseFault, Proceed, Refuse
    <3> QED
      BY <1>1, <2>3, <3>1
  <2> QED
    BY <1>2, <1>4, <2>1, <2>2, <2>3, RequestTouches
<1>5. ASSUME NEW R \in SUBSET Reqs, NEW T \in SUBSET Tasks, Crash(R, T) PROVE FALSE
  BY <1>1, <1>5 DEF Crash
<1> QED
  BY <1>1, <1>4, <1>5, NextKinds, SendFrame, TaskFrame DEF DeleteSession, reqVars

LEMMA NoMessageTwiceStep ==
    IInv /\ Owned /\ Batches /\ [Next]_vars => NoMessageTwice'
<1> SUFFICES ASSUME IInv, Owned, Batches, [Next]_vars PROVE NoMessageTwice'
  OBVIOUS
<1> USE DEF Batches, NoMessageTwice
<1>1. CASE UNCHANGED <<reqPend, reqTask>>
  BY <1>1 DEF InPend
<1>2. ASSUME NEW r \in Reqs, NEW t \in Tasks, Creates(r, t) PROVE NoMessageTwice'
  <2>1. \A q \in Reqs \ {r} : reqTask'[q] = reqTask[q]
    BY <1>2 DEF Creates
  <2>2. UNCHANGED reqPend /\ reqPc[r] = "insert"
    BY <1>2 DEF Creates
  <2>3. \A q \in Reqs \ {r} : reqTask[q] # None
          => \A m \in Msgs : ~(InPend(m, reqPend[r]) /\ InPend(m, reqPend[q]))
    BY <2>2 DEF NewBatchDisjoint
  <2> QED
    BY <2>1, <2>2, <2>3 DEF InPend
<1>3. ASSUME NEW r \in Reqs, ReqCollect(r) PROVE NoMessageTwice'
  <2>1. UNCHANGED reqTask /\ reqTask[r] = None
    BY <1>3 DEF ReqCollect, Owned, RequestOwns, Before
  <2>2. \A q \in Reqs \ {r} : reqPend'[q] = reqPend[q]
    BY <1>3 DEF ReqCollect
  <2>3. \A q \in Reqs : reqTask'[q] # None => reqTask[q] # None /\ reqPend'[q] = reqPend[q]
    BY <2>1, <2>2
  <2> QED
    BY <2>3 DEF InPend
<1>4. ASSUME NEW r \in Reqs, RequestStep(r) PROVE NoMessageTwice'
  <2>1. CASE ~ ReqCollect(r) /\ UNCHANGED reqTask
    <3>1. UNCHANGED reqPend
      BY <1>4, <2>1 DEF RequestStep, ReqStep, ReqAcquire, ReqAcquireFault, ReqGetSession,
         ReqCheckProcessing, ReqInsertTask, ReqLinkMessages, ReqMarkMessages,
         ReqRelease, ReqSpawn, ReqFault, ReqReleaseFault
    <3> QED
      BY <1>1, <2>1, <3>1
  <2> QED
    BY <1>2, <1>3, <1>4, <2>1, RequestTouches DEF ReqSpawn
<1> QED
  BY <1>1, <1>4, NextKinds, SendFrame, TaskFrame DEF DeleteSession, Crash, reqVars

-----------------------------------------------------------------------------
(* Tasks succeed one another, and each place of a run has its statuses. *)

LEMMA InitPlaced == Init => Placed
BY DEF Init, Placed, Succession, StatusAtPlace, StatusAt, Reading, Running, RollingBack

LEMMA SuccessionStep == IInv /\ Succession /\ [Next]_vars => Succession'
<1> SUFFICES ASSUME IInv, Succession, [Next]_vars PROVE Succession'
  OBVIOUS
<1> USE DEF IInv, TypeOK, TablesTyped, Succession
<1>1. ASSUME UNCHANGED taskSession,
             \A t \in Tasks : /\ taskStatus'[t] = "absent" <=> taskStatus[t] = "absent"
                              /\ taskStatus'[t] = "processing" => taskStatus[t] = "processing"
      PROVE  Succession'
  BY <1>1
<1>2. ASSUME NEW r \in Reqs, NEW x \in Tasks, Creates(r, x) PROVE Succession'
  <2>1. /\ taskStatus[x] = "absent" /\ \A u \in Tasks : u < x => taskStatus[u] # "absent"
        /\ \A u \in Tasks : x < u => taskStatus[u] = "absent"
        /\ taskStatus'[x] = "processing" /\ taskSession'[x] = reqSession[r]
        /\ \A u \in Tasks \ {x} : taskStatus'[u] = taskStatus[u] /\ taskSession'[u] = taskSession[u]
    <3>1. \A u \in Tasks : u < x => u \in 1 .. x - 1
      BY SessionTaskAssumption DEF Tasks
    <3> QED
      BY <1>2, <3>1 DEF Creates
  <2>2. \A u \in Tasks : taskSession[u] = reqSession[r] => taskStatus[u] # "processing"
    BY <1>2 DEF Creates, LockProtects, Processing
  <2> SUFFICES ASSUME NEW t \in Tasks, NEW u \in Tasks, t < u
               PROVE  /\ taskStatus'[t] = "absent" => taskStatus'[u] = "absent"
                      /\ taskStatus'[u] # "absent" /\ taskSession'[t] = taskSession'[u]
                         => taskStatus'[t] # "processing"
    OBVIOUS
  <2>3. CASE t = x
    BY <2>1, <2>3
  <2>4. CASE u = x
    BY <2>1, <2>2, <2>4
  <2>5. CASE t # x /\ u # x
    BY <2>1, <2>5
  <2> QED
    BY <2>3, <2>4, <2>5
<1>3. ASSUME NEW r \in Reqs, RequestStep(r) PROVE Succession'
  BY <1>1, <1>2, <1>3, RequestTouches DEF ReqSpawn, taskTable
<1>4. ASSUME NEW t \in Tasks, TaskStep(t) PROVE Succession'
  <2>1. /\ \A u \in Tasks \ {t} : taskStatus'[u] = taskStatus[u]
        /\ \/ taskStatus'[t] = taskStatus[t]
           \/ TaskRow(t) /\ taskStatus'[t] \in {"completed", "failed", "cancelled"}
    BY <1>4, TaskTouches
  <2> QED
    BY <1>1, <1>4, <2>1, TaskFrame DEF TaskRow
<1>5. ASSUME NEW s \in Sessions, DeleteSession(s) PROVE Succession'
  BY <1>1, <1>5 DEF DeleteSession, TaskRow
<1>6. CASE UNCHANGED <<taskStatus, taskSession>>
  BY <1>1, <1>6
<1> HIDE DEF IInv, Succession
<1> QED
  BY <1>3, <1>4, <1>5, <1>6, NextKinds, SendFrame DEF Crash, taskTable

LEMMA StatusByTask ==
    ASSUME IInv, TasksLive, NEW t \in Tasks, StatusAt(t), TaskStep(t) PROVE StatusAt(t)'
<1> USE DEF IInv, TypeOK, TablesTyped, RunsTyped, StatusAt, Running, Reading, RollingBack, Advance
<1>1. ASSUME RunEnter(t) \/ RunReadUserMem(t) \/ RunNextSeq(t), UNCHANGED <<taskTable, runOut>>
      PROVE  StatusAt(t)'
  BY <1>1 DEF RunEnter, RunReadUserMem, RunNextSeq, taskTable
<1>2. ASSUME RunReadAgentMem(t) PROVE StatusAt(t)'
  BY <1>2 DEF RunReadAgentMem, Raise, taskTable
<1>3. ASSUME RunAgentFinish(t) \/ RunAgentCancelled(t) PROVE StatusAt(t)'
  BY <1>3 DEF RunAgentFinish, RunAgentCancelled, taskTable
<1>4. ASSUME RunInsertUserMem(t) \/ RunInsertAgentMem(t) \/ RunInsertAgentMsgs(t)
      PROVE  StatusAt(t)'
  BY <1>4 DEF RunInsertUserMem, RunInsertAgentMem, RunInsertAgentMsgs, Insert, InsertList,
     Raise, taskTable
<1>5. ASSUME RunSetStatus(t) PROVE StatusAt(t)'
  BY <1>5 DEF RunSetStatus, SetTaskStatus, TaskRow, OutcomeKnown, AfterAgent
<1>6. ASSUME RunSetMessages(t) \/ RunFailMessages(t) PROVE StatusAt(t)'
  BY <1>6 DEF RunSetMessages, RunFailMessages, taskTable
<1>7. ASSUME RunFailStatus(t) PROVE StatusAt(t)'
  BY <1>7 DEF RunFailStatus, SetTaskStatus, TaskRow
<1>8. ASSUME RunDeleteUserMem(t) \/ RunDeleteAgentMem(t) \/ RunDeleteAgentMsgs(t)
      PROVE  StatusAt(t)'
  BY <1>8 DEF RunDeleteUserMem, RunDeleteAgentMem, RunDeleteAgentMsgs, taskTable
<1>9. ASSUME RunFault(t) PROVE StatusAt(t)'
  BY <1>9 DEF RunFault, Raise, taskTable
<1>10. ASSUME RunSubscribe(t) PROVE StatusAt(t)'
  BY <1>10 DEF RunSubscribe, taskTable, runVars
<1> QED
  BY <1>1, <1>2, <1>3, <1>4, <1>5, <1>6, <1>7, <1>8, <1>9, <1>10
     DEF TaskStep, RunStep, RunEnter, RunReadUserMem, RunNextSeq

LEMMA StatusAtPlaceStep ==
    IInv /\ Owned /\ TasksLive /\ StatusAtPlace /\ [Next]_vars => StatusAtPlace'
<1> SUFFICES ASSUME IInv, Owned, TasksLive, StatusAtPlace, [Next]_vars, NEW t \in Tasks
             PROVE  StatusAt(t)'
  BY DEF StatusAtPlace, StatusAt
<1>0. StatusAt(t)
  BY DEF StatusAtPlace, StatusAt
<1>1. CASE runPc'[t] = runPc[t] /\ runOut'[t] = runOut[t] /\ taskStatus'[t] = taskStatus[t]
  BY <1>0, <1>1 DEF StatusAt
<1>2. ASSUME NEW r \in Reqs, RequestStep(r) PROVE StatusAt(t)'
  <2>1. UNCHANGED runOut
    BY <1>2, RequestFrame
  <2>2. CASE \E x \in Tasks : Creates(r, x)
    <3>1. PICK x \in Tasks : Creates(r, x)
      BY <2>2
    <3>2. runPc[x] = "none"
      BY <3>1 DEF Creates, TasksLive
    <3> QED
      BY <1>0, <1>1, <2>1, <3>1, <3>2 DEF Creates, StatusAt, IInv, TypeOK, TablesTyped, Running,
         Reading, RollingBack
  <2>3. CASE ReqSpawn(r)
    <3>1. /\ reqTask[r] \in Tasks /\ reqPc[r] = "spawn"
          /\ runPc' = [runPc EXCEPT ![reqTask[r]] = "enter"] /\ UNCHANGED taskStatus
      BY <2>3 DEF ReqSpawn, taskTable, Owned, RequestOwns, IInv, TypeOK, RequestsTyped
    <3>2. runPc[reqTask[r]] = "none" /\ taskStatus[reqTask[r]] # "absent"
      BY <3>1 DEF Owned, RunOwned, OneRequestPerTask, RequestOwns
    <3> QED
      BY <1>0, <1>1, <2>1, <3>1, <3>2 DEF StatusAt, IInv, TypeOK, RunsTyped, Running, Reading,
         RollingBack
  <2> QED
    BY <1>1, <1>2, <2>1, <2>2, <2>3, RequestTouches
<1>3. ASSUME NEW x \in Tasks, TaskStep(x) PROVE StatusAt(t)'
  <2>1. CASE x = t
    BY <1>0, <1>3, <2>1, StatusByTask
  <2>2. CASE x # t
    <3>1. runOut'[t] = runOut[t]
      <4>1. CASE UNCHANGED runOut
        BY <4>1
      <4>2. CASE RunAgentFinish(x) \/ RunAgentCancelled(x)
        BY <2>2, <4>2 DEF RunAgentFinish, RunAgentCancelled, IInv, TypeOK, RunsTyped
      <4> QED
        BY <1>3, <4>1, <4>2 DEF TaskStep, RunStep, RunEnter, RunSubscribe, RunReadUserMem,
           RunReadAgentMem, RunNextSeq, Insert, InsertList, RunInsertUserMem, RunInsertAgentMem,
           RunInsertAgentMsgs, RunSetStatus, RunSetMessages, RunFailStatus, RunFailMessages,
           RunDeleteUserMem, RunDeleteAgentMem, RunDeleteAgentMsgs, RunFault, runVars
    <3> QED
      BY <1>1, <1>3, <2>2, <3>1, TaskTouches
  <2> QED
    BY <2>1, <2>2
<1>4. ASSUME NEW s \in Sessions, DeleteSession(s) PROVE StatusAt(t)'
  BY <1>0, <1>4 DEF DeleteSession, runVars, TaskRow, StatusAt
<1>5. ASSUME NEW R \in SUBSET Reqs, NEW T \in SUBSET Tasks, Crash(R, T) PROVE StatusAt(t)'
  BY <1>0, <1>5 DEF Crash, taskTable, StatusAt, Running, Reading, RollingBack
<1>6. CASE UNCHANGED <<taskTable, runVars>>
  BY <1>1, <1>6 DEF taskTable, runVars
<1>7. ASSUME NEW m \in Msgs, SendStep(m) PROVE StatusAt(t)'
  BY <1>1, <1>7, SendFrame
<1> QED
  BY <1>2, <1>3, <1>4, <1>5, <1>6, <1>7, NextKinds

LEMMA PlacedStep == RInv /\ [Next]_vars => Placed'
BY SuccessionStep, StatusAtPlaceStep DEF RInv, Live, Placed

LEMMA RInvStep == RInv /\ [Next]_vars => RInv'
<1> SUFFICES ASSUME RInv, [Next]_vars PROVE RInv'
  OBVIOUS
<1>1. IInv'
  BY TypeStep, OutcomeStep, LockStep DEF RInv, IInv, LockSafe
<1>2. Owned'
  BY OwnedStep DEF RInv, Live
<1>3. Live'
  BY MessagesLiveStep, TasksLiveStep, MemoriesLiveStep DEF RInv, Live, Owned, IInv
<1>4. Batches'
  BY BatchesKnownStep, NewBatchStep, NoMessageTwiceStep DEF RInv, Batches
<1> QED
  BY <1>1, <1>2, <1>3, <1>4, PlacedStep DEF RInv

LEMMA RInvAlways == Spec => []RInv
<1>1. Init => RInv
  BY InitIInv, InitOwned, InitLive, InitBatches, InitPlaced DEF RInv
<1> QED
  BY <1>1, RInvStep, PTL DEF Spec

\* Whatever requests race, fail or die between the insert of a task and the
\* update of its messages, no message is ever given to two tasks.
THEOREM NoMessageGivenTwice == Spec => []NoMessageTwice
<1>1. RInv => NoMessageTwice
  BY DEF RInv, Batches
<1> QED
  BY <1>1, RInvAlways, PTL

\* A deleted session stays empty: every row refers, through its task or on its
\* own, to a session that lives, whoever still runs and writes.
THEOREM DeletedStaysEmpty == Spec => []DeletedLeavesNothing
<1>1. RInv => DeletedLeavesNothing
  BY DEF RInv, Live, MessagesLive, TasksLive, MemoriesLive, DeletedLeavesNothing, TaskRow
<1> QED
  BY <1>1, RInvAlways, PTL

-----------------------------------------------------------------------------
(* The next seq_index. *)

\* A finite set of natural numbers has a maximum.
LEMMA FiniteMaximum ==
    ASSUME NEW S \in SUBSET Nat, IsFiniteSet(S), S # {}
    PROVE  \E n \in S : \A k \in S : k <= n
<1> DEFINE Above(n) == {k \in S : k > n}
           T == {Above(n) : n \in S}
<1>1. IsWellFoundedOn(StrictSubsetOrdering(S), FiniteSubsetsOf(S))
  BY FS_StrictSubsetOrderingWellFounded
<1>2. T \subseteq FiniteSubsetsOf(S) /\ T # {}
  <2>1. \A n \in S : Above(n) \in SUBSET S
    OBVIOUS
  <2>2. \A n \in S : IsFiniteSet(Above(n))
    BY <2>1, FS_Subset
  <2> QED
    BY <2>1, <2>2 DEF FiniteSubsetsOf
<1>3. PICK x \in T : \A y \in T : ~ (<<y, x>> \in StrictSubsetOrdering(S))
  <2> HIDE DEF T
  <2> QED
    BY <1>1, <1>2, WFMin
<1>4. PICK n \in S : x = Above(n)
  BY <1>3
<1>5. SUFFICES ASSUME NEW k \in S, k > n PROVE FALSE
  OBVIOUS
<1>6. Above(k) \in T /\ Above(k) \subseteq x /\ Above(k) # x
  <2>1. k \in Above(n) /\ k \notin Above(k) /\ Above(k) \in T
    BY <1>5
  <2>2. ASSUME NEW j \in Above(k) PROVE j \in Above(n)
    <3>1. j \in Nat /\ k \in Nat /\ n \in Nat
      OBVIOUS
    <3> QED
      BY <2>2, <3>1, <1>5
  <2> QED
    BY <2>1, <2>2, <1>4
<1>7. <<Above(k), x>> \in StrictSubsetOrdering(S)
  BY <1>6, <1>4 DEF StrictSubsetOrdering
<1> QED
  BY <1>3, <1>6, <1>7

\* COALESCE(MAX(seq_index), -1) + 1 is above every index there is.
LEMMA NextSeqAbove ==
    ASSUME NEW S \in SUBSET Nat, IsFiniteSet(S)
    PROVE  NextSeq(S) \in Nat /\ \A k \in S : k < NextSeq(S)
<1>1. CASE S = {}
  BY <1>1 DEF NextSeq
<1>2. CASE S # {}
  <2> DEFINE n == CHOOSE n \in S : \A k \in S : k <= n
  <2>1. n \in S /\ \A k \in S : k <= n
    BY <1>2, FiniteMaximum
  <2>2. NextSeq(S) = 1 + n
    BY <1>2 DEF NextSeq
  <2> HIDE DEF n
  <2>3. n \in Nat /\ \A k \in S : k \in Nat /\ k <= n
    BY <2>1
  <2> QED
    BY <2>2, <2>3
<1> QED
  BY <1>1, <1>2

\* The indices of a finite memory are a finite set.
LEMMA SeqsFinite ==
    ASSUME IsFiniteSet(userMem), NEW s
    PROVE  IsFiniteSet({row.seq : row \in MemOf(s)})
<1> DEFINE M == MemOf(s)
           V == {row.seq : row \in M}
           f == [row \in M |-> row.seq]
<1>1. IsFiniteSet(M)
  BY FS_Subset DEF MemOf
<1>2. f \in Surjection(M, V)
  <2> HIDE DEF M
  <2> QED
    BY DEF Surjection
<1> HIDE DEF M, V, f
<1>3. IsFiniteSet(V)
  BY <1>1, <1>2, FS_Surjection
<1> QED
  BY <1>3 DEF V, M

-----------------------------------------------------------------------------
(* What a step of somebody else leaves of a task that still has its row. *)

\* A run writes and erases memories of its own task only.
LEMMA OwnMemoryOnly ==
    ASSUME NEW x \in Tasks, NEW t \in Tasks \ {x}, TaskStep(x)
    PROVE  /\ Recalls(t)' <=> Recalls(t)
           /\ Remembered(t)' = Remembered(t)
           /\ t \in agentMem' <=> t \in agentMem
           /\ t \in agentMsgs' <=> t \in agentMsgs
<1> USE DEF Recalls, Remembered
<1>1. CASE UNCHANGED <<userMem, agentMem, agentMsgs>>
  BY <1>1
<1>2. CASE RunInsertUserMem(x)
  BY <1>2 DEF RunInsertUserMem, Insert, InsertList, memory
<1>3. CASE RunInsertAgentMem(x) \/ RunInsertAgentMsgs(x)
  BY <1>3 DEF RunInsertAgentMem, RunInsertAgentMsgs, Insert, InsertList, memory
<1>4. CASE RunDeleteUserMem(x) \/ RunDeleteAgentMem(x) \/ RunDeleteAgentMsgs(x)
  BY <1>4 DEF RunDeleteUserMem, RunDeleteAgentMem, RunDeleteAgentMsgs
<1> QED
  BY <1>1, <1>2, <1>3, <1>4 DEF TaskStep, RunStep, RunEnter, RunSubscribe, RunReadUserMem,
     RunReadAgentMem, RunAgentFinish, RunAgentCancelled, RunNextSeq, RunSetStatus,
     RunSetMessages, RunFailStatus, RunFailMessages, RunFault, memory

\* A run keeps its own notes.
LEMMA OwnNotesOnly ==
    ASSUME IInv, NEW x \in Tasks, NEW t \in Tasks \ {x}, TaskStep(x), DOMAIN runSeen = Tasks,
           DOMAIN runSeq = Tasks
    PROVE  /\ runOut'[t] = runOut[t] /\ runSeen'[t] = runSeen[t] /\ runSeq'[t] = runSeq[t]
           /\ t \in runSaid' <=> t \in runSaid
<1>1. CASE UNCHANGED <<runOut, runSeen, runSeq, runSaid>>
  BY <1>1
<1>2. CASE RunAgentFinish(x) \/ RunAgentCancelled(x)
  BY <1>2 DEF RunAgentFinish, RunAgentCancelled, IInv, TypeOK, RunsTyped
<1>3. CASE RunReadUserMem(x)
  BY <1>3 DEF RunReadUserMem
<1>4. CASE RunNextSeq(x)
  BY <1>4 DEF RunNextSeq
<1> QED
  BY <1>1, <1>2, <1>3, <1>4 DEF TaskStep, RunStep, RunEnter, RunSubscribe, RunReadAgentMem,
     Insert, InsertList, RunInsertUserMem, RunInsertAgentMem, RunInsertAgentMsgs, RunSetStatus,
     RunSetMessages, RunFailStatus, RunFailMessages, RunDeleteUserMem, RunDeleteAgentMem,
     RunDeleteAgentMsgs, RunFault, runVars

\* The messages of a task's batch are its own, and they exist as long as the
\* task does.
LEMMA BatchOwned ==
    ASSUME RInv, NEW t \in Tasks, runPc[t] # "none", TaskRow(t),
           NEW m \in Msgs, InPend(m, runPend[t])
    PROVE  /\ MsgRow(m) /\ sendPc[m] = "done" /\ msgSession[m] = taskSession[t]
           /\ \A x \in Tasks : runPc[x] # "none" /\ InPend(m, runPend[x]) => x = t
           /\ \A r \in Reqs : reqPc[r] = "mark" => ~ InPend(m, reqPend[r])
<1>1. PICK r \in Reqs : reqTask[r] = t /\ reqPc[r] = "done" /\ runPend[t] = reqPend[r]
  BY DEF RInv, Owned, RunOwned
<1>2. reqTask[r] # None
  BY <1>1, SessionTaskAssumption DEF Tasks
<1>3. /\ sendPc[m] = "done" /\ msgStatus[m] # "absent"
      /\ msgSession[m] = taskSession[t]
  BY <1>1, <1>2 DEF RInv, Batches, BatchesKnown, Owned, RequestOwns
<1>4. MsgRow(m)
  BY <1>3 DEF RInv, Live, TasksLive, MessagesLive, MsgRow
<1>5. ASSUME NEW q \in Reqs, reqTask[q] # None, InPend(m, reqPend[q]) PROVE q = r
  BY <1>1, <1>2, <1>5 DEF RInv, Batches, NoMessageTwice
<1>6. ASSUME NEW x \in Tasks, runPc[x] # "none", InPend(m, runPend[x]) PROVE x = t
  <2>1. PICK q \in Reqs : reqTask[q] = x /\ runPend[x] = reqPend[q]
    BY <1>6 DEF RInv, Owned, RunOwned
  <2> QED
    BY <1>1, <1>5, <1>6, <2>1, SessionTaskAssumption DEF Tasks
<1>7. ASSUME NEW q \in Reqs, reqPc[q] = "mark" PROVE ~ InPend(m, reqPend[q])
  BY <1>1, <1>5, <1>7 DEF RInv, Owned, RequestOwns
<1> QED
  BY <1>3, <1>4, <1>6, <1>7

LEMMA FaultsGrow == IInv /\ faults \in Nat /\ [Next]_vars => faults' \in Nat /\ faults <= faults'
<1> SUFFICES ASSUME faults \in Nat, [Next]_vars PROVE faults' \in Nat /\ faults <= faults'
  OBVIOUS
<1>1. CASE UNCHANGED faults
  BY <1>1
<1>2. CASE faults' = faults + 1
  BY <1>2
<1>3. ASSUME NEW r \in Reqs, RequestStep(r) PROVE UNCHANGED faults \/ faults' = faults + 1
  BY <1>3 DEF RequestStep, ReqStep, ReqAcquire, ReqAcquireFault, ReqGetSession,
     ReqCheckProcessing, ReqCollect, ReqInsertTask, ReqLinkMessages, ReqMarkMessages, ReqRelease,
     ReqSpawn, ReqFault, ReqReleaseFault, ReqUnchanged, bounds
<1>4. ASSUME NEW t \in Tasks, TaskStep(t) PROVE UNCHANGED faults \/ faults' = faults + 1
  BY <1>4 DEF TaskStep, RunStep, RunEnter, RunSubscribe, RunReadUserMem, RunReadAgentMem,
     RunAgentFinish, RunAgentCancelled, RunNextSeq, Insert, InsertList, RunInsertUserMem,
     RunInsertAgentMem,
     RunInsertAgentMsgs, RunSetStatus, RunSetMessages, RunFailStatus, RunFailMessages,
     RunDeleteUserMem, RunDeleteAgentMem, RunDeleteAgentMsgs, RunFault, RunUnchanged, bounds
<1> QED
  BY <1>1, <1>2, <1>3, <1>4, NextKinds, SendFrame DEF DeleteSession, Crash, bounds

\* A step of anybody but t's run leaves t's rows, notes and batch as they are,
\* unless it deletes the session; it may at most kill the run.
Untouched(t) ==
    /\ TaskRow(t) /\ taskStatus'[t] = taskStatus[t] /\ taskSession'[t] = taskSession[t]
    /\ runPc'[t] \in {runPc[t], "dead"}
    /\ runOut'[t] = runOut[t] /\ runSeen'[t] = runSeen[t]
    /\ runSeq'[t] = runSeq[t] /\ runPend'[t] = runPend[t]
    /\ t \in runSaid' <=> t \in runSaid
    /\ Recalls(t)' <=> Recalls(t)
    /\ Remembered(t)' = Remembered(t)
    /\ t \in agentMem' <=> t \in agentMem
    /\ t \in agentMsgs' <=> t \in agentMsgs
    /\ \A m \in Msgs : InPend(m, runPend[t]) => msgStatus'[m] = msgStatus[m]

LEMMA OthersLeave ==
    ASSUME RInv, NotesTyped, [Next]_vars, NEW t \in Tasks, ~ TaskStep(t), runPc[t] # "none",
           TaskRow(t)'
    PROVE  Untouched(t)
<1> USE DEF RInv, IInv, TypeOK, TablesTyped, RequestsTyped, RunsTyped, NotesTyped
<1>1. ASSUME TaskRow(t), NEW m \in Msgs, InPend(m, runPend[t])
      PROVE  /\ MsgRow(m) /\ sendPc[m] = "done" /\ msgSession[m] = taskSession[t]
             /\ \A x \in Tasks : runPc[x] # "none" /\ InPend(m, runPend[x]) => x = t
             /\ \A r \in Reqs : reqPc[r] = "mark" => ~ InPend(m, reqPend[r])
  BY <1>1, BatchOwned
<1> HIDE DEF RInv
<1>2. ASSUME NEW m \in Msgs, SendStep(m) PROVE Untouched(t)
  <2>1. TaskRow(t)
    BY <1>2, SendFrame DEF TaskRow
  <2>2. \A x \in Msgs : sendPc[x] = "done" => msgStatus'[x] = msgStatus[x]
    BY <1>2 DEF SendStep, SendInsert, SendReadSeq, RInv
  <2> QED
    BY <1>1, <1>2, <2>1, <2>2, SendFrame DEF Untouched, Recalls, Remembered
<1>3. ASSUME NEW r \in Reqs, RequestStep(r) PROVE Untouched(t)
  <2>1. UNCHANGED <<userMem, agentMem, agentMsgs, runSeen, runSeq, runOut, runSaid>>
    BY <1>3, RequestFrame
  <2>2. /\ TaskRow(t) /\ taskStatus'[t] = taskStatus[t] /\ taskSession'[t] = taskSession[t]
        /\ runPc'[t] = runPc[t] /\ runPend'[t] = runPend[t]
    <3>1. ASSUME NEW x \in Tasks, Creates(r, x) PROVE x # t
      BY <3>1 DEF Creates, RInv, Live, TasksLive
    <3>2. ASSUME ReqSpawn(r) PROVE reqTask[r] # t
      BY <3>2 DEF ReqSpawn, RInv, Owned, RunOwned, OneRequestPerTask, RequestOwns
    <3>3. CASE \E x \in Tasks : Creates(r, x)
      <4>1. PICK x \in Tasks : Creates(r, x)
        BY <3>3
      <4> QED
        BY <3>1, <4>1 DEF Creates, TaskRow, RInv
    <3>4. CASE ReqSpawn(r)
      BY <3>2, <3>4 DEF ReqSpawn, taskTable, TaskRow, RInv
    <3> QED
      BY <1>3, <3>3, <3>4, RequestTouches DEF TaskRow
  <2>3. ASSUME NEW m \in Msgs, InPend(m, runPend[t]) PROVE msgStatus'[m] = msgStatus[m]
    <3>1. CASE ReqMarkMessages(r)
      BY <1>1, <2>2, <2>3, <3>1 DEF ReqMarkMessages, SetStatus
    <3>2. CASE ~ ReqMarkMessages(r)
      BY <1>3, <3>2 DEF RequestStep, ReqStep, ReqAcquire, ReqAcquireFault, ReqGetSession,
         ReqCheckProcessing, ReqCollect, ReqInsertTask, ReqLinkMessages, ReqRelease, ReqSpawn,
         ReqFault, ReqReleaseFault, msgTable
    <3> QED
      BY <3>1, <3>2
  <2> QED
    BY <2>1, <2>2, <2>3 DEF Untouched, Recalls, Remembered
<1>4. ASSUME NEW x \in Tasks, TaskStep(x) PROVE Untouched(t)
  <2>1. x # t
    BY <1>4
  <2>2. /\ TaskRow(t) /\ taskStatus'[t] = taskStatus[t] /\ taskSession'[t] = taskSession[t]
        /\ runPc'[t] = runPc[t] /\ runPend'[t] = runPend[t] /\ runPc[x] # "none"
    BY <1>4, <2>1, TaskTouches, TaskFrame DEF TaskRow, RInv
  <2>3. ASSUME NEW m \in Msgs, InPend(m, runPend[t]) PROVE msgStatus'[m] = msgStatus[m]
    <3>1. ~ InPend(m, runPend[x])
      BY <1>1, <2>1, <2>2, <2>3
    <3>2. CASE UNCHANGED msgStatus
      BY <3>2
    <3>3. CASE RunSetMessages(x) \/ RunFailMessages(x)
      BY <3>1, <3>3 DEF RunSetMessages, RunFailMessages, SetStatus
    <3> QED
      BY <1>4, <3>2, <3>3 DEF TaskStep, RunStep, RunEnter, RunSubscribe, RunReadUserMem,
         RunReadAgentMem, RunAgentFinish, RunAgentCancelled, RunNextSeq, Insert, InsertList,
         RunInsertUserMem, RunInsertAgentMem, RunInsertAgentMsgs, RunSetStatus, RunFailStatus,
         RunDeleteUserMem, RunDeleteAgentMem, RunDeleteAgentMsgs, RunFault, msgTable
  <2>4. /\ runOut'[t] = runOut[t] /\ runSeen'[t] = runSeen[t] /\ runSeq'[t] = runSeq[t]
        /\ t \in runSaid' <=> t \in runSaid
    BY <1>4, <2>1, OwnNotesOnly DEF RInv
  <2> QED
    BY <1>4, <2>1, <2>2, <2>3, <2>4, OwnMemoryOnly DEF Untouched
<1>5. ASSUME NEW s \in Sessions, DeleteSession(s) PROVE Untouched(t)
  <2>1. TaskRow(t) /\ taskSession[t] # s /\ taskStatus'[t] = taskStatus[t]
    BY <1>5 DEF DeleteSession, TaskRow
  <2>2. /\ Recalls(t)' <=> Recalls(t)
        /\ Remembered(t)' = Remembered(t)
        /\ t \in agentMem' <=> t \in agentMem
        /\ t \in agentMsgs' <=> t \in agentMsgs
    BY <1>5, <2>1 DEF DeleteSession, Recalls, Remembered, MemOf
  <2>3. ASSUME NEW m \in Msgs, InPend(m, runPend[t]) PROVE msgStatus'[m] = msgStatus[m]
    BY <1>1, <1>5, <2>1, <2>3 DEF DeleteSession
  <2> QED
    BY <1>5, <2>1, <2>2, <2>3 DEF DeleteSession, runVars, Untouched
<1>6. ASSUME NEW R \in SUBSET Reqs, NEW T \in SUBSET Tasks, Crash(R, T) PROVE Untouched(t)
  BY <1>6 DEF Crash, taskTable, msgTable, memory, TaskRow, Untouched, Recalls, Remembered
<1>7. CASE UNCHANGED <<taskTable, msgTable, memory, runVars>>
  BY <1>7 DEF taskTable, msgTable, memory, runVars, TaskRow, Untouched, Recalls, Remembered
<1> HIDE DEF IInv
<1> QED
  BY <1>2, <1>3, <1>4, <1>5, <1>6, <1>7, NextKinds

-----------------------------------------------------------------------------
(* The notes, the seq_index and the order of the memory. *)

\* The one statement that adds user memory, and what it adds.
Remembers(x) ==
    /\ runPc[x] = "ins_user" /\ runPc' = [runPc EXCEPT ![x] = "ins_agent"]
    /\ TaskRow(x)
    /\ userMem' = userMem \cup
          {[task |-> x, seq |-> runSeq[x] + i - 1, msg |-> runPend[x][i]] : i \in DOMAIN runPend[x]}
    /\ UNCHANGED <<sessionState, taskStatus, taskSession, runSeq, runPend>>

LEMMA MemoryGrows ==
    ASSUME RInv, [Next]_vars
    PROVE  userMem' \subseteq userMem \/ \E x \in Tasks : Remembers(x)
<1>1. ASSUME NEW t \in Tasks, TaskStep(t) PROVE userMem' \subseteq userMem \/ Remembers(t)
  <2>1. CASE RunInsertUserMem(t)
    <3>1. sessionState[taskSession[t]] = "live" /\ runPc[t] # "none" => TaskRow(t)
      BY DEF RInv, Live, TasksLive, TaskRow
    <3> QED
      BY <2>1, <3>1 DEF RunInsertUserMem, Insert, InsertList, Advance, memory, Remembers,
         RunUnchanged, taskTable
  <2>2. CASE RunDeleteUserMem(t)
    BY <2>2 DEF RunDeleteUserMem
  <2> QED
    BY <1>1, <2>1, <2>2 DEF TaskStep, RunStep, RunEnter, RunSubscribe, RunReadUserMem,
       RunReadAgentMem, RunAgentFinish, RunAgentCancelled, RunNextSeq, Insert, InsertList,
       RunInsertAgentMem,
       RunInsertAgentMsgs, RunSetStatus, RunSetMessages, RunFailStatus, RunFailMessages,
       RunDeleteAgentMem, RunDeleteAgentMsgs, RunFault, memory
<1> QED
  BY <1>1, NextKinds, SendFrame, RequestFrame DEF DeleteSession, Crash, memory

LEMMA NotesStep == RInv /\ NotesTyped /\ [Next]_vars => NotesTyped'
<1> SUFFICES ASSUME RInv, NotesTyped, [Next]_vars PROVE NotesTyped'
  OBVIOUS
<1>1. faults' \in Nat
  BY FaultsGrow DEF NotesTyped, RInv
<1>2. runSeen' \in [Tasks -> SUBSET Tasks]
  <2>1. ASSUME NEW t \in Tasks, RunReadUserMem(t) PROVE runSeen' \in [Tasks -> SUBSET Tasks]
    <3>1. UserTasks(taskSession[t]) \subseteq Tasks
      BY DEF UserTasks, MemOf, RInv, Live, MemoriesLive
    <3> QED
      BY <2>1, <3>1 DEF RunReadUserMem, NotesTyped
  <2>2. ASSUME NEW t \in Tasks, TaskStep(t) PROVE RunReadUserMem(t) \/ UNCHANGED runSeen
    BY <2>2 DEF TaskStep, RunStep, RunEnter, RunSubscribe, RunReadAgentMem, RunAgentFinish,
       RunAgentCancelled, RunNextSeq, Insert, InsertList, RunInsertUserMem, RunInsertAgentMem,
       RunInsertAgentMsgs, RunSetStatus, RunSetMessages, RunFailStatus, RunFailMessages,
       RunDeleteUserMem, RunDeleteAgentMem, RunDeleteAgentMsgs, RunFault, runVars
  <2>3. CASE UNCHANGED runSeen
    BY <2>3 DEF NotesTyped
  <2> QED
    BY <2>1, <2>2, <2>3, NextKinds, SendFrame, RequestFrame DEF DeleteSession, Crash, runVars
<1>3. runSeq' \in [Tasks -> Nat]
  <2>1. ASSUME NEW t \in Tasks, RunNextSeq(t) PROVE runSeq' \in [Tasks -> Nat]
    <3> DEFINE S == {row.seq : row \in MemOf(taskSession[t])}
    <3>1. IsFiniteSet(S) /\ S \in SUBSET Nat
      BY SeqsFinite DEF NotesTyped, MemOf
    <3>2. NextSeq(S) \in Nat
      BY <3>1, NextSeqAbove
    <3> QED
      BY <2>1, <3>2 DEF RunNextSeq, NextMemSeq, NotesTyped
  <2>2. ASSUME NEW t \in Tasks, TaskStep(t) PROVE RunNextSeq(t) \/ UNCHANGED runSeq
    BY <2>2 DEF TaskStep, RunStep, RunEnter, RunSubscribe, RunReadUserMem, RunReadAgentMem,
       RunAgentFinish, RunAgentCancelled, Insert, InsertList, RunInsertUserMem, RunInsertAgentMem,
       RunInsertAgentMsgs, RunSetStatus, RunSetMessages, RunFailStatus, RunFailMessages,
       RunDeleteUserMem, RunDeleteAgentMem, RunDeleteAgentMsgs, RunFault, runVars
  <2>3. CASE UNCHANGED runSeq
    BY <2>3 DEF NotesTyped
  <2> QED
    BY <2>1, <2>2, <2>3, NextKinds, SendFrame, RequestFrame DEF DeleteSession, Crash, runVars
<1>4. IsFiniteSet(userMem') /\ \A row \in userMem' : row.seq \in Nat
  <2>1. CASE userMem' \subseteq userMem
    BY <2>1, FS_Subset DEF NotesTyped
  <2>2. ASSUME NEW x \in Tasks, Remembers(x)
        PROVE  IsFiniteSet(userMem') /\ \A row \in userMem' : row.seq \in Nat
    <3> DEFINE p == runPend[x]
               Row(i) == [task |-> x, seq |-> runSeq[x] + i - 1, msg |-> p[i]]
               New == {Row(i) : i \in DOMAIN p}
               f == [i \in DOMAIN p |-> Row(i)]
    <3>1. p \in Seq(Msgs)
      BY DEF RInv, IInv, TypeOK, RunsTyped
    <3>2. DOMAIN p = 1 .. Len(p) /\ Len(p) \in Nat
      BY <3>1
    <3>3. IsFiniteSet(DOMAIN p)
      BY <3>2, FS_Interval
    <3>4. f \in Surjection(DOMAIN p, New)
      BY DEF Surjection
    <3>5. IsFiniteSet(New)
      <4> HIDE DEF p, f, New
      <4> QED
        BY <3>3, <3>4, FS_Surjection
    <3>6. userMem' = userMem \cup New
      BY <2>2 DEF Remembers
    <3>7. IsFiniteSet(userMem \cup New)
      <4> HIDE DEF New
      <4> QED
        BY <3>5, FS_Union DEF NotesTyped
    <3>8. \A i \in DOMAIN p : Row(i).seq \in Nat
      <4>1. runSeq[x] \in Nat
        BY DEF NotesTyped
      <4> QED
        BY <3>2, <4>1
    <3> QED
      BY <3>6, <3>7, <3>8 DEF NotesTyped
  <2> QED
    BY <2>1, <2>2, MemoryGrows
<1> QED
  BY <1>1, <1>2, <1>3, <1>4 DEF NotesTyped

\* A run that somebody else moves was spawned.
LEMMA SpawnedOnly ==
    ASSUME IInv, [Next]_vars, NEW t \in Tasks, ~ TaskStep(t), runPc[t] = "none"
    PROVE  runPc'[t] \in {"none", "enter"}
<1> USE DEF IInv, TypeOK, RunsTyped
<1>1. ASSUME NEW r \in Reqs, RequestStep(r) PROVE runPc'[t] \in {"none", "enter"}
  BY <1>1, RequestTouches DEF Creates, ReqSpawn
<1>2. ASSUME NEW x \in Tasks, TaskStep(x) PROVE runPc'[t] = "none"
  BY <1>2, TaskTouches
<1>3. ASSUME NEW R, NEW T, Crash(R, T) PROVE runPc'[t] = "none"
  BY <1>3 DEF Crash
<1> QED
  BY <1>1, <1>2, <1>3, NextKinds, SendFrame DEF DeleteSession, runVars

\* A run never returns to a place before its user memory is written.
LEMMA PlacesForward ==
    ASSUME RInv, NEW t \in Tasks, TaskStep(t)
    PROVE  /\ runPc[t] \notin Unwritten => runPc'[t] \notin Unwritten
           /\ runPc'[t] = "ins_user" => runPc[t] = "ins_user" \/ RunNextSeq(t)
<1> USE DEF RInv, IInv, TypeOK, RunsTyped, Unwritten, Reading, Advance, Raise
<1>1. CASE RunEnter(t) \/ RunReadUserMem(t) \/ RunReadAgentMem(t) \/ RunNextSeq(t)
  BY <1>1 DEF RunEnter, RunReadUserMem, RunReadAgentMem, RunNextSeq
<1>2. CASE RunAgentFinish(t) \/ RunAgentCancelled(t)
  BY <1>2 DEF RunAgentFinish, RunAgentCancelled
<1>3. CASE RunInsertUserMem(t) \/ RunInsertAgentMem(t) \/ RunInsertAgentMsgs(t)
  BY <1>3 DEF RunInsertUserMem, RunInsertAgentMem, RunInsertAgentMsgs, Insert, InsertList
<1>4. CASE RunSetStatus(t) \/ RunSetMessages(t) \/ RunFailStatus(t) \/ RunFailMessages(t)
  BY <1>4 DEF RunSetStatus, RunSetMessages, RunFailStatus, RunFailMessages
<1>5. CASE RunDeleteUserMem(t) \/ RunDeleteAgentMem(t) \/ RunDeleteAgentMsgs(t)
  BY <1>5 DEF RunDeleteUserMem, RunDeleteAgentMem, RunDeleteAgentMsgs
<1>6. CASE RunFault(t)
  BY <1>6 DEF RunFault
<1>7. CASE RunSubscribe(t)
  BY <1>7 DEF RunSubscribe, runVars
<1> QED
  BY <1>1, <1>2, <1>3, <1>4, <1>5, <1>6, <1>7 DEF TaskStep, RunStep

\* A run about to write its memory is alone in its session.
LEMMA AloneInSession ==
    ASSUME RInv, NEW t \in Tasks, NEW x \in Tasks, TaskRow(t), TaskRow(x),
           runPc[t] \in Running, runPc[x] \in Running, taskSession[t] = taskSession[x]
    PROVE  x = t
BY DEF RInv, Placed, StatusAtPlace, StatusAt, IInv, AtMostOneProcessing, TaskRow

LEMMA SeqsKnownStep == RInv /\ NotesTyped /\ SeqsKnown /\ [Next]_vars => SeqsKnown'
<1> SUFFICES ASSUME RInv, NotesTyped, SeqsKnown, [Next]_vars PROVE SeqsKnown'
  OBVIOUS
<1>0. RInv'
  BY RInvStep
<1>1. ASSUME NEW row \in userMem' PROVE runPc'[row.task] \notin Unwritten
  <2> DEFINE t == row.task
  <2>1. t \in Tasks /\ TaskRow(t)'
    BY <1>0 DEF RInv, Live, MemoriesLive
  <2>2. CASE row \in userMem
    <3>1. runPc[t] \notin Unwritten
      BY <2>2 DEF SeqsKnown
    <3>2. CASE TaskStep(t)
      BY <2>1, <3>1, <3>2, PlacesForward
    <3>3. CASE ~ TaskStep(t)
      <4>1. runPc[t] # "none"
        BY <3>1 DEF Unwritten
      <4>2. Untouched(t)
        BY <2>1, <3>3, <4>1, OthersLeave
      <4> QED
        BY <3>1, <4>2 DEF Untouched, Unwritten, Reading
    <3> QED
      BY <3>2, <3>3
  <2>3. CASE row \notin userMem
    <3>1. PICK x \in Tasks : Remembers(x)
      BY <2>3, MemoryGrows
    <3>2. t = x /\ runPc'[x] = "ins_agent"
      BY <2>3, <3>1 DEF Remembers, RInv, IInv, TypeOK, RunsTyped
    <3> QED
      BY <3>2 DEF Unwritten, Reading
  <2> QED
    BY <2>2, <2>3
<1>2. ASSUME NEW t \in Tasks, runPc'[t] = "ins_user", TaskRow(t)',
             NEW row \in userMem', taskSession'[row.task] = taskSession'[t]
      PROVE  row.seq < runSeq'[t]
  <2>1. CASE RunNextSeq(t)
    <3> DEFINE S == {w.seq : w \in MemOf(taskSession[t])}
    <3>1. IsFiniteSet(S) /\ S \in SUBSET Nat
      BY SeqsFinite DEF NotesTyped, MemOf
    <3>2. \A k \in S : k < NextSeq(S)
      BY <3>1, NextSeqAbove
    <3>3. runSeq'[t] = NextSeq(S) /\ UNCHANGED <<userMem, taskSession>>
      BY <2>1 DEF RunNextSeq, NextMemSeq, NotesTyped, memory, taskTable
    <3>4. row.seq \in S
      BY <1>2, <3>3 DEF MemOf
    <3> QED
      BY <3>2, <3>3, <3>4
  <2>2. CASE ~ RunNextSeq(t)
    <3>1. /\ runPc[t] = "ins_user" /\ TaskRow(t)
          /\ runSeq'[t] = runSeq[t] /\ taskSession'[t] = taskSession[t]
      <4>1. CASE TaskStep(t)
        <5>1. runPc[t] = "ins_user"
          BY <1>2, <2>2, <4>1, PlacesForward
        <5>2. UNCHANGED runSeq
          BY <2>2, <4>1 DEF TaskStep, RunStep, RunEnter, RunSubscribe, RunReadUserMem,
             RunReadAgentMem, RunAgentFinish, RunAgentCancelled, Insert, InsertList,
             RunInsertUserMem,
             RunInsertAgentMem, RunInsertAgentMsgs, RunSetStatus, RunSetMessages, RunFailStatus,
             RunFailMessages, RunDeleteUserMem, RunDeleteAgentMem, RunDeleteAgentMsgs, RunFault,
             runVars
        <5>3. TaskRow(t)
          BY <1>2, <4>1, TaskTouches DEF TaskRow, RInv
        <5> QED
          BY <4>1, <5>1, <5>2, <5>3, TaskFrame
      <4>2. CASE ~ TaskStep(t)
        <5>1. runPc[t] # "none"
          BY <1>2, <4>2, SpawnedOnly DEF RInv
        <5>2. Untouched(t)
          BY <1>2, <4>2, <5>1, OthersLeave
        <5> QED
          BY <1>2, <5>2 DEF Untouched
      <4> QED
        BY <4>1, <4>2
    <3>2. CASE row \in userMem
      <4>1. row.task \in Tasks /\ taskStatus[row.task] # "absent"
        BY <3>2 DEF RInv, Live, MemoriesLive, TaskRow
      <4>2. taskSession'[row.task] = taskSession[row.task]
        BY <4>1, CreatedForGood DEF RInv
      <4> QED
        BY <1>2, <3>1, <3>2, <4>2 DEF SeqsKnown, MemOf
    <3>3. CASE row \notin userMem
      <4>1. PICK x \in Tasks : Remembers(x)
        BY <3>3, MemoryGrows
      <4>2. row.task = x /\ runPc'[x] = "ins_agent" /\ runPc[x] = "ins_user" /\ TaskRow(x)
            /\ taskSession[x] = taskSession[t]
        BY <1>2, <3>3, <4>1 DEF Remembers, RInv, IInv, TypeOK, RunsTyped
      <4>3. x = t
        BY <3>1, <4>2, AloneInSession DEF Running
      <4> QED
        BY <1>2, <4>2, <4>3
    <3> QED
      BY <3>2, <3>3
  <2> QED
    BY <2>1, <2>2
<1> QED
  BY <1>1, <1>2 DEF SeqsKnown, MemOf

\* A row written by a run comes after every row of its session.
LEMMA MemoryOrderedStep ==
    RInv /\ NotesTyped /\ SeqsKnown /\ MemoryOrdered /\ [Next]_vars => MemoryOrdered'
<1> SUFFICES ASSUME RInv, NotesTyped, SeqsKnown, MemoryOrdered, [Next]_vars,
                    NEW a \in userMem', NEW b \in userMem',
                    taskSession'[a.task] = taskSession'[b.task]
             PROVE  /\ a.task < b.task => a.seq < b.seq
                    /\ a.task = b.task /\ a # b => a.seq # b.seq
  BY DEF MemoryOrdered
<1>1. \A row \in userMem :
          /\ row.task \in Tasks /\ TaskRow(row.task)
          /\ taskSession'[row.task] = taskSession[row.task]
  <2> SUFFICES ASSUME NEW row \in userMem
               PROVE  /\ row.task \in Tasks /\ TaskRow(row.task)
                      /\ taskSession'[row.task] = taskSession[row.task]
    OBVIOUS
  <2>1. row.task \in Tasks /\ TaskRow(row.task)
    BY DEF RInv, Live, MemoriesLive
  <2> QED
    BY <2>1, CreatedForGood DEF RInv, TaskRow
<1>2. CASE a \in userMem /\ b \in userMem
  BY <1>1, <1>2 DEF MemoryOrdered
<1>3. CASE ~ (a \in userMem /\ b \in userMem)
  <2>1. PICK x \in Tasks : Remembers(x)
    BY <1>3, MemoryGrows
  <2> DEFINE p == runPend[x]
  <2>2. \A row \in userMem' : row \in userMem \/
            \E i \in DOMAIN p : row = [task |-> x, seq |-> runSeq[x] + i - 1, msg |-> p[i]]
    BY <2>1 DEF Remembers
  <2>3. DOMAIN p \subseteq Nat \ {0} /\ runSeq[x] \in Nat /\ x \in Nat
    <3>1. p \in Seq(Msgs)
      BY DEF RInv, IInv, TypeOK, RunsTyped
    <3>2. DOMAIN p = 1 .. Len(p) /\ Len(p) \in Nat
      BY <3>1
    <3> QED
      BY <3>2 DEF NotesTyped, Tasks
  <2>4. ASSUME NEW row \in userMem, taskSession[row.task] = taskSession[x]
        PROVE  row.seq \in Nat /\ row.seq < runSeq[x] /\ row.task \in Nat /\ row.task < x
    <3>1. runPc[x] = "ins_user" /\ TaskRow(x) /\ row.task \in Tasks /\ TaskRow(row.task)
      BY <1>1, <2>1 DEF Remembers
    <3>2. row.seq < runSeq[x]
      BY <2>4, <3>1 DEF SeqsKnown, MemOf
    <3>3. row.task # x
      BY <3>1 DEF SeqsKnown, Unwritten
    <3>4. taskStatus[x] = "processing"
      BY <3>1 DEF RInv, Placed, StatusAtPlace, StatusAt, Running, TaskRow
    <3>5. ~ (x < row.task)
      BY <2>4, <3>1, <3>4 DEF RInv, Placed, Succession, TaskRow
    <3> QED
      BY <3>1, <3>2, <3>3, <3>5 DEF NotesTyped, Tasks
  <2>5. taskSession' = taskSession
    BY <2>1 DEF Remembers
  <2>6. CASE a \in userMem /\ b \notin userMem
    <3>1. PICK i \in DOMAIN p : b = [task |-> x, seq |-> runSeq[x] + i - 1, msg |-> p[i]]
      BY <2>2, <2>6
    <3>2. a.seq \in Nat /\ a.seq < runSeq[x] /\ a.task \in Nat /\ a.task < x
      BY <2>4, <2>5, <2>6, <3>1
    <3> QED
      BY <2>3, <3>1, <3>2
  <2>7. CASE a \notin userMem /\ b \in userMem
    <3>1. PICK i \in DOMAIN p : a = [task |-> x, seq |-> runSeq[x] + i - 1, msg |-> p[i]]
      BY <2>2, <2>7
    <3>2. b.seq \in Nat /\ b.seq < runSeq[x] /\ b.task \in Nat /\ b.task < x
      BY <2>4, <2>5, <2>7, <3>1
    <3> QED
      BY <2>3, <3>1, <3>2
  <2>8. CASE a \notin userMem /\ b \notin userMem
    <3>1. PICK i \in DOMAIN p : a = [task |-> x, seq |-> runSeq[x] + i - 1, msg |-> p[i]]
      BY <2>2, <2>8
    <3>2. PICK j \in DOMAIN p : b = [task |-> x, seq |-> runSeq[x] + j - 1, msg |-> p[j]]
      BY <2>2, <2>8
    <3> HIDE DEF p
    <3>3. ~ (a.task < b.task)
      BY <2>3, <3>1, <3>2
    <3>4. a # b => i # j
      BY <3>1, <3>2
    <3> QED
      BY <2>3, <3>1, <3>2, <3>3, <3>4
  <2> QED
    BY <1>3, <2>6, <2>7, <2>8
<1> QED
  BY <1>2, <1>3

-----------------------------------------------------------------------------
(* The records of a task. *)

\* As long as no call has failed, the user memory of a session is that of the
\* answered tasks: at the two reads it is what the new task is to see.
LEMMA AnsweredIsRemembered ==
    ASSUME RInv, SeqsKnown, TaskRecords, faults = 0, NEW t \in Tasks, TaskRow(t),
           runPc[t] \in {"read_user_mem", "read_agent_mem"}
    PROVE  UserTasks(taskSession[t]) = Answered(t)
<1>1. taskStatus[t] = "processing"
  BY DEF RInv, Placed, StatusAtPlace, StatusAt, Running, Reading, TaskRow
<1>2. ASSUME NEW u \in UserTasks(taskSession[t]) PROVE u \in Answered(t)
  <2>1. PICK row \in userMem : row.task = u /\ taskSession[u] = taskSession[t]
    BY <1>2 DEF UserTasks, MemOf
  <2>2. u \in Tasks /\ TaskRow(u)
    BY <2>1 DEF RInv, Live, MemoriesLive
  <2>3. u # t
    BY <2>1 DEF SeqsKnown, Unwritten, Reading
  <2>4. ~ (t < u)
    BY <1>1, <2>1, <2>2 DEF RInv, Placed, Succession, TaskRow
  <2>5. u \in 1 .. t - 1
    BY <2>2, <2>3, <2>4, SessionTaskAssumption DEF Tasks
  <2>6. taskStatus[u] # "processing"
    BY <1>1, <2>1, <2>2, <2>3 DEF RInv, IInv, AtMostOneProcessing
  <2>7. taskStatus[u] # "failed"
    BY <2>2 DEF TaskRecords, RecordsAt, UndisturbedAt
  <2>8. taskStatus[u] \in {"completed", "cancelled"}
    BY <2>2, <2>6, <2>7 DEF TaskRow, RInv, IInv, TypeOK, TablesTyped
  <2> QED
    BY <2>1, <2>5, <2>8 DEF Answered
<1>3. ASSUME NEW u \in Answered(t) PROVE u \in UserTasks(taskSession[t])
  <2>1. u \in Tasks /\ taskSession[u] = taskSession[t]
        /\ taskStatus[u] \in {"completed", "cancelled"}
    BY SessionTaskAssumption DEF Answered, Tasks
  <2>2. Recalls(u)
    BY <2>1 DEF TaskRecords, RecordsAt, WrittenAt, Written, UserKept, TaskRow
  <2> QED
    BY <2>1, <2>2 DEF Recalls, UserTasks, MemOf
<1> QED
  BY <1>2, <1>3

\* While a task is processing, no other task of its session is answered.
LEMMA AnsweredKept ==
    ASSUME RInv, NotesTyped, TaskRecords, faults = 0, [Next]_vars,
           NEW t \in Tasks, taskStatus[t] = "processing", TaskRow(t)'
    PROVE  Answered(t)' = Answered(t)
<1>1. taskSession'[t] = taskSession[t]
  BY CreatedForGood DEF RInv
<1>2. ASSUME NEW u \in 1 .. t - 1
      PROVE  /\ taskSession'[u] = taskSession[u]
             /\ taskSession[u] = taskSession[t] =>
                    (taskStatus'[u] \in {"completed", "cancelled"}
                     <=> taskStatus[u] \in {"completed", "cancelled"})
  <2>1. u \in Tasks /\ u # t /\ u < t
    BY SessionTaskAssumption DEF Tasks
  <2>2. taskStatus[u] # "absent"
    BY <2>1 DEF RInv, Placed, Succession
  <2>3. taskSession'[u] = taskSession[u]
    BY <2>1, <2>2, CreatedForGood DEF RInv
  <2>4. ASSUME taskSession[u] = taskSession[t]
        PROVE  taskStatus'[u] = taskStatus[u]
    <3>1. taskStatus[u] # "processing"
      BY <2>1, <2>4 DEF RInv, IInv, AtMostOneProcessing
    <3>2. ASSUME NEW x \in Tasks, TaskStep(x) PROVE taskStatus'[u] = taskStatus[u]
      <4>1. CASE x # u
        BY <2>1, <3>2, <4>1, TaskTouches DEF RInv
      <4>2. CASE x = u /\ TaskRow(u)
        <5>1. runPc[u] # "set_status" /\ runPc[u] # "x_status"
          <6>1. StatusAt(u) /\ UndisturbedAt(u)
            BY <2>1, <4>2 DEF RInv, Placed, StatusAtPlace, TaskRecords, RecordsAt
          <6> QED
            BY <3>1, <4>2, <6>1 DEF StatusAt, UndisturbedAt, Running, TaskRow
        <5> QED
          BY <3>2, <4>2, <5>1 DEF TaskStep, RunStep, RunEnter, RunSubscribe, RunReadUserMem,
             RunReadAgentMem, RunAgentFinish, RunAgentCancelled, RunNextSeq, Insert, InsertList,
             RunInsertUserMem, RunInsertAgentMem, RunInsertAgentMsgs, RunSetStatus,
             RunSetMessages, RunFailStatus, RunFailMessages, RunDeleteUserMem, RunDeleteAgentMem,
             RunDeleteAgentMsgs, RunFault, taskTable
      <4>3. CASE x = u /\ ~ TaskRow(u)
        BY <2>1, <3>2, <4>3, TaskTouches DEF RInv
      <4> QED
        BY <4>1, <4>2, <4>3
    <3>3. ASSUME NEW r \in Reqs, RequestStep(r) PROVE taskStatus'[u] = taskStatus[u]
      BY <2>1, <2>2, <3>3, RequestTouches DEF Creates, ReqSpawn, taskTable, RInv, IInv, TypeOK,
         TablesTyped
    <3>4. ASSUME NEW s \in Sessions, DeleteSession(s) PROVE taskStatus'[u] = taskStatus[u]
      BY <2>1, <2>4, <3>4 DEF DeleteSession, TaskRow
    <3> QED
      BY <3>2, <3>3, <3>4, NextKinds, SendFrame DEF Crash, taskTable
  <2> QED
    BY <2>3, <2>4
<1> QED
  BY <1>1, <1>2 DEF Answered

\* Only a run itself and the deletion of its session touch a task's memories.
LEMMA MemoriesStay ==
    ASSUME RInv, [Next]_vars, NEW t \in Tasks, ~ TaskStep(t), TaskRow(t)'
    PROVE  /\ Recalls(t)' <=> Recalls(t)
           /\ t \in agentMem' <=> t \in agentMem
           /\ t \in agentMsgs' <=> t \in agentMsgs
<1>1. CASE UNCHANGED memory
  BY <1>1 DEF memory, Recalls
<1>2. ASSUME NEW x \in Tasks, TaskStep(x) PROVE x # t
  BY <1>2
<1>3. ASSUME NEW s \in Sessions, DeleteSession(s)
      PROVE  /\ Recalls(t)' <=> Recalls(t)
             /\ t \in agentMem' <=> t \in agentMem
             /\ t \in agentMsgs' <=> t \in agentMsgs
  <2>1. TaskRow(t) => taskSession[t] # s
    BY <1>3 DEF DeleteSession, TaskRow
  <2>2. TaskRow(t)
    BY <1>3 DEF DeleteSession, TaskRow
  <2> QED
    BY <1>3, <2>1, <2>2 DEF DeleteSession, Recalls, MemOf
<1> QED
  BY <1>1, <1>2, <1>3, NextKinds, SendFrame, RequestFrame, OwnMemoryOnly DEF Crash, memory

\* A step of somebody else leaves the records of a task in order.
LEMMA RecordsByOthers ==
    ASSUME RInv, NotesTyped, TaskRecords, [Next]_vars, NEW t \in Tasks, ~ TaskStep(t), TaskRow(t)'
    PROVE  RecordsAt(t)'
<1>0. RInv'
  BY RInvStep
<1>1. faults \in Nat /\ faults' \in Nat /\ faults <= faults'
  BY FaultsGrow DEF NotesTyped, RInv
<1>2. CASE runPc[t] = "none"
  <2>1. runPc'[t] \in {"none", "enter"}
    BY <1>2, SpawnedOnly DEF RInv
  <2>2. taskStatus'[t] = "processing"
    BY <1>0, <2>1 DEF RInv, Placed, StatusAtPlace, StatusAt, Running, Reading, TaskRow
  <2>3. t \notin agentMem' /\ t \notin agentMsgs'
    <3>1. t \in agentMem \cup agentMsgs => TaskRow(t)
      BY DEF RInv, Live, MemoriesLive
    <3>2. t \notin agentMem /\ t \notin agentMsgs
      BY <1>2, <3>1 DEF TaskRecords, RecordsAt, WrittenAt, Unwritten
    <3> QED
      BY <3>2, MemoriesStay
  <2> QED
    BY <2>1, <2>2, <2>3 DEF RecordsAt, WrittenAt, ErasedAt, UndisturbedAt, EndedAt, RollingBack
<1>3. CASE runPc[t] # "none"
  <2>1. Untouched(t)
    BY <1>3, OthersLeave
  <2>2. RecordsAt(t)
    BY <2>1 DEF TaskRecords, Untouched
  <2>3. \A st : BatchStatus(t, st) => BatchStatus(t, st)'
    BY <2>1 DEF Untouched, BatchStatus, InPend
  <2>4. WrittenAt(t)'
    <3>1. Batch(t)' = Batch(t)
      BY <2>1 DEF Untouched, Batch, InPend
    <3>2. UserKept(t)' <=> UserKept(t)
      BY <2>1, <3>1 DEF Untouched, UserKept
    <3> QED
      BY <2>1, <2>2, <3>2 DEF RecordsAt, Untouched, WrittenAt, Written, MemKept, MsgsKept,
         Unwritten, Reading
  <2>5. ErasedAt(t)'
    BY <2>1, <2>2, <2>3 DEF RecordsAt, Untouched, ErasedAt
  <2>6. UndisturbedAt(t)'
    <3>1. SUFFICES ASSUME faults' = 0 PROVE UndisturbedAt(t)'
      BY DEF UndisturbedAt
    <3>2. faults = 0
      BY <1>1, <3>1
    <3>3. runPc'[t] \in {"read_agent_mem", "agent"} => runSeen'[t] = Answered(t)'
      <4>1. SUFFICES ASSUME runPc'[t] \in {"read_agent_mem", "agent"}
                     PROVE  runSeen'[t] = Answered(t)'
        OBVIOUS
      <4>2. runPc[t] \in {"read_agent_mem", "agent"} /\ runSeen'[t] = runSeen[t]
        BY <2>1, <4>1 DEF Untouched
      <4>3. taskStatus[t] = "processing"
        BY <2>1, <4>2 DEF Untouched, RInv, Placed, StatusAtPlace, StatusAt, Running, Reading,
           TaskRow
      <4> QED
        BY <2>2, <3>2, <4>2, <4>3, AnsweredKept DEF RecordsAt, UndisturbedAt
    <3> QED
      BY <2>1, <2>2, <3>2, <3>3 DEF RecordsAt, Untouched, UndisturbedAt, RollingBack
  <2>7. EndedAt(t)'
    <3>1. faults' <= 1 => faults <= 1
      BY <1>1
    <3> QED
      BY <2>1, <2>2, <2>3, <3>1 DEF RecordsAt, Untouched, EndedAt, Erased
  <2> QED
    BY <2>4, <2>5, <2>6, <2>7 DEF RecordsAt
<1> QED
  BY <1>2, <1>3

\* Every statement of a run keeps the records of its own task in order.
LEMMA RecordsByRun ==
    ASSUME RInv, NotesTyped, SeqsKnown, TaskRecords, [Next]_vars, NEW t \in Tasks, TaskStep(t),
           TaskRow(t)'
    PROVE  RecordsAt(t)'
<1> USE DEF RecordsAt, WrittenAt, ErasedAt, UndisturbedAt, EndedAt, Written, MemKept, MsgsKept,
            Unwritten, Reading, Advance
<1>1. /\ TaskRow(t) /\ t \in Tasks
      /\ runPc = [u \in Tasks |-> runPc[u]] /\ runPc[t] # "none"
      /\ runOut \in [Tasks -> {"none", "completed", "cancelled"}]
      /\ runOut[t] \in {"none", "completed", "cancelled"}
      /\ taskStatus = [u \in Tasks |-> taskStatus[u]]
  <2>1. IInv /\ TypeOK
    BY DEF RInv, IInv
  <2>2. runPc[t] # "none" /\ TaskRow(t)
    BY <2>1, TaskTouches DEF TaskRow
  <2>3. runPc = [u \in Tasks |-> runPc[u]]
    BY <2>1 DEF TypeOK, RunsTyped
  <2>4. taskStatus = [u \in Tasks |-> taskStatus[u]]
    BY <2>1 DEF TypeOK, TablesTyped
  <2> QED
    BY <2>1, <2>2, <2>3, <2>4 DEF TypeOK, RunsTyped
<1>2. WrittenAt(t) /\ ErasedAt(t) /\ UndisturbedAt(t) /\ EndedAt(t)
  BY <1>1 DEF TaskRecords
<1>3. StatusAt(t)
  BY DEF RInv, Placed, StatusAtPlace
<1>4. sessionState[taskSession[t]] = "live"
  BY <1>1 DEF RInv, Live, TasksLive
<1>5. faults \in Nat /\ faults' \in Nat /\ UNCHANGED <<taskSession, runPend>>
  BY FaultsGrow, TaskFrame DEF NotesTyped, RInv
<1>6. ASSUME UNCHANGED msgStatus, NEW st, BatchStatus(t, st) PROVE BatchStatus(t, st)'
  BY <1>5, <1>6 DEF BatchStatus, InPend
<1>7. ASSUME faults' = 0, runPc[t] \in {"read_user_mem", "read_agent_mem"}
      PROVE  Answered(t)' = Answered(t) /\ Answered(t) = UserTasks(taskSession[t])
  <2>1. taskStatus[t] = "processing"
    BY <1>1, <1>3, <1>7 DEF StatusAt, Running, Reading, TaskRow
  <2>2. faults = 0
    BY <1>7, FaultsGrow DEF NotesTyped, RInv
  <2> QED
    BY <1>1, <1>7, <2>1, <2>2, AnsweredKept, AnsweredIsRemembered
<1>8. UNCHANGED userMem => (Recalls(t)' <=> Recalls(t)) /\ (UserKept(t)' <=> UserKept(t))
  BY <1>5 DEF Recalls, UserKept, Remembered, Batch, InPend
<1>9. runSaid \subseteq Tasks
  BY DEF RInv, IInv, TypeOK, RunsTyped
<1>10. CASE RunEnter(t)
  BY <1>1, <1>2, <1>3, <1>8, <1>10 DEF StatusAt, Running, RunEnter, RunUnchanged, taskTable, memory, bounds, RollingBack
<1>11. CASE RunReadUserMem(t)
  <2>1. runSeen'[t] = UserTasks(taskSession[t])
    BY <1>11 DEF RunReadUserMem, NotesTyped
  <2> QED
    BY <1>1, <1>2, <1>7, <1>8, <1>11, <2>1 DEF RunReadUserMem, RunUnchanged, taskTable, memory, bounds,
       RollingBack
<1>12. CASE RunReadAgentMem(t)
  <2>1. ASSUME faults' = 0 PROVE AgentTasks(taskSession[t]) \subseteq runSeen[t]
    <3>1. faults = 0 /\ runPc[t] = "read_agent_mem"
      BY <1>5, <1>12, <2>1 DEF RunReadAgentMem, RunUnchanged, bounds
    <3>2. runSeen[t] = UserTasks(taskSession[t])
      BY <1>2, <1>7, <2>1, <3>1
    <3>3. ASSUME NEW u \in AgentTasks(taskSession[t]) PROVE u \in UserTasks(taskSession[t])
      <4>1. u \in Tasks /\ u \in agentMem /\ taskSession[u] = taskSession[t] /\ TaskRow(u)
        BY DEF AgentTasks, RInv, Live, MemoriesLive, IInv, TypeOK, TablesTyped
      <4>2. Recalls(u)
        BY <3>1, <4>1 DEF TaskRecords
      <4> QED
        BY <4>1, <4>2 DEF Recalls, UserTasks, MemOf
    <3> QED
      BY <3>2, <3>3
  <2>2. runOut[t] = "none" /\ taskStatus[t] = "processing"
    BY <1>1, <1>3, <1>12 DEF RunReadAgentMem, StatusAt, Running, Reading, TaskRow
  <2>3. CASE Advance(t, "agent")
    BY <1>1, <1>2, <1>7, <1>8, <1>12, <2>2, <2>3 DEF RunReadAgentMem, RunUnchanged, taskTable, memory,
       bounds, RollingBack
  <2>4. CASE faults' # 0 /\ Raise(t)
    BY <1>1, <1>2, <1>8, <1>12, <2>2, <2>4 DEF RunReadAgentMem, RunUnchanged, taskTable, memory,
       bounds, RollingBack, Raise
  <2> QED
    BY <1>12, <2>1, <2>3, <2>4 DEF RunReadAgentMem
<1>13. CASE RunAgentFinish(t) \/ RunAgentCancelled(t) \/ RunNextSeq(t)
  <2>1. taskStatus[t] = "processing"
    BY <1>1, <1>3, <1>13 DEF RunAgentFinish, RunAgentCancelled, RunNextSeq, StatusAt, Running, TaskRow
  <2> QED
    BY <1>1, <1>2, <1>8, <1>13, <2>1 DEF RunAgentFinish, RunAgentCancelled, RunNextSeq, RunUnchanged,
       taskTable, memory, bounds, RollingBack
<1>14. CASE RunInsertUserMem(t)
  <2>1. PICK r \in Reqs : reqTask[r] = t /\ runPend[t] = reqPend[r]
    BY <1>1 DEF RInv, Owned, RunOwned
  <2>2. runPend[t] # <<>> /\ runPend[t] \in Seq(Msgs)
    BY <2>1, SessionTaskAssumption DEF RInv, Owned, RequestOwns, Tasks, IInv, TypeOK, RunsTyped
  <2>3. 1 \in DOMAIN runPend[t]
    BY <2>2
  <2>6. Remembered(t)' = Batch(t)'
    <3>1. \A row \in userMem : row.task # t
      BY <1>14 DEF SeqsKnown, RunInsertUserMem
    <3>2. userMem' = userMem \cup
              {[task |-> t, seq |-> runSeq[t] + k - 1, msg |-> runPend[t][k]] :
                  k \in DOMAIN runPend[t]}
      BY <1>4, <1>14 DEF RunInsertUserMem, Insert
    <3>3. \A k \in DOMAIN runPend[t] : runPend[t][k] \in Msgs
      BY <2>2
    <3> DEFINE Row(k) == [task |-> t, seq |-> runSeq[t] + k - 1, msg |-> runPend[t][k]]
    <3>4. {x \in userMem' : x.task = t} = {Row(k) : k \in DOMAIN runPend[t]}
      BY <3>1, <3>2
    <3>6. {row.msg : row \in {Row(k) : k \in DOMAIN runPend[t]}}
             = {runPend[t][k] : k \in DOMAIN runPend[t]}
      <4>1. \A k \in DOMAIN runPend[t] : Row(k).msg = runPend[t][k]
        OBVIOUS
      <4> HIDE DEF Row
      <4> QED
        BY <4>1
    <3>5. Batch(t) = {runPend[t][k] : k \in DOMAIN runPend[t]}
      BY <3>3 DEF Batch, InPend
    <3> QED
      BY <1>5, <3>4, <3>5, <3>6 DEF Remembered, Batch, InPend
  <2>4. Recalls(t)'
    <3> DEFINE row == [task |-> t, seq |-> runSeq[t] + 1 - 1, msg |-> runPend[t][1]]
    <3>1. row \in userMem'
      BY <1>4, <1>14, <2>3 DEF RunInsertUserMem, Insert, InsertList
    <3>2. row.task = t
      OBVIOUS
    <3> QED
      BY <3>1, <3>2 DEF Recalls
  <2>5. taskStatus[t] = "processing"
    BY <1>1, <1>3, <1>14 DEF RunInsertUserMem, StatusAt, Running, TaskRow
  <2> QED
    <3>1. UserKept(t)'
      BY <2>4, <2>6 DEF UserKept
    <3> QED
      BY <1>1, <1>2, <1>4, <1>14, <2>4, <2>5, <3>1 DEF RunInsertUserMem, Insert, RunUnchanged,
         taskTable, bounds, RollingBack
<1>15. CASE RunInsertAgentMem(t) \/ RunInsertAgentMsgs(t)
  <2>1. taskStatus[t] = "processing"
    BY <1>1, <1>3, <1>15 DEF RunInsertAgentMem, RunInsertAgentMsgs, StatusAt, Running, TaskRow
  <2>2. CASE RunInsertAgentMem(t)
    <3>1. /\ runPc[t] = "ins_agent" /\ runPc' = [runPc EXCEPT ![t] = "ins_msgs"]
          /\ UNCHANGED <<userMem, agentMsgs, taskStatus, runSaid, runSeen, faults>>
          /\ agentMem' = IF t \in runSaid THEN agentMem \cup {t} ELSE agentMem
      BY <1>4, <2>2 DEF RunInsertAgentMem, Insert, InsertList, RunUnchanged, taskTable, memory,
         bounds
    <3>2. Recalls(t)
      BY <1>2, <3>1 DEF UserKept
    <3> QED
      BY <1>1, <1>2, <1>8, <2>1, <3>1, <3>2 DEF RollingBack
  <2>3. CASE RunInsertAgentMsgs(t)
    BY <1>1, <1>2, <1>4, <1>8, <2>1, <2>3 DEF RunInsertAgentMsgs, Insert, InsertList,
       RunUnchanged,
       taskTable, memory, bounds, RollingBack
  <2> QED
    BY <1>15, <2>2, <2>3
<1>16. CASE RunSetStatus(t)
  <2>1. taskStatus'[t] = runOut[t]
    BY <1>1, <1>16 DEF RunSetStatus, SetTaskStatus
  <2> QED
    BY <1>1, <1>2, <1>8, <1>16, <2>1 DEF RunSetStatus, RunUnchanged, memory, bounds, RollingBack
<1>17. CASE RunSetMessages(t)
  <2>1. BatchStatus(t, "completed")'
    BY <1>1, <1>5, <1>17, BatchOwned DEF RunSetMessages, SetStatus, BatchStatus, InPend
  <2>2. taskStatus[t] = runOut[t]
    BY <1>1, <1>3, <1>17 DEF RunSetMessages, StatusAt, TaskRow
  <2> QED
    BY <1>1, <1>2, <1>8, <1>17, <2>1, <2>2 DEF RunSetMessages, RunUnchanged, taskTable, memory, bounds,
       RollingBack
<1>18. CASE RunFailStatus(t)
  <2>1. taskStatus'[t] = "failed" /\ faults # 0
    BY <1>1, <1>2, <1>18 DEF RunFailStatus, SetTaskStatus
  <2> QED
    BY <1>1, <1>2, <1>8, <1>18, <2>1 DEF RunFailStatus, RunUnchanged, memory, bounds
<1>19. CASE RunFailMessages(t)
  <2>1. BatchStatus(t, "error")'
    BY <1>1, <1>5, <1>19, BatchOwned DEF RunFailMessages, SetStatus, BatchStatus, InPend
  <2>2. taskStatus[t] = "failed" /\ faults # 0
    BY <1>1, <1>2, <1>3, <1>19 DEF RunFailMessages, StatusAt, TaskRow, RollingBack
  <2> QED
    BY <1>1, <1>2, <1>8, <1>19, <2>1, <2>2 DEF RunFailMessages, RunUnchanged, taskTable, memory, bounds
<1>20. CASE RunDeleteUserMem(t) \/ RunDeleteAgentMem(t) \/ RunDeleteAgentMsgs(t)
  <2>1. taskStatus[t] = "failed" /\ faults # 0 /\ BatchStatus(t, "error")
    BY <1>1, <1>2, <1>3, <1>20 DEF RunDeleteUserMem, RunDeleteAgentMem, RunDeleteAgentMsgs,
       StatusAt, TaskRow, RollingBack
  <2>2. BatchStatus(t, "error")' /\ taskStatus'[t] = "failed" /\ faults' # 0
    BY <1>6, <1>20, <2>1 DEF RunDeleteUserMem, RunDeleteAgentMem, RunDeleteAgentMsgs, msgTable,
       taskTable, RunUnchanged, bounds
  <2>3. CASE RunDeleteUserMem(t)
    BY <1>1, <2>2, <2>3 DEF RunDeleteUserMem, Recalls
  <2>4. CASE RunDeleteAgentMem(t)
    BY <1>1, <1>2, <2>2, <2>4 DEF RunDeleteAgentMem, Recalls
  <2>5. CASE RunDeleteAgentMsgs(t)
    BY <1>1, <1>2, <2>2, <2>5 DEF RunDeleteAgentMsgs, Recalls, Erased
  <2> QED
    BY <1>20, <2>3, <2>4, <2>5
<1>21. CASE RunFault(t)
  <2>1. faults' = faults + 1 /\ UNCHANGED <<taskStatus, memory, msgStatus>>
    BY <1>21 DEF RunFault, taskTable, msgTable
  <2>2. runPc'[t] \in {"dead", "exited", "x_status"}
    BY <1>1, <1>21 DEF RunFault, Raise
  <2>3. ASSUME faults' <= 1, runPc'[t] = "exited"
        PROVE  runOut[t] = "cancelled" /\ taskStatus[t] \notin {"completed", "failed"}
    <3>1. faults = 0
      BY <1>5, <2>1, <2>3
    <3>2. runOut[t] = "cancelled"
      BY <1>1, <1>2, <1>21, <2>3, <3>1 DEF RunFault, Raise, RollingBack
    <3> QED
      BY <1>2, <1>3, <3>1, <3>2 DEF StatusAt
  <2>4. faults' # 0
    BY <1>5, <2>1
  <2>5. runOut' = runOut /\ runSaid' = runSaid
    BY <1>21 DEF RunFault
  <2>6. WrittenAt(t)' /\ ErasedAt(t)' /\ UndisturbedAt(t)'
    BY <1>2, <1>8, <2>1, <2>2, <2>4, <2>5 DEF memory
  <2>7. EndedAt(t)'
    BY <2>1, <2>3, <2>5
  <2> QED
    BY <2>6, <2>7
<1>22. CASE RunSubscribe(t)
  <2>1. /\ UNCHANGED <<taskStatus, taskSession, userMem, agentMem, agentMsgs, msgStatus>>
        /\ UNCHANGED <<runPc, runOut, runSaid, runSeen, runPend, faults>>
    BY <1>22 DEF RunSubscribe, taskTable, memory, msgTable, runVars, RunUnchanged, bounds
  <2> QED
    BY <1>2, <1>8, <2>1 DEF Erased, Answered, BatchStatus, InPend
<1> QED
  BY <1>10, <1>11, <1>12, <1>13, <1>14, <1>15, <1>16, <1>17, <1>18, <1>19, <1>20, <1>21, <1>22
     DEF TaskStep, RunStep

LEMMA TaskRecordsStep ==
    RInv /\ NotesTyped /\ SeqsKnown /\ TaskRecords /\ [Next]_vars => TaskRecords'
<1> SUFFICES ASSUME RInv, NotesTyped, SeqsKnown, TaskRecords, [Next]_vars,
                    NEW t \in Tasks, TaskRow(t)'
             PROVE  RecordsAt(t)'
  BY DEF TaskRecords
<1> QED
  BY RecordsByRun, RecordsByOthers

LEMMA InitMInv == Init => MInv
<1> SUFFICES ASSUME Init PROVE MInv
  OBVIOUS
<1>1. NotesTyped
  BY FS_EmptySet DEF Init, NotesTyped
<1>2. SeqsKnown /\ MemoryOrdered /\ TaskRecords
  BY DEF Init, SeqsKnown, MemoryOrdered, TaskRecords, TaskRow
<1> QED
  BY <1>1, <1>2 DEF MInv

\* The two invariants together are inductive.
LEMMA MInvAlways == Spec => [](RInv /\ MInv)
<1>1. Init => RInv
  BY InitIInv, InitOwned, InitLive, InitBatches, InitPlaced DEF RInv
<1>2. RInv /\ MInv /\ [Next]_vars => RInv' /\ MInv'
  BY RInvStep, NotesStep, SeqsKnownStep, MemoryOrderedStep, TaskRecordsStep DEF MInv
<1> QED
  BY <1>1, InitMInv, <1>2, PTL DEF Spec

\* The user memory of a session lists its tasks in the order they ran, and no
\* two of its rows share a seq_index, although the index is read in one
\* statement and used in a later one: whatever fails, dies or is deleted.
THEOREM MemoryInOrder == Spec => []MemoryOrdered
<1>1. RInv /\ MInv => MemoryOrdered
  BY DEF MInv
<1> QED
  BY <1>1, MInvAlways, PTL

\* As long as at most one awaited call has failed, the tables agree with the
\* status of every task whose coroutine has ended. (With a second failure the
\* rollback of the first may stop half-way.)
THEOREM RecordsAgree == Spec => [](faults <= 1 => RecordsMatchStatus)
<1>1. RInv /\ MInv => (faults <= 1 => RecordsMatchStatus)
  <2> SUFFICES ASSUME RInv, MInv, faults <= 1, NEW t \in Tasks, runPc[t] = "exited"
               PROVE  /\ taskStatus[t] = "completed" => Written(t) /\ BatchStatus(t, "completed")
                      /\ taskStatus[t] = "cancelled" => Written(t)
                      /\ taskStatus[t] = "failed" => Erased(t) /\ BatchStatus(t, "error")
    BY DEF RecordsMatchStatus, Written, UserKept, MemKept, MsgsKept, Erased, Recalls, Remembered
  <2>1. TaskRow(t) => WrittenAt(t) /\ EndedAt(t)
    BY DEF MInv, TaskRecords, RecordsAt
  <2> QED
    BY <2>1 DEF WrittenAt, EndedAt, TaskRow
<1> QED
  BY <1>1, MInvAlways, PTL

\* As long as at most one awaited call has failed, a task is left in processing
\* by nobody but a request that died or failed before it spawned the run, a run
\* that died, or the handler of a cancellation.
THEOREM OneFaultRecovered == Spec => [](faults <= 1 => SingleFaultRecovered)
<1>1. RInv /\ MInv => (faults <= 1 => SingleFaultRecovered)
  <2> SUFFICES ASSUME RInv, MInv, faults <= 1, NEW t \in Tasks, Orphan(t)
               PROVE  runPc[t] \in {"none", "dead"} \/ runOut[t] = "cancelled"
    BY DEF SingleFaultRecovered
  <2>1. TaskRow(t) => EndedAt(t)
    BY DEF MInv, TaskRecords, RecordsAt
  <2> QED
    BY <2>1 DEF EndedAt, TaskRow, Orphan
<1> QED
  BY <1>1, MInvAlways, PTL

\* As long as no call has failed and no session was deleted, the context a run
\* gives its agent is exactly the memory of the tasks answered before it.
THEOREM ContextIsComplete ==
    Spec => []((\A s \in Sessions : sessionState[s] # "deleted") => ContextComplete)
<1>1. RInv /\ MInv => ((\A s \in Sessions : sessionState[s] # "deleted") => ContextComplete)
  <2> SUFFICES ASSUME RInv, MInv, \A s \in Sessions : sessionState[s] # "deleted",
                      faults = 0, NEW t \in Tasks, runPc[t] = "agent"
               PROVE  runSeen[t] = Answered(t)
    BY DEF ContextComplete, Answered
  <2>1. taskStatus[t] \in {"processing", "deleted"}
    BY DEF RInv, Placed, StatusAtPlace, StatusAt, Running, Reading
  <2>2. TaskRow(t)
    BY <2>1 DEF RInv, Live, TasksLive, TaskRow
  <2> QED
    BY <2>2 DEF MInv, TaskRecords, RecordsAt, UndisturbedAt
<1> QED
  BY <1>1, MInvAlways, PTL
=============================================================================
